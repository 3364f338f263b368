---------------------------- MODULE MCCronService ----------------------------
EXTENDS CronService, TLC

CONSTANTS once, often, hourly

\* The kinds of job: the only "at" job is due at time 1.
Kinds == once :> "at" @@ often :> "every" @@ hourly :> "cron"
Spans == once :> 1 @@ often :> 1 @@ hourly :> 2

MCJobType == [j \in Jobs |-> Kinds[j]]
MCSpan == [j \in Jobs |-> Spans[j]]

TickSymmetry == Permutations(Ticks)
=============================================================================
