----------------------------- MODULE MCAutonomy -----------------------------
(***************************************************************************)
(* The timers of the orchestrator, for TLC: each behaviour is one of the   *)
(* component in focus, the state of the others does not change.            *)
(***************************************************************************)
EXTENDS CronService, IntentComponent, TLC

CONSTANTS once, often, hourly, k1, k2

VARIABLES
    focus,
    \* CronService with crashes
    time, keys, nextAt, tries, busy, active, holder, walk, calledAt, place, written, saved,
    alive, flushing, started, succeeded, latest, repeated, failed, deaths

cronVars == vars
crashVars == <<time, keys, nextAt, tries, busy, active, holder, walk, calledAt, place, written,
               saved, alive, flushing, started, succeeded, latest, repeated, failed,
               deaths>>
intentVars == <<timing, wall, state, loaded, spent, store, chain, writing, storing, life, seen,
                call, read, dispatch, batch, sends, sent, losses, cut>>

-----------------------------------------------------------------------------
\* The values of the constants, and the second instance of CronService.

\* Ticks that overlap, a job for every time and one for every second time.
MCJobType == often :> "every" @@ hourly :> "cron"
MCSpan == often :> 1 @@ hourly :> 2

Symmetry == Permutations(Ticks)

\* A job that is due once, and one that is due all the time; ticks that overlap, a crash
\* or a shutdown at any point and a restart.
Crashing == INSTANCE CronService WITH
        clock <- time, order <- keys, nextRunAt <- nextAt, retries <- tries, running <- busy,
        activeRuns <- active, thread <- holder, tick <- walk, now <- calledAt, pos <- place,
        payload <- written, file <- saved, up <- alive, stopping <- flushing,
        attempts <- started, successes <- succeeded, lastStart <- latest,
        overtaken <- repeated, failures <- failed, crashes <- deaths,
        Jobs <- {once, often}, JobType <- once :> "at" @@ often :> "every",
        Span <- once :> 1 @@ often :> 1, Overlap <- TRUE, MaxConcurrentRuns <- 2,
        MaxRetries <- 1, MaxTime <- 2, MaxFailures <- 1, MaxCrashes <- 1

\* One intent for a channel that delivers and one for a channel that does not.
MCChannelOf == "now" :> "web" @@ "mute" :> "slack"
MCNotBefore == [i \in Intents |-> 0]

-----------------------------------------------------------------------------
MCInit ==
    /\ focus \in {"cron", "crashing cron", "intents"}
    /\ Init /\ Crashing!Init /\ I!Init /\ (focus # "intents" => timing = "calm")

CronNext     == focus = "cron" /\ Next /\ UNCHANGED <<focus, crashVars, intentVars>>
CrashingNext == focus = "crashing cron" /\ Crashing!Next /\ UNCHANGED <<focus, cronVars, intentVars>>
IntentNext   == focus = "intents" /\ I!Next /\ UNCHANGED <<focus, cronVars, crashVars>>

MCNext == CronNext \/ CrashingNext \/ IntentNext

MCSpec == MCInit /\ [][MCNext]_<<focus, cronVars, crashVars, intentVars>>

\* The property of the cron service that crashes; OneRunPerJob and StartsSpaced
\* are those of the one without.
AtJobRepeats == Crashing!AtJobRepeatsOnlyIfOvertaken
=============================================================================
