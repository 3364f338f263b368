------------------------------- MODULE MCFair -------------------------------
(***************************************************************************)
(* What must happen in the end, for TLC: each behaviour is one of the      *)
(* component in focus, the state of the others does not change.            *)
(***************************************************************************)
EXTENDS ProactiveIntents, TLC

CONSTANTS now, later, web

VARIABLES
    focus,
    \* CronService
    time, order, nextRunAt, retries, running, activeRuns, thread, walk, calledAt, pos, written,
    saved, up, stopping, attempts, successes, lastStart, overtaken, failures,
    deaths,
    \* Supervisor
    wrapper, from, server, down, failureLog, done, builds, recoveries, orphan, waiter,
    lastBuild, orphaned, died, breaks, kills

intentVars == vars
cronVars == <<time, order, nextRunAt, retries, running, activeRuns, thread, walk, calledAt, pos,
              written, saved, up, stopping, attempts, successes, lastStart, overtaken,
              failures, deaths>>
supervisorVars == <<wrapper, from, server, down, failureLog, done, builds, recoveries, orphan,
                    waiter, lastBuild, orphaned, died, breaks, kills>>

-----------------------------------------------------------------------------
\* The instances.

\* Two intents for a channel that delivers, the second due later.
MCChannelOf == [i \in Intents |-> web]
MCNotBefore == [i \in Intents |-> IF i = later THEN 1 ELSE 0]

\* One slot for a job that is due once, at time 1, and one for every time.
Walkers == {"k1", "k2"}
C == INSTANCE CronService WITH
        clock <- time, now <- calledAt, payload <- written, file <- saved, tick <- walk,
        crashes <- deaths,
        Jobs <- {"once", "often"}, JobType <- "once" :> "at" @@ "often" :> "every",
        Span <- "once" :> 1 @@ "often" :> 1, Ticks <- Walkers, Overlap <- TRUE, Wired <- TRUE,
        MaxConcurrentRuns <- 1, MaxRetries <- 1, Backoff <- 1, MaxTime <- 2, MaxFailures <- 0,
        MaxCrashes <- 0

S == INSTANCE Supervisor WITH
        crashes <- died, MaxCrashes <- 2, MaxBreaks <- 2, MaxKills <- 0, MaxRecoveries <- 2

-----------------------------------------------------------------------------
MCInit == focus \in {"cron", "intents", "supervisor"} /\ Init /\ C!Init /\ S!Init

IntentNext     == focus = "intents" /\ Next /\ UNCHANGED <<focus, cronVars, supervisorVars>>
CronNext       == focus = "cron" /\ C!Next /\ UNCHANGED <<focus, intentVars, supervisorVars>>
SupervisorNext == focus = "supervisor" /\ S!Next /\ UNCHANGED <<focus, intentVars, cronVars>>

MCNext == IntentNext \/ CronNext \/ SupervisorNext

\* The components' own fairness (their FairSpec), each while it is in focus.
IntentFairness ==
    /\ WF_intentVars(focus = "intents" /\ Pass)
    /\ WF_intentVars(focus = "intents" /\ Write)
    /\ WF_intentVars(focus = "intents" /\ Hydrate)
    /\ WF_intentVars(focus = "intents" /\ Exit)
    /\ WF_intentVars(focus = "intents" /\ Restart)
    /\ WF_intentVars(focus = "intents" /\ \E k \in Ticks : StartDispatch(k))
    /\ \A k \in Ticks : WF_intentVars(focus = "intents" /\ TickStep(k))
    /\ \A i \in Intents : WF_intentVars(focus = "intents" /\ CallStep(i))

CronFairness ==
    /\ WF_cronVars(focus = "cron" /\ C!Pass)
    /\ WF_cronVars(focus = "cron" /\ \E k \in Walkers : C!StartTick(k))
    /\ \A k \in Walkers :
          /\ WF_cronVars(focus = "cron" /\ C!Walk(k))
          /\ SF_cronVars(focus = "cron" /\ (C!RunSucceeds(k) \/ C!RunFails(k)))
          /\ SF_cronVars(focus = "cron" /\ C!WriteBegin(k))
          /\ SF_cronVars(focus = "cron" /\ C!WriteEnd(k))

SupervisorFairness ==
    /\ WF_supervisorVars(focus = "supervisor" /\ S!Wrap)
    /\ WF_supervisorVars(focus = "supervisor" /\ S!Poll)
    /\ SF_supervisorVars(focus = "supervisor" /\ S!RecoverySucceeds)

MCSpec ==
    /\ MCInit /\ [][MCNext]_<<focus, intentVars, cronVars, supervisorVars>>
    /\ IntentFairness /\ CronFairness /\ SupervisorFairness

\* The components' properties by their own names; ProactiveIntents' is its own.
JobEventuallyRuns == C!JobEventuallyRuns
ServerComesBack == focus = "supervisor" => S!ServerComesBack
=============================================================================
