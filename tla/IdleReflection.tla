---------------------------- MODULE IdleReflection ----------------------------
(***************************************************************************)
(* IdleReflectionScheduler and its one job, the flaky scan of              *)
(* createGateway: the scan is queued at the start, at every activity and   *)
(* at its own end; activity empties the queue; a tick starts what is       *)
(* queued when nobody has been active for idleAfterMs.                     *)
(***************************************************************************)
EXTENDS Naturals

CONSTANTS MaxConcurrentJobs, IdleAfter, MaxRuns,   \* MaxRuns is flakyRuns, at most 8
          MaxActivity                              \* bound

VARIABLES idleFor,    \* ticks since the last activity
          queued,     \* scans in the queue
          running,    \* per scan under way: how often the command has still to run
          runningJobs,
          failed,     \* history: a scan has failed since the last activity
          activity

idleVars == <<idleFor, queued, running, runningJobs, failed, activity>>

\* start(): the scan is queued before the timer runs.
Init ==
    /\ idleFor = 0
    /\ queued = 1
    /\ running = [k \in 0..MaxRuns |-> 0]
    /\ runningJobs = 0
    /\ failed = FALSE /\ activity = 0

\* scheduleFlakyScan: unless the queue has one.
Schedule(n) == IF n > 0 THEN n ELSE 1

\* Mutant: the queue is emptied and the scan not queued again.
MutActivity ==
    /\ activity < MaxActivity
    /\ activity' = activity + 1
    /\ idleFor' = 0 /\ queued' = 0 /\ failed' = FALSE
    /\ UNCHANGED <<running, runningJobs>>

\* onActivity: noteActivity empties the queue, then the scan is queued.
Activity ==
    /\ activity < MaxActivity
    /\ activity' = activity + 1
    /\ idleFor' = 0 /\ queued' = Schedule(0) /\ failed' = FALSE
    /\ UNCHANGED <<running, runningJobs>>

Least(a, b) == IF a < b THEN a ELSE b

\* tick(): as many as the limit allows are started.
Tick ==
    /\ idleFor' = Least(idleFor + 1, IdleAfter)
    /\ LET started == IF idleFor < IdleAfter THEN 0
                      ELSE Least(queued, MaxConcurrentJobs - runningJobs)
       IN  /\ queued' = queued - started
           /\ runningJobs' = runningJobs + started
           /\ running' = [running EXCEPT ![MaxRuns] = @ + started]
    /\ UNCHANGED <<failed, activity>>

\* SpeculativeTestRunner: one run of the command after the other, pass or fail.
RunOnce ==
    \E k \in 1..MaxRuns :
        /\ running[k] > 0
        /\ running' = [running EXCEPT ![k] = @ - 1, ![k - 1] = @ + 1]
        /\ UNCHANGED <<idleFor, queued, runningJobs, failed, activity>>

\* The end of a scan.  One that cannot write what it found is not queued again.
ScanEnds ==
    /\ running[0] > 0
    /\ running' = [running EXCEPT ![0] = @ - 1]
    /\ runningJobs' = runningJobs - 1
    /\ \/ queued' = Schedule(queued) /\ UNCHANGED failed
       \/ failed' = TRUE /\ UNCHANGED queued
    /\ UNCHANGED <<idleFor, activity>>

Next == Activity \/ Tick \/ RunOnce \/ ScanEnds

Spec == Init /\ [][Next]_idleVars

-----------------------------------------------------------------------------
\* A scan is queued or under way unless one has failed since the last activity,
\* however activity, the ticks and the end of a scan fall together; and there are
\* never more than the one in the queue and those the limit allows.
ScansGoOn ==
    /\ ~failed => queued + runningJobs > 0
    /\ queued <= 1 /\ runningJobs <= MaxConcurrentJobs
=============================================================================
