---------------------------- MODULE CronService -----------------------------
(***************************************************************************)
(* CronService of src/src/scheduler.ts under the timer of                  *)
(* AutonomyOrchestrator.start (src/src/orchestrator.ts): every cronTickMs  *)
(* a tick walks the jobs and awaits the due ones, while earlier ticks may  *)
(* still be awaiting theirs.                                               *)
(*                                                                         *)
(* A tick runs without interruption between two awaits: it holds `thread`. *)
(* Time is a small number of milliseconds; a tick keeps the time it was    *)
(* called at.                                                              *)
(***************************************************************************)
EXTENDS Integers, Sequences, FiniteSets

CONSTANTS Jobs,       \* the jobs ever added
          JobType,    \* [Jobs -> "at", "every" or "cron"]
          Span,       \* [Jobs -> runAt of an "at" job, period of the others]
          Ticks,      \* at most so many ticks (and a last flush) under way at once
          Overlap,    \* whether a tick may start while another is under way
          Wired,      \* whether the timer ticks this service: index.ts wires only
                      \* the default profile's, gateway's cron.add fills any
          MaxConcurrentRuns,
          MaxRetries,
          Backoff,
          MaxTime,    \* the clock stops there, ticks go on
          MaxFailures, MaxCrashes,
          None        \* no job, no tick, no time

ASSUME TypesAssumption == JobType \in [Jobs -> {"at", "every", "cron"}]
ASSUME SpanAssumption == Span \in [Jobs -> Nat \ {0}]
ASSUME LimitsAssumption ==
    {MaxConcurrentRuns, MaxRetries, Backoff, MaxTime, MaxFailures, MaxCrashes} \subseteq Nat
ASSUME OverlapAssumption == Overlap \in BOOLEAN /\ Wired \in BOOLEAN
ASSUME ClockAssumption == \A j \in Jobs : JobType[j] = "at" => Span[j] < MaxTime
ASSUME NoneAssumption == None \notin Jobs \cup Ticks \cup Int
ASSUME TicksAssumption == IsFiniteSet(Ticks)

VARIABLES
    clock,
    order,      \* the keys of this.jobs, in insertion order
    nextRunAt,  \* [Jobs -> def.nextRunAt, None when deleted]
    retries,    \* [Jobs -> record.retries]
    running,    \* [Jobs -> record.running]
    activeRuns,
    thread,     \* the tick that is executing, or None
    tick,       \* [Ticks -> where it is]
    now,        \* [Ticks -> the time it was called at]
    pos,        \* [Ticks -> its place in the walk over the jobs]
    payload,    \* [Ticks -> what its persistState writes]
    file,       \* the state file
    up,
    stopping,   \* the slot of stop()'s flushState, or None
    attempts, successes, \* [Jobs -> how often it was started, how often it succeeded]
    lastStart,  \* [Jobs -> `now` of the tick that started it last, or None]
    overtaken,  \* the "at" jobs that succeeded before a tick as old as their time passed them
    failures, crashes

recVars  == <<order, nextRunAt, retries, running>>
tickVars == <<thread, tick, now, pos, payload>>
histVars == <<attempts, successes, lastStart, overtaken, failures, crashes>>
procVars == <<up, stopping>>
vars == <<clock, recVars, activeRuns, tickVars, file, procVars, histVars>>

Times   == Nat \cup {None}
State   == [order : Seq(Jobs), nextRunAt : [Jobs -> Times],
            retries : [Jobs -> Nat], running : [Jobs -> BOOLEAN]]
NoState == [order |-> <<>>, nextRunAt |-> [j \in Jobs |-> None],
            retries |-> [j \in Jobs |-> 0], running |-> [j \in Jobs |-> FALSE]]
\* A file cut off in the middle of a write: JSON.parse fails, loadState keeps
\* what it has, at startup no jobs.
Torn    == NoState

TypeOK ==
    /\ clock \in 0..MaxTime
    /\ order \in Seq(Jobs)
    /\ nextRunAt \in [Jobs -> Times]
    /\ retries \in [Jobs -> 0..MaxRetries]
    /\ running \in [Jobs -> BOOLEAN]
    /\ activeRuns \in 0..MaxConcurrentRuns
    /\ thread \in Ticks \cup {None}
    /\ tick \in [Ticks -> {"idle", "walking", "awaiting", "persisting", "writing", "mixed"}]
    /\ now \in [Ticks -> -1..MaxTime]
    /\ pos \in [Ticks -> 1..(Cardinality(Jobs) + 1)]
    /\ payload \in [Ticks -> State]
    /\ file \in State
    /\ up \in BOOLEAN /\ stopping \in Ticks \cup {None}
    /\ attempts \in [Jobs -> Nat] /\ successes \in [Jobs -> Nat]
    /\ lastStart \in [Jobs -> 0..MaxTime \cup {None}]
    /\ overtaken \subseteq Jobs
    /\ failures \in 0..MaxFailures /\ crashes \in 0..MaxCrashes

Init ==
    /\ clock = 0
    /\ order = NoState.order /\ nextRunAt = NoState.nextRunAt
    /\ retries = NoState.retries /\ running = NoState.running
    /\ activeRuns = 0
    /\ thread = None
    /\ tick = [k \in Ticks |-> "idle"]
    /\ now = [k \in Ticks |-> -1]
    /\ pos = [k \in Ticks |-> 1]
    /\ payload = [k \in Ticks |-> NoState]
    /\ file = NoState
    /\ up = TRUE /\ stopping = None
    /\ attempts = [j \in Jobs |-> 0] /\ successes = [j \in Jobs |-> 0]
    /\ lastStart = [j \in Jobs |-> None]
    /\ overtaken = {}
    /\ failures = 0 /\ crashes = 0

Pass ==
    /\ clock < MaxTime
    /\ thread = None
    /\ clock' = clock + 1
    /\ UNCHANGED <<recVars, activeRuns, tickVars, file, procVars, histVars>>

-----------------------------------------------------------------------------
(***************************************************************************)
(* Scheduling.                                                             *)
(***************************************************************************)

\* Mutant: an "at" job keeps its time when it has passed.
MutComputeNextRun(j, from) ==
    CASE JobType[j] = "at"    -> Span[j]
      [] JobType[j] = "every" -> from + Span[j]
      [] JobType[j] = "cron"  -> Span[j] * (from \div Span[j] + 1)

ComputeNextRun(j, from) ==
    CASE JobType[j] = "at"    -> IF Span[j] > from THEN Span[j] ELSE None
      [] JobType[j] = "every" -> from + Span[j]
      [] JobType[j] = "cron"  -> Span[j] * (from \div Span[j] + 1)

\* How long a failed run waits that is the (n + 1)th in a row: backoffMs * 2 ** n.
Delay[n \in 0..MaxRetries] == IF n = 0 THEN Backoff ELSE 2 * Delay[n - 1]

\* What isDue leaves in def.nextRunAt: a missing time is computed and kept.
Armed(j, t) == IF nextRunAt[j] = None THEN ComputeNextRun(j, t - 1) ELSE nextRunAt[j]

Due(j, t) == Armed(j, t) # None /\ t >= Armed(j, t)

AddJob(j) ==
    /\ up /\ thread = None
    /\ \A i \in DOMAIN order : order[i] # j
    /\ attempts[j] = 0
    /\ order' = Append(order, j)
    /\ nextRunAt' = [nextRunAt EXCEPT ![j] = ComputeNextRun(j, clock)]
    /\ UNCHANGED <<clock, retries, running, activeRuns, tickVars, file, procVars, histVars>>

-----------------------------------------------------------------------------
(***************************************************************************)
(* A tick.  setInterval calls it again whether or not the last one has     *)
(* ended, never twice in one period: two calls have different times.       *)
(***************************************************************************)

Awaiting == {k \in Ticks : tick[k] = "awaiting"}
Job(k)   == order[pos[k]]

StartTick(k) ==
    /\ up /\ Wired /\ stopping = None /\ thread = None
    /\ tick[k] = "idle"
    /\ Overlap \/ \A i \in Ticks : tick[i] = "idle"
    /\ clock = MaxTime \/ \A i \in Ticks : now[i] < clock
    /\ thread' = k
    /\ tick' = [tick EXCEPT ![k] = "walking"]
    /\ now' = [now EXCEPT ![k] = clock]
    /\ pos' = [pos EXCEPT ![k] = 1]
    /\ UNCHANGED <<clock, recVars, activeRuns, payload, file, procVars, histVars>>

\* The loop meets a job: neither past the last one nor at the limit of runs.
Visits(k) == thread = k /\ pos[k] <= Len(order) /\ activeRuns < MaxConcurrentRuns

SkipRunning(k) ==
    /\ Visits(k)
    /\ running[Job(k)]
    /\ pos' = [pos EXCEPT ![k] = @ + 1]
    /\ UNCHANGED <<clock, recVars, activeRuns, thread, tick, now, payload, file, procVars,
                   histVars>>

SkipNotDue(k) ==
    /\ Visits(k)
    /\ ~running[Job(k)] /\ ~Due(Job(k), now[k])
    /\ nextRunAt' = [nextRunAt EXCEPT ![Job(k)] = Armed(Job(k), now[k])]
    /\ pos' = [pos EXCEPT ![k] = @ + 1]
    /\ UNCHANGED <<clock, order, retries, running, activeRuns, thread, tick, now, payload,
                   file, procVars, histVars>>

\* A due job is started though another tick runs it.
MutStartRun(k) ==
    /\ Visits(k)
    /\ Due(Job(k), now[k])
    /\ nextRunAt' = [nextRunAt EXCEPT ![Job(k)] = Armed(Job(k), now[k])]
    /\ running' = [running EXCEPT ![Job(k)] = TRUE]
    /\ activeRuns' = activeRuns + 1
    /\ tick' = [tick EXCEPT ![k] = "awaiting"]
    /\ thread' = None
    /\ attempts' = [attempts EXCEPT ![Job(k)] = @ + 1]
    /\ lastStart' = [lastStart EXCEPT ![Job(k)] = now[k]]
    /\ UNCHANGED <<clock, order, retries, now, pos, payload, file, procVars, successes,
                   overtaken, failures, crashes>>

StartRun(k) ==
    /\ Visits(k)
    /\ ~running[Job(k)] /\ Due(Job(k), now[k])
    /\ nextRunAt' = [nextRunAt EXCEPT ![Job(k)] = Armed(Job(k), now[k])]
    /\ running' = [running EXCEPT ![Job(k)] = TRUE]
    /\ activeRuns' = activeRuns + 1
    /\ tick' = [tick EXCEPT ![k] = "awaiting"]
    /\ thread' = None
    /\ attempts' = [attempts EXCEPT ![Job(k)] = @ + 1]
    /\ lastStart' = [lastStart EXCEPT ![Job(k)] = now[k]]
    /\ UNCHANGED <<clock, order, retries, now, pos, payload, file, procVars, successes,
                   overtaken, failures, crashes>>

\* Mutant: the slot is not given back.
MutContinueCount(k) ==
    /\ thread = None /\ tick[k] = "awaiting"
    /\ running' = [running EXCEPT ![Job(k)] = FALSE]
    /\ thread' = k
    /\ tick' = [tick EXCEPT ![k] = "walking"]
    /\ pos' = [pos EXCEPT ![k] = @ + 1]
    /\ UNCHANGED <<clock, order, activeRuns, now, payload, file, procVars, attempts, lastStart,
                   crashes>>

\* The finally block, and the loop's next round.
Continue(k) ==
    /\ thread = None /\ tick[k] = "awaiting"
    /\ running' = [running EXCEPT ![Job(k)] = FALSE]
    /\ activeRuns' = activeRuns - 1
    /\ thread' = k
    /\ tick' = [tick EXCEPT ![k] = "walking"]
    /\ pos' = [pos EXCEPT ![k] = @ + 1]
    /\ UNCHANGED <<clock, order, now, payload, file, procVars, attempts, lastStart, crashes>>

\* A tick called no later than the job's time has not come to the job yet, and takes it
\* up again: ComputeNextRun(j, now - 1) is the time itself.
Overtakes(k) ==
    /\ JobType[Job(k)] = "at"
    /\ \E i \in Ticks \ {k} : /\ tick[i] \in {"walking", "awaiting"}
                              /\ pos[i] <= pos[k] /\ now[i] <= Span[Job(k)]

RunSucceeds(k) ==
    /\ Continue(k)
    /\ retries' = [retries EXCEPT ![Job(k)] = 0]
    /\ nextRunAt' = [nextRunAt EXCEPT ![Job(k)] = ComputeNextRun(Job(k), now[k])]
    /\ successes' = [successes EXCEPT ![Job(k)] = @ + 1]
    /\ overtaken' = overtaken \cup {j \in {Job(k)} : Overtakes(k)}
    /\ UNCHANGED failures

\* Mutant: a backoff that does not grow.
MutRunFailsFlat(k) ==
    /\ failures < MaxFailures
    /\ Continue(k)
    /\ IF retries[Job(k)] + 1 > MaxRetries
       THEN /\ nextRunAt' = [nextRunAt EXCEPT ![Job(k)] = ComputeNextRun(Job(k), now[k])]
            /\ retries' = [retries EXCEPT ![Job(k)] = 0]
       ELSE /\ nextRunAt' = [nextRunAt EXCEPT ![Job(k)] = now[k] + Backoff]
            /\ retries' = [retries EXCEPT ![Job(k)] = @ + 1]
    /\ failures' = failures + 1
    /\ UNCHANGED <<successes, overtaken>>

RunFails(k) ==
    /\ failures < MaxFailures
    /\ Continue(k)
    /\ IF retries[Job(k)] + 1 > MaxRetries
       THEN /\ nextRunAt' = [nextRunAt EXCEPT ![Job(k)] = ComputeNextRun(Job(k), now[k])]
            /\ retries' = [retries EXCEPT ![Job(k)] = 0]
       ELSE /\ nextRunAt' = [nextRunAt EXCEPT ![Job(k)] =
                               now[k] + Delay[retries[Job(k)]]]
            /\ retries' = [retries EXCEPT ![Job(k)] = @ + 1]
    /\ failures' = failures + 1
    /\ UNCHANGED <<successes, overtaken>>

EndWalk(k) ==
    /\ thread = k /\ ~Visits(k)
    /\ thread' = None
    /\ tick' = [tick EXCEPT ![k] = "persisting"]
    /\ UNCHANGED <<clock, recVars, activeRuns, now, pos, payload, file, procVars, histVars>>

-----------------------------------------------------------------------------
(***************************************************************************)
(* persistState: mkdir, then a snapshot of the records goes to the file in *)
(* place.  Writes that overlap ("mixed") can leave either content or one   *)
(* cut by the other.                                                       *)
(***************************************************************************)

Writers == {k \in Ticks : tick[k] \in {"writing", "mixed"}}

WriteBegin(k) ==
    /\ up /\ thread = None /\ tick[k] = "persisting"
    /\ tick' = [i \in Ticks |-> IF i = k
                                THEN IF Writers = {} THEN "writing" ELSE "mixed"
                                ELSE IF i \in Writers THEN "mixed" ELSE tick[i]]
    /\ payload' = [payload EXCEPT ![k] = [order |-> order, nextRunAt |-> nextRunAt,
                                          retries |-> retries, running |-> running]]
    /\ UNCHANGED <<clock, recVars, activeRuns, thread, now, pos, file, procVars, histVars>>

WriteEnd(k) ==
    /\ thread = None /\ k \in Writers
    /\ \/ tick[k] = "writing" /\ file' = payload[k]
       \/ tick[k] = "mixed" /\ \E i \in Writers : file' \in {payload[i], Torn}
       \/ tick[k] = "mixed" /\ Writers = {k} /\ file' = file
    /\ tick' = [tick EXCEPT ![k] = "idle"]
    /\ payload' = [payload EXCEPT ![k] = NoState]
    /\ UNCHANGED <<clock, recVars, activeRuns, thread, now, pos, procVars, histVars>>

-----------------------------------------------------------------------------
(***************************************************************************)
(* Shutdown and crash.  stop() clears the timer and flushes; the process   *)
(* exits after that, whatever ticks are still awaiting.                    *)
(***************************************************************************)

Stop(k) ==
    /\ up /\ thread = None /\ stopping = None /\ crashes < MaxCrashes
    /\ tick[k] = "idle"
    /\ stopping' = k
    /\ tick' = [tick EXCEPT ![k] = "persisting"]
    /\ UNCHANGED <<clock, recVars, activeRuns, thread, now, pos, payload, file, up, histVars>>

\* What the memory of the process held is gone; a write under way may have
\* done nothing, everything, or half.
Die ==
    /\ up' = FALSE /\ stopping' = None
    /\ order' = NoState.order /\ nextRunAt' = NoState.nextRunAt
    /\ retries' = NoState.retries /\ running' = NoState.running
    /\ activeRuns' = 0
    /\ thread' = None
    /\ tick' = [k \in Ticks |-> "idle"]
    /\ pos' = [k \in Ticks |-> 1]
    /\ payload' = [k \in Ticks |-> NoState]
    /\ IF Writers = {}
       THEN file' = file
       ELSE file' \in {file, Torn} \cup {payload[k] : k \in Writers}
    /\ crashes' = crashes + 1
    /\ UNCHANGED <<clock, now, attempts, successes, lastStart, overtaken, failures>>

Exit  == up /\ stopping # None /\ tick[stopping] = "idle" /\ thread = None /\ Die
Crash == up /\ stopping = None /\ crashes < MaxCrashes /\ Die

Restart ==
    /\ ~up
    /\ up' = TRUE
    /\ order' = file.order /\ nextRunAt' = file.nextRunAt
    /\ retries' = file.retries /\ running' = file.running
    /\ UNCHANGED <<clock, activeRuns, tickVars, file, stopping, histVars>>

-----------------------------------------------------------------------------
Walk(k) == SkipRunning(k) \/ SkipNotDue(k) \/ StartRun(k) \/ EndWalk(k)

Next ==
    \/ Pass
    \/ \E j \in Jobs : AddJob(j)
    \/ \E k \in Ticks :
          \/ StartTick(k) \/ Walk(k)
          \/ RunSucceeds(k) \/ RunFails(k)
          \/ WriteBegin(k) \/ WriteEnd(k)
          \/ Stop(k)
    \/ Exit \/ Crash \/ Restart

Spec == Init /\ [][Next]_vars

(***************************************************************************)
(* Time passes, the timer fires, the loop goes on, a job's turn ends (the  *)
(* runtime bounds it), writes end, and the supervisor restarts what died.  *)
(***************************************************************************)
FairSpec ==
    /\ Spec
    /\ WF_vars(Pass) /\ WF_vars(Restart) /\ WF_vars(Exit)
    /\ WF_vars(\E k \in Ticks : StartTick(k))
    /\ \A k \in Ticks :
          /\ WF_vars(Walk(k))
          /\ SF_vars(RunSucceeds(k) \/ RunFails(k))
          /\ SF_vars(WriteBegin(k)) /\ SF_vars(WriteEnd(k))

-----------------------------------------------------------------------------
(***************************************************************************)
(* Properties.                                                             *)
(***************************************************************************)

\* No job is run by two ticks at once, however many overlap, and no slot of
\* maxConcurrentRuns leaks; also after a restart.
OneRunPerJob ==
    /\ activeRuns = Cardinality(Awaiting)
    /\ \A k \in Awaiting : running[Job(k)]
    /\ \A i, k \in Awaiting : Job(i) = Job(k) => i = k

\* A record marked running is one that a tick awaits: it is not skipped by
\* every later tick.
RunningIsAwaited == \A j \in Jobs : running[j] => \E k \in Awaiting : Job(k) = j

\* "runs at jobs only once" (the test of that name): an "at" job that succeeded is run
\* again at most because a crash or shutdown lost the record of it.  The timer does not
\* wait for a tick to end, and a slower one that is as old as the job's time runs it again.
AtJobSucceedsOnce == \A j \in Jobs : JobType[j] = "at" => successes[j] <= 1 + crashes

\* Overlapping ticks have no other way to repeat an "at" job: if none that was called by
\* the job's time still had the job ahead of it when it succeeded, only a crash or
\* shutdown brings it back, however old the ticks that compare with it are.
AtJobRepeatsOnlyIfOvertaken ==
    \A j \in Jobs \ overtaken : JobType[j] = "at" => successes[j] <= 1 + crashes

\* Two starts of a job are apart: a retry waits for the backoff, which doubles,
\* a later round of an "every" job for its period, of a "cron" job for the next
\* slot, in whatever order overlapping ticks reach the job.
Spaced(j) ==
    CASE retries[j] > 0 -> lastStart'[j] >= lastStart[j] + Delay[retries[j] - 1]
      [] retries[j] = 0 /\ JobType[j] = "every" -> lastStart'[j] >= lastStart[j] + Span[j]
      [] retries[j] = 0 /\ JobType[j] = "cron" ->
            lastStart'[j] \div Span[j] > lastStart[j] \div Span[j]
      [] OTHER -> TRUE

StartsAreSpaced ==
    \A j \in Jobs : attempts'[j] # attempts[j] /\ lastStart[j] # None => Spaced(j)

StartsSpaced == [][StartsAreSpaced]_vars

\* A job with a time to run at (before the clock stops) is run, whatever the
\* other jobs do.
JobEventuallyRuns ==
    \A j \in Jobs : (attempts[j] = 0 /\ nextRunAt[j] # None /\ nextRunAt[j] <= MaxTime) ~> (attempts[j] > 0)
=============================================================================
