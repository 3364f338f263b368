----------------------------- MODULE CronProofs -----------------------------
(***************************************************************************)
(* CronService, for any jobs, number of overlapping ticks, limit of runs   *)
(* and failures: one run per job and one success of an "at" job, through   *)
(* crashes and shutdowns; starts that are apart, while the process lives.  *)
(***************************************************************************)
EXTENDS CronService, FiniteSetTheorems, Inductions

Distinct(seq) == \A i, j \in DOMAIN seq : seq[i] = seq[j] => i = j

\* Records in which a job has one place: in memory and in all that is written.
Sound(state) ==
    /\ state.order \in Seq(Jobs) /\ state.running \in [Jobs -> BOOLEAN]
    /\ Distinct(state.order)

SoundRecords ==
    /\ order \in Seq(Jobs) /\ running \in [Jobs -> BOOLEAN] /\ Distinct(order)
    /\ Sound(file) /\ \A k \in Ticks : Sound(payload[k])

\* The types of the ticks' variables.
TickTypes ==
    /\ thread \in Ticks \cup {None}
    /\ tick \in [Ticks -> {"idle", "walking", "awaiting", "persisting", "writing", "mixed"}]
    /\ pos \in [Ticks -> Nat \ {0}]
    /\ payload = [k \in Ticks |-> payload[k]]

\* The tick that executes is not one that awaits; a dead process has no tick.
ThreadWalks ==
    /\ thread # None => tick[thread] = "walking"
    /\ ~up => thread = None /\ \A k \in Ticks : tick[k] = "idle"

\* A tick awaits a job of the list.
AwaitsAJob == \A k \in Awaiting : pos[k] \in DOMAIN order

CronInv ==
    /\ SoundRecords /\ TickTypes /\ ThreadWalks /\ AwaitsAJob
    /\ OneRunPerJob

-----------------------------------------------------------------------------
\* The ticks that await are finitely many.
LEMMA AwaitingIsFinite == IsFiniteSet(Awaiting)
<1>1. Awaiting \subseteq Ticks
  BY DEF Awaiting
<1> QED
  BY <1>1, TicksAssumption, FS_Subset

\* The empty state and a state made of the records can be written.
LEMMA EmptyIsSound == Sound(NoState)
BY DEF Sound, NoState, Distinct

\* At first no job is running.
LEMMA InitCron == Init => CronInv
<1> SUFFICES ASSUME Init PROVE CronInv
  OBVIOUS
<1>1. Awaiting = {}
  BY DEF Init, Awaiting
<1>2. SoundRecords
  BY EmptyIsSound DEF Init, SoundRecords, Sound
<1>3. TickTypes /\ ThreadWalks
  BY DEF Init, TickTypes, ThreadWalks
<1>4. OneRunPerJob
  BY <1>1, FS_EmptySet DEF Init, OneRunPerJob
<1> QED
  BY <1>1, <1>2, <1>3, <1>4 DEF CronInv, AwaitsAJob

\* What leaves the records' order and running flags, the slots and the ticks that
\* await alone, keeps one run per job.
LEMMA SameRuns ==
    ASSUME AwaitsAJob, OneRunPerJob, order' = order, running' = running,
           activeRuns' = activeRuns, Awaiting' = Awaiting,
           \A k \in Awaiting : pos'[k] = pos[k]
    PROVE  AwaitsAJob' /\ OneRunPerJob'
<1>1. \A k \in Awaiting : Job(k)' = Job(k)
  BY DEF Job
<1> QED
  BY <1>1 DEF AwaitsAJob, OneRunPerJob

\* A new job has a place of its own and is not running.
LEMMA AddJobKeeps == ASSUME CronInv, NEW j \in Jobs, AddJob(j) PROVE CronInv'
<1> USE DEF CronInv
<1>1. order' = Append(order, j) /\ order \in Seq(Jobs)
  BY DEF AddJob, SoundRecords
<1>2. /\ order' \in Seq(Jobs) /\ Len(order') = Len(order) + 1
      /\ order'[Len(order) + 1] = j
      /\ \A i \in DOMAIN order : i \in DOMAIN order' /\ order'[i] = order[i]
  BY <1>1
<1>3. Distinct(order')
  BY <1>1, <1>2 DEF AddJob, SoundRecords, Distinct
<1>4. Awaiting' = Awaiting /\ \A k \in Awaiting : Job(k)' = Job(k)
  BY <1>2 DEF AddJob, tickVars, Awaiting, AwaitsAJob, Job
<1>5. AwaitsAJob' /\ OneRunPerJob'
  BY <1>2, <1>4 DEF AddJob, tickVars, AwaitsAJob, OneRunPerJob
<1> QED
  BY <1>2, <1>3, <1>5
     DEF AddJob, tickVars, procVars, SoundRecords, TickTypes, ThreadWalks

\* Starting and skipping: a tick that does not await becomes no tick that does.
LEMMA WalkKeeps ==
    ASSUME CronInv, NEW k \in Ticks,
           StartTick(k) \/ SkipRunning(k) \/ SkipNotDue(k) \/ EndWalk(k)
    PROVE  CronInv'
<1> USE DEF CronInv
<1>1. /\ order' = order /\ running' = running /\ activeRuns' = activeRuns
      /\ file' = file /\ payload' = payload /\ up' = up /\ k # None
  BY NoneAssumption
     DEF StartTick, SkipRunning, SkipNotDue, EndWalk, recVars, procVars
<1>2. Awaiting' = Awaiting /\ \A i \in Awaiting : pos'[i] = pos[i]
  BY <1>1 DEF StartTick, SkipRunning, SkipNotDue, EndWalk, Visits, ThreadWalks, TickTypes, Awaiting
<1>3. TickTypes' /\ ThreadWalks'
  BY <1>1 DEF StartTick, SkipRunning, SkipNotDue, EndWalk, Visits, ThreadWalks, TickTypes
<1> QED
  BY <1>1, <1>2, <1>3, SameRuns DEF SoundRecords

\* A tick starts a job that is not running, and awaits it.
LEMMA StartRunKeeps == ASSUME CronInv, NEW k \in Ticks, StartRun(k) PROVE CronInv'
<1> USE DEF CronInv
<1>1. /\ order' = order /\ pos' = pos /\ file' = file /\ payload' = payload /\ up' = up
      /\ activeRuns' = activeRuns + 1 /\ thread = k /\ thread' = None /\ k # None
      /\ tick' = [tick EXCEPT ![k] = "awaiting"]
      /\ running' = [running EXCEPT ![Job(k)] = TRUE]
      /\ ~running[Job(k)] /\ pos[k] <= Len(order)
  BY NoneAssumption DEF StartRun, Visits, procVars
<1>2. tick[k] = "walking" /\ up
  BY <1>1 DEF ThreadWalks, TickTypes
<1>3. Awaiting' = Awaiting \cup {k} /\ k \notin Awaiting
  BY <1>1, <1>2 DEF Awaiting, TickTypes
<1>4. pos[k] \in DOMAIN order /\ Job(k) \in Jobs
  BY <1>1 DEF TickTypes, SoundRecords, Job
<1>5. \A i \in Ticks : Job(i)' = Job(i)
  BY <1>1 DEF Job
<1>6. \A i \in Awaiting : Job(i) # Job(k)
  BY <1>1 DEF OneRunPerJob
<1>7. activeRuns' = Cardinality(Awaiting')
  BY <1>1, <1>3, AwaitingIsFinite, FS_AddElement DEF OneRunPerJob
<1>8. \A i \in Awaiting : Job(i) \in Jobs
  BY DEF AwaitsAJob, SoundRecords, Job
<1>9. OneRunPerJob'
  BY <1>1, <1>3, <1>4, <1>5, <1>6, <1>7, <1>8 DEF OneRunPerJob, SoundRecords, Awaiting
<1>10. AwaitsAJob'
  BY <1>1, <1>3, <1>4 DEF AwaitsAJob
<1> QED
  BY <1>1, <1>2, <1>4, <1>9, <1>10 DEF SoundRecords, TickTypes, ThreadWalks

\* A tick that continues has given its job up.
LEMMA ContinueKeeps == ASSUME CronInv, NEW k \in Ticks, Continue(k) PROVE CronInv'
<1> USE DEF CronInv
<1>1. /\ order' = order /\ file' = file /\ payload' = payload /\ up' = up
      /\ activeRuns' = activeRuns - 1 /\ thread' = k /\ k # None
      /\ pos' = [pos EXCEPT ![k] = @ + 1]
      /\ tick' = [tick EXCEPT ![k] = "walking"]
      /\ running' = [running EXCEPT ![Job(k)] = FALSE]
      /\ k \in Awaiting /\ up
  BY NoneAssumption DEF Continue, procVars, Awaiting, ThreadWalks
<1>2. Awaiting' = Awaiting \ {k}
  BY <1>1 DEF Awaiting, TickTypes
<1>3. \A i \in Awaiting' : pos'[i] = pos[i] /\ Job(i)' = Job(i) /\ Job(i) # Job(k)
  BY <1>1, <1>2 DEF Job, OneRunPerJob, TickTypes, Awaiting
<1>4. activeRuns' = Cardinality(Awaiting')
  BY <1>1, <1>2, AwaitingIsFinite, FS_RemoveElement DEF OneRunPerJob
<1>5. \A i \in Awaiting : Job(i) \in Jobs
  BY DEF AwaitsAJob, SoundRecords, Job
<1>6. OneRunPerJob'
  BY <1>1, <1>2, <1>3, <1>4, <1>5 DEF OneRunPerJob, SoundRecords
<1>7. AwaitsAJob'
  BY <1>1, <1>2, <1>3 DEF AwaitsAJob
<1>8. SoundRecords'
  BY <1>1 DEF SoundRecords
<1>9. TickTypes' /\ ThreadWalks'
  BY <1>1 DEF TickTypes, ThreadWalks
<1> QED
  BY <1>6, <1>7, <1>8, <1>9

\* Writing the file moves no tick between awaiting and not.
LEMMA WritesKeep ==
    ASSUME CronInv, NEW k \in Ticks, WriteBegin(k) \/ WriteEnd(k) \/ Stop(k)
    PROVE  CronInv'
<1> USE DEF CronInv
<1>1. /\ order' = order /\ running' = running /\ activeRuns' = activeRuns
      /\ thread' = thread /\ thread = None /\ pos' = pos /\ up' = up /\ up
  BY DEF WriteBegin, WriteEnd, Stop, recVars, procVars, ThreadWalks, Writers
<1>2. Awaiting' = Awaiting
  BY DEF WriteBegin, WriteEnd, Stop, Awaiting, Writers, TickTypes
<1>3. TickTypes' /\ ThreadWalks'
  BY <1>1 DEF WriteBegin, WriteEnd, Stop, Writers, TickTypes, ThreadWalks
<1>4. SoundRecords'
  <2>1. CASE WriteBegin(k)
    <3>1. Sound(payload'[k])
      BY <2>1 DEF WriteBegin, SoundRecords, Sound, TickTypes
    <3>2. file' = file /\ \A i \in Ticks : i # k => payload'[i] = payload[i]
      BY <2>1 DEF WriteBegin, TickTypes
    <3> QED
      BY <1>1, <3>1, <3>2 DEF SoundRecords
  <2>2. CASE WriteEnd(k)
    <3>1. Sound(file')
      BY <2>2, EmptyIsSound DEF WriteEnd, SoundRecords, Torn, Writers
    <3>2. \A i \in Ticks : payload'[i] = IF i = k THEN NoState ELSE payload[i]
      BY <2>2 DEF WriteEnd, TickTypes
    <3> QED
      BY <1>1, <3>1, <3>2, EmptyIsSound DEF SoundRecords
  <2>3. CASE Stop(k)
    BY <1>1, <2>3 DEF Stop, SoundRecords
  <2> QED
    BY <2>1, <2>2, <2>3
<1> QED
  BY <1>1, <1>2, <1>3, <1>4, SameRuns

\* A dead process awaits nothing.
LEMMA DieKeeps == ASSUME CronInv, Die PROVE CronInv'
<1> USE DEF CronInv
<1>1. Awaiting' = {}
  BY DEF Die, Awaiting
<1>2. SoundRecords'
  <2>1. Sound(file')
    BY EmptyIsSound DEF Die, SoundRecords, Torn, Writers
  <2>2. \A k \in Ticks : payload'[k] = NoState
    BY DEF Die
  <2>3. order' = NoState.order /\ running' = NoState.running
    BY DEF Die
  <2> QED
    BY <2>1, <2>2, <2>3, EmptyIsSound DEF SoundRecords, Sound
<1>3. TickTypes' /\ ThreadWalks'
  BY DEF Die, TickTypes, ThreadWalks
<1>4. OneRunPerJob' /\ AwaitsAJob'
  BY <1>1, FS_EmptySet DEF Die, OneRunPerJob, AwaitsAJob
<1> QED
  BY <1>2, <1>3, <1>4

\* A restarted one has the jobs of the file and no tick.
LEMMA RestartKeeps == ASSUME CronInv, Restart PROVE CronInv'
<1> USE DEF CronInv
<1>1. Awaiting = {} /\ Awaiting' = {}
  BY DEF Restart, tickVars, Awaiting, ThreadWalks
<1>2. OneRunPerJob' /\ AwaitsAJob'
  BY <1>1 DEF Restart, OneRunPerJob, AwaitsAJob
<1>3. SoundRecords'
  BY DEF Restart, tickVars, SoundRecords, Sound
<1>4. TickTypes' /\ ThreadWalks'
  BY DEF Restart, tickVars, TickTypes, ThreadWalks
<1> QED
  BY <1>2, <1>3, <1>4

\* Every step keeps the invariant.
LEMMA StepKeeps == CronInv /\ [Next]_vars => CronInv'
<1> SUFFICES ASSUME CronInv, [Next]_vars PROVE CronInv'
  OBVIOUS
<1>1. CASE Pass
  <2>1. CronInv' <=> CronInv
    BY <1>1 DEF Pass, CronInv, SoundRecords, TickTypes, ThreadWalks, AwaitsAJob,
                OneRunPerJob, Awaiting, Job, recVars, tickVars, procVars
  <2> QED
    BY <2>1
<1>2. CASE UNCHANGED vars
  <2>1. CronInv' <=> CronInv
    BY <1>2 DEF vars, CronInv, SoundRecords, TickTypes, ThreadWalks, AwaitsAJob,
                OneRunPerJob, Awaiting, Job, recVars, tickVars, procVars
  <2> QED
    BY <2>1
<1>3. ASSUME NEW j \in Jobs, AddJob(j) PROVE CronInv'
  BY <1>3, AddJobKeeps
<1>4. ASSUME NEW k \in Ticks, StartTick(k) \/ Walk(k) PROVE CronInv'
  BY <1>4, WalkKeeps, StartRunKeeps DEF Walk
<1>5. ASSUME NEW k \in Ticks, RunSucceeds(k) \/ RunFails(k) PROVE CronInv'
  BY <1>5, ContinueKeeps DEF RunSucceeds, RunFails
<1>6. ASSUME NEW k \in Ticks, WriteBegin(k) \/ WriteEnd(k) \/ Stop(k) PROVE CronInv'
  BY <1>6, WritesKeep
<1>7. CASE Exit \/ Crash
  BY <1>7, DieKeeps DEF Exit, Crash
<1>8. CASE Restart
  BY <1>8, RestartKeeps
<1> QED
  BY <1>1, <1>2, <1>3, <1>4, <1>5, <1>6, <1>7, <1>8 DEF Next

\* However many ticks overlap, fail, crash or are shut down, no job is run by two of
\* them, and the count of active runs is the number of ticks that await one.
THEOREM OneRun == Spec => []OneRunPerJob
<1>1. Init => CronInv
  BY InitCron
<1>2. CronInv /\ [Next]_vars => CronInv'
  BY StepKeeps
<1>3. CronInv => OneRunPerJob
  BY DEF CronInv
<1> QED
  BY <1>1, <1>2, <1>3, PTL DEF Spec
-----------------------------------------------------------------------------
(***************************************************************************)
(* When jobs run: an "at" job that succeeded is not run again, and starts  *)
(* are apart.                                                              *)
(***************************************************************************)

AtJobs == {j \in Jobs : JobType[j] = "at"}

\* The time of an "at" job is never before the one it was given.
Timed(state) ==
    /\ state.nextRunAt \in [Jobs -> Int \cup {None}] /\ state.retries \in [Jobs -> 0..MaxRetries]
    /\ \A j \in AtJobs : state.nextRunAt[j] # None => state.nextRunAt[j] >= Span[j]

Records == [nextRunAt |-> nextRunAt, retries |-> retries]

TimeTypes ==
    /\ clock \in 0..MaxTime /\ now \in [Ticks -> Int]
    /\ Timed(Records) /\ Timed(file) /\ \A k \in Ticks : Timed(payload[k])
    /\ attempts \in [Jobs -> Nat] /\ successes \in [Jobs -> Nat] /\ crashes \in Nat
    /\ lastStart \in [Jobs -> Int \cup {None}]

\* A started job was counted; an "at" job runs when its time has come.
Started ==
    /\ \A j \in Jobs : attempts[j] = 0 => successes[j] = 0 /\ lastStart[j] = None
    /\ \A k \in Awaiting : attempts[Job(k)] > 0
    /\ \A k \in Awaiting : Job(k) \in AtJobs => now[k] >= Span[Job(k)]

AtWork(k) == tick[k] \in {"walking", "awaiting"}

\* Nobody will find a time for the job: there is none, and a tick computes none for
\* it, because its own time is past the job's or it has passed the job.
Over(j) ==
    /\ nextRunAt[j] = None
    /\ \A k \in Awaiting : Job(k) # j
    /\ \E k \in Ticks : now[k] >= Span[j]
    /\ \A k \in Ticks : AtWork(k) =>
           now[k] > Span[j] \/ \A n \in DOMAIN order : n >= pos[k] => order[n] # j

OnceInv ==
    \A j \in AtJobs \ overtaken :
        successes[j] <= 1 + crashes /\ (successes[j] > crashes => up /\ Over(j))

AtInv == CronInv /\ TimeTypes /\ Started /\ OnceInv

\* The next start is as far away as it must be, unless the job runs.
NextFits(j) ==
    /\ retries[j] > 0 => nextRunAt[j] = lastStart[j] + Delay[retries[j] - 1]
    /\ retries[j] = 0 /\ JobType[j] = "every" => nextRunAt[j] = lastStart[j] + Span[j]
    /\ retries[j] = 0 /\ JobType[j] = "cron" =>
           nextRunAt[j] = Span[j] * (lastStart[j] \div Span[j] + 1)

SpacedInv ==
    /\ CronInv /\ TimeTypes /\ Started
    /\ up /\ stopping = None
    /\ \A k \in Awaiting : lastStart[Job(k)] = now[k]
    /\ \A j \in Jobs : running[j] \/ lastStart[j] = None \/ NextFits(j)

-----------------------------------------------------------------------------
\* The delays are numbers.
LEMMA DelayType == Delay \in [0..MaxRetries -> Nat]
<1>1. MaxRetries \in Nat /\ Backoff \in Nat
  BY LimitsAssumption
<1> DEFINE F == [p \in (1..MaxRetries) \X Nat |-> 2 * p[2]]
           Is(g) == g = [n \in 0..MaxRetries |-> IF n = 0 THEN Backoff ELSE 2 * g[n - 1]]
<1>2. F \in [(1..MaxRetries) \X Nat -> Nat]
  BY <1>1
<1>3. PICK g \in [0..MaxRetries -> Nat] :
         g[0] = Backoff /\ \A i \in 1..MaxRetries : g[i] = F[<<i, g[i - 1]>>]
  <2> HIDE DEF F
  <2>1. \E g \in [0..MaxRetries -> Nat] : Recurs(g, MaxRetries, Backoff, F)
    BY <1>1, <1>2, Recursion
  <2> QED
    BY <2>1 DEF Recurs
<1>4. ASSUME NEW i \in 1..MaxRetries PROVE g[i] = 2 * g[i - 1]
  <2>1. g[i - 1] \in Nat
    BY <1>1, <1>3
  <2> QED
    BY <1>3, <2>1
<1>5. Is(g)
  BY <1>1, <1>3, <1>4
<1>6. Is(Delay)
  <2>1. \E h : Is(h)
    BY <1>5
  <2>2. Delay = CHOOSE h : Is(h)
    BY DEF Delay
  <2> HIDE DEF Is
  <2> QED
    BY <2>1, <2>2
<1> DEFINE S == {i \in 0..MaxRetries : Delay[i] = g[i]}
<1>7. 0 \in S
  BY <1>1, <1>3, <1>6
<1>8. ASSUME NEW i \in 1..MaxRetries, i - 1 \in S PROVE i \in S
  BY <1>1, <1>4, <1>6, <1>8
<1>9. \A i \in 0..MaxRetries : i \in S
  <2> HIDE DEF S
  <2> QED
    BY <1>1, <1>7, <1>8, UpTo
<1> QED
  BY <1>3, <1>6, <1>9

\* The job a tick awaits or comes to is one of the list.
LEMMA VisitedJob ==
    ASSUME CronInv, NEW k \in Ticks, k \in Awaiting \/ Visits(k)
    PROVE  pos[k] \in DOMAIN order /\ Job(k) \in Jobs
<1>1. pos[k] \in Nat \ {0} /\ order \in Seq(Jobs)
  BY DEF CronInv, TickTypes, SoundRecords
<1>2. pos[k] \in DOMAIN order
  BY <1>1 DEF CronInv, AwaitsAJob, Visits
<1> QED
  BY <1>1, <1>2 DEF Job

\* The next time of a job, by its type.
LEMMA NextRunType ==
    ASSUME NEW j \in Jobs, NEW t \in Int
    PROVE  /\ ComputeNextRun(j, t) \in Int \cup {None}
           /\ j \in AtJobs => ComputeNextRun(j, t) = IF Span[j] > t THEN Span[j] ELSE None
           /\ JobType[j] = "every" => ComputeNextRun(j, t) = t + Span[j]
           /\ JobType[j] = "cron" => ComputeNextRun(j, t) = Span[j] * (t \div Span[j] + 1)
<1>1. Span[j] \in Nat \ {0} /\ JobType[j] \in {"at", "every", "cron"}
  BY SpanAssumption, TypesAssumption
<1>2. t \div Span[j] \in Int
  BY <1>1
<1>3. Span[j] * (t \div Span[j] + 1) \in Int
  BY <1>1, <1>2
<1> QED
  BY <1>1, <1>3 DEF ComputeNextRun, AtJobs

\* What a tick of the time t finds, and leaves, as a job's time.
LEMMA ArmedType ==
    ASSUME TimeTypes, NEW j \in Jobs, NEW t \in Int
    PROVE  /\ Armed(j, t) \in Int \cup {None}
           /\ j \in AtJobs /\ Armed(j, t) # None => Armed(j, t) >= Span[j]
           /\ nextRunAt[j] # None => Armed(j, t) = nextRunAt[j]
<1>1. Span[j] \in Nat \ {0} /\ nextRunAt[j] \in Int \cup {None}
  BY SpanAssumption DEF TimeTypes, Timed, Records
<1>2. j \in AtJobs /\ nextRunAt[j] # None => nextRunAt[j] >= Span[j]
  BY DEF TimeTypes, Timed, Records
<1>3. t - 1 \in Int
  OBVIOUS
<1> QED
  BY <1>1, <1>2, <1>3, NextRunType DEF Armed

\* A time and a count of retries, if they are times and counts.
LEMMA TimedChange ==
    ASSUME TimeTypes, NEW j \in Jobs, NEW t \in Int \cup {None}, NEW n \in 0..MaxRetries,
           j \in AtJobs /\ t # None => t >= Span[j],
           nextRunAt' = [nextRunAt EXCEPT ![j] = t], retries' = [retries EXCEPT ![j] = n]
    PROVE  Timed(Records')
BY DEF TimeTypes, Timed, Records, AtJobs

\* An empty state has times and counts.
LEMMA EmptyIsTimed == Timed(NoState)
<1>1. 0 \in 0..MaxRetries
  BY LimitsAssumption
<1> QED
  BY <1>1 DEF Timed, NoState, AtJobs

\* At first no job has a time and none was started.
LEMMA InitTimes == Init => TimeTypes /\ Started
<1> SUFFICES ASSUME Init PROVE TimeTypes /\ Started
  OBVIOUS
<1>1. Timed(Records)
  BY EmptyIsTimed DEF Init, Records, Timed, NoState
<1>2. Awaiting = {}
  BY DEF Init, Awaiting
<1>3. clock \in 0..MaxTime
  BY LimitsAssumption DEF Init
<1> QED
  BY <1>1, <1>2, <1>3, EmptyIsTimed DEF Init, TimeTypes, Started

\* What is known of the jobs under way stays known while they stay under way.
LEMMA StartedStays ==
    ASSUME CronInv, Started, UNCHANGED <<attempts, successes, lastStart>>, Awaiting' \subseteq Awaiting,
           \A k \in Awaiting' : Job(k)' = Job(k) /\ now'[k] = now[k]
    PROVE  Started'
BY DEF Started, AtJobs

\* Steps at which no job starts or ends.
LEMMA QuietTimes ==
    ASSUME CronInv, TimeTypes, Started,
           \/ Pass \/ \E j \in Jobs : AddJob(j)
           \/ \E k \in Ticks : \/ StartTick(k) \/ SkipRunning(k) \/ SkipNotDue(k) \/ EndWalk(k)
                               \/ WriteBegin(k) \/ WriteEnd(k) \/ Stop(k)
           \/ UNCHANGED vars
    PROVE  TimeTypes' /\ Started'
<1> USE DEF recVars, tickVars, histVars, procVars
<1>0. order \in Seq(Jobs) /\ tick \in [Ticks -> {"idle", "walking", "awaiting", "persisting",
                                                  "writing", "mixed"}]
      /\ pos \in [Ticks -> Nat \ {0}] /\ payload = [k \in Ticks |-> payload[k]]
      /\ \A k \in Awaiting : pos[k] \in DOMAIN order
  BY DEF CronInv, SoundRecords, TickTypes, AwaitsAJob
<1>1. CASE Pass
  <2>1. TimeTypes'
    BY <1>1, LimitsAssumption DEF Pass, TimeTypes, Records, Timed
  <2>2. Started'
    BY <1>1, StartedStays DEF Pass, Awaiting, Job
  <2> QED
    BY <2>1, <2>2
<1>2. ASSUME NEW j \in Jobs, AddJob(j) PROVE TimeTypes' /\ Started'
  <2>1. clock \in Int
    BY DEF TimeTypes
  <2>2. Timed(Records')
    <3>1. retries' = [retries EXCEPT ![j] = retries[j]] /\ retries[j] \in 0..MaxRetries
      BY <1>2 DEF AddJob, TimeTypes, Timed, Records
    <3>2. Span[j] \in Nat
      BY SpanAssumption
    <3>3. /\ ComputeNextRun(j, clock) \in Int \cup {None}
          /\ j \in AtJobs /\ ComputeNextRun(j, clock) # None => ComputeNextRun(j, clock) >= Span[j]
      BY <2>1, <3>2, NextRunType
    <3>4. nextRunAt' = [nextRunAt EXCEPT ![j] = ComputeNextRun(j, clock)]
      BY <1>2 DEF AddJob
    <3> QED
      BY <3>1, <3>3, <3>4, TimedChange
  <2>3. TimeTypes'
    BY <1>2, <2>2 DEF AddJob, TimeTypes, Records
  <2>4. \A k \in Awaiting : Job(k)' = Job(k)
    <3>1. \A i \in DOMAIN order : Append(order, j)[i] = order[i]
      BY <1>0
    <3> QED
      BY <1>0, <1>2, <3>1 DEF AddJob, Job
  <2>5. Started'
    BY <1>2, <2>4, StartedStays DEF AddJob, Awaiting
  <2> QED
    BY <2>3, <2>5
<1>3. ASSUME NEW k \in Ticks, StartTick(k) PROVE TimeTypes' /\ Started'
  <2>1. TimeTypes'
    BY <1>3 DEF StartTick, TimeTypes, Records, Timed
  <2>2. Awaiting' = Awaiting /\ k \notin Awaiting
    BY <1>0, <1>3 DEF StartTick, Awaiting
  <2>3. \A i \in Awaiting' : Job(i)' = Job(i) /\ now'[i] = now[i]
    BY <1>0, <1>3, <2>2 DEF StartTick, Job, Awaiting, TimeTypes
  <2> QED
    BY <1>3, <2>1, <2>2, <2>3, StartedStays DEF StartTick
<1>4. ASSUME NEW k \in Ticks, SkipRunning(k) \/ SkipNotDue(k) \/ EndWalk(k)
      PROVE  TimeTypes' /\ Started'
  <2>1. k \notin Awaiting /\ Awaiting' = Awaiting
    BY <1>0, <1>4, NoneAssumption
       DEF SkipRunning, SkipNotDue, EndWalk, Visits, CronInv, ThreadWalks, Awaiting
  <2>2. \A i \in Awaiting' : Job(i)' = Job(i) /\ now'[i] = now[i]
    BY <1>0, <1>4, <2>1 DEF SkipRunning, SkipNotDue, EndWalk, Job, Awaiting
  <2>3. TimeTypes'
    <3>1. CASE SkipNotDue(k)
      <4>1. Job(k) \in Jobs /\ now[k] \in Int
        BY <3>1, VisitedJob DEF SkipNotDue, TimeTypes
      <4>2. retries' = [retries EXCEPT ![Job(k)] = retries[Job(k)]]
            /\ retries[Job(k)] \in 0..MaxRetries
        BY <3>1, <4>1 DEF SkipNotDue, TimeTypes, Timed, Records
      <4>3. Timed(Records')
        BY <3>1, <4>1, <4>2, ArmedType, TimedChange DEF SkipNotDue
      <4> QED
        BY <3>1, <4>3 DEF SkipNotDue, TimeTypes, Records
    <3>2. CASE SkipRunning(k) \/ EndWalk(k)
      BY <3>2 DEF SkipRunning, EndWalk, TimeTypes, Records, Timed
    <3> QED
      BY <1>4, <3>1, <3>2
  <2> QED
    BY <1>4, <2>1, <2>2, <2>3, StartedStays DEF SkipRunning, SkipNotDue, EndWalk
<1>5. ASSUME NEW k \in Ticks, WriteBegin(k) \/ WriteEnd(k) \/ Stop(k)
      PROVE  TimeTypes' /\ Started'
  <2>1. Awaiting' = Awaiting
    BY <1>0, <1>5 DEF WriteBegin, WriteEnd, Stop, Awaiting, Writers
  <2>2. \A i \in Awaiting' : Job(i)' = Job(i) /\ now'[i] = now[i]
    BY <1>5 DEF WriteBegin, WriteEnd, Stop, Job
  <2>3. TimeTypes'
    <3>1. CASE WriteBegin(k)
      <4>1. Timed(payload'[k])
        BY <1>0, <3>1 DEF WriteBegin, TimeTypes, Timed, Records
      <4>2. \A i \in Ticks : i # k => payload'[i] = payload[i]
        BY <1>0, <3>1 DEF WriteBegin
      <4>3. \A i \in Ticks : Timed(payload'[i])
        BY <4>1, <4>2 DEF TimeTypes
      <4> QED
        BY <3>1, <4>3 DEF WriteBegin, TimeTypes, Records
    <3>2. CASE WriteEnd(k)
      <4>1. Timed(file')
        BY <3>2, EmptyIsTimed DEF WriteEnd, TimeTypes, Torn, Writers
      <4>2. \A i \in Ticks : payload'[i] = IF i = k THEN NoState ELSE payload[i]
        BY <1>0, <3>2 DEF WriteEnd
      <4>3. \A i \in Ticks : Timed(payload'[i])
        BY <4>2, EmptyIsTimed DEF TimeTypes
      <4> QED
        BY <3>2, <4>1, <4>3 DEF WriteEnd, TimeTypes, Records
    <3>3. CASE Stop(k)
      BY <3>3 DEF Stop, TimeTypes, Records
    <3> QED
      BY <1>5, <3>1, <3>2, <3>3
  <2> QED
    BY <1>5, <2>1, <2>2, <2>3, StartedStays DEF WriteBegin, WriteEnd, Stop
<1>6. CASE UNCHANGED vars
  <2>1. TimeTypes'
    BY <1>6 DEF vars, TimeTypes, Records
  <2> QED
    BY <1>6, <2>1, StartedStays DEF vars, Awaiting, Job
<1> QED
  BY <1>1, <1>2, <1>3, <1>4, <1>5, <1>6

\* A job starts.
LEMMA StartTimes ==
    ASSUME CronInv, TimeTypes, Started, NEW k \in Ticks, StartRun(k)
    PROVE  TimeTypes' /\ Started'
<1>1. pos[k] \in DOMAIN order /\ Job(k) \in Jobs /\ now[k] \in Int
  BY VisitedJob DEF StartRun, TimeTypes
<1>2. tick \in [Ticks -> {"idle", "walking", "awaiting", "persisting", "writing", "mixed"}]
  BY DEF CronInv, TickTypes
<1>3. Timed(Records')
  <2>1. retries' = [retries EXCEPT ![Job(k)] = retries[Job(k)]] /\ retries[Job(k)] \in 0..MaxRetries
    BY <1>1 DEF StartRun, TimeTypes, Timed, Records
  <2> QED
    BY <1>1, <2>1, ArmedType, TimedChange DEF StartRun
<1>4. TimeTypes'
  BY <1>1, <1>3 DEF StartRun, TimeTypes, Records, procVars
<1>5. Awaiting' = Awaiting \cup {k} /\ \A i \in Ticks : Job(i)' = Job(i)
  BY <1>2 DEF StartRun, Awaiting, Job
<1>6. Job(k) \in AtJobs => now[k] >= Span[Job(k)]
  BY <1>1, ArmedType, SpanAssumption DEF StartRun, Due
<1>7. attempts' = [attempts EXCEPT ![Job(k)] = @ + 1] /\ attempts'[Job(k)] > 0
      /\ \A j \in Jobs : j # Job(k) => attempts'[j] = attempts[j] /\ lastStart'[j] = lastStart[j]
  BY <1>1 DEF StartRun, TimeTypes
<1>8. \A i \in Awaiting : Job(i) \in Jobs
  BY VisitedJob DEF Awaiting
<1>9. now' = now /\ successes' = successes
  BY DEF StartRun
<1>10. \A j \in Jobs : attempts'[j] = 0 => successes'[j] = 0 /\ lastStart'[j] = None
  BY <1>7, <1>9 DEF Started
<1>11. \A i \in Awaiting' : attempts'[Job(i)'] > 0
  BY <1>5, <1>7, <1>8 DEF Started, Awaiting
<1>12. \A i \in Awaiting' : Job(i)' \in AtJobs => now'[i] >= Span[Job(i)']
  BY <1>5, <1>6, <1>9 DEF Started, Awaiting
<1>13. Started'
  BY <1>10, <1>11, <1>12 DEF Started, AtJobs
<1> QED
  BY <1>4, <1>13

\* A job ends.
LEMMA EndTimes ==
    ASSUME CronInv, TimeTypes, Started, NEW k \in Ticks, RunSucceeds(k) \/ RunFails(k)
    PROVE  TimeTypes' /\ Started'
<1>1. k \in Awaiting
  BY DEF RunSucceeds, RunFails, Continue, Awaiting
<1>2. pos[k] \in DOMAIN order /\ Job(k) \in Jobs /\ now[k] \in Int
  BY <1>1, VisitedJob DEF TimeTypes
<1>3. tick \in [Ticks -> {"idle", "walking", "awaiting", "persisting", "writing", "mixed"}]
      /\ pos \in [Ticks -> Nat \ {0}]
  BY DEF CronInv, TickTypes
<1>4. retries[Job(k)] \in 0..MaxRetries /\ 0 \in 0..MaxRetries /\ Span[Job(k)] \in Nat
  BY <1>2, LimitsAssumption, SpanAssumption DEF TimeTypes, Timed, Records
<1>5. Job(k) \in AtJobs => now[k] >= Span[Job(k)]
  BY <1>1 DEF Started
<1>6. ComputeNextRun(Job(k), now[k]) \in Int \cup {None}
      /\ (Job(k) \in AtJobs => ComputeNextRun(Job(k), now[k]) = None)
  BY <1>2, <1>4, <1>5, NextRunType
<1>7. Timed(Records')
  <2>1. CASE RunFails(k) /\ retries[Job(k)] + 1 <= MaxRetries
    <3>1. Delay[retries[Job(k)]] \in Nat /\ retries[Job(k)] + 1 \in 0..MaxRetries
      BY <1>4, <2>1, DelayType, LimitsAssumption
    <3>2. /\ retries' = [retries EXCEPT ![Job(k)] = retries[Job(k)] + 1]
          /\ nextRunAt' = [nextRunAt EXCEPT ![Job(k)] = now[k] + Delay[retries[Job(k)]]]
      BY <1>4, <2>1, LimitsAssumption DEF RunFails
    <3>3. now[k] + Delay[retries[Job(k)]] \in Int /\ now[k] + Delay[retries[Job(k)]] >= now[k]
      BY <1>2, <3>1
    <3>4. Job(k) \in AtJobs => now[k] + Delay[retries[Job(k)]] >= Span[Job(k)]
      BY <1>2, <1>4, <1>5, <3>1, <3>3
    <3> QED
      BY <1>2, <3>1, <3>2, <3>3, <3>4, TimedChange
  <2>2. CASE RunSucceeds(k) \/ (RunFails(k) /\ retries[Job(k)] + 1 > MaxRetries)
    BY <1>2, <1>4, <1>6, <2>2, TimedChange DEF RunSucceeds, RunFails
  <2> QED
    BY <1>4, <2>1, <2>2, LimitsAssumption
<1>8. TimeTypes'
  <2>1. successes' \in [Jobs -> Nat]
    BY <1>2 DEF RunSucceeds, RunFails, TimeTypes
  <2> QED
    BY <1>7, <2>1 DEF RunSucceeds, RunFails, Continue, TimeTypes, Records
<1>9. Awaiting' = Awaiting \ {k}
  BY <1>3 DEF RunSucceeds, RunFails, Continue, Awaiting
<1>10. \A i \in Awaiting' : Job(i)' = Job(i) /\ now'[i] = now[i]
  BY <1>3, <1>9 DEF RunSucceeds, RunFails, Continue, Job, Awaiting
<1>11. attempts' = attempts /\ lastStart' = lastStart /\ attempts[Job(k)] > 0
       /\ \A j \in Jobs : j # Job(k) => successes'[j] = successes[j]
  BY <1>1, <1>2 DEF RunSucceeds, RunFails, Continue, Started, TimeTypes
<1>12. Started'
  BY <1>2, <1>9, <1>10, <1>11 DEF Started, AtJobs, TimeTypes
<1> QED
  BY <1>8, <1>12

\* The process dies, and starts again.
LEMMA ProcessTimes ==
    ASSUME CronInv, TimeTypes, Started, Die \/ Restart
    PROVE  TimeTypes' /\ Started'
<1>1. Awaiting' = {}
  BY DEF Die, Restart, tickVars, Awaiting, CronInv, ThreadWalks
<1>2. Timed(Records')
  <2>1. CASE Die
    BY <2>1, EmptyIsTimed DEF Die, Records, Timed, NoState
  <2>2. CASE Restart
    BY <2>2 DEF Restart, Records, Timed, TimeTypes
  <2> QED
    BY <2>1, <2>2
<1>3. Timed(file') /\ \A k \in Ticks : Timed(payload'[k])
  <2>1. CASE Die
    BY <2>1, EmptyIsTimed DEF Die, TimeTypes, Torn, Writers
  <2>2. CASE Restart
    BY <2>2 DEF Restart, tickVars, TimeTypes
  <2> QED
    BY <2>1, <2>2
<1>4. TimeTypes'
  BY <1>2, <1>3 DEF Die, Restart, tickVars, histVars, TimeTypes
<1> QED
  BY <1>1, <1>4 DEF Die, Restart, histVars, Started

-----------------------------------------------------------------------------
\* A job whose time is over: what is left to show of a step at which no job ends.
LEMMA OnceStays ==
    ASSUME AtInv, UNCHANGED <<successes, overtaken, crashes, up>>,
           \A j \in AtJobs : Over(j) /\ successes[j] > crashes => Over(j)'
    PROVE  OnceInv'
BY DEF AtInv, OnceInv

\* An "at" job is over, and is passed or skipped by every tick.
LEMMA OverIsSkipped ==
    ASSUME AtInv, NEW j \in AtJobs, Over(j), NEW k \in Ticks, Visits(k), Job(k) = j
    PROVE  now[k] > Span[j] /\ Armed(j, now[k]) = None
<1>1. pos[k] \in DOMAIN order /\ pos[k] \in Nat /\ AtWork(k)
  BY VisitedJob, NoneAssumption DEF AtInv, CronInv, TickTypes, ThreadWalks, Visits, AtWork
<1>2. now[k] > Span[j]
  BY <1>1 DEF Over, Job
<1>3. now[k] \in Int /\ Span[j] \in Nat /\ j \in Jobs
  BY SpanAssumption DEF AtInv, TimeTypes, AtJobs
<1>4. ComputeNextRun(j, now[k] - 1) = None
  <2>1. now[k] - 1 \in Int /\ ~(Span[j] > now[k] - 1)
    BY <1>2, <1>3
  <2> QED
    BY <1>3, <2>1, NextRunType
<1> QED
  BY <1>2, <1>4 DEF Armed, Over

\* Steps at which no job starts or ends and no process does.
LEMMA QuietOnce ==
    ASSUME AtInv,
           \/ Pass \/ \E j \in Jobs : AddJob(j)
           \/ \E k \in Ticks : \/ StartTick(k) \/ SkipRunning(k) \/ SkipNotDue(k) \/ EndWalk(k)
                               \/ WriteBegin(k) \/ WriteEnd(k) \/ Stop(k)
           \/ UNCHANGED vars
    PROVE  OnceInv'
<1> USE DEF recVars, tickVars, histVars, procVars
<1>0. /\ order \in Seq(Jobs) /\ pos \in [Ticks -> Nat \ {0}] /\ now \in [Ticks -> Int]
      /\ tick \in [Ticks -> {"idle", "walking", "awaiting", "persisting", "writing", "mixed"}]
      /\ nextRunAt \in [Jobs -> Int \cup {None}] /\ AtJobs \subseteq Jobs
      /\ clock \in Int /\ MaxTime \in Int /\ Span \in [Jobs -> Nat]
  <2>1. order \in Seq(Jobs) /\ pos \in [Ticks -> Nat \ {0}]
        /\ tick \in [Ticks -> {"idle", "walking", "awaiting", "persisting", "writing", "mixed"}]
    BY DEF AtInv, CronInv, SoundRecords, TickTypes, Records
  <2>2. now \in [Ticks -> Int] /\ nextRunAt \in [Jobs -> Int \cup {None}] /\ clock \in Int
    <3>1. now \in [Ticks -> Int] /\ clock \in Int /\ Timed(Records)
      BY DEF AtInv, TimeTypes
    <3> QED
      BY <3>1 DEF Timed, Records
  <2>3. AtJobs \subseteq Jobs /\ MaxTime \in Int /\ Span \in [Jobs -> Nat]
    BY SpanAssumption, LimitsAssumption DEF AtJobs
  <2> QED
    BY <2>1, <2>2, <2>3
<1>1. CASE Pass \/ UNCHANGED vars
  <2>1. UNCHANGED <<order, nextRunAt, tick, now, pos, successes, overtaken, crashes, up>>
    BY <1>1 DEF Pass, vars
  <2>2. \A j \in AtJobs : Over(j) => Over(j)'
    BY <2>1 DEF Over, Awaiting, Job, AtWork
  <2> QED
    BY <2>1, <2>2, OnceStays
<1>2. ASSUME NEW i \in Jobs, AddJob(i) PROVE OnceInv'
  <2>1. /\ UNCHANGED <<tick, now, pos, successes, overtaken, crashes, up>> /\ order' = Append(order, i)
        /\ nextRunAt' = [nextRunAt EXCEPT ![i] = ComputeNextRun(i, clock)] /\ attempts[i] = 0
    BY <1>2 DEF AddJob
  <2>3. ASSUME NEW j \in AtJobs, Over(j), successes[j] > crashes PROVE Over(j)'
    <3>1. j # i /\ nextRunAt'[j] = None
      BY <1>0, <2>1, <2>3 DEF AtInv, Started, Over, TimeTypes
    <3>2. \A n \in DOMAIN order' : (n \in DOMAIN order /\ order'[n] = order[n]) \/ order'[n] = i
      BY <1>0, <2>1
    <3>3. \A n \in DOMAIN order : order'[n] = order[n]
      BY <1>0, <2>1
    <3>4. \A k \in Awaiting : Job(k)' = Job(k) /\ k \in Ticks
      BY <2>1, <3>3 DEF AtInv, CronInv, AwaitsAJob, Job, Awaiting
    <3>5. Awaiting' = Awaiting
      BY <2>1 DEF Awaiting
    <3>6. ASSUME NEW k \in Ticks, AtWork(k)'
          PROVE  now'[k] > Span[j] \/ \A n \in DOMAIN order' : n >= pos'[k] => order'[n] # j
      BY <2>1, <2>3, <3>1, <3>2, <3>6 DEF Over, AtWork
    <3> QED
      BY <2>1, <2>3, <3>1, <3>4, <3>5, <3>6 DEF Over
  <2> QED
    BY <2>1, <2>3, OnceStays
<1>3. ASSUME NEW i \in Ticks, StartTick(i) PROVE OnceInv'
  <2>1. /\ UNCHANGED <<order, nextRunAt, successes, overtaken, crashes, up>>
        /\ tick' = [tick EXCEPT ![i] = "walking"] /\ now' = [now EXCEPT ![i] = clock]
        /\ pos' = [pos EXCEPT ![i] = 1] /\ tick[i] = "idle"
        /\ clock = MaxTime \/ \A k \in Ticks : now[k] < clock
    BY <1>3 DEF StartTick
  <2>3. ASSUME NEW j \in AtJobs, Over(j) PROVE Over(j)'
    <3>1. clock > Span[j]
      <4>1. Span[j] < MaxTime
        BY ClockAssumption DEF AtJobs
      <4>2. PICK k \in Ticks : now[k] >= Span[j]
        BY <2>3 DEF Over
      <4> QED
        BY <1>0, <2>1, <4>1, <4>2
    <3>2. now'[i] > Span[j] /\ now'[i] >= Span[j]
      BY <1>0, <2>1, <3>1
    <3>3. Awaiting' = Awaiting /\ \A k \in Awaiting : Job(k)' = Job(k)
      BY <1>0, <2>1 DEF Awaiting, Job
    <3>4. ASSUME NEW k \in Ticks, AtWork(k)'
          PROVE  now'[k] > Span[j] \/ \A n \in DOMAIN order' : n >= pos'[k] => order'[n] # j
      <4>1. CASE k = i
        BY <3>2, <4>1
      <4>2. CASE k # i
        <5>1. AtWork(k) /\ now'[k] = now[k] /\ pos'[k] = pos[k]
          BY <1>0, <2>1, <3>4, <4>2 DEF AtWork
        <5> QED
          BY <2>1, <2>3, <5>1 DEF Over
      <4> QED
        BY <4>1, <4>2
    <3> QED
      BY <2>1, <2>3, <3>2, <3>3, <3>4 DEF Over
  <2> QED
    BY <2>1, <2>3, OnceStays
<1>4. ASSUME NEW i \in Ticks, SkipRunning(i) \/ SkipNotDue(i) PROVE OnceInv'
  <2>1. /\ UNCHANGED <<order, tick, now, successes, overtaken, crashes, up>>
        /\ pos' = [pos EXCEPT ![i] = @ + 1] /\ Visits(i)
        /\ \/ nextRunAt' = nextRunAt
           \/ nextRunAt' = [nextRunAt EXCEPT ![Job(i)] = Armed(Job(i), now[i])]
    BY <1>4 DEF SkipRunning, SkipNotDue
  <2>3. i \notin Awaiting /\ Awaiting' = Awaiting /\ \A k \in Ticks : k # i => pos'[k] = pos[k]
    BY <1>0, <2>1, NoneAssumption DEF Visits, AtInv, CronInv, ThreadWalks, Awaiting
  <2>4. ASSUME NEW j \in AtJobs, Over(j) PROVE Over(j)'
    <3>1. nextRunAt'[j] = None
      <4>1. CASE Job(i) = j
        BY <1>0, <2>1, <2>4, <4>1, OverIsSkipped DEF Over
      <4>2. CASE Job(i) # j
        BY <1>0, <2>1, <2>4, <4>2 DEF Over
      <4> QED
        BY <4>1, <4>2
    <3>2. \A k \in Awaiting : Job(k)' = Job(k)
      <4>1. ASSUME NEW k \in Awaiting PROVE Job(k)' = Job(k)
        <5>1. k \in Ticks /\ k # i
          BY <2>3, <4>1 DEF Awaiting
        <5>2. order' = order /\ pos'[k] = pos[k]
          BY <2>1, <2>3, <5>1
        <5> QED
          BY <5>2 DEF Job
      <4> QED
        BY <4>1
    <3>3. pos'[i] = pos[i] + 1 /\ pos[i] \in Nat
      BY <1>0, <2>1
    <3>4. ASSUME NEW k \in Ticks, AtWork(k)'
          PROVE  now[k] > Span[j] \/ \A n \in DOMAIN order : n >= pos'[k] => order[n] # j
      <4>1. AtWork(k)
        BY <2>1, <3>4 DEF AtWork
      <4>2. DOMAIN order \subseteq Nat
        BY <1>0
      <4> QED
        BY <2>3, <2>4, <3>3, <4>1, <4>2 DEF Over
    <3> QED
      BY <2>1, <2>3, <2>4, <3>1, <3>2, <3>4 DEF Over
  <2> QED
    BY <2>1, <2>4, OnceStays
<1>5. ASSUME NEW i \in Ticks, EndWalk(i) \/ WriteBegin(i) \/ WriteEnd(i) \/ Stop(i)
      PROVE  OnceInv'
  <2>1. UNCHANGED <<order, nextRunAt, now, pos, successes, overtaken, crashes, up>>
    BY <1>5 DEF EndWalk, WriteBegin, WriteEnd, Stop
  <2>2. \A k \in Ticks : AtWork(k)' => AtWork(k)
    BY <1>0, <1>5 DEF EndWalk, WriteBegin, WriteEnd, Stop, AtWork
  <2>3. Awaiting' \subseteq Awaiting
    BY <1>0, <1>5 DEF EndWalk, WriteBegin, WriteEnd, Stop, Awaiting
  <2>5. \A j \in AtJobs : Over(j) => Over(j)'
    BY <2>1, <2>2, <2>3 DEF Over, Job
  <2> QED
    BY <2>1, <2>5, OnceStays
<1> QED
  BY <1>1, <1>2, <1>3, <1>4, <1>5

\* A job starts: it is not one whose time is over.
LEMMA StartOnce ==
    ASSUME AtInv, NEW k \in Ticks, StartRun(k)
    PROVE  OnceInv'
<1>0. /\ pos \in [Ticks -> Nat \ {0}] /\ nextRunAt \in [Jobs -> Int \cup {None}]
      /\ tick \in [Ticks -> {"idle", "walking", "awaiting", "persisting", "writing", "mixed"}]
      /\ AtJobs \subseteq Jobs
  BY DEF AtInv, CronInv, TickTypes, TimeTypes, Timed, Records, AtJobs
<1>1. /\ UNCHANGED <<order, now, pos, successes, overtaken, crashes, up>> /\ Visits(k)
      /\ tick' = [tick EXCEPT ![k] = "awaiting"] /\ Due(Job(k), now[k])
      /\ nextRunAt' = [nextRunAt EXCEPT ![Job(k)] = Armed(Job(k), now[k])]
  BY DEF StartRun, procVars
<1>2. AtWork(k) /\ \A i \in Ticks : AtWork(i)' => AtWork(i)
  BY <1>0, <1>1, NoneAssumption DEF AtInv, CronInv, ThreadWalks, Visits, AtWork
<1>4. ASSUME NEW j \in AtJobs, Over(j) PROVE Over(j)'
  <2>1. Job(k) # j
    BY <1>1, <1>4, OverIsSkipped DEF Due
  <2>2. nextRunAt'[j] = None
    BY <1>0, <1>1, <1>4, <2>1 DEF Over
  <2>3. Awaiting' \subseteq Awaiting \cup {k} /\ \A i \in Ticks : Job(i)' = Job(i)
    BY <1>0, <1>1 DEF Awaiting, Job
  <2>4. \A i \in Awaiting' : Job(i)' # j
    BY <1>4, <2>1, <2>3 DEF Over, Awaiting
  <2>5. \A i \in Ticks : AtWork(i)' =>
            now'[i] > Span[j] \/ \A n \in DOMAIN order' : n >= pos'[i] => order'[n] # j
    BY <1>1, <1>2, <1>4 DEF Over
  <2>6. \E i \in Ticks : now'[i] >= Span[j]
    BY <1>1, <1>4 DEF Over
  <2> QED
    BY <2>2, <2>4, <2>5, <2>6 DEF Over
<1> QED
  BY <1>1, <1>4, OnceStays

\* A job ends: an "at" job that succeeded has no time any more, and unless it is overtaken
\* every tick at work has passed it or is too late to find a time for it.
LEMMA EndOnce ==
    ASSUME AtInv, NEW k \in Ticks, RunSucceeds(k) \/ RunFails(k)
    PROVE  OnceInv'
<1>0. /\ order \in Seq(Jobs) /\ pos \in [Ticks -> Nat \ {0}] /\ now \in [Ticks -> Int]
      /\ nextRunAt \in [Jobs -> Int \cup {None}] /\ AtJobs \subseteq Jobs
      /\ tick \in [Ticks -> {"idle", "walking", "awaiting", "persisting", "writing", "mixed"}]
      /\ successes \in [Jobs -> Nat] /\ crashes \in Nat /\ Span \in [Jobs -> Nat]
  BY SpanAssumption
     DEF AtInv, CronInv, SoundRecords, TickTypes, TimeTypes, Timed, Records, AtJobs
<1>1. /\ UNCHANGED <<order, now, crashes, up>> /\ pos' = [pos EXCEPT ![k] = @ + 1]
      /\ tick' = [tick EXCEPT ![k] = "walking"] /\ k \in Awaiting
      /\ \A j \in Jobs : j # Job(k) => nextRunAt'[j] = nextRunAt[j] /\ successes'[j] = successes[j]
  BY <1>0 DEF RunSucceeds, RunFails, Continue, procVars, Awaiting
<1>2. pos[k] \in DOMAIN order /\ Job(k) \in Jobs /\ AtWork(k) /\ up
  BY <1>1, VisitedJob DEF AtInv, CronInv, ThreadWalks, AtWork, Awaiting
<1>3. /\ \A i \in Ticks : AtWork(i)' => AtWork(i)
      /\ \A i \in Ticks : i # k => pos'[i] = pos[i]
      /\ pos'[k] = pos[k] + 1 /\ DOMAIN order \subseteq Nat
  BY <1>0, <1>1, <1>2 DEF AtWork
<1>4. /\ Awaiting' = Awaiting \ {k} /\ \A i \in Awaiting' : Job(i)' = Job(i)
      /\ \A i \in Awaiting' : Job(i) # Job(k)
  <2>1. Awaiting' = Awaiting \ {k}
    BY <1>0, <1>1 DEF Awaiting
  <2>2. \A i \in Awaiting' : Job(i)' = Job(i)
    BY <1>1, <1>3, <2>1 DEF Job, Awaiting
  <2>3. \A i \in Awaiting' : Job(i) # Job(k)
    BY <1>1, <2>1 DEF AtInv, CronInv, OneRunPerJob
  <2> QED
    BY <2>1, <2>2, <2>3
<1>5. overtaken \subseteq overtaken'
  BY DEF RunSucceeds, RunFails
<1>6. ASSUME NEW j \in AtJobs \ overtaken'
      PROVE  successes'[j] <= 1 + crashes /\ (successes'[j] > crashes => Over(j)')
  <2>1. CASE j # Job(k)
    <3>1. successes'[j] = successes[j] /\ nextRunAt'[j] = nextRunAt[j]
      BY <1>0, <1>1, <2>1
    <3>2. ASSUME Over(j) PROVE Over(j)'
      <4>1. ASSUME NEW i \in Ticks, AtWork(i)
            PROVE  now[i] > Span[j] \/ \A n \in DOMAIN order : n >= pos'[i] => order[n] # j
        <5>1. now[i] > Span[j] \/ \A n \in DOMAIN order : n >= pos[i] => order[n] # j
          BY <3>2, <4>1 DEF Over
        <5>2. pos[i] \in Nat /\ (pos'[i] = pos[i] \/ pos'[i] = pos[i] + 1)
          BY <1>0, <1>3
        <5>3. \A n \in DOMAIN order : n >= pos'[i] => n >= pos[i]
          BY <1>3, <5>2
        <5> QED
          BY <5>1, <5>3
      <4>2. \A i \in Awaiting' : Job(i)' # j
        BY <1>4, <3>2 DEF Over
      <4> QED
        BY <1>1, <1>3, <3>1, <3>2, <4>1, <4>2 DEF Over
    <3>3. j \notin overtaken
      BY <1>5
    <3> QED
      BY <3>1, <3>2, <3>3 DEF AtInv, OnceInv
  <2>2. CASE j = Job(k)
    <3>1. ~Over(j)
      BY <1>1, <2>2 DEF Over
    <3>2. successes[j] <= crashes
      BY <1>0, <1>5, <3>1 DEF AtInv, OnceInv
    <3>3. CASE RunFails(k)
      BY <1>0, <3>2, <3>3 DEF RunFails
    <3>4. CASE RunSucceeds(k)
      <4>1. successes'[j] = successes[j] + 1
        BY <1>0, <2>2, <3>4 DEF RunSucceeds
      <4>2. now[k] >= Span[j]
        BY <1>1, <2>2 DEF AtInv, Started
      <4>3. nextRunAt'[j] = None
        <5>1. ComputeNextRun(j, now[k]) = None
          BY <1>0, <4>2, NextRunType
        <5> QED
          BY <1>0, <2>2, <3>4, <5>1 DEF RunSucceeds
      <4>4. \A n \in DOMAIN order : n >= pos'[k] => order[n] # j
        <5>1. pos'[k] = pos[k] + 1 /\ DOMAIN order \subseteq Nat /\ order[pos[k]] = j
          BY <1>0, <1>1, <2>2 DEF Job
        <5>2. \A n \in DOMAIN order : order[n] = j => n = pos[k]
          BY <1>2, <5>1 DEF AtInv, CronInv, SoundRecords, Distinct
        <5> QED
          BY <1>0, <5>1, <5>2
      <4>5. ~Overtakes(k)
        BY <2>2, <3>4 DEF RunSucceeds
      <4>6. ASSUME NEW i \in Ticks, AtWork(i)', now[i] <= Span[j]
            PROVE  \A n \in DOMAIN order : n >= pos'[i] => order[n] # j
        <5>1. CASE i = k
          BY <4>4, <5>1
        <5>2. CASE i # k
          <6>1. AtWork(i) /\ pos'[i] = pos[i]
            BY <1>3, <4>6, <5>2
          <6>2. ~(pos[i] <= pos[k])
            BY <2>2, <4>5, <4>6, <5>2, <6>1 DEF Overtakes, AtJobs, AtWork
          <6>3. \A n \in DOMAIN order : order[n] = j => n = pos[k]
            BY <1>2, <2>2 DEF AtInv, CronInv, SoundRecords, Distinct, Job
          <6> QED
            BY <1>0, <1>3, <6>1, <6>2, <6>3
        <5> QED
          BY <5>1, <5>2
      <4>7. \A i \in Ticks : AtWork(i)' =>
                now'[i] > Span[j] \/ \A n \in DOMAIN order' : n >= pos'[i] => order'[n] # j
        <5>1. now' = now /\ order' = order /\ \A i \in Ticks : now[i] \in Int /\ Span[j] \in Int
          BY <1>0, <1>1
        <5>2. \A i \in Ticks : now[i] > Span[j] \/ now[i] <= Span[j]
          BY <5>1
        <5> QED
          BY <4>6, <5>1, <5>2
      <4>8. \A i \in Awaiting' : Job(i)' # j
        BY <1>4, <2>2
      <4>9. \E i \in Ticks : now'[i] >= Span[j]
        BY <1>1, <4>2
      <4>10. Over(j)'
        BY <4>3, <4>7, <4>8, <4>9 DEF Over
      <4> QED
        BY <1>0, <3>2, <4>1, <4>10
    <3> QED
      BY <3>3, <3>4
  <2> QED
    BY <2>1, <2>2
<1> QED
  BY <1>1, <1>2, <1>6 DEF OnceInv

\* A death allows for one success more; the next process starts with what is on file.
LEMMA ProcessOnce ==
    ASSUME AtInv, Die \/ Restart
    PROVE  OnceInv'
<1>3. successes \in [Jobs -> Nat] /\ crashes \in Nat /\ AtJobs \subseteq Jobs
  BY DEF AtInv, TimeTypes, AtJobs
<1>4. CASE Die
  <2>1. successes' = successes /\ overtaken' = overtaken /\ crashes' = crashes + 1
    BY <1>4 DEF Die
  <2> QED
    BY <1>3, <2>1 DEF AtInv, OnceInv
<1>5. CASE Restart
  <2>1. successes' = successes /\ overtaken' = overtaken /\ crashes' = crashes /\ ~up
    BY <1>5 DEF Restart, histVars
  <2> QED
    BY <1>3, <2>1 DEF AtInv, OnceInv
<1> QED
  BY <1>4, <1>5

\* An "at" job that succeeded is run again only because a crash or a shutdown lost the
\* record of it, or because a tick as old as its time still had it ahead when it succeeded
\* (CronService.tick, isDue, computeNextRun and loadState), however many ticks overlap,
\* whatever fails and however often it is retried.
THEOREM AtJobsOnce == Spec => []AtJobRepeatsOnlyIfOvertaken
<1>1. Init => AtInv
  <2> SUFFICES ASSUME Init PROVE AtInv
    OBVIOUS
  <2>1. OnceInv
    <3>1. \A j \in AtJobs : successes[j] = 0 /\ crashes = 0
      BY DEF Init, AtJobs
    <3> QED
      BY <3>1 DEF Init, OnceInv
  <2> QED
    BY <2>1, InitCron, InitTimes DEF AtInv
<1>2. AtInv /\ [Next]_vars => AtInv'
  <2> SUFFICES ASSUME AtInv, [Next]_vars PROVE AtInv'
    OBVIOUS
  <2>1. CronInv'
    BY StepKeeps DEF AtInv
  <2>2. CASE \/ Pass \/ \E j \in Jobs : AddJob(j)
             \/ \E k \in Ticks : \/ StartTick(k) \/ SkipRunning(k) \/ SkipNotDue(k) \/ EndWalk(k)
                                 \/ WriteBegin(k) \/ WriteEnd(k) \/ Stop(k)
             \/ UNCHANGED vars
    BY <2>1, <2>2, QuietTimes, QuietOnce DEF AtInv
  <2>3. CASE \E k \in Ticks : StartRun(k)
    BY <2>1, <2>3, StartTimes, StartOnce DEF AtInv
  <2>4. CASE \E k \in Ticks : RunSucceeds(k) \/ RunFails(k)
    BY <2>1, <2>4, EndTimes, EndOnce DEF AtInv
  <2>5. CASE Exit \/ Crash \/ Restart
    BY <2>1, <2>5, ProcessTimes, ProcessOnce DEF AtInv, Exit, Crash
  <2> QED
    BY <2>2, <2>3, <2>4, <2>5 DEF Next, Walk
<1>3. AtInv => AtJobRepeatsOnlyIfOvertaken
  BY DEF AtInv, OnceInv, AtJobRepeatsOnlyIfOvertaken, AtJobs
<1> QED
  BY <1>1, <1>2, <1>3, PTL DEF Spec

-----------------------------------------------------------------------------
\* A time in a later slot is in one that has a greater number.
LEMMA LaterSlot ==
    ASSUME NEW s \in Nat, s > 0, NEW l \in Int, NEW t \in Int, t >= s * (l \div s + 1)
    PROVE  t \div s > l \div s
<1> DEFINE a == l \div s
           b == t \div s
<1>1. a \in Int /\ b \in Int
  OBVIOUS
<1>2. t < s * (b + 1)
  OBVIOUS
<1>3. s * (a + 1) \in Int /\ s * (b + 1) \in Int
  BY <1>1
<1>4. s * (a + 1) < s * (b + 1)
  BY <1>2, <1>3
<1> HIDE DEF a, b
<1>5. a < b
  <2>1. CASE b <= a
    <3>1. a - b \in Nat /\ s * (a - b) >= 0
      BY <1>1, <2>1
    <3>2. s * (a + 1) = s * (b + 1) + s * (a - b)
      BY <1>1
    <3> QED
      BY <1>1, <1>3, <1>4, <3>1, <3>2
  <2> QED
    BY <1>1, <2>1
<1> QED
  BY <1>5 DEF a, b

\* Without deaths: steps at which no job starts or ends.
LEMMA QuietSpaced ==
    ASSUME SpacedInv, MaxCrashes = 0,
           \/ Pass \/ \E j \in Jobs : AddJob(j)
           \/ \E k \in Ticks : \/ StartTick(k) \/ SkipRunning(k) \/ SkipNotDue(k) \/ EndWalk(k)
                               \/ WriteBegin(k) \/ WriteEnd(k) \/ Stop(k)
           \/ Exit \/ Crash \/ Restart
           \/ UNCHANGED vars
    PROVE  /\ UNCHANGED <<up, stopping, attempts, lastStart, running, retries>>
           /\ \A k \in Awaiting' : k \in Awaiting /\ now'[k] = now[k] /\ Job(k)' = Job(k)
           /\ \A j \in Jobs : lastStart[j] # None /\ nextRunAt[j] # None => nextRunAt'[j] = nextRunAt[j]
           /\ CronInv' /\ TimeTypes' /\ Started'
<1> USE DEF recVars, tickVars, histVars, procVars
<1>0. /\ order \in Seq(Jobs) /\ pos \in [Ticks -> Nat \ {0}] /\ now \in [Ticks -> Int]
      /\ tick \in [Ticks -> {"idle", "walking", "awaiting", "persisting", "writing", "mixed"}]
      /\ nextRunAt \in [Jobs -> Int \cup {None}] /\ crashes \in Nat
      /\ \A k \in Awaiting : pos[k] \in DOMAIN order
  BY DEF SpacedInv, CronInv, SoundRecords, TickTypes, TimeTypes, Timed, Records, AwaitsAJob
<1>1. up /\ stopping = None /\ ~(crashes < MaxCrashes)
  BY <1>0 DEF SpacedInv
<1>2. ~(\E k \in Ticks : Stop(k)) /\ ~Exit /\ ~Crash /\ ~Restart
  BY <1>1 DEF Stop, Exit, Crash, Restart
<1>3. CronInv' /\ TimeTypes' /\ Started'
  <2>1. [Next]_vars
    BY <1>2 DEF Next, Walk
  <2> QED
    BY <1>2, <2>1, StepKeeps, QuietTimes DEF SpacedInv
<1>4. UNCHANGED <<up, stopping, attempts, lastStart, running, retries>>
  BY <1>2 DEF Pass, AddJob, StartTick, SkipRunning, SkipNotDue, EndWalk, WriteBegin, WriteEnd, vars
<1>5. \A j \in Jobs : lastStart[j] # None /\ nextRunAt[j] # None => nextRunAt'[j] = nextRunAt[j]
  <2>1. ASSUME NEW i \in Jobs, AddJob(i)
        PROVE  \A j \in Jobs : lastStart[j] # None => nextRunAt'[j] = nextRunAt[j]
    BY <1>0, <2>1 DEF AddJob, SpacedInv, Started
  <2>2. ASSUME NEW k \in Ticks, SkipNotDue(k)
        PROVE  \A j \in Jobs : nextRunAt[j] # None => nextRunAt'[j] = nextRunAt[j]
    BY <1>0, <2>2 DEF SkipNotDue, Armed
  <2> QED
    BY <1>2, <2>1, <2>2 DEF Pass, StartTick, SkipRunning, EndWalk, WriteBegin, WriteEnd, vars
<1>6. \A k \in Awaiting' : k \in Awaiting /\ now'[k] = now[k] /\ Job(k)' = Job(k)
  <2>1. CASE Pass \/ UNCHANGED vars
    BY <2>1 DEF Pass, vars, Awaiting, Job
  <2>2. ASSUME NEW j \in Jobs, AddJob(j)
        PROVE  \A k \in Awaiting' : k \in Awaiting /\ now'[k] = now[k] /\ Job(k)' = Job(k)
    <3>1. \A i \in DOMAIN order : Append(order, j)[i] = order[i]
      BY <1>0
    <3> QED
      BY <1>0, <2>2, <3>1 DEF AddJob, Awaiting, Job
  <2>3. ASSUME NEW k \in Ticks, StartTick(k)
        PROVE  \A i \in Awaiting' : i \in Awaiting /\ now'[i] = now[i] /\ Job(i)' = Job(i)
    BY <1>0, <2>3 DEF StartTick, Awaiting, Job
  <2>4. ASSUME NEW k \in Ticks, SkipRunning(k) \/ SkipNotDue(k) \/ EndWalk(k)
        PROVE  \A i \in Awaiting' : i \in Awaiting /\ now'[i] = now[i] /\ Job(i)' = Job(i)
    <3>1. tick[k] = "walking"
      BY <2>4, NoneAssumption
         DEF SkipRunning, SkipNotDue, EndWalk, Visits, SpacedInv, CronInv, ThreadWalks
    <3> QED
      BY <1>0, <2>4, <3>1 DEF SkipRunning, SkipNotDue, EndWalk, Awaiting, Job
  <2>5. ASSUME NEW k \in Ticks, WriteBegin(k) \/ WriteEnd(k)
        PROVE  \A i \in Awaiting' : i \in Awaiting /\ now'[i] = now[i] /\ Job(i)' = Job(i)
    BY <1>0, <2>5 DEF WriteBegin, WriteEnd, Writers, Awaiting, Job
  <2> QED
    BY <1>2, <2>1, <2>2, <2>3, <2>4, <2>5
<1> QED
  BY <1>3, <1>4, <1>5, <1>6

\* What holds of the next start holds while the job's record is the same.
LEMMA FitsStays ==
    ASSUME SpacedInv, NEW j \in Jobs, NextFits(j), lastStart[j] # None,
           lastStart'[j] = lastStart[j], retries'[j] = retries[j],
           nextRunAt[j] # None => nextRunAt'[j] = nextRunAt[j]
    PROVE  NextFits(j)'
<1>1. /\ lastStart[j] \in Int /\ Span[j] \in Nat \ {0} /\ retries[j] \in 0..MaxRetries
      /\ MaxRetries \in Nat
  BY SpanAssumption, LimitsAssumption DEF SpacedInv, TimeTypes, Timed, Records
<1>2. retries[j] > 0 => Delay[retries[j] - 1] \in Nat
  BY <1>1, DelayType
<1>3. lastStart[j] + Span[j] # None /\ Span[j] * (lastStart[j] \div Span[j] + 1) # None
  <2>1. lastStart[j] \div Span[j] \in Int
    BY <1>1
  <2> QED
    BY <1>1, <2>1, NoneAssumption
<1>4. retries[j] > 0 => lastStart[j] + Delay[retries[j] - 1] # None
  BY <1>1, <1>2, NoneAssumption
<1> QED
  BY <1>3, <1>4 DEF NextFits

\* A job starts: its time, which is apart from the last start, has come.
LEMMA StartSpaced ==
    ASSUME SpacedInv, NEW k \in Ticks, StartRun(k)
    PROVE  SpacedInv' /\ StartsAreSpaced
<1>1. /\ UNCHANGED <<order, now, pos, retries, up, stopping>> /\ Visits(k)
      /\ ~running[Job(k)] /\ running' = [running EXCEPT ![Job(k)] = TRUE]
      /\ tick' = [tick EXCEPT ![k] = "awaiting"] /\ Due(Job(k), now[k])
      /\ nextRunAt' = [nextRunAt EXCEPT ![Job(k)] = Armed(Job(k), now[k])]
      /\ lastStart' = [lastStart EXCEPT ![Job(k)] = now[k]]
      /\ attempts' = [attempts EXCEPT ![Job(k)] = @ + 1]
  BY DEF StartRun, procVars
<1>2. pos[k] \in DOMAIN order /\ Job(k) \in Jobs
  BY <1>1, VisitedJob DEF SpacedInv
<1>3. /\ now \in [Ticks -> Int] /\ nextRunAt \in [Jobs -> Int \cup {None}]
      /\ lastStart \in [Jobs -> Int \cup {None}] /\ running \in [Jobs -> BOOLEAN]
      /\ attempts \in [Jobs -> Nat]
      /\ tick \in [Ticks -> {"idle", "walking", "awaiting", "persisting", "writing", "mixed"}]
  BY DEF SpacedInv, CronInv, SoundRecords, TickTypes, TimeTypes, Timed, Records
<1>4. CronInv' /\ TimeTypes' /\ Started'
  <2>1. [Next]_vars
    BY DEF Next, Walk
  <2> QED
    BY <2>1, StepKeeps, StartTimes DEF SpacedInv
<1>5. \A i \in Awaiting' : lastStart'[Job(i)'] = now'[i]
  <2>1. Awaiting' = Awaiting \cup {k} /\ \A i \in Ticks : Job(i)' = Job(i)
    BY <1>1, <1>3 DEF Awaiting, Job
  <2>2. \A i \in Awaiting : Job(i) # Job(k) /\ Job(i) \in Jobs /\ i \in Ticks
    BY <1>1, VisitedJob DEF SpacedInv, CronInv, OneRunPerJob, Awaiting
  <2> QED
    BY <1>1, <1>2, <1>3, <2>1, <2>2 DEF SpacedInv
<1>6. ASSUME NEW j \in Jobs PROVE running'[j] \/ lastStart'[j] = None \/ NextFits(j)'
  <2>1. CASE j = Job(k)
    BY <1>1, <1>3, <2>1
  <2>2. CASE j # Job(k)
    <3>1. nextRunAt'[j] = nextRunAt[j] /\ lastStart'[j] = lastStart[j] /\ running'[j] = running[j]
          /\ retries'[j] = retries[j]
      BY <1>1, <1>2, <1>3, <2>2
    <3> QED
      BY <3>1 DEF SpacedInv, NextFits
  <2> QED
    BY <2>1, <2>2
<1>7. SpacedInv'
  BY <1>1, <1>4, <1>5, <1>6 DEF SpacedInv
<1>8. ASSUME NEW j \in Jobs, attempts'[j] # attempts[j], lastStart[j] # None PROVE Spaced(j)
  <2>1. j = Job(k) /\ lastStart'[j] = now[k]
    BY <1>1, <1>2, <1>3, <1>8
  <2>2. NextFits(j)
    BY <1>1, <1>8, <2>1 DEF SpacedInv
  <2>3. /\ lastStart[j] \in Int /\ now[k] \in Int /\ Span[j] \in Nat \ {0}
        /\ retries[j] \in 0..MaxRetries /\ MaxRetries \in Nat
    BY <1>3, <1>8, SpanAssumption, LimitsAssumption DEF SpacedInv, TimeTypes, Timed, Records
  <2>4. ASSUME nextRunAt[j] # None PROVE now[k] >= nextRunAt[j]
    BY <1>1, <2>1, <2>4 DEF Due, Armed
  <2>5. CASE retries[j] > 0
    <3>1. Delay[retries[j] - 1] \in Nat
      BY <2>3, <2>5, DelayType
    <3>2. nextRunAt[j] = lastStart[j] + Delay[retries[j] - 1] /\ nextRunAt[j] # None
      BY <2>2, <2>3, <2>5, <3>1, NoneAssumption DEF NextFits
    <3> QED
      BY <2>1, <2>3, <2>4, <2>5, <3>2 DEF Spaced
  <2>6. CASE retries[j] = 0 /\ JobType[j] = "every"
    <3>1. nextRunAt[j] = lastStart[j] + Span[j] /\ nextRunAt[j] # None
      BY <2>2, <2>3, <2>6, NoneAssumption DEF NextFits
    <3> QED
      BY <2>1, <2>4, <2>6, <3>1 DEF Spaced
  <2>7. CASE retries[j] = 0 /\ JobType[j] = "cron"
    <3>1. lastStart[j] \div Span[j] \in Int
      BY <2>3
    <3>2. nextRunAt[j] = Span[j] * (lastStart[j] \div Span[j] + 1) /\ nextRunAt[j] # None
      BY <2>2, <2>3, <2>7, <3>1, NoneAssumption DEF NextFits
    <3>3. now[k] >= Span[j] * (lastStart[j] \div Span[j] + 1)
      BY <2>4, <3>2
    <3>4. now[k] \div Span[j] > lastStart[j] \div Span[j]
      BY <2>3, <3>3, LaterSlot
    <3> QED
      BY <2>1, <2>7, <3>4 DEF Spaced
  <2>8. CASE retries[j] = 0 /\ JobType[j] = "at"
    BY <2>8 DEF Spaced
  <2>9. JobType[j] \in {"at", "every", "cron"}
    BY TypesAssumption
  <2> QED
    BY <2>3, <2>5, <2>6, <2>7, <2>8, <2>9
<1> QED
  BY <1>7, <1>8 DEF StartsAreSpaced

\* A job ends: its next time is reckoned from the time it was started at.
LEMMA EndSpaced ==
    ASSUME SpacedInv, NEW k \in Ticks, RunSucceeds(k) \/ RunFails(k)
    PROVE  SpacedInv' /\ StartsAreSpaced
<1>1. /\ UNCHANGED <<order, now, up, stopping, attempts, lastStart>> /\ k \in Awaiting
      /\ pos' = [pos EXCEPT ![k] = @ + 1]
      /\ tick' = [tick EXCEPT ![k] = "walking"]
      /\ running' = [running EXCEPT ![Job(k)] = FALSE]
  BY DEF RunSucceeds, RunFails, Continue, procVars, Awaiting
<1>2. /\ Job(k) \in Jobs /\ lastStart[Job(k)] = now[k] /\ now[k] \in Int
      /\ retries[Job(k)] \in 0..MaxRetries /\ MaxRetries \in Nat
  BY <1>1, VisitedJob, LimitsAssumption DEF SpacedInv, TimeTypes, Timed, Records
<1>3. /\ nextRunAt \in [Jobs -> Int \cup {None}] /\ running \in [Jobs -> BOOLEAN]
      /\ retries \in [Jobs -> 0..MaxRetries] /\ pos \in [Ticks -> Nat \ {0}]
      /\ tick \in [Ticks -> {"idle", "walking", "awaiting", "persisting", "writing", "mixed"}]
  BY DEF SpacedInv, CronInv, SoundRecords, TickTypes, TimeTypes, Timed, Records
<1>4. CronInv' /\ TimeTypes' /\ Started'
  <2>1. [Next]_vars
    BY DEF Next
  <2> QED
    BY <2>1, StepKeeps, EndTimes DEF SpacedInv
<1>5. \A i \in Awaiting' : lastStart'[Job(i)'] = now'[i]
  <2>1. Awaiting' = Awaiting \ {k}
    BY <1>1, <1>3 DEF Awaiting
  <2>2. \A i \in Awaiting' : Job(i)' = Job(i)
    BY <1>1, <1>3, <2>1 DEF Awaiting, Job
  <2> QED
    BY <1>1, <2>1, <2>2 DEF SpacedInv
<1>6. ASSUME NEW j \in Jobs, j = Job(k) PROVE NextFits(j)'
  <2>1. CASE RunFails(k) /\ retries[j] + 1 <= MaxRetries
    <3>1. retries'[j] = retries[j] + 1 /\ nextRunAt'[j] = now[k] + Delay[retries[j]]
      BY <1>2, <1>3, <1>6, <2>1 DEF RunFails
    <3>2. retries'[j] > 0 /\ retries'[j] - 1 = retries[j]
      BY <1>2, <1>6, <3>1
    <3> QED
      BY <1>1, <1>2, <1>6, <3>1, <3>2 DEF NextFits
  <2>2. CASE RunSucceeds(k) \/ (RunFails(k) /\ retries[j] + 1 > MaxRetries)
    <3>1. retries'[j] = 0 /\ nextRunAt'[j] = ComputeNextRun(j, now[k])
      BY <1>2, <1>3, <1>6, <2>2 DEF RunSucceeds, RunFails
    <3>2. lastStart'[j] = now[k]
      BY <1>1, <1>2, <1>6
    <3>3. /\ JobType[j] = "every" => nextRunAt'[j] = now[k] + Span[j]
          /\ JobType[j] = "cron" => nextRunAt'[j] = Span[j] * (now[k] \div Span[j] + 1)
      BY <1>2, <3>1, NextRunType
    <3> QED
      BY <3>1, <3>2, <3>3 DEF NextFits
  <2> QED
    BY <1>2, <1>6, <2>1, <2>2
<1>7. ASSUME NEW j \in Jobs, j # Job(k) PROVE running'[j] \/ lastStart'[j] = None \/ NextFits(j)'
  <2>1. nextRunAt'[j] = nextRunAt[j] /\ retries'[j] = retries[j] /\ running'[j] = running[j]
    BY <1>1, <1>2, <1>3, <1>7 DEF RunSucceeds, RunFails
  <2> QED
    BY <1>1, <2>1 DEF SpacedInv, NextFits
<1>8. \A j \in Jobs : running'[j] \/ lastStart'[j] = None \/ NextFits(j)'
  BY <1>6, <1>7
<1> QED
  BY <1>1, <1>4, <1>5, <1>8 DEF SpacedInv, StartsAreSpaced

\* Two starts of a job are apart: a retry waits for the backoff, which doubles, a
\* later round of an "every" job for its period, of a "cron" job for the next slot,
\* however many ticks overlap and in whatever order they reach the job
\* (CronService.tick), as long as the process lives.
THEOREM SpacedStarts == MaxCrashes = 0 => (Spec => StartsSpaced)
<1> SUFFICES ASSUME MaxCrashes = 0 PROVE Spec => StartsSpaced
  OBVIOUS
<1>1. Init => SpacedInv
  <2> SUFFICES ASSUME Init PROVE SpacedInv
    OBVIOUS
  <2>1. Awaiting = {} /\ up /\ stopping = None /\ \A j \in Jobs : lastStart[j] = None
    BY DEF Init, Awaiting
  <2> QED
    BY <2>1, InitCron, InitTimes DEF SpacedInv
<1>2. SpacedInv /\ [Next]_vars => SpacedInv' /\ StartsAreSpaced
  <2> SUFFICES ASSUME SpacedInv, [Next]_vars PROVE SpacedInv' /\ StartsAreSpaced
    OBVIOUS
  <2>1. CASE \/ Pass \/ \E j \in Jobs : AddJob(j)
             \/ \E k \in Ticks : \/ StartTick(k) \/ SkipRunning(k) \/ SkipNotDue(k) \/ EndWalk(k)
                                 \/ WriteBegin(k) \/ WriteEnd(k) \/ Stop(k)
             \/ Exit \/ Crash \/ Restart
             \/ UNCHANGED vars
    <3>1. /\ UNCHANGED <<up, stopping, attempts, lastStart, running, retries>>
          /\ \A k \in Awaiting' : k \in Awaiting /\ now'[k] = now[k] /\ Job(k)' = Job(k)
          /\ \A j \in Jobs :
                lastStart[j] # None /\ nextRunAt[j] # None => nextRunAt'[j] = nextRunAt[j]
          /\ CronInv' /\ TimeTypes' /\ Started'
      BY <2>1, QuietSpaced
    <3>2. ASSUME NEW j \in Jobs PROVE running'[j] \/ lastStart'[j] = None \/ NextFits(j)'
      BY <3>1, FitsStays DEF SpacedInv
    <3> QED
      BY <3>1, <3>2 DEF SpacedInv, StartsAreSpaced
  <2>2. CASE \E k \in Ticks : StartRun(k)
    BY <2>2, StartSpaced
  <2>3. CASE \E k \in Ticks : RunSucceeds(k) \/ RunFails(k)
    BY <2>3, EndSpaced
  <2> QED
    BY <2>1, <2>2, <2>3 DEF Next, Walk
<1> QED
  BY <1>1, <1>2, PTL DEF Spec, StartsSpaced
=============================================================================
