----------------------------- MODULE ServiceProofs -----------------------------
(***************************************************************************)
(* Proofs about the components around the turns.  Each is an instance of   *)
(* its module for every value of its constants; no theorem is about two of *)
(* them.                                                                   *)
(***************************************************************************)
EXTENDS ServiceComponents, Inductions

-----------------------------------------------------------------------------
\* Workflow.

\* How many steps are done according to the state file.
OnFile == IF saved \in 0..Steps THEN saved ELSE 0

WorkflowTypes ==
    /\ at \in [Calls -> {"new", "approval", "step", "run", "persist", "write", "over"}]
    /\ completed \in [Calls -> 0..Steps]
    /\ saved \in (0..Steps) \cup {W!Absent, W!Torn}
    /\ kept \in BOOLEAN /\ overlapped \in BOOLEAN
    /\ ran \in [1..Steps -> Nat]
    /\ mishaps \in Nat

\* A call has a step to run, or one it has just run.
Placed ==
    \A c \in Calls :
        /\ at[c] \in {"approval", "run"} => completed[c] < Steps
        /\ at[c] \in {"persist", "write"} => completed[c] > 0

\* The steps after the first n have run only as often as something went wrong.
Owed(n) == \A s \in 1..Steps : s > n => ran[s] <= mishaps

OneAtATime ==
    /\ \A s \in 1..Steps : ran[s] <= 1 + mishaps
    /\ \A c, d \in W!UnderWay : c = d
    /\ kept => OnFile = Steps /\ saved # W!Torn
    /\ W!UnderWay = {} /\ saved # W!Torn => Owed(OnFile)
    /\ \A c \in W!UnderWay :
         /\ Owed(completed[c])
         /\ at[c] \in {"approval", "step", "run"} => OnFile = completed[c] /\ saved # W!Torn
         /\ at[c] = "persist" => ~kept /\ saved # W!Torn /\ OnFile = completed[c] - 1
         /\ at[c] = "write" => ~kept

WorkflowInv == WorkflowTypes /\ Placed /\ (~overlapped => OneAtATime)

\* The types and the places of calls do not depend on what overlaps.
LEMMA WorkflowTyped ==
    ASSUME Steps \in Nat, WorkflowTypes, Placed, W!Next
    PROVE  WorkflowTypes' /\ Placed'
<1> USE DEF WorkflowTypes, Placed, W!Goes, W!Absent, W!Torn, W!UnderWay
<1>1. ASSUME NEW c \in Calls, W!Begin(c) PROVE WorkflowTypes' /\ Placed'
  BY <1>1 DEF W!Begin
<1>2. ASSUME NEW c \in Calls, W!NextStep(c) PROVE WorkflowTypes' /\ Placed'
  BY <1>2 DEF W!NextStep
<1>3. ASSUME NEW c \in Calls, W!Finish(c) PROVE WorkflowTypes' /\ Placed'
  BY <1>3 DEF W!Finish
<1>4. ASSUME NEW c \in Calls, NEW yes \in BOOLEAN, W!Decide(c, yes)
      PROVE WorkflowTypes' /\ Placed'
  BY <1>4 DEF W!Decide
<1>5. ASSUME NEW c \in Calls, NEW yes \in BOOLEAN, W!RunStep(c, yes)
      PROVE WorkflowTypes' /\ Placed'
  <2>1. completed[c] + 1 \in 1..Steps /\ completed[c] \in 0..Steps
    BY <1>5 DEF W!RunStep
  <2>2. ran' \in [1..Steps -> Nat] /\ mishaps' \in Nat
    BY <1>5, <2>1 DEF W!RunStep
  <2>3. CASE yes
    <3>1. completed' \in [Calls -> 0..Steps] /\ completed'[c] > 0
      <4>1. completed' = [completed EXCEPT ![c] = @ + 1]
        BY <1>5, <2>3 DEF W!RunStep
      <4>2. completed \in [Calls -> 0..Steps] /\ completed[c] + 1 \in 0..Steps /\ completed[c] + 1 > 0
        BY <2>1
      <4> QED
        BY <4>1, <4>2
    <3>2. at' = [at EXCEPT ![c] = "persist"]
      BY <1>5, <2>3 DEF W!RunStep
    <3> QED
      BY <1>5, <2>1, <2>2, <2>3, <3>1, <3>2 DEF W!RunStep
  <2>4. CASE ~yes
    BY <1>5, <2>1, <2>2, <2>4 DEF W!RunStep
  <2> QED
    BY <2>3, <2>4
<1>6. ASSUME NEW c \in Calls, W!Persist(c) PROVE WorkflowTypes' /\ Placed'
  BY <1>6 DEF W!Persist
<1>7. ASSUME NEW c \in Calls, W!Write(c) PROVE WorkflowTypes' /\ Placed'
  BY <1>7 DEF W!Write
<1>8. ASSUME W!Stop PROVE WorkflowTypes' /\ Placed'
  <2>1. mishaps' \in Nat
    BY <1>8 DEF W!Stop
  <2>2. \A c \in Calls : at'[c] \in {at[c], "over"}
    BY <1>8 DEF W!Stop
  <2>3. at' \in [Calls -> {"new", "approval", "step", "run", "persist", "write", "over"}]
    BY <1>8 DEF W!Stop
  <2> QED
    BY <1>8, <2>1, <2>2, <2>3 DEF W!Stop
<1> QED
  BY <1>1, <1>2, <1>3, <1>4, <1>5, <1>6, <1>7, <1>8 DEF W!Next

\* Without overlap only one call of a key is between its start and its end, and what
\* it decided on is what the file still owes.
LEMMA WorkflowSerial ==
    ASSUME Steps \in Nat, WorkflowInv, W!Next, ~overlapped'
    PROVE  OneAtATime'
<1> USE DEF WorkflowInv, WorkflowTypes, Placed, OneAtATime, W!Goes, W!Absent, W!Torn, W!UnderWay, Owed, OnFile
<1>0. OneAtATime
  BY DEF W!Next, W!Begin, W!NextStep, W!Finish, W!Decide, W!RunStep, W!Persist, W!Write, W!Stop
<1>1. ASSUME NEW c \in Calls, W!Begin(c) PROVE OneAtATime'
  <2>1. W!UnderWay = {} /\ UNCHANGED <<saved, kept, ran, mishaps>> /\ at[c] = "new"
    BY <1>1 DEF W!Begin
  <2>2. CASE ~kept /\ saved = W!Torn
    <3>1. W!UnderWay' = {}
      BY <1>1, <2>1, <2>2 DEF W!Begin
    <3> QED
      BY <1>0, <2>1, <2>2, <3>1
  <2>3. CASE ~(~kept /\ saved = W!Torn)
    <3>1. W!UnderWay' = {c} /\ at'[c] = "step"
      BY <1>1, <2>1, <2>3 DEF W!Begin
    <3>2. completed'[c] = OnFile /\ saved # W!Torn
      BY <1>0, <1>1, <2>1, <2>3 DEF W!Begin
    <3>3. Owed(OnFile)
      BY <1>0, <2>1, <3>2
    <3> QED
      BY <1>0, <2>1, <3>1, <3>2, <3>3
  <2> QED
    BY <2>2, <2>3
<1>2. ASSUME NEW c \in Calls, W!NextStep(c) PROVE OneAtATime'
  BY <1>0, <1>2 DEF W!NextStep
<1>3. ASSUME NEW c \in Calls, W!Finish(c) PROVE OneAtATime'
  BY <1>0, <1>3 DEF W!Finish
<1>4. ASSUME NEW c \in Calls, NEW yes \in BOOLEAN, W!Decide(c, yes) PROVE OneAtATime'
  BY <1>0, <1>4 DEF W!Decide
<1>5. ASSUME NEW c \in Calls, NEW yes \in BOOLEAN, W!RunStep(c, yes) PROVE OneAtATime'
  <2>1. /\ UNCHANGED <<saved, kept, overlapped>> /\ at[c] = "run"
        /\ ran' = [ran EXCEPT ![completed[c] + 1] = @ + 1]
        /\ completed[c] \in 0..Steps /\ completed[c] + 1 \in 1..Steps
    BY <1>5 DEF W!RunStep
  <2>6. W!UnderWay = {c}
    BY <1>0, <2>1
  <2>7. OnFile = completed[c] /\ saved # W!Torn /\ Owed(completed[c])
    BY <1>0, <2>1, <2>6
  <2>2. ~kept
    BY <1>0, <2>1, <2>7
  <2>3. \A s \in 1..Steps : ran[s] \in Nat /\ (s # completed[c] + 1 => ran'[s] = ran[s])
                              /\ (s = completed[c] + 1 => ran'[s] = ran[s] + 1)
    BY <2>1
  <2>4. CASE yes
    <3>1. /\ mishaps' = mishaps /\ completed'[c] = completed[c] + 1 /\ at'[c] = "persist"
          /\ W!UnderWay' = {c}
      BY <1>5, <2>1, <2>4, <2>6 DEF W!RunStep
    <3> QED
      BY <1>0, <2>1, <2>2, <2>3, <2>6, <2>7, <3>1
  <2>5. CASE ~yes
    <3>1. mishaps' = mishaps + 1 /\ W!UnderWay' = {}
      BY <1>5, <2>1, <2>5, <2>6 DEF W!RunStep
    <3> QED
      BY <1>0, <2>1, <2>2, <2>3, <2>6, <2>7, <3>1
  <2> QED
    BY <2>4, <2>5
<1>6. ASSUME NEW c \in Calls, W!Persist(c) PROVE OneAtATime'
  BY <1>0, <1>6 DEF W!Persist
<1>7. ASSUME NEW c \in Calls, W!Write(c) PROVE OneAtATime'
  BY <1>0, <1>7 DEF W!Write
<1>8. ASSUME W!Stop PROVE OneAtATime'
  BY <1>0, <1>8 DEF W!Stop
<1> QED
  BY <1>1, <1>2, <1>3, <1>4, <1>5, <1>6, <1>7, <1>8 DEF W!Next

\* Under one key a step runs once, and once more for every call that failed in the
\* middle of it or died before its file was written, as long as no two calls of the
\* key are under way at once (WorkflowRuntime.run).
THEOREM StepsOnce ==
    ASSUME Steps \in Nat, MaxMishaps \in Nat
    PROVE  W!Spec => []StepsRunOnce
<1>1. W!Init => WorkflowInv
  <2> SUFFICES ASSUME W!Init PROVE WorkflowInv
    OBVIOUS
  <2>1. WorkflowTypes
    <3>1. 0 \in 0..Steps
      OBVIOUS
    <3>2. completed \in [Calls -> 0..Steps] /\ ran \in [1..Steps -> Nat]
      BY <3>1 DEF W!Init
    <3>3. at \in [Calls -> {"new", "approval", "step", "run", "persist", "write", "over"}]
      BY DEF W!Init
    <3> QED
      BY <3>2, <3>3 DEF W!Init, WorkflowTypes
  <2>3. Placed
    BY DEF W!Init, Placed
  <2>2. OneAtATime
    BY DEF W!Init, OneAtATime, W!UnderWay, Owed, OnFile, W!Absent, W!Torn
  <2> QED
    BY <2>1, <2>2, <2>3 DEF WorkflowInv
<1>2. WorkflowInv /\ [W!Next]_W!workflowVars => WorkflowInv'
  <2>1. CASE W!Next
    BY <2>1, WorkflowTyped, WorkflowSerial DEF WorkflowInv
  <2>2. CASE UNCHANGED W!workflowVars
    BY <2>2 DEF W!workflowVars, WorkflowInv, WorkflowTypes, Placed, OneAtATime, W!UnderWay, Owed, OnFile
  <2> QED
    BY <2>1, <2>2
<1>3. WorkflowInv => StepsRunOnce
  BY DEF WorkflowInv, OneAtATime, StepsRunOnce, W!StepsRunOnce
<1> QED
  BY <1>1, <1>2, <1>3, PTL DEF W!Spec

-----------------------------------------------------------------------------
\* Supervisor.

\* A wrapper that has a server serves, and a waiter without a wrapper is known as an
\* orphan.
SupervisorInv ==
    /\ RecoveryIsNotLost
    /\ server # "off" => wrapper = "serving"
    /\ waiter # "none" => orphaned

\* While the server is marked as down there is something that will end it, unless a
\* waiter has lost its wrapper: whichever of the wrapper, the waiter and the server
\* dies, and at whatever step (scripts/).
THEOREM RecoveryKept == S!Spec => []RecoveryIsNotLost
<1> USE DEF SupervisorInv, RecoveryIsNotLost, S!RecoveryIsNotLost
<1>1. S!Init => SupervisorInv
  BY DEF S!Init
<1>2. SupervisorInv /\ [S!Next]_S!supervisorVars => SupervisorInv'
  <2> SUFFICES ASSUME SupervisorInv, [S!Next]_S!supervisorVars PROVE SupervisorInv'
    OBVIOUS
  <2> USE DEF S!fileVars, S!orphanVars, S!WriteFailure, S!ClearFailure
  <2>1. CASE S!StartWrapper \/ S!Check \/ S!Listen
    BY <2>1 DEF S!StartWrapper, S!Check, S!Listen
  <2>2. CASE S!RequestRestart \/ S!Stop \/ S!Crash \/ S!Delay
    BY <2>2 DEF S!RequestRestart, S!Stop, S!Crash, S!Delay
  <2>3. CASE S!BuildSucceeds \/ S!BuildFails
    BY <2>3 DEF S!BuildSucceeds, S!BuildFails
  <2>4. CASE S!Look
    BY <2>4 DEF S!Look
  <2>5. CASE S!TimeOut
    BY <2>5 DEF S!TimeOut
  <2>6. CASE S!RetrySucceeds \/ S!RetryFails
    BY <2>6 DEF S!RetrySucceeds, S!RetryFails
  <2>7. CASE S!Poll \/ S!RecoverySucceeds \/ S!RecoveryFails \/ S!Break
    BY <2>7 DEF S!Poll, S!RecoverySucceeds, S!RecoveryFails, S!Break
  <2>8. CASE S!Kill
    BY <2>8 DEF S!Kill
  <2>9. CASE S!OrphanEnds \/ S!OrphanLooks \/ S!OrphanRetries
    BY <2>9 DEF S!OrphanEnds, S!OrphanLooks, S!OrphanRetries
  <2>10. CASE UNCHANGED S!supervisorVars
    BY <2>10 DEF S!supervisorVars
  <2> QED
    BY <2>1, <2>2, <2>3, <2>4, <2>5, <2>6, <2>7, <2>8, <2>9, <2>10 DEF S!Next, S!Wrap
<1>3. SupervisorInv => RecoveryIsNotLost
  OBVIOUS
<1> QED
  BY <1>1, <1>2, <1>3, PTL DEF S!Spec
-----------------------------------------------------------------------------
\* ConfigStore.

Configurations == SUBSET (Changes \cup Edits)

ConfigTypes ==
    /\ doing \in [Changes -> {"new", "validating", "preparing", "writing", "done", "failed"}]
    /\ objects \in Seq(Configurations) /\ current \in 1..Len(objects)
    /\ held \in [Changes -> 1..Len(objects)]
    /\ text \in [Changes -> Configurations]
    /\ file \in Configurations
    /\ edited \in SUBSET Edits

\* The file is behind the program only while the one handler under way prepares or
\* writes, and what that one writes is what the program has.  The watcher loads nothing:
\* after a write of the program's own it comes in time to see that it was one.
NothingRaced ==
    /\ \A c, d \in C!InFlight : c = d
    /\ C!InFlight = {} => objects[current] = file
    /\ \A c \in Changes :
         /\ doing[c] = "validating" => objects[current] = file
         /\ doing[c] = "preparing" => held[c] = current
         /\ doing[c] = "writing" => text[c] = objects[current]
    /\ watcher = "off" \/ (watcher = "own" /\ justWrote)

ConfigInv == ConfigTypes /\ (~raced => NothingRaced)

\* Every step keeps the types, what is written being a whole configuration.
LEMMA ConfigTyped == ASSUME ConfigTypes, C!Next PROVE ConfigTypes'
<1> USE DEF ConfigTypes, Configurations, C!Step, C!Races, C!Add, C!Serialize, C!Load
<1>1. ASSUME NEW c \in Changes, C!Patch(c) PROVE ConfigTypes'
  BY <1>1 DEF C!Patch
<1>2. ASSUME NEW c \in Changes, C!PatchBind(c) PROVE ConfigTypes'
  BY <1>2 DEF C!PatchBind
<1>3. ASSUME NEW c \in Changes, C!AddressIsSafe(c) PROVE ConfigTypes'
  BY <1>3 DEF C!AddressIsSafe
<1>4. ASSUME NEW c \in Changes, C!AddressIsNot(c) PROVE ConfigTypes'
  BY <1>4 DEF C!AddressIsNot
<1>5. ASSUME NEW c \in Changes, C!ChangeInPlace(c) PROVE ConfigTypes'
  <2>1. objects[current] \cup {c} \in Configurations
    OBVIOUS
  <2>2. objects' \in Seq(Configurations) /\ Len(objects') = Len(objects)
    BY <1>5, <2>1 DEF C!ChangeInPlace
  <2>3. objects'[current] \in Configurations /\ held' \in [Changes -> 1..Len(objects)]
    BY <1>5, <2>2 DEF C!ChangeInPlace
  <2>4. CASE KindOf[c] = "create"
    BY <1>5, <2>2, <2>3, <2>4 DEF C!ChangeInPlace
  <2>5. CASE KindOf[c] # "create"
    BY <1>5, <2>2, <2>3, <2>5 DEF C!ChangeInPlace
  <2> QED
    BY <2>4, <2>5
<1>6. ASSUME NEW c \in Changes, C!Prepared(c) PROVE ConfigTypes'
  BY <1>6 DEF C!Prepared
<1>7. ASSUME NEW c \in Changes, C!Written(c) PROVE ConfigTypes'
  BY <1>7 DEF C!Written
<1>8. ASSUME NEW c \in Changes, C!WriteFails(c) PROVE ConfigTypes'
  BY <1>8 DEF C!WriteFails
<1>9. ASSUME C!Reload PROVE ConfigTypes'
  BY <1>9 DEF C!Reload
<1>10. ASSUME NEW e \in Edits, C!Edit(e) PROVE ConfigTypes'
  BY <1>10 DEF C!Edit
<1>11. ASSUME C!WatcherFires PROVE ConfigTypes'
  <2>1. CASE justWrote
    BY <1>11, <2>1 DEF C!WatcherFires
  <2>2. CASE ~justWrote
    <3>1. objects' = Append(objects, file) /\ current' = Len(objects')
      BY <1>11, <2>2 DEF C!WatcherFires
    <3>2. objects' \in Seq(Configurations) /\ Len(objects') = Len(objects) + 1
      BY <3>1
    <3>3. current' \in 1..Len(objects') /\ held \in [Changes -> 1..Len(objects')]
      BY <3>1, <3>2
    <3> QED
      BY <1>11, <3>2, <3>3 DEF C!WatcherFires
  <2> QED
    BY <2>1, <2>2
<1>12. ASSUME C!WritePasses PROVE ConfigTypes'
  BY <1>12 DEF C!WritePasses
<1> QED
  BY <1>1, <1>2, <1>3, <1>4, <1>5, <1>6, <1>7, <1>8, <1>9, <1>10, <1>11, <1>12
  DEF C!Next, C!Handle

\* Unless it races, a step leaves memory and file agreeing as far as nobody has a
\* write in hand.
LEMMA ConfigAgrees == ASSUME ConfigInv, C!Next, ~raced' PROVE NothingRaced'
<1> USE DEF ConfigInv, ConfigTypes, Configurations, NothingRaced,
            C!InFlight, C!Step, C!Races, C!Add, C!Serialize, C!Load
<1>0. NothingRaced
  BY DEF C!Next, C!Handle, C!Patch, C!PatchBind, C!AddressIsSafe, C!AddressIsNot,
         C!ChangeInPlace, C!Prepared, C!Written, C!WriteFails, C!Reload, C!Edit,
         C!WatcherFires, C!WritePasses
<1>1. ASSUME NEW c \in Changes, C!Patch(c) PROVE NothingRaced'
  <2>1. C!InFlight = {} /\ C!InFlight' = {c}
    BY <1>1 DEF C!Patch
  <2>2. Len(objects') = Len(objects) + 1 /\ objects'[Len(objects')] = objects[current] \cup {c}
    BY <1>1 DEF C!Patch
  <2>3. objects'[current'] = text'[c] /\ doing'[c] = "writing"
    BY <1>1, <2>2 DEF C!Patch
  <2> QED
    BY <1>0, <1>1, <2>1, <2>3 DEF C!Patch
<1>2. ASSUME NEW c \in Changes, C!PatchBind(c) PROVE NothingRaced'
  <2>1. C!InFlight = {} /\ C!InFlight' = {c} /\ doing'[c] = "validating"
    BY <1>2 DEF C!PatchBind
  <2>2. objects'[current] = objects[current]
    BY <1>2 DEF C!PatchBind
  <2>3. objects'[current'] = file'
    BY <1>0, <1>2, <2>1, <2>2 DEF C!PatchBind
  <2> QED
    BY <1>0, <1>2, <2>1, <2>3 DEF C!PatchBind
<1>3. ASSUME NEW c \in Changes, C!AddressIsSafe(c) PROVE NothingRaced'
  BY <1>0, <1>3 DEF C!AddressIsSafe
<1>4. ASSUME NEW c \in Changes, C!AddressIsNot(c) PROVE NothingRaced'
  BY <1>0, <1>4 DEF C!AddressIsNot
<1>5. ASSUME NEW c \in Changes, C!ChangeInPlace(c) PROVE NothingRaced'
  <2>0. /\ doing' = [doing EXCEPT ![c] = doing'[c]] /\ doing'[c] \in {"preparing", "writing"}
        /\ raced' = (raced \/ C!InFlight # {})
    BY <1>5 DEF C!ChangeInPlace
  <2>1. C!InFlight = {} /\ C!InFlight' = {c}
    BY <2>0
  <2>2. held'[c] = current' /\ (doing'[c] = "writing" => text'[c] = objects'[current'])
    BY <1>5 DEF C!ChangeInPlace
  <2>3. doing'[c] \in {"preparing", "writing"} /\ UNCHANGED <<watcher, justWrote>>
    BY <1>5 DEF C!ChangeInPlace
  <2> QED
    BY <1>0, <2>1, <2>2, <2>3
<1>6. ASSUME NEW c \in Changes, C!Prepared(c) PROVE NothingRaced'
  BY <1>0, <1>6 DEF C!Prepared
<1>7. ASSUME NEW c \in Changes, C!Written(c) PROVE NothingRaced'
  BY <1>0, <1>7 DEF C!Written
<1>8. ASSUME NEW c \in Changes, C!WriteFails(c) PROVE NothingRaced'
  BY <1>0, <1>8 DEF C!WriteFails
<1>9. ASSUME C!Reload PROVE NothingRaced'
  <2>1. C!InFlight = {} /\ C!InFlight' = {}
    BY <1>9 DEF C!Reload
  <2>2. objects'[current'] = file'
    BY <1>9 DEF C!Reload
  <2> QED
    BY <1>0, <1>9, <2>1, <2>2 DEF C!Reload
<1>10. ASSUME NEW e \in Edits, C!Edit(e) PROVE NothingRaced'
  BY <1>0, <1>10 DEF C!Edit
<1>11. ASSUME C!WatcherFires PROVE NothingRaced'
  BY <1>0, <1>11 DEF C!WatcherFires
<1>12. ASSUME C!WritePasses PROVE NothingRaced'
  BY <1>0, <1>12 DEF C!WritePasses
<1> QED
  BY <1>1, <1>2, <1>3, <1>4, <1>5, <1>6, <1>7, <1>8, <1>9, <1>10, <1>11, <1>12
  DEF C!Next, C!Handle

\* When every handler has answered and the watcher rests, the program runs with the
\* configuration of its file, as long as requests came one after another and nobody
\* edited the file (config.patch, the profile methods, index.ts:1135).
THEOREM ConfigurationsAgree == C!Spec => []AgreesUnlessRaced
<1>1. C!Init => ConfigInv
  BY DEF C!Init, ConfigInv, ConfigTypes, Configurations, NothingRaced, C!InFlight
<1>2. ConfigInv /\ [C!Next]_C!configVars => ConfigInv'
  <2>1. CASE C!Next
    BY <2>1, ConfigTyped, ConfigAgrees DEF ConfigInv
  <2>2. CASE UNCHANGED C!configVars
    BY <2>2 DEF C!configVars, ConfigInv, ConfigTypes, Configurations, NothingRaced, C!InFlight
  <2> QED
    BY <2>1, <2>2
<1>3. ConfigInv => AgreesUnlessRaced
  BY DEF ConfigInv, NothingRaced, AgreesUnlessRaced, C!AgreesUnlessRaced,
         C!MemoryAgreesWithFile, C!Quiet
<1> QED
  BY <1>1, <1>2, <1>3, PTL DEF C!Spec
-----------------------------------------------------------------------------
\* IdleReflection.

\* g has the sums of `counts` up to each number of runs left, none less than one
\* before it.
Sums(g, counts, total) ==
    /\ g \in [0..MaxRuns -> Nat]
    /\ g[0] = counts[0]
    /\ \A k \in 1..MaxRuns : g[k] = g[k - 1] + counts[k]
    /\ \A j, k \in 0..MaxRuns : j <= k => g[j] <= g[k]
    /\ g[MaxRuns] = total

IdleInv ==
    /\ scans \in 0..1 /\ runningJobs \in 0..MaxConcurrentJobs
    /\ running \in [0..MaxRuns -> Nat]
    /\ ~failed => scans + runningJobs > 0
    /\ \E g : Sums(g, running, runningJobs)

\* More jobs are under way.
LEMMA SumsGrow ==
    ASSUME MaxRuns \in Nat, NEW f \in [0..MaxRuns -> Nat], NEW total, NEW g, Sums(g, f, total),
           NEW n \in Nat
    PROVE  \E h : Sums(h, [f EXCEPT ![MaxRuns] = @ + n], total + n)
<1> DEFINE h == [g EXCEPT ![MaxRuns] = @ + n]
           e == [f EXCEPT ![MaxRuns] = @ + n]
<1>1. MaxRuns \in 0..MaxRuns /\ g \in [0..MaxRuns -> Nat]
  BY DEF Sums
<1>2. h \in [0..MaxRuns -> Nat] /\ h[MaxRuns] = g[MaxRuns] + n
  BY <1>1
<1>3. \A k \in 0..MaxRuns : k # MaxRuns => h[k] = g[k] /\ e[k] = f[k]
  BY <1>1
<1>4. e[MaxRuns] = f[MaxRuns] + n
  BY <1>1
<1>5. Sums(h, e, total + n)
  <2>1. h[0] = e[0]
    <3>1. CASE MaxRuns = 0
      BY <1>2, <1>4, <3>1 DEF Sums
    <3>2. CASE MaxRuns # 0
      BY <1>3, <3>2 DEF Sums
    <3> QED
      BY <3>1, <3>2
  <2>2. ASSUME NEW k \in 1..MaxRuns PROVE h[k] = h[k - 1] + e[k]
    <3>1. g[k] = g[k - 1] + f[k] /\ h[k - 1] = g[k - 1] /\ f[k] \in Nat /\ g[k - 1] \in Nat
      BY <1>1, <1>3 DEF Sums
    <3> QED
      BY <1>2, <1>3, <1>4, <3>1
  <2>3. ASSUME NEW j \in 0..MaxRuns, NEW k \in 0..MaxRuns, j <= k PROVE h[j] <= h[k]
    <3>1. g[j] <= g[k] /\ g[j] \in Nat /\ g[k] \in Nat
      BY <1>1, <2>3 DEF Sums
    <3>2. h[k] \in {g[k], g[k] + n}
      BY <1>2, <1>3
    <3>3. j # MaxRuns => h[j] = g[j]
      BY <1>3
    <3>4. j = MaxRuns => j = k
      BY <2>3
    <3> QED
      BY <3>1, <3>2, <3>3, <3>4, <1>2
  <2> HIDE DEF h, e
  <2> QED
    BY <1>2, <2>1, <2>2, <2>3 DEF Sums
<1> QED
  BY <1>5

\* A job under way has one run less to do.
LEMMA SumsMove ==
    ASSUME MaxRuns \in Nat, NEW f \in [0..MaxRuns -> Nat], NEW total, NEW g, Sums(g, f, total),
           NEW k \in 1..MaxRuns, f[k] > 0
    PROVE  \E h : Sums(h, [f EXCEPT ![k] = @ - 1, ![k - 1] = @ + 1], total)
<1> DEFINE h == [g EXCEPT ![k - 1] = @ + 1]
           e == [f EXCEPT ![k] = @ - 1, ![k - 1] = @ + 1]
<1>1. k - 1 \in 0..MaxRuns /\ k \in 0..MaxRuns /\ g \in [0..MaxRuns -> Nat]
  BY DEF Sums
<1>2. h \in [0..MaxRuns -> Nat] /\ h[k - 1] = g[k - 1] + 1
  BY <1>1
<1>3. \A i \in 0..MaxRuns : i # k - 1 => h[i] = g[i]
  BY <1>1
<1>4. /\ e[k] = f[k] - 1 /\ e[k - 1] = f[k - 1] + 1
      /\ \A i \in 0..MaxRuns : i # k /\ i # k - 1 => e[i] = f[i]
  BY <1>1
<1>5. g[k - 1] + 1 <= g[k] /\ g[k] = g[k - 1] + f[k]
  BY <1>1 DEF Sums
<1>6. Sums(h, e, total)
  <2>1. h[0] = e[0]
    BY <1>1, <1>2, <1>3, <1>4 DEF Sums
  <2>2. ASSUME NEW i \in 1..MaxRuns PROVE h[i] = h[i - 1] + e[i]
    <3>1. /\ g[i] = g[i - 1] + f[i] /\ i - 1 \in 0..MaxRuns /\ i \in 0..MaxRuns
          /\ f[i] \in Nat /\ g[i - 1] \in Nat /\ g[i] \in Nat
      BY <1>1 DEF Sums
    <3>2. CASE i = k
      BY <1>2, <1>3, <1>4, <1>5, <3>1, <3>2
    <3>3. CASE i = k - 1
      BY <1>2, <1>3, <1>4, <3>1, <3>3
    <3>4. CASE i # k /\ i # k - 1
      BY <1>3, <1>4, <3>1, <3>4
    <3> QED
      BY <3>2, <3>3, <3>4
  <2>3. ASSUME NEW i \in 0..MaxRuns, NEW j \in 0..MaxRuns, i <= j PROVE h[i] <= h[j]
    <3>1. g[i] <= g[j] /\ g[i] \in Nat /\ g[j] \in Nat
      BY <1>1, <2>3 DEF Sums
    <3>2. CASE i # k - 1
      <4>1. h[i] = g[i] /\ h[j] \in {g[j], g[j] + 1}
        BY <1>2, <1>3, <3>2
      <4> HIDE DEF h
      <4> QED
        BY <3>1, <4>1
    <3>3. CASE i = k - 1 /\ j # k - 1
      <4>1. k <= j /\ g[k] <= g[j] /\ g[k] \in Nat /\ g[k - 1] \in Nat
        BY <1>1, <2>3, <3>3 DEF Sums
      <4> QED
        BY <1>2, <1>3, <1>5, <3>3, <4>1
    <3>4. CASE i = k - 1 /\ j = k - 1
      <4>1. i = j /\ h[i] \in Nat
        BY <1>2, <3>4
      <4> HIDE DEF h
      <4> QED
        BY <4>1
    <3> QED
      BY <3>2, <3>3, <3>4
  <2>4. h[MaxRuns] = total
    BY <1>1, <1>3 DEF Sums
  <2> HIDE DEF h, e
  <2> QED
    BY <1>2, <2>1, <2>2, <2>3, <2>4 DEF Sums
<1> QED
  BY <1>6

\* A job that has none left ends.
LEMMA SumsShrink ==
    ASSUME MaxRuns \in Nat, NEW f \in [0..MaxRuns -> Nat], NEW total \in Nat, NEW g,
           Sums(g, f, total), f[0] > 0
    PROVE  total > 0 /\ \E h : Sums(h, [f EXCEPT ![0] = @ - 1], total - 1)
<1> DEFINE h == [k \in 0..MaxRuns |-> g[k] - 1]
           e == [f EXCEPT ![0] = @ - 1]
<1>1. \A k \in 0..MaxRuns : g[k] \in Nat /\ g[k] >= 1
  BY DEF Sums
<1>2. h \in [0..MaxRuns -> Nat] /\ \A k \in 0..MaxRuns : h[k] = g[k] - 1
  BY <1>1
<1>3. e[0] = f[0] - 1 /\ \A k \in 1..MaxRuns : e[k] = f[k]
  OBVIOUS
<1>4. Sums(h, e, total - 1)
  <2>1. h[0] = e[0] /\ h[MaxRuns] = total - 1
    BY <1>2, <1>3 DEF Sums
  <2>2. ASSUME NEW k \in 1..MaxRuns PROVE h[k] = h[k - 1] + e[k]
    <3>1. g[k] = g[k - 1] + f[k] /\ k - 1 \in 0..MaxRuns /\ k \in 0..MaxRuns /\ f[k] \in Nat
      BY DEF Sums
    <3> QED
      BY <1>1, <1>2, <1>3, <3>1
  <2>3. ASSUME NEW j \in 0..MaxRuns, NEW k \in 0..MaxRuns, j <= k PROVE h[j] <= h[k]
    <3>1. g[j] <= g[k]
      BY <2>3 DEF Sums
    <3>2. g[j] \in Nat /\ g[k] \in Nat /\ h[j] = g[j] - 1 /\ h[k] = g[k] - 1
      BY <1>1, <1>2
    <3> HIDE DEF h, e
    <3> QED
      BY <3>1, <3>2
  <2> HIDE DEF h, e
  <2> QED
    BY <1>2, <2>1, <2>2, <2>3 DEF Sums
<1>5. total > 0
  BY <1>1 DEF Sums
<1> QED
  BY <1>4, <1>5

\* The jobs under way are the scans under way, through every step.
LEMMA IdleSteps ==
    ASSUME MaxRuns \in Nat, MaxConcurrentJobs \in Nat, IdleInv, R!Next
    PROVE  IdleInv'
<1>0. PICK g : Sums(g, running, runningJobs)
  BY DEF IdleInv
<1>1. CASE R!Activity
  <2>1. scans' = 1 /\ failed' = FALSE /\ UNCHANGED <<running, runningJobs>>
    BY <1>1 DEF R!Activity, R!Schedule
  <2>2. scans' + runningJobs' > 0
    BY <2>1 DEF IdleInv
  <2> QED
    BY <2>1, <2>2 DEF IdleInv
<1>2. CASE R!Tick
  <2> DEFINE n == IF idleFor < IdleAfter THEN 0
                  ELSE R!Least(scans, MaxConcurrentJobs - runningJobs)
  <2>1. n \in 0..1 /\ n <= scans /\ n <= MaxConcurrentJobs - runningJobs
    BY DEF IdleInv, R!Least
  <2>2. /\ scans' = scans - n /\ runningJobs' = runningJobs + n
        /\ running' = [running EXCEPT ![MaxRuns] = @ + n]
        /\ UNCHANGED failed
    BY <1>2 DEF R!Tick
  <2> HIDE DEF n
  <2>5. running \in [0..MaxRuns -> Nat] /\ n \in Nat
    BY <2>1 DEF IdleInv
  <2>6. \E h : Sums(h, [running EXCEPT ![MaxRuns] = @ + n], runningJobs + n)
    BY <1>0, <2>5, SumsGrow
  <2>3. \E h : Sums(h, running', runningJobs')
    BY <2>2, <2>6
  <2>4. running' \in [0..MaxRuns -> Nat]
    BY <2>1, <2>2 DEF IdleInv
  <2> QED
    BY <2>1, <2>2, <2>3, <2>4 DEF IdleInv
<1>3. CASE R!RunOnce
  <2>1. PICK k \in 1..MaxRuns :
            /\ running[k] > 0
            /\ running' = [running EXCEPT ![k] = @ - 1, ![k - 1] = @ + 1]
            /\ UNCHANGED <<scans, runningJobs, failed>>
    BY <1>3 DEF R!RunOnce
  <2>2. \E h : Sums(h, running', runningJobs')
    BY <1>0, <2>1, SumsMove DEF IdleInv
  <2>3. running' \in [0..MaxRuns -> Nat]
    BY <2>1 DEF IdleInv
  <2> QED
    BY <2>1, <2>2, <2>3 DEF IdleInv
<1>4. CASE R!ScanEnds
  <2>1. /\ running[0] > 0
        /\ running' = [running EXCEPT ![0] = @ - 1]
        /\ runningJobs' = runningJobs - 1
        /\ \/ scans' = 1 /\ UNCHANGED failed
           \/ failed' = TRUE /\ UNCHANGED scans
    BY <1>4 DEF R!ScanEnds, R!Schedule, IdleInv
  <2>4. running \in [0..MaxRuns -> Nat] /\ runningJobs \in Nat
    BY DEF IdleInv
  <2>5. runningJobs > 0 /\ \E h : Sums(h, [running EXCEPT ![0] = @ - 1], runningJobs - 1)
    BY <1>0, <2>1, <2>4, SumsShrink
  <2>2. runningJobs > 0 /\ \E h : Sums(h, running', runningJobs')
    BY <2>1, <2>5
  <2>3. running' \in [0..MaxRuns -> Nat]
    BY <2>1 DEF IdleInv
  <2>6. scans' \in 0..1 /\ runningJobs' \in 0..MaxConcurrentJobs
    BY <2>1, <2>2 DEF IdleInv
  <2>7. ~failed' => scans' + runningJobs' > 0
    BY <2>1, <2>2, <2>6
  <2> QED
    BY <2>2, <2>3, <2>6, <2>7 DEF IdleInv
<1> QED
  BY <1>1, <1>2, <1>3, <1>4 DEF R!Next

\* A scan is queued or under way unless one has failed since the last activity, and
\* there are never more than the queue and the limit allow, for any number of runs
\* and jobs (IdleReflectionScheduler.tick).
THEOREM ScanQueuedOrRunning ==
    ASSUME MaxRuns \in Nat, MaxConcurrentJobs \in Nat
    PROVE  R!Spec => []ScansGoOn
<1>1. R!Init => IdleInv
  <2> SUFFICES ASSUME R!Init PROVE IdleInv
    OBVIOUS
  <2>1. running \in [0..MaxRuns -> Nat] /\ \A k \in 0..MaxRuns : running[k] = 0
    BY DEF R!Init
  <2>2. scans = 1 /\ runningJobs = 0 /\ failed = FALSE
    BY DEF R!Init
  <2>3. Sums(running, running, runningJobs)
    BY <2>1, <2>2 DEF Sums
  <2>4. 0 \in 0..MaxConcurrentJobs /\ scans + runningJobs > 0
    BY <2>2
  <2> QED
    BY <2>1, <2>2, <2>3, <2>4 DEF IdleInv
<1>2. IdleInv /\ [R!Next]_R!idleVars => IdleInv'
  <2>1. CASE R!Next
    BY <2>1, IdleSteps
  <2>2. CASE UNCHANGED R!idleVars
    BY <2>2 DEF R!idleVars, IdleInv
  <2> QED
    BY <2>1, <2>2
<1>3. IdleInv => ScansGoOn
  BY DEF IdleInv, ScansGoOn, R!ScansGoOn
<1> QED
  BY <1>1, <1>2, <1>3, PTL DEF R!Spec
-----------------------------------------------------------------------------
\* LifecycleStream.

StreamTypes ==
    /\ loop \in [Connections -> {"new", "refused", "starting", "taking", "asleep", "woken",
                                 "pausing", "over"}]
    /\ queue \in [Connections -> Seq(Nat)] /\ written \in [Connections -> Seq(Nat)]
    /\ pushed \in Seq(Sessions) /\ since \in [Connections -> Nat]

\* A sequence of numbers has those of a set, each once and in their order.
Lists(s, T) ==
    /\ \A i, j \in DOMAIN s : i < j => s[i] < s[j]
    /\ {s[i] : i \in DOMAIN s} = T

Given(c) == written[c] \o queue[c]
Due(c) == {0} \cup L!Heard(c)

StreamInv ==
    /\ StreamTypes
    /\ \A c \in Connections :
         /\ loop[c] \in {"new", "refused", "starting"} => written[c] = <<>>
         /\ L!Subscribed(c) => Lists(Given(c), Due(c))
         /\ loop[c] = "asleep" => queue[c] = <<>>
         /\ since[c] <= Len(pushed)

\* To take the first of the queue and write it moves nothing.
LEMMA GivenTaken ==
    ASSUME NEW w \in Seq(Nat), NEW q \in Seq(Nat), q # <<>>
    PROVE  /\ Append(w, Head(q)) \o Tail(q) = w \o q
           /\ Head(q) \in Nat /\ Tail(q) \in Seq(Nat)
<1>1. Len(q) \in Nat /\ Len(w) \in Nat /\ Len(q) > 0
  OBVIOUS
<1>2. Head(q) = q[1] /\ Head(q) \in Nat /\ Tail(q) \in Seq(Nat) /\ Len(Tail(q)) = Len(q) - 1
  OBVIOUS
<1> DEFINE a == Append(w, Head(q))
<1>3. a \in Seq(Nat) /\ Len(a) = Len(w) + 1
  BY <1>2
<1>4. Len(a \o Tail(q)) = Len(w) + Len(q) /\ Len(w \o q) = Len(w) + Len(q)
  BY <1>1, <1>2, <1>3
<1>5. ASSUME NEW i \in 1..(Len(w) + Len(q)) PROVE (a \o Tail(q))[i] = (w \o q)[i]
  <2>1. CASE i <= Len(w)
    BY <1>1, <1>2, <1>3, <2>1
  <2>2. CASE i = Len(w) + 1
    BY <1>1, <1>2, <1>3, <2>2
  <2>3. CASE i > Len(w) + 1
    <3>1. i - (Len(w) + 1) \in 1..Len(Tail(q))
      BY <1>1, <1>2, <2>3
    <3>2. Tail(q)[i - (Len(w) + 1)] = q[i - Len(w)]
      BY <1>1, <3>1
    <3>3. (a \o Tail(q))[i] = Tail(q)[i - Len(a)]
      BY <1>1, <1>2, <1>3, <2>3
    <3>4. (w \o q)[i] = q[i - Len(w)]
      BY <1>1, <2>3
    <3> QED
      BY <1>3, <3>2, <3>3, <3>4
  <2>4. i <= Len(w) \/ i = Len(w) + 1 \/ i > Len(w) + 1
    BY <1>1
  <2> QED
    BY <2>1, <2>2, <2>3, <2>4
<1>6. a \o Tail(q) \in Seq(Nat) /\ w \o q \in Seq(Nat)
  BY <1>2, <1>3
<1>7. a \o Tail(q) = w \o q
  <2> DEFINE b == a \o Tail(q)
             d == w \o q
  <2>1. b \in Seq(Nat) /\ d \in Seq(Nat) /\ Len(b) = Len(d)
    BY <1>4, <1>6
  <2>2. \A i \in 1..Len(d) : b[i] = d[i]
    BY <1>4, <1>5
  <2> HIDE DEF b, d
  <2>3. b \in [1..Len(d) -> Nat] /\ d \in [1..Len(d) -> Nat]
    BY <2>1
  <2>4. b = d
    BY <2>2, <2>3
  <2> QED
    BY <2>4 DEF b, d
<1> QED
  BY <1>2, <1>7

\* To push to the queue is to push to what the connection will be given.
LEMMA GivenPushed ==
    ASSUME NEW w \in Seq(Nat), NEW q \in Seq(Nat), NEW n \in Nat
    PROVE  w \o Append(q, n) = Append(w \o q, n)
<1>1. Len(q) \in Nat /\ Len(w) \in Nat /\ Len(Append(q, n)) = Len(q) + 1
  OBVIOUS
<1>2. Append(q, n) \in Seq(Nat) /\ w \o q \in Seq(Nat) /\ Len(w \o q) = Len(w) + Len(q)
  OBVIOUS
<1>3. Len(w \o Append(q, n)) = Len(w) + Len(q) + 1 /\ Len(Append(w \o q, n)) = Len(w) + Len(q) + 1
  BY <1>1, <1>2
<1>4. ASSUME NEW i \in 1..(Len(w) + Len(q) + 1)
      PROVE  (w \o Append(q, n))[i] = Append(w \o q, n)[i]
  <2>1. CASE i <= Len(w)
    BY <1>1, <1>2, <2>1
  <2>2. CASE i = Len(w) + Len(q) + 1
    <3>1. (w \o Append(q, n))[i] = Append(q, n)[Len(q) + 1]
      BY <1>1, <1>2, <2>2
    <3> QED
      BY <1>1, <1>2, <2>2, <3>1
  <2>3. CASE i > Len(w) /\ i # Len(w) + Len(q) + 1
    <3>1. i - Len(w) \in 1..Len(q)
      <4>1. i \in Nat /\ i <= Len(w) + Len(q)
        BY <1>1, <2>3
      <4> QED
        BY <1>1, <2>3, <4>1
    <3>2. (w \o Append(q, n))[i] = Append(q, n)[i - Len(w)] /\ (w \o q)[i] = q[i - Len(w)]
      <4>1. i \in 1..(Len(w) + Len(q)) /\ i \in 1..(Len(w) + Len(Append(q, n))) /\ ~(i <= Len(w))
        BY <1>1, <2>3
      <4>2. (w \o Append(q, n))[i] = Append(q, n)[i - Len(w)]
        BY <1>1, <1>2, <4>1
      <4>3. (w \o q)[i] = q[i - Len(w)]
        BY <1>1, <4>1
      <4> QED
        BY <4>2, <4>3
    <3>3. Append(q, n)[i - Len(w)] = q[i - Len(w)]
      BY <1>1, <3>1
    <3>4. Append(w \o q, n)[i] = (w \o q)[i]
      BY <1>1, <1>2, <2>3
    <3> QED
      BY <3>2, <3>3, <3>4
  <2> QED
    BY <1>1, <2>1, <2>2, <2>3
<1>5. w \o Append(q, n) \in Seq(Nat) /\ Append(w \o q, n) \in Seq(Nat)
  BY <1>2
<1> QED
  BY <1>3, <1>4, <1>5

\* A number above all of a list goes to its end.
LEMMA ListsAppend ==
    ASSUME NEW s \in Seq(Nat), NEW T, Lists(s, T), NEW n \in Nat, \A x \in T : x < n
    PROVE  Lists(Append(s, n), T \cup {n})
<1>1. Len(s) \in Nat /\ DOMAIN s = 1..Len(s)
  OBVIOUS
<1> DEFINE t == Append(s, n)
<1>2. DOMAIN t = (1..Len(s)) \cup {Len(s) + 1} /\ t[Len(s) + 1] = n
  BY <1>1
<1>3. \A i \in 1..Len(s) : t[i] = s[i] /\ s[i] \in T
  BY <1>1 DEF Lists
<1> HIDE DEF t
<1>4. {t[i] : i \in DOMAIN t} = T \cup {n}
  BY <1>1, <1>2, <1>3 DEF Lists
<1>5. ASSUME NEW i \in DOMAIN t, NEW j \in DOMAIN t, i < j PROVE t[i] < t[j]
  <2>1. i \in 1..Len(s)
    BY <1>1, <1>2, <1>5
  <2>2. CASE j \in 1..Len(s)
    BY <1>1, <1>3, <1>5, <2>1, <2>2 DEF Lists
  <2>3. CASE j = Len(s) + 1
    BY <1>2, <1>3, <2>1, <2>3
  <2> QED
    BY <1>2, <2>2, <2>3
<1> QED
  BY <1>4, <1>5 DEF Lists, t

\* Every step of the gateway, the stream and the browser keeps what is given.
LEMMA StreamSteps == ASSUME StreamInv, L!Next PROVE StreamInv'
<1> USE DEF StreamInv, StreamTypes
<1> DEFINE Kept(c) == /\ loop'[c] \in {"new", "refused", "starting"} => written'[c] = <<>>
                      /\ L!Subscribed(c)' => Lists(Given(c)', Due(c)')
                      /\ loop'[c] = "asleep" => queue'[c] = <<>>
                      /\ since'[c] <= Len(pushed')
<1>1. ASSUME NEW c \in Connections, L!Connect(c) PROVE StreamInv'
  <2>1. loop' \in [Connections -> {"new", "refused", "starting", "taking", "asleep", "woken",
                                   "pausing", "over"}]
        /\ loop'[c] \in {"refused", "starting"}
        /\ \A d \in Connections : d # c => loop'[d] = loop[d]
    BY <1>1 DEF L!Connect, L!Goes
  <2>2. UNCHANGED <<queue, written, pushed, since>> /\ loop[c] = "new"
    BY <1>1 DEF L!Connect
  <2>3. ASSUME NEW d \in Connections PROVE Kept(d)
    <3>1. CASE d = c
      BY <2>1, <2>2, <3>1 DEF L!Subscribed
    <3>2. CASE d # c
      BY <2>1, <2>2, <3>2 DEF L!Subscribed, Given, Due, L!Heard
    <3> QED
      BY <3>1, <3>2
  <2> QED
    BY <2>1, <2>2, <2>3
<1>2. ASSUME NEW c \in Connections, L!Subscribe(c) PROVE StreamInv'
  <2>1. /\ loop' = [loop EXCEPT ![c] = "taking"] /\ loop[c] = "starting"
        /\ queue' = [queue EXCEPT ![c] = <<0>>]
        /\ since' = [since EXCEPT ![c] = Len(pushed)]
        /\ UNCHANGED <<written, pushed>>
    BY <1>2 DEF L!Subscribe, L!Goes, L!Connecting
  <2>2. <<0>> \in Seq(Nat) /\ Len(pushed) \in Nat
    OBVIOUS
  <2>3. StreamTypes'
    BY <2>1, <2>2
  <2>4. ASSUME NEW d \in Connections PROVE Kept(d)
    <3>1. CASE d = c
      <4>1. written'[c] = <<>> /\ queue'[c] = <<0>> /\ since'[c] = Len(pushed) /\ loop'[c] = "taking"
        BY <2>1
      <4>2. Given(c)' = <<0>>
        BY <4>1 DEF Given
      <4>3. Due(c)' = {0}
        BY <2>1, <4>1 DEF Due, L!Heard
      <4>4. Lists(<<0>>, {0})
        BY DEF Lists
      <4> QED
        BY <2>1, <2>2, <3>1, <4>1, <4>2, <4>3, <4>4
    <3>2. CASE d # c
      <4>1. loop'[d] = loop[d] /\ queue'[d] = queue[d] /\ since'[d] = since[d]
        BY <2>1, <3>2
      <4>2. L!Subscribed(d)' <=> L!Subscribed(d)
        BY <4>1 DEF L!Subscribed
      <4>3. Given(d)' = Given(d) /\ Due(d)' = Due(d)
        BY <2>1, <4>1 DEF Given, Due, L!Heard
      <4> QED
        BY <2>1, <4>1, <4>2, <4>3
    <3> QED
      BY <3>1, <3>2
  <2> QED
    BY <2>3, <2>4
<1>3. ASSUME NEW c \in Connections, L!Take(c) PROVE StreamInv'
  <2>1. /\ loop' = [loop EXCEPT ![c] = IF socket[c] = "closed" THEN "over" ELSE "pausing"]
        /\ loop[c] \in {"taking", "woken"} /\ queue[c] # <<>>
        /\ queue' = [queue EXCEPT ![c] = Tail(@)]
        /\ written' = [written EXCEPT ![c] = Append(@, Head(queue[c]))]
        /\ UNCHANGED <<since, pushed>>
    BY <1>3 DEF L!Take, L!Goes
  <2>2. /\ Append(written[c], Head(queue[c])) \o Tail(queue[c]) = Given(c)
        /\ Head(queue[c]) \in Nat /\ Tail(queue[c]) \in Seq(Nat)
    BY <2>1, GivenTaken DEF Given
  <2>3. StreamTypes'
    BY <2>1, <2>2
  <2>4. ASSUME NEW d \in Connections PROVE Kept(d)
    <3>1. CASE d = c
      <4>1. /\ written'[c] = Append(written[c], Head(queue[c])) /\ queue'[c] = Tail(queue[c])
            /\ loop'[c] \in {"over", "pausing"}
        BY <2>1
      <4>2. Given(c)' = Given(c)
        BY <2>2, <4>1 DEF Given
      <4>3. Due(c)' = Due(c)
        BY <2>1 DEF Due, L!Heard
      <4>4. L!Subscribed(c)
        BY <2>1 DEF L!Subscribed
      <4> QED
        BY <2>1, <2>2, <3>1, <4>1, <4>2, <4>3, <4>4
    <3>2. CASE d # c
      <4>1. loop'[d] = loop[d] /\ queue'[d] = queue[d] /\ written'[d] = written[d]
        BY <2>1, <3>2
      <4>2. L!Subscribed(d)' <=> L!Subscribed(d)
        BY <4>1 DEF L!Subscribed
      <4>3. Given(d)' = Given(d) /\ Due(d)' = Due(d)
        BY <2>1, <4>1 DEF Given, Due, L!Heard
      <4> QED
        BY <2>1, <4>1, <4>2, <4>3
    <3> QED
      BY <3>1, <3>2
  <2> QED
    BY <2>3, <2>4
<1>4. ASSUME NEW c \in Connections, L!Pause(c) \/ L!Sleep(c) PROVE StreamInv'
  <2>1. /\ loop' = [loop EXCEPT ![c] = "taking"] \/ (loop' = [loop EXCEPT ![c] = "asleep"] /\ queue[c] = <<>>)
        /\ L!Subscribed(c) /\ UNCHANGED <<queue, written, since, pushed>>
    BY <1>4 DEF L!Pause, L!Sleep, L!Goes, L!Subscribed
  <2> QED
    BY <2>1 DEF L!Subscribed, Given, Due, L!Heard
<1>5. ASSUME NEW c \in Connections, L!Close(c) PROVE StreamInv'
  <2>1. UNCHANGED <<loop, queue, written, since, pushed>>
    BY <1>5 DEF L!Close
  <2> QED
    BY <2>1 DEF L!Subscribed, Given, Due, L!Heard
<1>6. ASSUME NEW s \in Sessions, L!Push(s) PROVE StreamInv'
  <2> DEFINE hears == {c \in Connections : L!Subscribed(c) /\ SessionOf[c] = s}
             n == Len(pushed) + 1
  <2>1. /\ pushed' = Append(pushed, s)
        /\ queue' = [c \in Connections |->
               IF c \in hears THEN Append(queue[c], n) ELSE queue[c]]
        /\ loop' = [c \in Connections |->
               IF c \in hears /\ loop[c] = "asleep" THEN "woken" ELSE loop[c]]
        /\ UNCHANGED <<written, since>>
    BY <1>6 DEF L!Push
  <2>2. n \in Nat /\ Len(pushed) \in Nat
    OBVIOUS
  <2>3. pushed' \in Seq(Sessions) /\ Len(pushed') = n /\ pushed'[n] = s
        /\ \A i \in 1..Len(pushed) : pushed'[i] = pushed[i]
    BY <2>1, <2>2
  <2> HIDE DEF n
  <2>4. \A c \in Connections : Append(queue[c], n) \in Seq(Nat)
    BY <2>2
  <2>5. StreamTypes'
    BY <2>1, <2>3, <2>4
  <2>6. ASSUME NEW d \in Connections PROVE Kept(d)
    <3>1. L!Subscribed(d)' <=> L!Subscribed(d)
      BY <2>1 DEF L!Subscribed
    <3>2. L!Heard(d)' = IF SessionOf[d] = s THEN L!Heard(d) \cup {n} ELSE L!Heard(d)
      <4>1. 1..n = (1..Len(pushed)) \cup {n} /\ n > since[d] /\ n \notin 1..Len(pushed)
        BY <2>2 DEF n
      <4> QED
        BY <2>1, <2>3, <4>1 DEF L!Heard
    <3>3. loop'[d] = "asleep" => loop[d] = "asleep" /\ d \notin hears
      BY <2>1
    <3>4. loop'[d] = "asleep" => queue'[d] = <<>>
      BY <2>1, <3>3
    <3>5. loop'[d] \in {"new", "refused", "starting"} => loop[d] = loop'[d]
      BY <2>1
    <3>6. ASSUME L!Subscribed(d) PROVE Lists(Given(d)', Due(d)')
      <4>1. Lists(Given(d), Due(d))
        BY <3>6
      <4>2. CASE d \in hears
        <5>1. queue'[d] = Append(queue[d], n) /\ written'[d] = written[d]
          BY <2>1, <4>2
        <5>2. Given(d)' = Append(Given(d), n) /\ Given(d) \in Seq(Nat)
          <6>1. written[d] \in Seq(Nat) /\ queue[d] \in Seq(Nat) /\ n \in Nat
            BY <2>2
          <6>2. written[d] \o Append(queue[d], n) = Append(written[d] \o queue[d], n)
            BY <6>1, GivenPushed
          <6>3. written[d] \o queue[d] \in Seq(Nat)
            BY <6>1
          <6> QED
            BY <5>1, <6>2, <6>3 DEF Given
        <5>3. \A x \in Due(d) : x < n
          BY <2>2 DEF Due, L!Heard, n
        <5>4. Due(d)' = Due(d) \cup {n}
          BY <3>2, <4>2 DEF Due
        <5> HIDE DEF StreamInv
        <5> QED
          BY <2>2, <4>1, <5>2, <5>3, <5>4, ListsAppend
      <4>3. CASE d \notin hears
        <5>1. Given(d)' = Given(d)
          BY <2>1, <4>3 DEF Given
        <5>2. Due(d)' = Due(d)
          BY <3>2, <3>6, <4>3 DEF Due
        <5> QED
          BY <4>1, <5>1, <5>2
      <4> QED
        BY <4>2, <4>3
    <3>7. since'[d] <= Len(pushed')
      BY <2>1, <2>2, <2>3 DEF n
    <3> QED
      BY <2>1, <3>1, <3>4, <3>5, <3>6, <3>7
  <2> QED
    BY <2>5, <2>6
<1> QED
  BY <1>1, <1>2, <1>3, <1>4, <1>5, <1>6 DEF L!Next, L!Serve

\* What a subscribed connection was written and has in its queue are all events
\* of its session since it subscribed, each once and in their order; if it sleeps
\* its queue is empty (InMemoryLifecycleStream and the loop of /stream).
THEOREM NoEventIsMissed == L!Spec => []StreamIsGapless
<1>1. L!Init => StreamInv
  <2> SUFFICES ASSUME L!Init PROVE StreamInv
    OBVIOUS
  <2>1. <<>> \in Seq(Nat) /\ <<>> \in Seq(Sessions) /\ Len(pushed) = 0
    BY DEF L!Init
  <2> QED
    BY <2>1 DEF L!Init, StreamInv, StreamTypes, L!Subscribed
<1>2. StreamInv /\ [L!Next]_(L!streamVars) => StreamInv'
  <2> SUFFICES ASSUME StreamInv, [L!Next]_(L!streamVars) PROVE StreamInv'
    OBVIOUS
  <2>1. CASE L!Next
    BY <2>1, StreamSteps
  <2>2. CASE UNCHANGED L!streamVars
    BY <2>2 DEF L!streamVars, StreamInv, StreamTypes, L!Subscribed, Given, Due, L!Heard
  <2> QED
    BY <2>1, <2>2
<1>3. StreamInv => StreamIsGapless
  <2> SUFFICES ASSUME StreamInv, NEW c \in Connections, L!Subscribed(c)
               PROVE  LET given == written[c] \o queue[c]
                      IN  /\ \A i, j \in DOMAIN given : i < j => given[i] < given[j]
                          /\ {given[i] : i \in DOMAIN given} = {0} \cup L!Heard(c)
                          /\ loop[c] = "asleep" => queue[c] = <<>>
    BY DEF StreamIsGapless, L!StreamIsGapless, L!Connecting
  <2> QED
    BY DEF StreamInv, Lists, Given, Due
<1> QED
  BY <1>1, <1>2, <1>3, PTL DEF L!Spec
-----------------------------------------------------------------------------
\* GatewayDoor.

\* The instants still in the window.
Fresh == {t \in Nat : t + WindowMs >= now}

\* The requests let pass, in the order of time; the limiter has forgotten some
\* of the first, all of which have aged.
Remembers(all, left) ==
    /\ \A i \in 1..Len(all) : all[i] <= now
    /\ \A i, j \in 1..Len(all) : i <= j => all[i] <= all[j]
    /\ \E k \in 0..Len(all) : /\ left = SubSeq(all, k + 1, Len(all))
                              /\ \A i \in 1..k : all[i] \notin Fresh

\* No window has more than its limit.
Spread(all, limit) ==
    \A i, j \in 1..Len(all) : j >= i + limit => all[j] - all[i] > WindowMs

DoorTypes ==
    /\ now \in Nat
    /\ events \in [D!Methods -> [D!Subjects -> Seq(Nat)]]
    /\ admitted \in [D!Methods -> [D!Subjects -> Seq(Nat)]]

DoorInv ==
    /\ DoorTypes
    /\ \A m \in D!Methods, s \in D!Subjects :
         /\ Remembers(admitted[m][s], events[m][s])
         /\ Spread(admitted[m][s], Limit[m])

\* In a sequence that never decreases, what has aged comes first.
LEMMA AgedFirst ==
    ASSUME WindowMs \in Nat, now \in Nat, NEW all \in Seq(Nat), NEW k \in 0..Len(all),
           \A i, j \in 1..Len(all) : i <= j => all[i] <= all[j],
           \A i \in 1..k : all[i] \notin Fresh
    PROVE  \E l \in k..Len(all) : /\ \A i \in 1..l : all[i] \notin Fresh
                                  /\ \A i \in (l + 1)..Len(all) : all[i] \in Fresh
<1>1. Len(all) \in Nat /\ \A i \in 1..Len(all) : all[i] \in Nat
  OBVIOUS
<1> DEFINE T == {i \in 1..Len(all) : all[i] \in Fresh}
<1>2. CASE T = {}
  <2>1. Len(all) \in k..Len(all)
    BY <1>1
  <2>2. \A i \in 1..Len(all) : all[i] \notin Fresh
    BY <1>2
  <2>3. \A i \in (Len(all) + 1)..Len(all) : all[i] \in Fresh
    BY <1>1
  <2> QED
    BY <2>1, <2>2, <2>3
<1>3. CASE T # {}
  <2>1. PICK f \in T : \A i \in T : f <= i
    <3>1. T \subseteq Nat
      BY <1>1
    <3> HIDE DEF T
    <3> QED
      BY <1>3, <3>1, LeastElement
  <2>2. f > k
    BY <1>1, <2>1
  <2>3. \A i \in 1..(f - 1) : all[i] \notin Fresh
    BY <1>1, <2>1
  <2>4. ASSUME NEW i \in f..Len(all) PROVE all[i] \in Fresh
    <3>1. i \in 1..Len(all) /\ f \in 1..Len(all) /\ all[f] <= all[i]
      BY <1>1, <2>1
    <3>2. all[f] \in Fresh
      BY <2>1
    <3> QED
      BY <1>1, <3>1, <3>2 DEF Fresh
  <2>5. f - 1 \in k..Len(all) /\ (f - 1) + 1 = f
    BY <1>1, <2>1, <2>2
  <2> DEFINE l == f - 1
  <2>6. \A i \in 1..l : all[i] \notin Fresh
    BY <2>3
  <2>7. \A i \in (l + 1)..Len(all) : all[i] \in Fresh
    BY <2>4, <2>5
  <2> HIDE DEF l
  <2>8. l \in k..Len(all)
    BY <2>5 DEF l
  <2> QED
    BY <2>6, <2>7, <2>8
<1> QED
  BY <1>2, <1>3

\* The door's filter is the one the lemmas are about.
LEMMA DoorSelects ==
    ASSUME NEW s, NEW T PROVE D!SelectIn(s, T) = SelectIn(s, T)
BY DEF D!SelectIn, SelectIn

\* What the limiter keeps when it is asked, and what it then lets pass.
LEMMA RecentRequests ==
    ASSUME WindowMs \in Nat, now \in Nat, NEW all \in Seq(Nat), NEW left \in Seq(Nat),
           Remembers(all, left)
    PROVE  LET recent == D!Recent(left)
           IN  /\ recent \in Seq(Nat) /\ Remembers(all, recent)
               /\ \A limit \in Nat :
                    Len(recent) < limit /\ Spread(all, limit)
                        => /\ Spread(Append(all, now), limit)
                           /\ Remembers(Append(all, now), Append(recent, now))
<1> DEFINE recent == D!Recent(left)
           n == Len(all)
<1>1. n \in Nat /\ \A i \in 1..n : all[i] \in Nat
  OBVIOUS
<1>2. PICK k \in 0..n : /\ left = SubSeq(all, k + 1, n)
                        /\ \A i \in 1..k : all[i] \notin Fresh
  BY DEF Remembers
<1>3. PICK l \in k..n : /\ \A i \in 1..l : all[i] \notin Fresh
                        /\ \A i \in (l + 1)..n : all[i] \in Fresh
  BY <1>2, AgedFirst DEF Remembers
<1>4. Len(left) = n - k /\ \A i \in 1..(n - k) : left[i] = all[k + i]
  BY <1>1, <1>2, DropFirst
<1> DEFINE d == l - k
<1>5. d \in 0..Len(left) /\ k + d = l /\ l \in 0..n
  BY <1>1, <1>2, <1>3, <1>4
<1>6. recent = SubSeq(all, l + 1, n) /\ Len(recent) = n - l /\ recent \in Seq(Nat)
  <2>1. \A i \in 1..d : left[i] \notin Fresh
    BY <1>1, <1>2, <1>3, <1>4
  <2>2. \A i \in (d + 1)..Len(left) : left[i] \in Fresh
    BY <1>1, <1>2, <1>3, <1>4
  <2> HIDE DEF d, n
  <2>3. SelectIn(left, Fresh) = SubSeq(left, d + 1, Len(left))
    BY <1>5, <2>1, <2>2, SelectInSuffix
  <2>4. SubSeq(left, d + 1, Len(left)) = SubSeq(all, k + d + 1, n)
    <3>1. k \in 0..Len(all) /\ d \in 0..(Len(all) - k) /\ left = SubSeq(all, k + 1, Len(all))
      BY <1>2, <1>4, <1>5 DEF n
    <3>2. SubSeq(left, d + 1, Len(left)) = SubSeq(all, k + d + 1, Len(all))
      BY <3>1, DropMore
    <3> QED
      BY <3>2 DEF n
  <2>5. recent = SelectIn(left, Fresh)
    BY DoorSelects DEF D!Recent, Fresh
  <2>6. recent = SubSeq(all, l + 1, n)
    BY <1>5, <2>3, <2>4, <2>5
  <2> HIDE DEF recent
  <2> QED
    BY <1>5, <2>6, DropFirst DEF n
<1> HIDE DEF recent
<1>7. recent \in Seq(Nat)
  BY <1>6
<1>8. l \in 0..n
  BY <1>5
<1>9. Remembers(all, recent)
  BY <1>3, <1>6, <1>8 DEF Remembers
<1>10. ASSUME NEW limit \in Nat, Len(recent) < limit, Spread(all, limit)
       PROVE  /\ Spread(Append(all, now), limit)
              /\ Remembers(Append(all, now), Append(recent, now))
  <2> DEFINE more == Append(all, now)
  <2>1. Len(more) = n + 1 /\ more[n + 1] = now /\ \A i \in 1..n : more[i] = all[i]
    BY <1>1
  <2> HIDE DEF more
  <2>2. Spread(more, limit)
    <3> SUFFICES ASSUME NEW i \in 1..(n + 1), NEW j \in 1..(n + 1), j >= i + limit
                 PROVE  more[j] - more[i] > WindowMs
      BY <2>1 DEF Spread
    <3>1. i \in 1..n
      BY <1>1, <1>6, <1>8, <1>10
    <3>2. CASE j \in 1..n
      BY <1>10, <2>1, <3>1, <3>2 DEF Spread
    <3>3. CASE j = n + 1
      <4>1. i \in 1..l
        BY <1>1, <1>6, <1>8, <1>10, <3>1, <3>3
      <4>2. all[i] \notin Fresh /\ all[i] \in Nat
        BY <1>1, <1>3, <3>1, <4>1
      <4> QED
        BY <2>1, <3>1, <3>3, <4>2 DEF Fresh
    <3> QED
      BY <1>1, <3>2, <3>3
  <2>3. Append(recent, now) = SubSeq(more, l + 1, n + 1)
    <3>1. Append(SubSeq(all, l + 1, n), now) = SubSeq(Append(all, now), l + 1, n + 1)
      BY <1>8, DropAppend
    <3> QED
      BY <1>6, <3>1 DEF more
  <2>4. \A i \in 1..(n + 1) : more[i] <= now
    <3>1. \A i \in 1..n : all[i] <= now
      BY DEF Remembers
    <3>2. 1..(n + 1) = (1..n) \cup {n + 1}
      BY <1>1
    <3>3. now <= now
      OBVIOUS
    <3> HIDE DEF n
    <3> QED
      BY <2>1, <3>1, <3>2, <3>3
  <2>5. ASSUME NEW i \in 1..(n + 1), NEW j \in 1..(n + 1), i <= j PROVE more[i] <= more[j]
    <3>1. CASE j = n + 1
      BY <2>1, <2>4, <3>1
    <3>2. CASE j # n + 1
      <4>1. i \in 1..n /\ j \in 1..n
        BY <1>1, <2>5, <3>2
      <4>2. all[i] <= all[j]
        BY <2>5, <4>1 DEF Remembers
      <4> QED
        BY <2>1, <4>1, <4>2
    <3> QED
      BY <3>1, <3>2
  <2>6. \A i \in 1..l : more[i] \notin Fresh
    BY <1>3, <1>8, <2>1
  <2>7. Remembers(more, Append(recent, now))
    <3>1. l \in 0..(n + 1)
      BY <1>1, <1>8
    <3>2. \A i, j \in 1..(n + 1) : i <= j => more[i] <= more[j]
      BY <2>5
    <3> HIDE DEF n
    <3> QED
      BY <2>1, <2>3, <2>4, <2>6, <3>1, <3>2 DEF Remembers
  <2> QED
    BY <2>2, <2>7 DEF more
<1> QED
  BY <1>7, <1>9, <1>10 DEF recent

\* What is left alone stays sound.
LEMMA DoorStays == ASSUME DoorInv, UNCHANGED <<now, events, admitted>> PROVE DoorInv'
<1>1. DoorTypes'
  BY DEF DoorInv, DoorTypes
<1>2. Fresh' = Fresh
  BY DEF Fresh
<1>3. ASSUME NEW m \in D!Methods, NEW s \in D!Subjects
      PROVE  Remembers(admitted[m][s], events[m][s])' /\ Spread(admitted[m][s], Limit[m])'
  <2>1. Remembers(admitted[m][s], events[m][s])'
    BY <1>2, <1>3 DEF DoorInv, Remembers
  <2>2. Spread(admitted[m][s], Limit[m])'
    BY <1>3 DEF DoorInv, Spread
  <2> QED
    BY <2>1, <2>2
<1> QED
  BY <1>1, <1>3 DEF DoorInv

\* One question to the limiter keeps what it remembers and what it let pass.
LEMMA DoorLimiter ==
    ASSUME WindowMs \in Nat, \A m \in D!Methods : Limit[m] \in Nat, DoorInv,
           NEW c \in Callers, NEW m, D!Limiter(c, m), UNCHANGED now
    PROVE  DoorInv'
<1> DEFINE ip == c.ip
           left == events[m][ip]
           all == admitted[m][ip]
           recent == D!Recent(left)
<1>1. ip \in D!Subjects
  BY DEF D!Subjects
<1>2. PICK pass \in BOOLEAN :
        /\ pass => ~(Len(recent) >= Limit[m])
        /\ events' = [events EXCEPT ![m][ip] = IF pass THEN Append(recent, now) ELSE recent]
        /\ admitted' = [admitted EXCEPT ![m][ip] = IF pass THEN Append(all, now) ELSE all]
  <2> DEFINE pass == D!Refusal(c, m) \in {"none", "RISK_BLOCKED"}
  <2>1. pass => ~(Len(recent) >= Limit[m])
    BY DEF D!Refusal, D!Full
  <2>2. /\ events' = [events EXCEPT ![m][ip] = IF pass THEN Append(recent, now) ELSE recent]
        /\ admitted' = [admitted EXCEPT ![m][ip] = IF pass THEN Append(all, now) ELSE all]
    BY DEF D!Limiter
  <2>3. pass \in BOOLEAN
    OBVIOUS
  <2> HIDE DEF pass
  <2> QED
    BY <2>1, <2>2, <2>3
<1>3. CASE m \notin D!Methods
  <2>1. events' = events /\ admitted' = admitted
    BY <1>2, <1>3 DEF DoorInv, DoorTypes
  <2> QED
    BY <2>1, DoorStays
<1>4. CASE m \in D!Methods
  <2>1. left \in Seq(Nat) /\ all \in Seq(Nat) /\ now \in Nat /\ Limit[m] \in Nat
    BY <1>1, <1>4 DEF DoorInv, DoorTypes
  <2>2. Remembers(all, left) /\ Spread(all, Limit[m])
    BY <1>1, <1>4 DEF DoorInv
  <2> DEFINE left2 == IF pass THEN Append(recent, now) ELSE recent
             all2 == IF pass THEN Append(all, now) ELSE all
  <2>3. recent \in Seq(Nat)
    <3> HIDE DEF left, all
    <3> QED
      BY <2>1, <2>2, RecentRequests
  <2>4. left2 \in Seq(Nat) /\ all2 \in Seq(Nat) /\ Remembers(all2, left2) /\ Spread(all2, Limit[m])
    <3> HIDE DEF left, all
    <3>1. CASE pass
      <4>1. Len(recent) < Limit[m]
        BY <1>2, <2>1, <2>3, <3>1
      <4>2. Spread(Append(all, now), Limit[m]) /\ Remembers(Append(all, now), Append(recent, now))
        BY <2>1, <2>2, <4>1, RecentRequests
      <4> HIDE DEF recent
      <4> QED
        BY <2>1, <2>3, <3>1, <4>2
    <3>2. CASE ~pass
      <4>1. Remembers(all, recent)
        BY <2>1, <2>2, RecentRequests
      <4> HIDE DEF recent
      <4> QED
        BY <2>1, <2>2, <2>3, <3>2, <4>1
    <3> QED
      BY <3>1, <3>2
  <2>5. /\ events' = [events EXCEPT ![m][ip] = left2]
        /\ admitted' = [admitted EXCEPT ![m][ip] = all2]
    BY <1>2
  <2> HIDE DEF left2, all2, left, all, recent, ip
  <2>6. DoorTypes'
    BY <1>1, <1>4, <2>4, <2>5 DEF DoorInv, DoorTypes, D!Methods, D!Subjects
  <2>7. ASSUME NEW m2 \in D!Methods, NEW s \in D!Subjects
        PROVE  Remembers(admitted[m2][s], events[m2][s])' /\ Spread(admitted[m2][s], Limit[m2])'
    <3>1. CASE m2 = m /\ s = ip
      <4>1. events'[m2][s] = left2 /\ admitted'[m2][s] = all2
        BY <1>1, <1>4, <2>5, <3>1 DEF DoorInv, DoorTypes
      <4>2. Fresh' = Fresh
        BY DEF Fresh
      <4>3. Remembers(admitted[m2][s], events[m2][s])'
        BY <2>4, <4>1, <4>2 DEF Remembers
      <4>4. Spread(admitted[m2][s], Limit[m2])'
        BY <2>4, <3>1, <4>1 DEF Spread
      <4> QED
        BY <4>3, <4>4
    <3>2. CASE m2 # m \/ s # ip
      <4>1. events'[m2][s] = events[m2][s] /\ admitted'[m2][s] = admitted[m2][s]
        BY <1>1, <1>4, <2>5, <3>2 DEF DoorInv, DoorTypes
      <4> QED
        BY <4>1 DEF DoorInv, Remembers, Spread, Fresh
    <3> QED
      BY <3>1, <3>2
  <2> QED
    BY <2>6, <2>7 DEF DoorInv, D!Methods, D!Subjects
<1> QED
  BY <1>3, <1>4

\* No stretch of one window has more requests of a subject for a method than its
\* limit lets pass (MethodRateLimiter.allow), whatever was refused in between and
\* although the limiter forgets what has aged only when it is asked.
THEOREM RateBounded ==
    ASSUME WindowMs \in Nat, PaceMs \in Nat, SuggestMs \in Nat,
           \A m \in D!Methods : Limit[m] \in Nat
    PROVE  D!Spec => []RateIsBounded
<1>1. D!Init => DoorInv
  <2> SUFFICES ASSUME D!Init PROVE DoorInv
    OBVIOUS
  <2>1. DoorTypes
    BY DEF D!Init, DoorTypes
  <2>2. ASSUME NEW m \in D!Methods, NEW s \in D!Subjects
        PROVE  Remembers(admitted[m][s], events[m][s]) /\ Spread(admitted[m][s], Limit[m])
    <3>1. admitted[m][s] = <<>> /\ events[m][s] = <<>>
      BY DEF D!Init
    <3>2. Remembers(<<>>, <<>>)
      <4>1. 0 \in 0..Len(<<>>) /\ SubSeq(<<>>, 1, Len(<<>>)) = <<>> /\ 1..Len(<<>>) = {}
        OBVIOUS
      <4> QED
        BY <4>1 DEF Remembers
    <3>3. Spread(<<>>, Limit[m])
      BY DEF Spread
    <3> QED
      BY <3>1, <3>2, <3>3
  <2> QED
    BY <2>1, <2>2 DEF DoorInv
<1>2. DoorInv /\ [D!Next]_(D!doorVars) => DoorInv'
  <2> SUFFICES ASSUME DoorInv, [D!Next]_(D!doorVars) PROVE DoorInv'
    OBVIOUS
  <2>1. ASSUME UNCHANGED <<now, events, admitted>> PROVE DoorInv'
    BY <2>1, DoorStays
  <2>2. ASSUME NEW c \in Callers, D!Rpc(c) PROVE DoorInv'
    <3>1. ASSUME NEW m, D!Limiter(c, m), UNCHANGED now PROVE DoorInv'
      BY <3>1, DoorLimiter
    <3>2. ASSUME NEW m \in D!Methods, D!Refuse(c, m) PROVE DoorInv'
      BY <2>1, <3>1, <3>2 DEF D!Refuse
    <3>3. ASSUME NEW ch \in Channels, NEW p \in BOOLEAN, NEW u \in BOOLEAN, NEW n \in BOOLEAN,
                 D!ChatSend(c, ch, p, u, n)
          PROVE  DoorInv'
      BY <3>1, <3>3 DEF D!ChatSend, D!Enter
    <3>4. CASE D!ChatSendForbidden(c)
      BY <3>1, <3>4 DEF D!ChatSendForbidden, D!Enter
    <3>5. ASSUME NEW r, D!IncidentBundle(c, r) PROVE DoorInv'
      BY <3>1, <3>5 DEF D!IncidentBundle, D!Enter
    <3>6. ASSUME NEW ch \in Channels, D!FileChange(c, ch) PROVE DoorInv'
      BY <3>1, <3>6 DEF D!FileChange, D!Enter
    <3> QED
      BY <2>2, <3>2, <3>3, <3>4, <3>5, <3>6 DEF D!Rpc
  <2>3. CASE D!Dispatch
    BY <2>1, <2>3 DEF D!Dispatch
  <2>4. ASSUME NEW ch \in Channels, D!HeartbeatSend(ch) PROVE DoorInv'
    BY <2>1, <2>4 DEF D!HeartbeatSend
  <2>5. CASE D!Elapse
    <3>1. now \in Nat /\ now' = now + 1 /\ UNCHANGED <<events, admitted>>
      BY <2>5 DEF D!Elapse, DoorInv, DoorTypes
    <3>2. \A t \in Nat : t \notin Fresh => t \notin Fresh'
      BY <3>1 DEF Fresh
    <3>3. ASSUME NEW m \in D!Methods, NEW s \in D!Subjects
          PROVE  Remembers(admitted[m][s], events[m][s])'
      <4> DEFINE all == admitted[m][s]
                 left == events[m][s]
      <4>1. all \in Seq(Nat) /\ left \in Seq(Nat) /\ Remembers(all, left)
        BY DEF DoorInv, DoorTypes
      <4>2. all' = all /\ left' = left
        BY <3>1
      <4> HIDE DEF all, left
      <4>3. \A i \in 1..Len(all) : all[i] \in Nat /\ all[i] <= now'
        BY <3>1, <4>1 DEF Remembers
      <4>4. PICK k \in 0..Len(all) : /\ left = SubSeq(all, k + 1, Len(all))
                                     /\ \A i \in 1..k : all[i] \notin Fresh
        BY <4>1 DEF Remembers
      <4>5. \A i \in 1..k : all[i] \notin Fresh'
        <5>1. \A i \in 1..k : i \in 1..Len(all)
          BY <4>1
        <5> QED
          BY <3>2, <4>3, <4>4, <5>1
      <4>6. Remembers(all, left)'
        BY <4>1, <4>2, <4>3, <4>4, <4>5 DEF Remembers
      <4> QED
        BY <4>6 DEF all, left
    <3> QED
      BY <3>1, <3>3 DEF DoorInv, DoorTypes, Spread
  <2>6. CASE UNCHANGED D!doorVars
    BY <2>1, <2>6 DEF D!doorVars
  <2> QED
    BY <2>2, <2>3, <2>4, <2>5, <2>6 DEF D!Next
<1>3. DoorInv => RateIsBounded
  <2> SUFFICES ASSUME DoorInv, NEW m \in D!Methods, NEW s \in D!Subjects
               PROVE  LET times == admitted[m][s]
                      IN  \A i, j \in DOMAIN times :
                              j >= i + Limit[m] => times[j] - times[i] > WindowMs
    BY DEF RateIsBounded, D!RateIsBounded
  <2>1. admitted[m][s] \in Seq(Nat) /\ Spread(admitted[m][s], Limit[m])
    BY DEF DoorInv, DoorTypes
  <2>2. DOMAIN admitted[m][s] = 1..Len(admitted[m][s])
    BY <2>1
  <2> QED
    BY <2>1, <2>2 DEF Spread
<1> QED
  BY <1>1, <1>2, <1>3, PTL DEF D!Spec

-----------------------------------------------------------------------------
\* ChatThreads.

Messages == [role : {"user", "assistant"}, turn : Nat \ {0}, of : Agents]

\* The turns whose answer is in their thread.
Answered == {n \in 1..Turns : answer[n] = "done"}

\* An answer to a turn, not a heartbeat's message.
IsAnswer(m) == m.role = "assistant" /\ m.turn <= Turns

\* Messages among which no answer follows itself or is one that is still to come,
\* the turns in T being answered.
Clean(q, T) ==
    /\ q \in Seq(Messages)
    /\ \A i \in 2..Len(q) : IsAnswer(q[i]) => q[i] # q[i - 1]
    /\ \A i \in 1..Len(q) : IsAnswer(q[i]) => q[i].turn \in T

\* What the client shows, keeps and is about to write back.
ClientClean ==
    /\ Clean(view, Answered) /\ Clean(stored, Answered) /\ Clean(request, Answered)
    /\ \A s \in saves : s.of \in Agents /\ Clean(s.messages, Answered)

\* The thread files, and what was read from them to be written back.
FilesClean ==
    /\ thread \in [Agents -> Seq(Messages)] /\ read \in [1..Turns -> Seq(Messages)]
    /\ \A p \in Agents : Clean(thread[p], Answered)
    /\ \A n \in 1..Turns : Clean(read[n], Answered)

\* What is held for another profile are messages of heartbeats.
HeldFits ==
    /\ offered \in [Agents -> Nat] /\ unseen \in [Agents -> Seq(Messages)]
    /\ \A p \in Agents : \A i \in 1..Len(unseen[p]) : ~IsAnswer(unseen[p][i])

\* A turn that was not sent has no answer.
AskedFits ==
    /\ agent \in Agents /\ asked \in 0..Turns /\ askedOf \in [1..Turns -> Agents]
    /\ stage \in {"idle", "sending", "syncing", "waiting"} /\ (stage # "idle" => asked > 0)
    /\ answer \in [1..Turns -> {"none", "due", "checked", "read", "done"}]
    /\ \A n \in 1..Turns : n > asked \/ (n = asked /\ stage = "sending") => answer[n] = "none"

ChatInv == spliced \/ (AskedFits /\ ClientClean /\ FilesClean /\ HeldFits)

\* An answer that has come has not gone.
LEMMA CleanGrows ==
    ASSUME NEW T, NEW V, T \subseteq V, NEW q, Clean(q, T)
    PROVE  Clean(q, V)
BY DEF Clean

\* Nothing at all is clean.
LEMMA CleanEmpty == ASSUME NEW T PROVE Clean(<<>>, T)
<1>1. <<>> \in Seq(Messages) /\ Len(<<>>) = 0
  OBVIOUS
<1> QED
  BY <1>1 DEF Clean

\* One message more.
LEMMA CleanAppend ==
    ASSUME NEW T, NEW q, Clean(q, T), NEW x \in Messages,
           IsAnswer(x) => x.turn \in T /\ ~H!EndsWith(q, x)
    PROVE  Clean(Append(q, x), T)
<1> DEFINE a == Append(q, x)
           n == Len(q)
<1>1. q \in Seq(Messages) /\ n \in Nat
  BY DEF Clean
<1>2. a \in Seq(Messages) /\ Len(a) = n + 1 /\ a[n + 1] = x /\ \A i \in 1..n : a[i] = q[i]
  BY <1>1
<1>3. n > 0 => (H!EndsWith(q, x) <=> q[n] = x)
  <2>1. n > 0 => q # <<>>
    BY <1>1
  <2> QED
    BY <2>1 DEF H!EndsWith
<1> HIDE DEF a
<1>4. ASSUME NEW i \in 2..Len(a), IsAnswer(a[i]) PROVE a[i] # a[i - 1]
  <2>1. CASE i = n + 1
    <3>1. n > 0 /\ n \in 1..n /\ i - 1 = n
      BY <1>1, <1>2, <2>1
    <3> QED
      BY <1>2, <1>3, <1>4, <2>1, <3>1
  <2>2. CASE i # n + 1
    <3>1. i \in 2..n /\ i \in 1..n /\ i - 1 \in 1..n
      BY <1>1, <1>2, <2>2
    <3> QED
      BY <1>2, <1>4, <3>1 DEF Clean
  <2> QED
    BY <2>1, <2>2
<1>5. ASSUME NEW i \in 1..Len(a), IsAnswer(a[i]) PROVE a[i].turn \in T
  <2>1. CASE i = n + 1
    BY <1>2, <1>5, <2>1
  <2>2. CASE i # n + 1
    <3>1. i \in 1..n
      BY <1>1, <1>2, <2>2
    <3> QED
      BY <1>2, <1>5, <3>1 DEF Clean
  <2> QED
    BY <2>1, <2>2
<1>6. Clean(a, T)
  BY <1>2, <1>4, <1>5 DEF Clean
<1> QED
  BY <1>6 DEF a

\* Messages of heartbeats after a clean thread.
LEMMA CleanJoined ==
    ASSUME NEW T, NEW q, Clean(q, T), NEW h \in Seq(Messages),
           \A i \in 1..Len(h) : ~IsAnswer(h[i])
    PROVE  Clean(q \o h, T)
<1> DEFINE a == q \o h
           n == Len(q)
<1>1. q \in Seq(Messages) /\ n \in Nat /\ Len(h) \in Nat
  BY DEF Clean
<1>2. /\ a \in Seq(Messages) /\ Len(a) = n + Len(h) /\ \A i \in 1..n : a[i] = q[i]
      /\ \A i \in 1..Len(h) : a[n + i] = h[i]
  BY <1>1
<1> HIDE DEF a
<1>3. ASSUME NEW i \in 1..Len(a), IsAnswer(a[i]) PROVE i \in 1..n
  <2>1. CASE i > n
    <3>1. i - n \in 1..Len(h) /\ n + (i - n) = i
      BY <1>1, <1>2, <2>1
    <3>2. a[i] = h[i - n]
      BY <1>2, <3>1
    <3> QED
      BY <1>3, <3>1, <3>2
  <2> QED
    BY <1>1, <1>2, <2>1
<1>4. ASSUME NEW i \in 2..Len(a), IsAnswer(a[i]) PROVE a[i] # a[i - 1]
  <2>1. i \in 1..Len(a)
    BY <1>1, <1>2
  <2>2. i \in 1..n
    BY <1>3, <1>4, <2>1
  <2>3. i \in 2..n /\ i - 1 \in 1..n
    BY <1>1, <2>2
  <2> QED
    BY <1>2, <1>4, <2>2, <2>3 DEF Clean
<1>5. ASSUME NEW i \in 1..Len(a), IsAnswer(a[i]) PROVE a[i].turn \in T
  BY <1>2, <1>3, <1>5 DEF Clean
<1>6. Clean(a, T)
  BY <1>2, <1>4, <1>5 DEF Clean
<1> QED
  BY <1>6 DEF a

\* The filter of ChatThreads is the one of Filters.
LEMMA ChatSelects == \A q, Firsts : H!SelectIn(q, Firsts) = SelectIn(q, Firsts)
BY DEF H!SelectIn, SelectIn

\* What is left without the repeats is clean.
LEMMA CleanDeduped ==
    ASSUME NEW T, NEW q, Clean(q, T)
    PROVE  Clean(H!Deduped(q), T)
<1> DEFINE n == Len(q)
           Firsts == {i \in DOMAIN q : ~H!IsRepeat(q, i)}
           places == SelectIn([i \in DOMAIN q |-> i], Firsts)
           k == Len(places)
           d == [j \in DOMAIN places |-> q[places[j]]]
<1>1. q \in Seq(Messages) /\ n \in Nat /\ DOMAIN q = 1..n
  BY DEF Clean
<1>2. /\ places \in Seq(1..n) /\ \A j \in 1..k : places[j] \in Firsts
      /\ \A j \in 1..(k - 1) : /\ places[j] < places[j + 1]
                               /\ \A i \in 1..n : places[j] < i /\ i < places[j + 1] => i \notin Firsts
  <2> DEFINE ids == [i \in DOMAIN q |-> i]
  <2>1. DOMAIN ids = 1..n /\ ids \in Seq(1..n) /\ \A i \in 1..n : ids[i] = i
    BY <1>1
  <2>2. places = SelectIn(ids, Firsts)
    OBVIOUS
  <2> HIDE DEF n, Firsts, places, ids
  <2> QED
    BY <1>1, <2>1, <2>2, SelectIndices
<1> HIDE DEF places
<1>3. k \in Nat /\ DOMAIN places = 1..k /\ \A j \in 1..k : places[j] \in 1..n
  BY <1>2
<1>4. d \in Seq(Messages) /\ Len(d) = k /\ \A j \in 1..k : d[j] = q[places[j]]
  BY <1>1, <1>3
<1> HIDE DEF d
<1>5. ASSUME NEW j \in 2..k PROVE IsAnswer(d[j]) => d[j] # d[j - 1]
  <2> DEFINE b == places[j - 1]
             e == places[j]
  <2>1. j - 1 \in 1..(k - 1) /\ (j - 1) + 1 = j /\ j \in 1..k /\ j - 1 \in 1..k
    BY <1>3
  <2>2. b \in 1..n /\ e \in 1..n /\ b < e /\ e \in Firsts
    BY <1>2, <1>3, <2>1
  <2>3. \A i \in 1..n : b < i /\ i < e => i \notin Firsts
    BY <1>2, <2>1
  <2> HIDE DEF b, e
  <2>4. \A i \in 0..(e - 1 - b) : i \in {m \in Nat : q[b + m] = q[b]}
    <3> DEFINE E == {m \in Nat : q[b + m] = q[b]}
    <3>1. 0 \in E
      BY <2>2
    <3>2. ASSUME NEW i \in 1..(e - 1 - b), i - 1 \in E PROVE i \in E
      <4>1. b + i \in 1..n /\ b < b + i /\ b + i < e /\ b + i > 1 /\ i \in Nat
        BY <1>1, <2>2
      <4>2. H!IsRepeat(q, b + i)
        BY <1>1, <2>3, <4>1
      <4>3. q[b + i] = q[(b + i) - 1] /\ (b + i) - 1 = b + (i - 1)
        BY <2>2, <4>1, <4>2 DEF H!IsRepeat
      <4>4. q[b + (i - 1)] = q[b]
        BY <3>2
      <4> QED
        BY <4>1, <4>3, <4>4
    <3>3. e - 1 - b \in Nat
      BY <2>2
    <3> HIDE DEF E
    <3>4. \A i \in 0..(e - 1 - b) : i \in E
      BY <3>1, <3>2, <3>3, UpTo
    <3> QED
      BY <3>4 DEF E
  <2>5. q[e - 1] = q[b]
    <3>1. e - 1 - b \in 0..(e - 1 - b) /\ b + (e - 1 - b) = e - 1
      BY <2>2
    <3> QED
      BY <2>4, <3>1
  <2>6. ~(q[e].role = "assistant" /\ q[e] = q[e - 1])
    <3>1. e > 1
      BY <2>2
    <3> QED
      BY <2>2, <3>1 DEF H!IsRepeat
  <2>7. d[j] = q[e] /\ d[j - 1] = q[b]
    BY <1>4, <2>1 DEF b, e
  <2> QED
    BY <2>5, <2>6, <2>7 DEF IsAnswer
<1>6. ASSUME NEW j \in 1..k PROVE IsAnswer(d[j]) => d[j].turn \in T
  BY <1>3, <1>4 DEF Clean
<1>7. Clean(d, T)
  BY <1>4, <1>5, <1>6 DEF Clean
<1>8. H!Deduped(q) = d
  BY ChatSelects DEF H!Deduped, d, places
<1> QED
  BY <1>7, <1>8

\* The view is shown, or left alone.
LEMMA ShownClean ==
    ASSUME ClientClean, agent \in Agents, Answered \subseteq Answered', UNCHANGED request,
           NEW q, Clean(q, Answered), H!Shown(q) \/ H!Unchanged
    PROVE  ClientClean'
<1>1. Clean(request', Answered') /\ Clean(view', Answered') /\ Clean(stored', Answered')
  BY CleanGrows DEF ClientClean, H!Shown, H!Unchanged
<1>2. ASSUME NEW s \in saves' PROVE s.of \in Agents /\ Clean(s.messages, Answered')
  <2>1. s \in saves \/ s = [of |-> agent, messages |-> q]
    BY <1>2 DEF H!Shown, H!Unchanged
  <2> QED
    BY <2>1, CleanGrows DEF ClientClean
<1> QED
  BY <1>1, <1>2 DEF ClientClean

\* The files are left alone.
LEMMA FilesStay ==
    ASSUME FilesClean, Answered \subseteq Answered', UNCHANGED <<thread, read>>
    PROVE  FilesClean'
<1>1. ASSUME NEW p \in Agents PROVE Clean(thread'[p], Answered')
  BY CleanGrows DEF FilesClean
<1>2. ASSUME NEW n \in 1..Turns PROVE Clean(read'[n], Answered')
  BY CleanGrows DEF FilesClean
<1> QED
  BY <1>1, <1>2 DEF FilesClean

\* The messages that are made.
LEMMA MadeMessages ==
    ASSUME Turns \in Nat, AskedFits, HeldFits
    PROVE  /\ \A n \in 1..Turns : H!Answer(n) \in Messages /\ H!Answer(n).turn = n
           /\ \A p \in Agents : offered[p] > 0 =>
                  H!Proactive(p) \in Messages /\ ~IsAnswer(H!Proactive(p))
           /\ asked < Turns =>
                  /\ H!Message("user", asked + 1, agent) \in Messages
                  /\ ~IsAnswer(H!Message("user", asked + 1, agent))
<1>1. ASSUME NEW n \in 1..Turns PROVE H!Answer(n) \in Messages /\ H!Answer(n).turn = n
  BY DEF AskedFits, Messages, H!Answer, H!Message
<1>2. ASSUME NEW p \in Agents, offered[p] > 0
      PROVE  H!Proactive(p) \in Messages /\ ~IsAnswer(H!Proactive(p))
  <2>1. offered[p] \in Nat /\ Turns + offered[p] \in Nat \ {0} /\ ~(Turns + offered[p] <= Turns)
    BY <1>2 DEF HeldFits
  <2> QED
    BY <2>1 DEF Messages, IsAnswer, H!Proactive, H!Message
<1>3. ASSUME asked < Turns
      PROVE  /\ H!Message("user", asked + 1, agent) \in Messages
             /\ ~IsAnswer(H!Message("user", asked + 1, agent))
  <2>1. asked + 1 \in Nat \ {0} /\ agent \in Agents
    BY DEF AskedFits
  <2> QED
    BY <2>1 DEF Messages, IsAnswer, H!Message
<1> QED
  BY <1>1, <1>2, <1>3

\* A turn that has its answer keeps it.
LEMMA AnswersStay == ASSUME AskedFits, UNCHANGED answer PROVE Answered' = Answered
BY DEF Answered

\* What the load effect shows: the thread, with what was typed meanwhile.
LEMMA LoadClean ==
    ASSUME AskedFits, ClientClean, FilesClean, HeldFits, H!Load, ~spliced'
    PROVE  ClientClean'
<1> DEFINE fromServer == H!Deduped(thread[agent]) \o unseen[agent]
           n == Len(fromServer)
           tail == SubSeq(view, n + 1, Len(view))
           typed == \E i \in DOMAIN tail : tail[i].role = "user"
<1>1. agent \in Agents /\ UNCHANGED <<request, answer>>
  BY DEF AskedFits, H!Load, H!serverVars
<1>2. Answered \subseteq Answered'
  BY <1>1, AnswersStay
<1>3. Clean(fromServer, Answered)
  <2>1. Clean(H!Deduped(thread[agent]), Answered)
    BY <1>1, CleanDeduped DEF FilesClean
  <2>2. unseen[agent] \in Seq(Messages) /\ \A i \in 1..Len(unseen[agent]) : ~IsAnswer(unseen[agent][i])
    BY <1>1 DEF HeldFits
  <2> QED
    BY <2>1, <2>2, CleanJoined
<1>4. CASE H!Shown(fromServer) \/ H!Unchanged
  <2> HIDE DEF fromServer
  <2> QED
    BY <1>1, <1>2, <1>3, <1>4, ShownClean
<1>5. CASE stage = "sending" /\ fromServer # <<>> /\ typed /\ H!Shown(fromServer \o tail)
  <2>1. SubSeq(view, 1, n) = fromServer
    BY <1>5 DEF H!Load
  <2> HIDE DEF fromServer
  <2>2. view \in Seq(Messages) /\ fromServer \in Seq(Messages) /\ n \in Nat /\ Clean(view, Answered)
    <3>1. fromServer \in Seq(Messages)
      BY <1>3 DEF Clean
    <3>2. Clean(view, Answered) /\ view \in Seq(Messages)
      BY DEF ClientClean, Clean
    <3> QED
      BY <3>1, <3>2
  <2>3. n <= Len(view)
    <3>1. CASE n > Len(view)
      <4>1. tail = <<>>
        BY <2>2, <3>1
      <4> QED
        BY <1>5, <4>1
    <3> QED
      BY <2>2, <3>1
  <2>4. fromServer \o tail = view
    <3>1. tail \in Seq(Messages) /\ Len(tail) = Len(view) - n /\ \A i \in 1..(Len(view) - n) : tail[i] = view[n + i]
      BY <2>2, <2>3, DropFirst
    <3>2. \A i \in 1..n : fromServer[i] = view[i]
      BY <2>1, <2>2, <2>3
    <3> HIDE DEF tail, n
    <3> DEFINE a == fromServer \o tail
    <3>3. a \in Seq(Messages) /\ Len(a) = Len(view)
      BY <2>2, <2>3, <3>1 DEF n
    <3>4. ASSUME NEW i \in 1..Len(view) PROVE a[i] = view[i]
      <4>1. CASE i <= n
        BY <2>2, <3>1, <3>2, <4>1 DEF n
      <4>2. CASE i > n
        <5>1. i - n \in 1..(Len(view) - n) /\ n + (i - n) = i
          BY <2>2, <4>2
        <5>2. a[i] = tail[i - n]
          BY <2>2, <3>1, <4>2, <5>1 DEF n
        <5> QED
          BY <3>1, <5>1, <5>2
      <4>3. i <= n \/ i > n
        BY <2>2
      <4> QED
        BY <4>1, <4>2, <4>3
    <3> HIDE DEF a
    <3>5. a = view
      BY <2>2, <3>3, <3>4, SameSequence
    <3> QED
      BY <3>5 DEF a
  <2> HIDE DEF tail
  <2> QED
    BY <1>1, <1>2, <1>5, <2>2, <2>4, ShownClean
<1> QED
  BY <1>4, <1>5 DEF H!Load

\* The other steps of the client.
LEMMA ClientSteps ==
    ASSUME Turns \in Nat, AskedFits, ClientClean, FilesClean, HeldFits, H!Client, ~spliced'
    PROVE  AskedFits' /\ ClientClean' /\ FilesClean' /\ HeldFits'
<1> DEFINE Goal == AskedFits' /\ ClientClean' /\ FilesClean' /\ HeldFits'
<1> USE DEF H!serverVars, H!AnswerIs
<1>1. agent \in Agents /\ Clean(view, Answered) /\ Clean(stored, Answered) /\ Clean(request, Answered)
  BY DEF AskedFits, ClientClean
<1>2. ASSUME NEW p \in Agents PROVE Clean(H!Deduped(thread[p]), Answered)
  BY CleanDeduped DEF FilesClean
<1>3. ASSUME UNCHANGED <<thread, answer, read, unseen, offered>> PROVE FilesClean' /\ HeldFits'
  BY <1>3, AnswersStay, FilesStay DEF HeldFits
<1>4. ASSUME UNCHANGED <<agent, asked, askedOf, answer>>,
             stage' = stage \/ (stage # "idle" /\ stage' \in {"idle", "syncing", "waiting"})
      PROVE  AskedFits'
  BY <1>4 DEF AskedFits
<1>5. ASSUME NEW p \in Agents, H!Switch(p) PROVE Goal
  <2>1. AskedFits'
    BY <1>5 DEF H!Switch, AskedFits
  <2>2. ClientClean'
    <3>1. Answered' = Answered
      BY <1>5, AnswersStay DEF H!Switch
    <3> QED
      BY <1>1, <1>5, <3>1 DEF H!Switch, ClientClean
  <2> QED
    BY <1>3, <1>5, <2>1, <2>2 DEF H!Switch
<1>6. CASE H!Load
  <2>1. ClientClean'
    BY <1>6, LoadClean
  <2>2. UNCHANGED <<agent, asked, askedOf, answer, stage, thread, read, offered>>
    BY <1>6 DEF H!Load
  <2>3. FilesClean'
    BY <2>2, AnswersStay, FilesStay
  <2>4. HeldFits'
    <3>1. unseen' = [unseen EXCEPT ![agent] = <<>>]
      BY <1>6 DEF H!Load
    <3>2. <<>> \in Seq(Messages) /\ Len(<<>>) = 0
      OBVIOUS
    <3>3. unseen' \in [Agents -> Seq(Messages)] /\ unseen'[agent] = <<>>
      BY <1>1, <3>1, <3>2 DEF HeldFits
    <3>4. \A p \in Agents : p # agent => unseen'[p] = unseen[p]
      BY <3>1 DEF HeldFits
    <3>5. ASSUME NEW p \in Agents, NEW i \in 1..Len(unseen'[p]) PROVE ~IsAnswer(unseen'[p][i])
      <4>1. p # agent
        BY <3>2, <3>3, <3>5
      <4> QED
        BY <3>4, <3>5, <4>1 DEF HeldFits
    <3> QED
      BY <2>2, <3>3, <3>5 DEF HeldFits
  <2> QED
    BY <1>4, <2>1, <2>2, <2>3, <2>4
<1>7. CASE H!LoadFails
  <2>1. ClientClean'
    BY <1>1, <1>7, AnswersStay, ShownClean DEF H!LoadFails
  <2> QED
    BY <1>3, <1>4, <1>7, <2>1 DEF H!LoadFails
<1>8. ASSUME NEW p \in Agents, H!Synced(H!Deduped(thread[p])), UNCHANGED <<request, answer>>
      PROVE  ClientClean'
  BY <1>1, <1>2, <1>8, AnswersStay, ShownClean DEF H!Synced
<1>9. CASE H!Reconnect
  BY <1>1, <1>3, <1>4, <1>8, <1>9 DEF H!Reconnect
<1>10. CASE H!Send
  <2> DEFINE question == H!Message("user", asked + 1, agent)
             messages == Append(view, question)
  <2>1. Clean(messages, Answered)
    BY <1>1, <1>10, MadeMessages, CleanAppend DEF H!Send
  <2>2. Answered' = Answered
    BY <1>10, AnswersStay DEF H!Send
  <2>3. H!Shown(messages) /\ request' = messages
    BY <1>10 DEF H!Send
  <2> HIDE DEF messages
  <2>4. ClientClean'
    <3>1. ASSUME NEW s \in saves' PROVE s.of \in Agents /\ Clean(s.messages, Answered)
      BY <1>1, <2>1, <2>3, <3>1 DEF H!Shown, ClientClean
    <3> QED
      BY <2>1, <2>2, <2>3, <3>1 DEF H!Shown, ClientClean
  <2>5. AskedFits'
    <3>1. asked + 1 \in 1..Turns
      BY <1>10 DEF H!Send, AskedFits
    <3>2. askedOf' \in [1..Turns -> Agents]
      BY <1>1, <1>10, <3>1 DEF H!Send, AskedFits
    <3> QED
      BY <1>10, <3>1, <3>2 DEF H!Send, AskedFits
  <2> QED
    BY <1>3, <1>10, <2>4, <2>5 DEF H!Send
<1>11. CASE H!Run
  <2>1. asked \in 1..Turns /\ answer[asked] = "none" /\ askedOf[asked] \in Agents
    BY <1>11 DEF H!Run, AskedFits
  <2>2. AskedFits' /\ Answered' = Answered
    BY <1>11, <2>1 DEF H!Run, AskedFits, Answered
  <2>3. ClientClean'
    BY <1>11, <2>2 DEF H!Run, ClientClean
  <2>4. FilesClean'
    <3>1. thread' = [thread EXCEPT ![askedOf[asked]] = request] /\ read' = read
      BY <1>11 DEF H!Run
    <3>2. request \in Seq(Messages)
      BY <1>1 DEF Clean
    <3> QED
      BY <1>1, <2>1, <2>2, <3>1, <3>2 DEF FilesClean
  <2> QED
    BY <1>11, <2>2, <2>3, <2>4 DEF H!Run, HeldFits
<1>12. CASE H!Sync
  <2>1. ClientClean'
    <3>1. H!Synced(H!Deduped(thread[agent])) \/ H!Unchanged
      BY <1>12 DEF H!Sync
    <3>2. UNCHANGED <<request, answer>>
      BY <1>12 DEF H!Sync
    <3>3. CASE H!Unchanged
      BY <1>1, <3>2, <3>3, AnswersStay, ShownClean
    <3> QED
      BY <1>1, <1>8, <3>1, <3>2, <3>3
  <2> QED
    BY <1>3, <1>4, <1>12, <2>1 DEF H!Sync
<1>13. CASE H!Finish
  <2>1. asked \in 1..Turns /\ answer[asked] = "done"
    BY <1>13 DEF H!Finish, AskedFits
  <2>2. H!Answer(asked) \in Messages /\ H!Answer(asked).turn \in Answered
    BY <2>1, MadeMessages DEF Answered
  <2>3. CASE H!EndsWith(view, H!Answer(asked))
    <3>1. H!Unchanged
      BY <1>13, <2>3 DEF H!Finish, H!WithAnswer
    <3> QED
      BY <1>1, <1>3, <1>4, <1>13, <3>1, AnswersStay, ShownClean DEF H!Finish
  <2>4. CASE ~H!EndsWith(view, H!Answer(asked))
    <3>1. H!Shown(Append(view, H!Answer(asked))) \/ H!Unchanged
      BY <1>13, <2>4 DEF H!Finish, H!WithAnswer
    <3>2. Clean(Append(view, H!Answer(asked)), Answered)
      BY <1>1, <2>2, <2>4, CleanAppend
    <3>3. ClientClean'
      BY <1>1, <1>13, <3>1, <3>2, AnswersStay, ShownClean DEF H!Finish
    <3> QED
      BY <1>3, <1>4, <1>13, <3>3 DEF H!Finish
  <2> QED
    BY <2>3, <2>4
<1>14. CASE H!GiveUp
  <2>1. ClientClean'
    BY <1>14, AnswersStay DEF H!GiveUp, ClientClean
  <2> QED
    BY <1>3, <1>4, <1>14, <2>1 DEF H!GiveUp, H!InProgress
<1>15. CASE H!Clear
  <2>1. ClientClean'
    <3>1. Answered' = Answered /\ Clean(<<>>, Answered)
      BY <1>15, AnswersStay, CleanEmpty DEF H!Clear
    <3> QED
      BY <1>1, <1>15, <3>1 DEF H!Clear, ClientClean
  <2> QED
    BY <1>3, <1>4, <1>15, <2>1 DEF H!Clear
<1>16. ASSUME NEW p \in Agents, H!Poll(p) PROVE Goal
  <2>1. H!Proactive(p) \in Messages /\ ~IsAnswer(H!Proactive(p))
    BY <1>16, MadeMessages DEF H!Poll
  <2>2. UNCHANGED <<agent, asked, askedOf, answer, stage, thread, read, offered, request>>
    BY <1>16 DEF H!Poll
  <2>3. ClientClean'
    <3>1. H!Unchanged \/ H!Shown(Append(view, H!Proactive(p)))
      BY <1>16 DEF H!Poll
    <3>2. Clean(Append(view, H!Proactive(p)), Answered)
      BY <1>1, <2>1, CleanAppend
    <3> QED
      BY <1>1, <2>2, <3>1, <3>2, AnswersStay, ShownClean
  <2>4. HeldFits'
    <3>1. CASE unseen' = unseen
      BY <2>2, <3>1 DEF HeldFits
    <3>2. CASE unseen' = [unseen EXCEPT ![p] = Append(@, H!Proactive(p))]
      <4> DEFINE h == Append(unseen[p], H!Proactive(p))
      <4>1. unseen[p] \in Seq(Messages) /\ \A i \in 1..Len(unseen[p]) : ~IsAnswer(unseen[p][i])
        BY DEF HeldFits
      <4>2. h \in Seq(Messages) /\ \A i \in 1..Len(h) : ~IsAnswer(h[i])
        BY <2>1, <4>1
      <4>3. unseen' = [unseen EXCEPT ![p] = h]
        BY <3>2
      <4> HIDE DEF h
      <4> QED
        BY <2>2, <4>2, <4>3 DEF HeldFits
    <3> QED
      BY <1>16, <3>1, <3>2 DEF H!Poll
  <2> QED
    BY <1>4, <2>2, <2>3, <2>4, AnswersStay, FilesStay
<1> QED
  BY <1>5, <1>6, <1>7, <1>9, <1>10, <1>11, <1>12, <1>13, <1>14, <1>15, <1>16 DEF H!Client

\* The steps of the gateway.
LEMMA GatewaySteps ==
    ASSUME Turns \in Nat, AskedFits, ClientClean, FilesClean, HeldFits, H!Gateway
    PROVE  AskedFits' /\ ClientClean' /\ FilesClean' /\ HeldFits'
<1> DEFINE Goal == AskedFits' /\ ClientClean' /\ FilesClean' /\ HeldFits'
<1> USE DEF H!clientVars
<1>1. ASSUME NEW s \in saves, H!Save(s) PROVE Goal
  <2>1. s.of \in Agents /\ Clean(s.messages, Answered)
    BY DEF ClientClean
  <2>2. Answered' = Answered
    BY <1>1, AnswersStay DEF H!Save
  <2>3. ClientClean'
    BY <1>1, <2>2 DEF H!Save, ClientClean
  <2>4. FilesClean'
    <3>1. s.messages \in Seq(Messages)
      BY <2>1 DEF Clean
    <3>2. thread' = [thread EXCEPT ![s.of] = s.messages] /\ read' = read
      BY <1>1 DEF H!Save
    <3> QED
      BY <2>1, <2>2, <3>1, <3>2 DEF FilesClean
  <2> QED
    BY <1>1, <2>3, <2>4 DEF H!Save, AskedFits, HeldFits
<1>2. ASSUME NEW n \in 1..Turns, NEW stood \in {"due", "checked", "read"}, answer[n] = stood,
             NEW to \in {"checked", "read", "done"}, H!AnswerIs(n, to),
             UNCHANGED <<stored, view, agent, saves, asked, stage, request, askedOf, unseen,
                         offered>>
      PROVE  /\ AskedFits' /\ ClientClean' /\ HeldFits' /\ Answered \subseteq Answered'
             /\ n \notin Answered /\ askedOf[n] \in Agents /\ H!Answer(n) \in Messages
             /\ H!Answer(n).turn = n
  <2>1. AskedFits' /\ Answered \subseteq Answered' /\ n \notin Answered
    BY <1>2 DEF H!AnswerIs, AskedFits, Answered
  <2>2. ClientClean'
    BY <1>2, <2>1, CleanGrows DEF ClientClean
  <2> QED
    BY <1>2, <2>1, <2>2, MadeMessages DEF HeldFits, AskedFits
<1>3. ASSUME NEW n \in 1..Turns, H!CheckThread(n) PROVE Goal
  <2>1. PICK to \in {"checked", "done"} : H!AnswerIs(n, to)
    BY <1>3 DEF H!CheckThread
  <2> QED
    BY <1>2, <1>3, <2>1, FilesStay DEF H!CheckThread
<1>4. ASSUME NEW n \in 1..Turns, H!ReadThread(n) PROVE Goal
  <2>1. /\ AskedFits' /\ ClientClean' /\ HeldFits' /\ Answered \subseteq Answered'
        /\ askedOf[n] \in Agents
    BY <1>2, <1>4 DEF H!ReadThread
  <2>2. read' = [read EXCEPT ![n] = thread[askedOf[n]]] /\ thread' = thread
    BY <1>4 DEF H!ReadThread
  <2>3. Clean(thread[askedOf[n]], Answered') /\ thread[askedOf[n]] \in Seq(Messages)
    BY <2>1, CleanGrows DEF FilesClean
  <2>4. \A p \in Agents : Clean(thread[p], Answered')
    BY <2>1, CleanGrows DEF FilesClean
  <2>5. \A m \in 1..Turns : Clean(read[m], Answered')
    BY <2>1, CleanGrows DEF FilesClean
  <2>6. FilesClean'
    BY <2>2, <2>3, <2>4, <2>5 DEF FilesClean
  <2> QED
    BY <2>1, <2>6
<1>5. ASSUME NEW n \in 1..Turns, H!AppendMessage(n) PROVE Goal
  <2>1. /\ AskedFits' /\ ClientClean' /\ HeldFits' /\ Answered \subseteq Answered'
        /\ n \notin Answered /\ askedOf[n] \in Agents /\ H!Answer(n) \in Messages
        /\ H!Answer(n).turn = n
    BY <1>2, <1>5 DEF H!AppendMessage
  <2> DEFINE q == Append(read[n], H!Answer(n))
  <2>2. thread' = [thread EXCEPT ![askedOf[n]] = q] /\ read' = read
    BY <1>5 DEF H!AppendMessage
  <2>3. n \in Answered'
    BY <1>5 DEF H!AppendMessage, H!AnswerIs, Answered, AskedFits
  <2>4. Clean(read[n], Answered) /\ read[n] \in Seq(Messages)
    BY DEF FilesClean
  <2>5. ~H!EndsWith(read[n], H!Answer(n))
    <3> SUFFICES ASSUME H!EndsWith(read[n], H!Answer(n)) PROVE FALSE
      OBVIOUS
    <3>1. Len(read[n]) \in 1..Len(read[n]) /\ read[n][Len(read[n])] = H!Answer(n)
      BY <2>4 DEF H!EndsWith
    <3>2. IsAnswer(H!Answer(n))
      BY <2>1 DEF IsAnswer, H!Answer, H!Message
    <3> QED
      BY <2>1, <2>4, <3>1, <3>2 DEF Clean
  <2>6. Clean(q, Answered') /\ q \in Seq(Messages)
    <3>1. Clean(read[n], Answered')
      BY <2>1, <2>4, CleanGrows
    <3>2. Clean(q, Answered')
      BY <2>1, <2>3, <2>5, <3>1, CleanAppend
    <3> QED
      BY <3>2 DEF Clean
  <2> HIDE DEF q
  <2>7. \A p \in Agents : Clean(thread[p], Answered')
    BY <2>1, CleanGrows DEF FilesClean
  <2>8. \A m \in 1..Turns : Clean(read[m], Answered')
    BY <2>1, CleanGrows DEF FilesClean
  <2>9. FilesClean'
    BY <2>1, <2>2, <2>6, <2>7, <2>8 DEF FilesClean
  <2> QED
    BY <2>1, <2>9
<1>6. ASSUME NEW p \in Agents, H!HeartbeatMessage(p) PROVE Goal
  <2>1. Answered' = Answered
    BY <1>6, AnswersStay DEF H!HeartbeatMessage, H!serverVars
  <2>2. ClientClean' /\ FilesClean'
    BY <1>6, <2>1, FilesStay DEF H!HeartbeatMessage, H!serverVars, ClientClean
  <2> QED
    BY <1>6, <2>2 DEF H!HeartbeatMessage, H!serverVars, AskedFits, HeldFits
<1> QED
  BY <1>1, <1>3, <1>4, <1>5, <1>6 DEF H!Gateway

\* The answer to a turn is shown once, and once in the thread file, however the
\* gateway's append (appendAssistantToThread), the client's own (runTurn) and the
\* threads that are written back follow each other, for any number of profiles,
\* turns, saves, polls and switches.
THEOREM OneBubble == Turns \in Nat => (H!Spec => []AnswerOnce)
<1> SUFFICES ASSUME Turns \in Nat PROVE H!Spec => []AnswerOnce
  OBVIOUS
<1>1. H!Init => ChatInv
  <2> SUFFICES ASSUME H!Init PROVE ChatInv
    OBVIOUS
  <2>1. <<>> \in Seq(Messages) /\ Len(<<>>) = 0
    OBVIOUS
  <2>2. AskedFits
    BY DEF H!Init, AskedFits
  <2>3. ClientClean /\ FilesClean
    BY <2>1, CleanEmpty DEF H!Init, ClientClean, FilesClean
  <2>4. HeldFits
    BY <2>1 DEF H!Init, HeldFits
  <2> QED
    BY <2>2, <2>3, <2>4 DEF ChatInv
<1>2. ChatInv /\ [H!Next]_(H!chatVars) => ChatInv'
  <2> SUFFICES ASSUME ChatInv, [H!Next]_(H!chatVars), ~spliced' PROVE ChatInv'
    BY DEF ChatInv
  <2>1. CASE H!Client
    <3>1. spliced => spliced'
      BY <2>1 DEF H!Client, H!Switch, H!Load, H!LoadFails, H!Reconnect, H!Send, H!Run, H!Sync,
                  H!Finish, H!GiveUp, H!Clear, H!Poll
    <3> QED
      BY <2>1, <3>1, ClientSteps DEF ChatInv
  <2>2. CASE H!Gateway
    <3>1. spliced' = spliced
      BY <2>2 DEF H!Gateway, H!Save, H!CheckThread, H!ReadThread, H!AppendMessage,
                  H!HeartbeatMessage
    <3> QED
      BY <2>2, <3>1, GatewaySteps DEF ChatInv
  <2>3. CASE UNCHANGED H!chatVars
    <3>1. UNCHANGED <<thread, stored, view, agent, saves, asked, stage, request, askedOf, answer,
                      read, unseen, offered, spliced>>
      BY <2>3 DEF H!chatVars, H!serverVars, H!clientVars
    <3>2. Answered' = Answered
      BY <3>1 DEF Answered
    <3>3. ClientClean => ClientClean'
      BY <3>1, <3>2 DEF ClientClean
    <3>4. FilesClean => FilesClean'
      BY <3>1, <3>2 DEF FilesClean
    <3>5. (AskedFits => AskedFits') /\ (HeldFits => HeldFits')
      BY <3>1 DEF AskedFits, HeldFits
    <3> QED
      BY <3>1, <3>3, <3>4, <3>5 DEF ChatInv
  <2> QED
    BY <2>1, <2>2, <2>3 DEF H!Next
<1>3. ChatInv => AnswerOnce
  <2> SUFFICES ASSUME ChatInv, ~spliced
               PROVE  /\ \A i \in H!Twins(view) : view[i].turn > Turns
                      /\ \A p \in Agents : \A i \in H!Twins(thread[p]) : thread[p][i].turn > Turns
    BY DEF AnswerOnce, H!AnswerOnce
  <2>1. ASSUME NEW q, Clean(q, Answered), NEW i \in H!Twins(q) PROVE q[i].turn > Turns
    <3>1. i \in 2..Len(q) /\ i \in 1..Len(q) /\ q \in Seq(Messages)
      BY <2>1 DEF Clean, H!Twins
    <3>2. q[i].role = "assistant" /\ q[i] = q[i - 1] /\ q[i].turn \in Nat
      <4>1. q[i].role = "assistant" /\ q[i] = q[i - 1]
        BY <2>1 DEF H!Twins
      <4>2. q[i] \in Messages
        BY <3>1
      <4> QED
        BY <4>1, <4>2 DEF Messages
    <3>3. ~(q[i].turn <= Turns)
      BY <2>1, <3>1, <3>2 DEF Clean, IsAnswer
    <3> QED
      BY <3>2, <3>3
  <2> QED
    BY <2>1 DEF ChatInv, ClientClean, FilesClean
<1> QED
  BY <1>1, <1>2, <1>3, PTL DEF H!Spec
=============================================================================
