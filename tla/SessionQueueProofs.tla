------------------------- MODULE SessionQueueProofs -------------------------
(***************************************************************************)
(* Type correctness and custody of SessionQueue for every caller           *)
(* discipline; and, when callers do not submit inside one tick, one        *)
(* executing turn per session, no turn left waiting, no session over its   *)
(* limit, and the refinement of SerialSessions, fairness left out.         *)
(***************************************************************************)
EXTENDS SessionQueueRefinement, FiniteSetTheorems, SequenceTheorems, TLAPS

\* A microtask continuation appended behind the running one.
LEMMA AwaitType ==
    ASSUME NEW t \in Turns, NEW kind \in {"enqueue", "drain"},
           jobs \in Seq(Jobs), jobs # <<>>, Await(kind, t)
    PROVE  jobs' \in Seq(Jobs)
<1>1. Tail(jobs) \in Seq(Jobs)
  OBVIOUS
<1>2. <<kind, t>> \in Jobs
  BY DEF Jobs
<1> QED
  BY <1>1, <1>2 DEF Await

\* Removing a turn from a list leaves a list of turns.
LEMMA LeaveType ==
    ASSUME TypeOK, NEW t \in Turns, jobs # <<>>, Leave(t)
    PROVE  pc' \in [Turns -> PcStates] /\ jobs' \in Seq(Jobs)
BY DEF TypeOK, Leave, PcStates

\* Settling a promise.
LEMMA SettleType ==
    ASSUME TypeOK, NEW t \in Turns, NEW how \in Fates, Settle(t, how)
    PROVE  fate' \in [Turns -> Fates]
BY DEF TypeOK, Settle, Fates

\* The first waiting turn is a turn.
LEMMA OldestType ==
    ASSUME TypeOK, NEW s \in Sessions
    PROVE  Oldest(s) \in Turns \cup {None}
<1>1. list[s] \in Seq(Turns)
  BY DEF TypeOK
<1> QED
  BY <1>1 DEF Oldest

\* Taking it leaves a list of turns.
LEMMA ShiftType ==
    ASSUME TypeOK, NEW s \in Sessions, Shift(s)
    PROVE  list' \in [Sessions -> Seq(Turns)]
<1>1. list[s] \in Seq(Turns)
  BY DEF TypeOK
<1>2. list[s] # <<>> => Tail(list[s]) \in Seq(Turns)
  BY <1>1
<1> QED
  BY <1>2 DEF TypeOK, Shift

\* A turn pushed to a session's list.
LEMMA PushType ==
    ASSUME TypeOK, NEW t \in Turns, key[t] \in Sessions, jobs # <<>>, Push(t)
    PROVE  /\ list' \in [Sessions -> Seq(Turns)]
           /\ pc' \in [Turns -> PcStates]
           /\ jobs' \in Seq(Jobs)
<1>1. list[key[t]] \in Seq(Turns)
  BY DEF TypeOK
<1>2. Append(list[key[t]], t) \in Seq(Turns)
  BY <1>1
<1>3. jobs' \in Seq(Jobs)
  BY AwaitType DEF TypeOK, Push
<1> QED
  BY <1>2, <1>3 DEF TypeOK, Push, PcStates

-----------------------------------------------------------------------------
(***************************************************************************)
(* The inductive invariant.  TypeOK needs to know that a submitted turn    *)
(* has a session and that only a turn whose enqueueAsync is over has a     *)
(* drain loop.                                                             *)
(***************************************************************************)
Submitted ==
    \A t \in Turns :
        /\ pc[t] # "new" => key[t] \in Sessions
        /\ drain[t] # "none" => pc[t] = "out"

TypeInv == TypeOK /\ Submitted

\* At first there is nothing.
LEMMA InitType == Init => TypeInv
BY DEF Init, TypeInv, TypeOK, Submitted, PcStates, DrainStates, Fates, Jobs

\* Steps of enqueueAsync and of the drain loop, one lemma per action.
LEMMA SubmitType ==
    ASSUME TypeInv, NEW t \in Turns, NEW s \in Sessions, Submit(t, s)
    PROVE  TypeInv'
<1>1. Len(list[s]) \in Nat
  BY DEF TypeInv, TypeOK
<1>2. StateObject(t, s) \in Turns
  BY DEF TypeInv, TypeOK, StateObject
<1>3. jobs' \in Seq(Jobs)
  BY DEF TypeInv, TypeOK, Submit, Jobs
<1>4. TypeOK'
  BY <1>1, <1>2, <1>3 DEF TypeInv, TypeOK, Submit, PcStates, loopVars
<1>5. Submitted'
  BY DEF TypeInv, TypeOK, Submitted, Submit, loopVars
<1> QED
  BY <1>4, <1>5 DEF TypeInv

\* The steps of enqueueAsync: admitting ...
LEMMA AdmitType ==
    ASSUME TypeInv, NEW t \in Turns, Admit(t) \/ AdmitOverLimit(t)
    PROVE  TypeInv'
<1>1. key[t] \in Sessions /\ jobs # <<>> /\ Push(t) /\ drain[t] = "none"
  BY DEF TypeInv, TypeOK, Submitted, Admit, AdmitOverLimit, Runs
<1>2. TypeOK'
  BY <1>1, PushType DEF TypeInv, TypeOK, Admit, AdmitOverLimit, bookVars, loopVars
<1>3. Submitted'
  BY <1>1 DEF TypeInv, TypeOK, Submitted, Admit, AdmitOverLimit, Push, bookVars, loopVars
<1> QED
  BY <1>2, <1>3 DEF TypeInv

\* ... refusing ...
LEMMA RefuseType ==
    ASSUME TypeInv, NEW t \in Turns, RefuseNew(t) \/ RefuseNoCandidate(t)
    PROVE  TypeInv'
<1>1. /\ key[t] \in Sessions /\ jobs # <<>> /\ drain[t] = "none"
      /\ Leave(t) /\ Settle(t, "refused")
  BY DEF TypeInv, TypeOK, Submitted, RefuseNew, RefuseNoCandidate, Runs
<1>2. fate' \in [Turns -> Fates]
  BY <1>1, SettleType DEF TypeInv, Fates
<1>3. TypeOK'
  BY <1>1, <1>2, LeaveType
     DEF TypeInv, TypeOK, RefuseNew, RefuseNoCandidate, bookVars, loopVars
<1>4. Submitted'
  BY <1>1 DEF TypeInv, TypeOK, Submitted, RefuseNew, RefuseNoCandidate, Leave, bookVars, loopVars
<1> QED
  BY <1>3, <1>4 DEF TypeInv

\* ... taking the oldest turn ...
LEMMA TakeOldestType ==
    ASSUME TypeInv, NEW t \in Turns, TakeOldest(t)
    PROVE  TypeInv'
<1>1. key[t] \in Sessions /\ jobs # <<>> /\ drain[t] = "none"
  BY DEF TypeInv, TypeOK, Submitted, TakeOldest, Runs
<1>2. list' \in [Sessions -> Seq(Turns)] /\ Oldest(key[t]) \in Turns \cup {None}
  BY <1>1, ShiftType, OldestType DEF TypeInv, TakeOldest
<1>3. jobs' \in Seq(Jobs)
  BY <1>1, AwaitType DEF TypeInv, TypeOK, TakeOldest
<1>4. TypeOK'
  BY <1>2, <1>3 DEF TypeInv, TypeOK, TakeOldest, PcStates, bookVars, loopVars
<1>5. Submitted'
  BY <1>1 DEF TypeInv, TypeOK, Submitted, TakeOldest, bookVars, loopVars
<1> QED
  BY <1>4, <1>5 DEF TypeInv

\* ... putting the new one in its place ...
LEMMA ReplaceOldestType ==
    ASSUME TypeInv, NEW t \in Turns, ReplaceOldest(t)
    PROVE  TypeInv'
<1>1. /\ key[t] \in Sessions /\ jobs # <<>> /\ Push(t) /\ drain[t] = "none"
      /\ dropped[t] \in Turns
  BY DEF TypeInv, TypeOK, Submitted, ReplaceOldest, Runs
<1>2. fate' \in [Turns -> Fates]
  BY <1>1, SettleType DEF TypeInv, ReplaceOldest, Fates
<1>3. TypeOK'
  BY <1>1, <1>2, PushType DEF TypeInv, TypeOK, ReplaceOldest, bookVars, loopVars
<1>4. Submitted'
  BY <1>1 DEF TypeInv, TypeOK, Submitted, ReplaceOldest, Push, bookVars, loopVars
<1> QED
  BY <1>3, <1>4 DEF TypeInv

\* ... finding a drain loop that runs ...
LEMMA RegisterBusyType ==
    ASSUME TypeInv, NEW t \in Turns, RegisterBusy(t)
    PROVE  TypeInv'
<1>1. key[t] \in Sessions /\ jobs # <<>> /\ Leave(t) /\ drain[t] = "none"
  BY DEF TypeInv, TypeOK, Submitted, RegisterBusy, Runs
<1>2. TypeOK'
  BY <1>1, LeaveType DEF TypeInv, TypeOK, RegisterBusy, bookVars, loopVars
<1>3. Submitted'
  BY <1>1 DEF TypeInv, TypeOK, Submitted, RegisterBusy, Leave, bookVars, loopVars
<1> QED
  BY <1>2, <1>3 DEF TypeInv

\* ... and starting one.
LEMMA RegisterAndDrainType ==
    ASSUME TypeInv, NEW t \in Turns, RegisterAndDrain(t)
    PROVE  TypeInv'
<1>1. key[t] \in Sessions /\ jobs # <<>>
  BY DEF TypeInv, TypeOK, Submitted, RegisterAndDrain, Runs
<1>2. list' \in [Sessions -> Seq(Turns)] /\ Oldest(key[t]) \in Turns \cup {None}
  BY <1>1, ShiftType, OldestType DEF TypeInv, RegisterAndDrain
<1>3. jobs' \in Seq(Jobs)
  BY <1>1, AwaitType DEF TypeInv, TypeOK, RegisterAndDrain
<1>4. TypeOK'
  BY <1>2, <1>3 DEF TypeInv, TypeOK, RegisterAndDrain, PcStates, DrainStates, bookVars
<1>5. Submitted'
  BY <1>1 DEF TypeInv, TypeOK, Submitted, RegisterAndDrain, bookVars
<1> QED
  BY <1>4, <1>5 DEF TypeInv

\* The steps of drain: starting a turn, its return and the end ...
LEMMA DrainStepType ==
    ASSUME TypeInv, NEW d \in Turns, StartTurn(d) \/ EndDrain(d) \/ ExecuteReturns(d)
    PROVE  TypeInv'
<1>1. pc[d] = "out"
  BY DEF TypeInv, Submitted, StartTurn, EndDrain, ExecuteReturns
<1>2. jobs' \in Seq(Jobs)
  <2>1. CASE StartTurn(d) \/ EndDrain(d)
    <3>1. jobs \in Seq(Jobs) /\ jobs # <<>> /\ jobs' = Tail(jobs)
      BY <2>1 DEF TypeInv, TypeOK, StartTurn, EndDrain, Runs
    <3> QED
      BY <3>1
  <2>2. CASE ExecuteReturns(d)
    <3>1. <<"drain", d>> \in Jobs
      BY DEF Jobs
    <3> QED
      BY <2>2, <3>1 DEF ExecuteReturns
  <2> QED
    BY <2>1, <2>2
<1>3. TypeOK'
  BY <1>2 DEF TypeInv, TypeOK, StartTurn, EndDrain, ExecuteReturns, DrainStates, bookVars
<1>4. Submitted'
  BY <1>1 DEF TypeInv, TypeOK, Submitted, StartTurn, EndDrain, ExecuteReturns, bookVars
<1> QED
  BY <1>3, <1>4 DEF TypeInv

\* ... and going on to the next turn.
LEMMA SettleAndNextType ==
    ASSUME TypeInv, NEW d \in Turns, SettleAndNext(d)
    PROVE  TypeInv'
<1>1. key[d] \in Sessions /\ jobs # <<>> /\ pc[d] = "out"
  BY DEF TypeInv, TypeOK, Submitted, SettleAndNext, Runs
<1>2. list' \in [Sessions -> Seq(Turns)] /\ Oldest(key[d]) \in Turns \cup {None}
  BY <1>1, ShiftType, OldestType DEF TypeInv, SettleAndNext
<1>3. jobs' \in Seq(Jobs)
  BY <1>1, AwaitType DEF TypeInv, TypeOK, SettleAndNext
<1>4. fate' \in [Turns -> Fates]
  BY DEF TypeInv, TypeOK, SettleAndNext, Settle, Fates
<1>5. TypeOK'
  BY <1>2, <1>3, <1>4 DEF TypeInv, TypeOK, SettleAndNext, DrainStates, bookVars
<1>6. Submitted'
  BY <1>1 DEF TypeInv, TypeOK, Submitted, SettleAndNext, bookVars
<1> QED
  BY <1>5, <1>6 DEF TypeInv

\* Every step keeps the types.
LEMMA NextType ==
    ASSUME TypeInv, [Next]_vars
    PROVE  TypeInv'
<1>1. CASE UNCHANGED vars
  BY <1>1 DEF TypeInv, TypeOK, Submitted, vars
<1>2. CASE Next
  BY <1>2, SubmitType, AdmitType, RefuseType, TakeOldestType, ReplaceOldestType,
     RegisterBusyType, RegisterAndDrainType, DrainStepType, SettleAndNextType
     DEF Next, RunJob
<1> QED
  BY <1>1, <1>2

\* Type correctness of the queue, for every limit, strategy and caller
\* discipline.
THEOREM TypeCorrect == Spec => []TypeOK
<1>1. TypeInv => TypeOK
  BY DEF TypeInv
<1> QED
  BY <1>1, InitType, NextType, PTL DEF Spec

-----------------------------------------------------------------------------
(***************************************************************************)
(* One turn per session, when callers do not submit inside one tick.  Then *)
(* every macrotask starts with no microtask left and leaves at most one,   *)
(* so between the read of the session's state object and the registration  *)
(* of it nothing else runs.  The inductive invariant says so: at most one  *)
(* microtask is pending, it belongs to the only enqueueAsync or drain loop *)
(* that is between two awaits, and what that enqueueAsync read is what     *)
(* `sessions` still holds.                                                 *)
(***************************************************************************)
InFlight(t) == pc[t] \in {"listing", "dropping", "pushed"}
Draining(d) == drain[d] \in {"dequeuing", "executing", "settling"}

OneJob ==
    /\ \A t \in Turns : InFlight(t) => jobs = <<<<"enqueue", t>>>>
    /\ \A d \in Turns :
           drain[d] \in {"dequeuing", "settling"} => jobs = <<<<"drain", d>>>>
    /\ jobs # <<>> => \E t \in Turns, kind \in {"enqueue", "drain"} :
                          jobs = <<<<kind, t>>>>

\* An enqueueAsync holds the registered state object of its session, or a new
\* one when none is registered; a registered one belongs to that session.
StateObjects ==
    /\ \A t \in Turns : InFlight(t) => obj[t] = StateObject(t, key[t])
    /\ \A s \in Sessions :
           registered[s] # None =>
               key[registered[s]] = s /\ pc[registered[s]] = "out"

\* A live drain loop runs on the registered state object, flagged running, and
\* is its session's only one.
OneDrain ==
    /\ \A d \in Turns :
           Draining(d) => registered[key[d]] = obj[d] /\ running[obj[d]]
    /\ \A d, e \in Turns : Draining(d) /\ Draining(e) /\ key[d] = key[e] => d = e

SerialInv == TypeInv /\ OneJob /\ StateObjects /\ OneDrain

\* At first no microtask is pending and no session is known.
LEMMA InitSerial == Init => SerialInv
<1> SUFFICES ASSUME Init PROVE SerialInv
  OBVIOUS
<1>1. TypeInv
  BY InitType
<1>2. OneJob
  BY DEF Init, OneJob, InFlight
<1>3. StateObjects /\ OneDrain
  BY DEF Init, StateObjects, OneDrain, InFlight, Draining
<1> QED
  BY <1>1, <1>2, <1>3 DEF SerialInv

\* Who runs is the owner of the only microtask, and leaves at most one.
LEMMA SoleJob ==
    ASSUME NEW kind \in {"enqueue", "drain"}, NEW t \in Turns
    PROVE  Append(<<>>, <<kind, t>>) = <<<<kind, t>>>>
<1>1. <<kind, t>> \in Jobs /\ <<>> \in Seq(Jobs)
  BY DEF Jobs
<1>2. \A job \in Jobs : Append(<<>>, job) = <<job>>
  OBVIOUS
<1> QED
  BY <1>1, <1>2

\* The running microtask is the only one, and its owner the only one in flight.
LEMMA RunsAlone ==
    ASSUME SerialInv, NEW kind \in {"enqueue", "drain"}, NEW t \in Turns,
           Runs(kind, t)
    PROVE  /\ Tail(jobs) = <<>>
           /\ \A u \in Turns, k \in {"enqueue", "drain"} :
                  Await(k, u) => jobs' = <<<<k, u>>>>
           /\ \A u \in Turns : InFlight(u) => kind = "enqueue" /\ u = t
           /\ \A d \in Turns :
                  drain[d] \in {"dequeuing", "settling"} => kind = "drain" /\ d = t
<1>1. PICK u \in Turns, k \in {"enqueue", "drain"} : jobs = <<<<k, u>>>>
  BY DEF SerialInv, OneJob, Runs
<1>2. k = kind /\ u = t
  BY <1>1 DEF Runs
<1>3. jobs = <<<<kind, t>>>>
  BY <1>1, <1>2
<1>4. Tail(jobs) = <<>>
  BY <1>3
<1>5. \A v \in Turns, j \in {"enqueue", "drain"} : Await(j, v) => jobs' = <<<<j, v>>>>
  BY <1>4, SoleJob DEF Await
<1>6. \A v \in Turns : InFlight(v) => kind = "enqueue" /\ v = t
  BY <1>3 DEF SerialInv, OneJob
<1>7. \A d \in Turns :
         drain[d] \in {"dequeuing", "settling"} => kind = "drain" /\ d = t
  BY <1>3 DEF SerialInv, OneJob
<1> QED
  BY <1>4, <1>5, <1>6, <1>7

\* A caller submits when no microtask is pending.
LEMMA SubmitSerial ==
    ASSUME SerialInv, ~Burst, NEW t \in Turns, NEW s \in Sessions, Submit(t, s)
    PROVE  SerialInv'
<1>1. TypeInv'
  BY SubmitType DEF SerialInv
<1>2. /\ jobs = <<>> /\ jobs' = <<<<"enqueue", t>>>>
      /\ drain[t] = "none" /\ pc[t] = "new"
  BY SoleJob DEF Submit, SerialInv, TypeInv, Submitted
<1>3. /\ \A u \in Turns : ~InFlight(u)
      /\ \A d \in Turns : drain[d] \notin {"dequeuing", "settling"}
  BY <1>2 DEF SerialInv, OneJob
<1>4. OneJob'
  BY <1>2, <1>3 DEF OneJob, InFlight, Submit, loopVars, SerialInv, TypeInv, TypeOK
<1>5. StateObjects'
  <2>1. \A u \in Turns : InFlight(u)' => u = t
    BY <1>3 DEF InFlight, Submit, SerialInv, TypeInv, TypeOK
  <2>2. obj'[t] = StateObject(t, key[t])'
    BY DEF Submit, StateObject, SerialInv, TypeInv, TypeOK
  <2>3. ASSUME NEW r \in Sessions, registered[r] # None
        PROVE  key'[registered[r]] = r /\ pc'[registered[r]] = "out"
    <3>1. registered[r] \in Turns /\ registered[r] # t
      BY <1>2, <2>3 DEF SerialInv, StateObjects, TypeInv, TypeOK
    <3> QED
      BY <2>3, <3>1 DEF SerialInv, StateObjects, Submit, TypeInv, TypeOK
  <2> QED
    BY <2>1, <2>2, <2>3 DEF StateObjects, Submit
<1>6. OneDrain'
  <2>1. \A d \in Turns :
          Draining(d) => d # t /\ key'[d] = key[d] /\ obj'[d] = obj[d]
    BY <1>2 DEF Draining, Submit, SerialInv, TypeInv, TypeOK
  <2> QED
    BY <2>1 DEF OneDrain, Draining, Submit, loopVars, SerialInv
<1> QED
  BY <1>1, <1>4, <1>5, <1>6 DEF SerialInv

\* enqueueAsync moves on, or ends, without touching the state objects.
LEMMA EnqueueStepSerial ==
    ASSUME SerialInv, NEW t \in Turns,
           \/ Admit(t) \/ AdmitOverLimit(t) \/ TakeOldest(t) \/ ReplaceOldest(t)
           \/ RefuseNew(t) \/ RefuseNoCandidate(t)
    PROVE  SerialInv'
<1>1. TypeInv'
  BY AdmitType, TakeOldestType, ReplaceOldestType, RefuseType DEF SerialInv
<1>2. /\ Runs("enqueue", t)
      /\ pc[t] \in {"listing", "dropping"}
      /\ UNCHANGED <<key, obj, registered, running, drain>>
  BY DEF Admit, AdmitOverLimit, TakeOldest, ReplaceOldest, RefuseNew,
         RefuseNoCandidate, bookVars, loopVars
<1>3. \/ pc' = [pc EXCEPT ![t] = "out"] /\ jobs' = <<>>
      \/ /\ \E p \in {"dropping", "pushed"} : pc' = [pc EXCEPT ![t] = p]
         /\ jobs' = <<<<"enqueue", t>>>>
  BY <1>2, RunsAlone DEF Admit, AdmitOverLimit, TakeOldest, ReplaceOldest,
         RefuseNew, RefuseNoCandidate, Push, Leave
<1>4. /\ \A u \in Turns : InFlight(u) => u = t
      /\ \A d \in Turns : drain[d] \notin {"dequeuing", "settling"}
  BY <1>2, RunsAlone
<1>5. \A u \in Turns : InFlight(u)' => u = t /\ jobs' = <<<<"enqueue", t>>>>
  BY <1>3, <1>4 DEF InFlight, SerialInv, TypeInv, TypeOK
<1>6. OneJob'
  BY <1>2, <1>3, <1>4, <1>5 DEF OneJob
<1>7. StateObjects'
  <2>1. obj[t] = StateObject(t, key[t])
    BY <1>2 DEF SerialInv, StateObjects, InFlight
  <2>2. \A u \in Turns : pc[u] = "out" => pc'[u] = "out"
    BY <1>2, <1>3 DEF SerialInv, TypeInv, TypeOK
  <2> QED
    BY <1>2, <1>5, <2>1, <2>2
       DEF StateObjects, StateObject, SerialInv, TypeInv, TypeOK
<1>8. OneDrain'
  BY <1>2 DEF OneDrain, Draining, SerialInv
<1> QED
  BY <1>1, <1>6, <1>7, <1>8 DEF SerialInv

\* The registration of the state object, and drain() up to its first await.
LEMMA RegisterSerial ==
    ASSUME SerialInv, NEW t \in Turns, RegisterBusy(t) \/ RegisterAndDrain(t)
    PROVE  SerialInv'
<1>1. TypeInv'
  BY RegisterBusyType, RegisterAndDrainType DEF SerialInv
<1>2. /\ Runs("enqueue", t) /\ pc[t] = "pushed" /\ key[t] \in Sessions
      /\ UNCHANGED <<key, obj>>
      /\ registered' = [registered EXCEPT ![key[t]] = obj[t]]
      /\ pc' = [pc EXCEPT ![t] = "out"]
  BY DEF RegisterBusy, RegisterAndDrain, Leave, bookVars, SerialInv, TypeInv, Submitted
<1>3. /\ obj[t] = StateObject(t, key[t])
      /\ \A u \in Turns : InFlight(u) => u = t
      /\ \A d \in Turns : drain[d] \notin {"dequeuing", "settling"}
  BY <1>2, RunsAlone DEF SerialInv, StateObjects, InFlight
<1>4. \A u \in Turns : ~InFlight(u)'
  BY <1>2, <1>3 DEF InFlight, SerialInv, TypeInv, TypeOK
<1>5. StateObjects'
  <2>1. obj[t] \in Turns /\ key[obj[t]] = key[t] /\ pc'[obj[t]] = "out"
    BY <1>2, <1>3 DEF StateObject, StateObjects, SerialInv, TypeInv, TypeOK
  <2>2. ASSUME NEW s \in Sessions, registered'[s] # None
        PROVE  key[registered'[s]] = s /\ pc'[registered'[s]] = "out"
    <3>1. CASE s = key[t]
      BY <1>2, <2>1, <3>1 DEF SerialInv, TypeInv, TypeOK
    <3>2. CASE s # key[t]
      BY <1>2, <2>2, <3>2 DEF StateObjects, SerialInv, TypeInv, TypeOK
    <3> QED
      BY <3>1, <3>2
  <2> QED
    BY <1>2, <1>4, <2>2 DEF StateObjects
\* A drain loop of the session runs on the object just registered again.
<1>6. ASSUME NEW d \in Turns, Draining(d)
      PROVE  /\ registered'[key[d]] = obj[d]
             /\ key[d] = key[t] => obj[d] = obj[t] /\ running[obj[t]]
  <2>1. registered[key[d]] = obj[d] /\ obj[d] \in Turns /\ key[d] \in Sessions
    BY <1>6 DEF SerialInv, OneDrain, TypeInv, TypeOK, Submitted, Draining
  <2>2. key[d] = key[t] => obj[d] = obj[t] /\ running[obj[t]]
    BY <1>3, <1>6, <2>1, NoneAssumption DEF SerialInv, OneDrain, StateObject
  <2> QED
    BY <1>2, <2>1, <2>2 DEF SerialInv, TypeInv, TypeOK
<1>7. CASE RegisterBusy(t)
  <2>1. jobs' = <<>> /\ UNCHANGED <<running, drain>>
    BY <1>2, <1>7, RunsAlone DEF RegisterBusy, Leave, loopVars
  <2>2. OneJob'
    BY <1>3, <1>4, <2>1 DEF OneJob
  <2>3. OneDrain'
    BY <1>2, <1>6, <2>1 DEF OneDrain, Draining, SerialInv
  <2> QED
    BY <1>1, <1>5, <2>2, <2>3 DEF SerialInv
<1>8. CASE RegisterAndDrain(t)
  <2>1. /\ jobs' = <<<<"drain", t>>>>
        /\ ~running[obj[t]]
        /\ running' = [running EXCEPT ![obj[t]] = TRUE]
        /\ drain' = [drain EXCEPT ![t] = "dequeuing"]
    BY <1>2, <1>8, RunsAlone DEF RegisterAndDrain
  <2>2. OneJob'
    BY <1>3, <1>4, <2>1 DEF OneJob, SerialInv, TypeInv, TypeOK
  <2>3. \A d \in Turns : Draining(d)' => d = t \/ (Draining(d) /\ key[d] # key[t])
    BY <1>6, <2>1 DEF Draining, SerialInv, TypeInv, TypeOK
  <2>4. ASSUME NEW d \in Turns, Draining(d)'
        PROVE  registered'[key[d]] = obj[d] /\ running'[obj[d]]
    <3>1. CASE d = t
      BY <1>2, <2>1, <3>1 DEF SerialInv, TypeInv, TypeOK
    <3>2. CASE d # t
      BY <1>6, <2>1, <2>3, <2>4, <3>2 DEF SerialInv, OneDrain, TypeInv, TypeOK
    <3> QED
      BY <3>1, <3>2
  <2>5. OneDrain'
    BY <1>2, <2>3, <2>4 DEF OneDrain, SerialInv
  <2> QED
    BY <1>1, <1>5, <2>2, <2>5 DEF SerialInv
<1> QED
  BY <1>7, <1>8

\* The drain loop's own steps.
LEMMA DrainSerial ==
    ASSUME SerialInv, NEW d \in Turns,
           \/ StartTurn(d) \/ EndDrain(d) \/ ExecuteReturns(d) \/ SettleAndNext(d)
    PROVE  SerialInv'
<1>1. TypeInv'
  BY DrainStepType, SettleAndNextType DEF SerialInv
<1>2. /\ UNCHANGED <<key, obj, pc, registered>>
      /\ Draining(d)
  BY DEF StartTurn, EndDrain, ExecuteReturns, SettleAndNext, bookVars, Draining
<1>3. /\ \A u \in Turns : ~InFlight(u)
      /\ \A e \in Turns : drain[e] \in {"dequeuing", "settling"} => e = d
  BY RunsAlone DEF StartTurn, EndDrain, ExecuteReturns, SettleAndNext, SerialInv, OneJob
<1>4. \/ /\ jobs' = <<>>
         /\ \E p \in {"executing", "done"} : drain' = [drain EXCEPT ![d] = p]
      \/ /\ jobs' = <<<<"drain", d>>>>
         /\ \E p \in {"settling", "dequeuing"} : drain' = [drain EXCEPT ![d] = p]
  BY RunsAlone DEF StartTurn, EndDrain, ExecuteReturns, SettleAndNext
<1>5. OneJob'
  BY <1>2, <1>3, <1>4 DEF OneJob, InFlight, SerialInv, TypeInv, TypeOK
<1>6. StateObjects'
  BY <1>2, <1>3 DEF StateObjects, InFlight, SerialInv
<1>7. OneDrain'
  <2>1. \A e \in Turns : Draining(e)' => Draining(e)
    BY <1>2, <1>4 DEF Draining, SerialInv, TypeInv, TypeOK
  <2>2. ASSUME NEW e \in Turns, Draining(e)' PROVE running'[obj[e]]
    <3>1. Draining(e) /\ running[obj[e]]
      BY <2>1, <2>2 DEF SerialInv, OneDrain
    <3>2. CASE UNCHANGED running
      BY <3>1, <3>2
    <3>3. CASE EndDrain(d)
      <4>1. e # d
        BY <2>2, <3>3 DEF EndDrain, Draining, SerialInv, TypeInv, TypeOK
      <4>2. key[e] # key[d]
        BY <1>2, <3>1, <4>1 DEF SerialInv, OneDrain
      <4>3. /\ key[e] \in Sessions /\ key[d] \in Sessions
            /\ registered[key[e]] = obj[e] /\ registered[key[d]] = obj[d]
            /\ obj[e] \in Turns /\ obj[d] \in Turns
        BY <1>2, <3>1 DEF SerialInv, OneDrain, Draining, TypeInv, TypeOK, Submitted
      <4>4. key[obj[e]] = key[e] /\ key[obj[d]] = key[d]
        BY <4>3, NoneAssumption DEF SerialInv, StateObjects
      <4>5. obj[e] # obj[d]
        BY <4>2, <4>4
      <4> QED
        BY <3>1, <3>3, <4>5 DEF EndDrain
    <3> QED
      BY <3>2, <3>3 DEF StartTurn, ExecuteReturns, SettleAndNext
  <2> QED
    BY <1>2, <2>1, <2>2 DEF OneDrain, SerialInv
<1> QED
  BY <1>1, <1>5, <1>6, <1>7 DEF SerialInv

\* Every step keeps one turn per session.
LEMMA NextSerial ==
    ASSUME SerialInv, ~Burst, [Next]_vars
    PROVE  SerialInv'
<1>1. CASE UNCHANGED vars
  BY <1>1 DEF SerialInv, TypeInv, TypeOK, Submitted, OneJob, StateObjects,
              OneDrain, InFlight, Draining, StateObject, vars
<1>2. CASE Next
  BY <1>2, SubmitSerial, EnqueueStepSerial, RegisterSerial, DrainSerial DEF Next, RunJob
<1> QED
  BY <1>1, <1>2

\* Mutual exclusion: when callers do not submit inside one tick, two turns of
\* one session never execute at the same time, whatever the limit and strategy.
THEOREM MutualExclusion == ~Burst => (Spec => []OneTurnPerSession)
<1> SUFFICES ASSUME ~Burst PROVE Spec => []OneTurnPerSession
  OBVIOUS
<1>1. SerialInv => OneTurnPerSession
  BY DEF SerialInv, OneDrain, OneTurnPerSession, Executing, Draining
<1>2. SerialInv /\ [Next]_vars => SerialInv'
  BY NextSerial
<1> QED
  BY <1>1, <1>2, InitSerial, PTL DEF Spec

-----------------------------------------------------------------------------
(***************************************************************************)
(* No waiting turn without a drain loop that comes back for it, and no     *)
(* more turns than the limit.                                              *)
(***************************************************************************)

\* A drain loop that has a turn.
Busy(d) == Executing(d) \/ (drain[d] = "dequeuing" /\ hand[d] # None)

\* A flag is set by a loop that is alive.
FlagHasLoop == \A o \in Turns : running[o] => \E d \in Turns : Draining(d) /\ obj[d] = o

\* Waiting turns have a busy loop, or a caller that is about to see to one.
Served ==
    /\ \A s \in Sessions : list[s] # <<>> =>
           \E t \in Turns : key[t] = s /\ (pc[t] = "pushed" \/ Busy(t))
    /\ \A t \in Turns : pc[t] = "pushed" => list[key[t]] # <<>>

ServedInv == SerialInv /\ FlagHasLoop /\ Served

\* The loop a caller finds flagged is its session's, and executes a turn.
LEMMA FlaggedLoop ==
    ASSUME ServedInv, NEW t \in Turns, InFlight(t), running[obj[t]]
    PROVE  \E d \in Turns : drain[d] = "executing" /\ key[d] = key[t]
<1> USE DEF ServedInv, SerialInv
<1>1. key[t] \in Sessions /\ obj[t] \in Turns /\ obj[t] = StateObject(t, key[t]) /\ pc[t] # "out"
  BY DEF TypeInv, TypeOK, Submitted, InFlight, StateObjects
<1>2. PICK d \in Turns : Draining(d) /\ obj[d] = obj[t]
  BY <1>1 DEF FlagHasLoop
<1>3. key[d] \in Sessions /\ registered[key[d]] = obj[t]
  BY <1>2 DEF OneDrain, TypeInv, TypeOK, Submitted, Draining
<1>4. key[obj[t]] = key[d] /\ pc[obj[t]] = "out"
  BY <1>1, <1>3, NoneAssumption DEF StateObjects
<1>5. obj[t] # t
  BY <1>1, <1>4
<1>6. registered[key[t]] = obj[t] /\ registered[key[t]] # None
  BY <1>1, <1>5, NoneAssumption DEF StateObject
<1>7. key[obj[t]] = key[t]
  BY <1>1, <1>6 DEF StateObjects
<1>8. jobs = <<<<"enqueue", t>>>>
  BY DEF OneJob
<1>9. drain[d] = "executing"
  BY <1>2, <1>8 DEF OneJob, Draining
<1> QED
  BY <1>4, <1>7, <1>9

\* Nothing waits at first.
LEMMA InitServed == Init => ServedInv
<1> SUFFICES ASSUME Init PROVE ServedInv
  OBVIOUS
<1>1. FlagHasLoop /\ Served
  BY DEF Init, FlagHasLoop, Served
<1> QED
  BY <1>1, InitSerial DEF ServedInv

\* A new caller has pushed nothing yet.
LEMMA SubmitServed ==
    ASSUME ServedInv, ~Burst, NEW t \in Turns, NEW s \in Sessions, Submit(t, s)
    PROVE  ServedInv'
<1>1. SerialInv'
  BY SubmitSerial DEF ServedInv
<1>2. /\ UNCHANGED <<running, list, drain, hand>> /\ pc[t] = "new" /\ drain[t] = "none"
      /\ pc'[t] = "listing"
      /\ \A u \in Turns : u # t => pc'[u] = pc[u] /\ key'[u] = key[u] /\ obj'[u] = obj[u]
  BY DEF Submit, loopVars, ServedInv, SerialInv, TypeInv, TypeOK, Submitted
<1>3. FlagHasLoop'
  BY <1>2 DEF FlagHasLoop, Draining, ServedInv
<1>4. Served'
  BY <1>2 DEF Served, Busy, Executing, ServedInv
<1> QED
  BY <1>1, <1>3, <1>4 DEF ServedInv

\* A caller that pushes sees to a loop next; one that leaves pushed nothing.
LEMMA EnqueueStepServed ==
    ASSUME ServedInv, NEW t \in Turns,
           \/ Admit(t) \/ AdmitOverLimit(t) \/ TakeOldest(t) \/ ReplaceOldest(t)
           \/ RefuseNew(t) \/ RefuseNoCandidate(t)
    PROVE  ServedInv'
<1> USE DEF ServedInv
<1>1. SerialInv'
  BY EnqueueStepSerial
<1>2. /\ UNCHANGED <<key, obj, running, drain, hand>>
      /\ pc[t] \in {"listing", "dropping"} /\ key[t] \in Sessions /\ drain[t] = "none"
      /\ \A u \in Turns : u # t => pc'[u] = pc[u]
  BY DEF Admit, AdmitOverLimit, TakeOldest, ReplaceOldest, RefuseNew, RefuseNoCandidate,
         Push, Leave, bookVars, loopVars, SerialInv, TypeInv, TypeOK, Submitted
<1>3. FlagHasLoop'
  BY <1>2 DEF FlagHasLoop, Draining
<1>4. \A u \in Turns : ~(pc[u] = "pushed")
  BY <1>2 DEF SerialInv, OneJob, InFlight
<1>5. ASSUME NEW s \in Sessions, list[s] # <<>>
      PROVE  \E u \in Turns : key'[u] = s /\ Busy(u)'
  BY <1>2, <1>4, <1>5 DEF Served, Busy, Executing
<1>6. CASE Admit(t) \/ AdmitOverLimit(t) \/ ReplaceOldest(t)
  <2>1. /\ pc'[t] = "pushed" /\ list' = [list EXCEPT ![key[t]] = Append(@, t)]
    BY <1>6 DEF Admit, AdmitOverLimit, ReplaceOldest, Push, SerialInv, TypeInv, TypeOK
  <2>2. Append(list[key[t]], t) # <<>>
    <3>1. list[key[t]] \in Seq(Turns)
      BY <1>2 DEF SerialInv, TypeInv, TypeOK
    <3>2. Len(Append(list[key[t]], t)) = Len(list[key[t]]) + 1 /\ Len(list[key[t]]) \in Nat
      BY <3>1
    <3>3. Len(Append(list[key[t]], t)) # Len(<<>>)
      BY <3>2
    <3> QED
      BY <3>3
  <2>3. list'[key[t]] # <<>> /\ \A s \in Sessions : s # key[t] => list'[s] = list[s]
    BY <1>2, <2>1, <2>2 DEF SerialInv, TypeInv, TypeOK
  <2>4. \A u \in Turns : pc'[u] = "pushed" => u = t
    BY <1>2, <1>4
  <2> QED
    BY <1>1, <1>2, <1>3, <1>5, <2>1, <2>3, <2>4 DEF Served
<1>7. CASE TakeOldest(t) \/ RefuseNew(t) \/ RefuseNoCandidate(t)
  <2>1. pc'[t] # "pushed"
    BY <1>7 DEF TakeOldest, RefuseNew, RefuseNoCandidate, Leave, SerialInv, TypeInv, TypeOK
  <2>2. \A s \in Sessions : list'[s] # <<>> => list[s] # <<>>
    BY <1>7, <1>2 DEF TakeOldest, RefuseNew, RefuseNoCandidate, Shift, SerialInv, TypeInv, TypeOK
  <2> QED
    BY <1>1, <1>2, <1>3, <1>4, <1>5, <2>1, <2>2 DEF Served
<1> QED
  BY <1>6, <1>7

\* A caller leaves its turn to the loop that runs, or starts one that has a turn.
LEMMA RegisterServed ==
    ASSUME ServedInv, NEW t \in Turns, RegisterBusy(t) \/ RegisterAndDrain(t)
    PROVE  ServedInv'
<1> USE DEF ServedInv
<1>1. SerialInv'
  BY RegisterSerial
<1>2. /\ UNCHANGED <<key, obj>>
      /\ pc[t] = "pushed" /\ pc'[t] = "out" /\ key[t] \in Sessions /\ drain[t] = "none"
      /\ obj[t] \in Turns
      /\ \A u \in Turns : u # t => pc'[u] = pc[u]
  BY DEF RegisterBusy, RegisterAndDrain, Leave, bookVars, SerialInv, TypeInv, TypeOK, Submitted
<1>3. \A u \in Turns : pc[u] = "pushed" => u = t
  BY <1>2 DEF SerialInv, OneJob, InFlight
<1>4. CASE RegisterBusy(t)
  <2>1. UNCHANGED <<running, list, drain, hand>> /\ running[obj[t]]
    BY <1>4 DEF RegisterBusy, bookVars, loopVars
  <2>2. PICK d \in Turns : drain[d] = "executing" /\ key[d] = key[t]
    BY <1>2, <2>1, FlaggedLoop DEF InFlight
  <2>3. FlagHasLoop'
    BY <1>2, <2>1 DEF FlagHasLoop, Draining
  <2>4. Served'
    BY <1>2, <1>3, <2>1, <2>2 DEF Served, Busy, Executing
  <2> QED
    BY <1>1, <2>3, <2>4
<1>5. CASE RegisterAndDrain(t)
  <2>1. /\ running' = [running EXCEPT ![obj[t]] = TRUE]
        /\ drain' = [drain EXCEPT ![t] = "dequeuing"]
        /\ hand' = [hand EXCEPT ![t] = Oldest(key[t])]
        /\ Shift(key[t])
    BY <1>5 DEF RegisterAndDrain
  <2>2. list[key[t]] # <<>> /\ list[key[t]] \in Seq(Turns)
    BY <1>2 DEF Served, SerialInv, TypeInv, TypeOK
  <2>3. Head(list[key[t]]) \in Turns
    BY <2>2
  <2>4. Oldest(key[t]) # None
    BY <2>2, <2>3, NoneAssumption DEF Oldest
  <2>5. /\ drain'[t] = "dequeuing" /\ hand'[t] = Oldest(key[t])
        /\ \A u \in Turns : u # t => drain'[u] = drain[u] /\ hand'[u] = hand[u]
        /\ \A s \in Sessions : s # key[t] => list'[s] = list[s]
        /\ running'[obj[t]] /\ \A o \in Turns : o # obj[t] => running'[o] = running[o]
    BY <1>2, <2>1 DEF Shift, SerialInv, TypeInv, TypeOK
  <2>6. FlagHasLoop'
    BY <1>2, <2>5 DEF FlagHasLoop, Draining
  <2>7. Served'
    BY <1>2, <1>3, <2>4, <2>5 DEF Served, Busy, Executing
  <2> QED
    BY <1>1, <2>6, <2>7
<1> QED
  BY <1>4, <1>5

\* A loop that ends found nothing to take; one that goes on has the oldest turn.
LEMMA DrainServed ==
    ASSUME ServedInv, NEW d \in Turns,
           \/ StartTurn(d) \/ EndDrain(d) \/ ExecuteReturns(d) \/ SettleAndNext(d)
    PROVE  ServedInv'
<1> USE DEF ServedInv
<1>1. SerialInv'
  BY DrainSerial
<1>2. /\ UNCHANGED <<key, obj, pc>> /\ Draining(d) /\ key[d] \in Sessions
      /\ obj[d] \in Turns
  BY DEF StartTurn, EndDrain, ExecuteReturns, SettleAndNext, bookVars, Draining,
         SerialInv, TypeInv, TypeOK, Submitted
<1>3. \A u \in Turns : pc[u] # "pushed"
  BY RunsAlone DEF StartTurn, EndDrain, ExecuteReturns, SettleAndNext, SerialInv, OneJob, InFlight
<1>4. \A u \in Turns : u # d => drain'[u] = drain[u] /\ hand'[u] = hand[u]
  BY DEF StartTurn, EndDrain, ExecuteReturns, SettleAndNext, SerialInv, TypeInv, TypeOK
<1>5. CASE StartTurn(d) \/ ExecuteReturns(d)
  <2>1. UNCHANGED <<running, list, hand>> /\ Busy(d) /\ drain'[d] \in {"executing", "settling"}
    BY <1>5 DEF StartTurn, ExecuteReturns, Busy, Executing, SerialInv, TypeInv, TypeOK
  <2>2. FlagHasLoop'
    BY <1>2, <1>4, <2>1 DEF FlagHasLoop, Draining
  <2>3. Served'
    BY <1>2, <1>3, <1>4, <2>1 DEF Served, Busy, Executing
  <2> QED
    BY <1>1, <2>2, <2>3
<1>6. CASE EndDrain(d)
  <2>1. /\ UNCHANGED <<list, hand>> /\ ~Busy(d)
        /\ running' = [running EXCEPT ![obj[d]] = FALSE]
    BY <1>6 DEF EndDrain, Busy, Executing
  <2>2. \A o \in Turns : running'[o] => running[o] /\ o # obj[d]
    BY <1>2, <2>1 DEF SerialInv, TypeInv, TypeOK
  <2>3. FlagHasLoop'
    BY <1>2, <1>4, <2>2 DEF FlagHasLoop, Draining
  <2>4. Served'
    BY <1>2, <1>3, <1>4, <2>1 DEF Served, Busy, Executing
  <2> QED
    BY <1>1, <2>3, <2>4
<1>7. CASE SettleAndNext(d)
  <2>1. /\ UNCHANGED running /\ drain'[d] = "dequeuing" /\ hand'[d] = Oldest(key[d])
        /\ Shift(key[d]) /\ list[key[d]] \in Seq(Turns)
    BY <1>2, <1>7 DEF SettleAndNext, SerialInv, TypeInv, TypeOK
  <2>2. \A s \in Sessions : s # key[d] => list'[s] = list[s]
    BY <2>1 DEF Shift
  <2>3. list'[key[d]] # <<>> => list[key[d]] # <<>>
    BY <2>1 DEF Shift
  <2>4. list[key[d]] # <<>> => Head(list[key[d]]) \in Turns
    BY <2>1
  <2>5. list[key[d]] # <<>> => Oldest(key[d]) # None
    BY <2>4, NoneAssumption DEF Oldest
  <2>6. FlagHasLoop'
    BY <1>2, <1>4, <2>1 DEF FlagHasLoop, Draining
  <2>7. Served'
    BY <1>2, <1>3, <1>4, <2>1, <2>2, <2>3, <2>5 DEF Served, Busy, Executing
  <2> QED
    BY <1>1, <2>6, <2>7
<1> QED
  BY <1>5, <1>6, <1>7

\* Every step keeps the invariant.
LEMMA NextServed == ASSUME ServedInv, ~Burst, [Next]_vars PROVE ServedInv'
<1>1. CASE UNCHANGED vars
  <2>1. SerialInv'
    BY <1>1, NextSerial DEF ServedInv
  <2> QED
    BY <1>1, <2>1 DEF ServedInv, FlagHasLoop, Served, Busy, Executing, Draining, vars
<1>2. CASE Next
  BY <1>2, SubmitServed, EnqueueStepServed, RegisterServed, DrainServed DEF Next, RunJob
<1> QED
  BY <1>1, <1>2

\* No lost wake-up: when callers do not submit inside one tick, a session with waiting
\* turns has a loop that executes one and will come back, whatever the limit,
\* the strategy and the number of turns and sessions.
THEOREM NoLostWakeUp == ~Burst => (Spec => []NoStrandedTurn)
<1> SUFFICES ASSUME ~Burst PROVE Spec => []NoStrandedTurn
  OBVIOUS
<1>1. ServedInv => NoStrandedTurn
  <2> SUFFICES ASSUME ServedInv, jobs = <<>>, NEW s \in Sessions, list[s] # <<>>
               PROVE  \E d \in Turns : Executing(d) /\ key[d] = s
    BY DEF NoStrandedTurn
  <2>1. PICK t \in Turns : key[t] = s /\ (pc[t] = "pushed" \/ Busy(t))
    BY DEF ServedInv, Served
  <2>2. \A job : jobs # <<job>>
    OBVIOUS
  <2>3. pc[t] # "pushed" /\ drain[t] # "dequeuing"
    BY <2>2 DEF ServedInv, SerialInv, OneJob, InFlight
  <2> QED
    BY <2>1, <2>3 DEF Busy
<1>2. ServedInv /\ [Next]_vars => ServedInv'
  BY NextServed
<1> QED
  BY <1>1, <1>2, InitServed, PTL DEF Spec

-----------------------------------------------------------------------------
(***************************************************************************)
(* The limit.  An enqueueAsync counts from the length it read and the flag *)
(* it finds; nothing else runs in between, so the length is still that of  *)
(* the list, and the flag says whether the session has a loop.             *)
(***************************************************************************)
Most == IF HardLimit = 0 THEN 1 ELSE HardLimit

HasBusyLoop(s) == \E d \in Turns : Busy(d) /\ key[d] = s

\* Room for n more turns in session s.
Room(s, n) ==
    /\ Len(list[s]) + n <= Most
    /\ HasBusyLoop(s) => Len(list[s]) + n + 1 <= Most

WithinMost == \A s \in Sessions : Room(s, 0)

\* What an enqueueAsync has read is still so, and one that has taken the oldest
\* turn out has room for its own.
CountsTrue ==
    \A t \in Turns :
        /\ pc[t] = "listing" => seen[t] = Len(list[key[t]])
        /\ pc[t] = "dropping" =>
               IF dropped[t] = None THEN list[key[t]] = <<>> ELSE Room(key[t], 1)

LimitInv == ServedInv /\ WithinMost /\ CountsTrue

\* The limits are numbers.
LEMMA MostIsNat == Most \in Nat /\ Most >= 1
BY LimitAssumption DEF Most

\* Length of a list after an enqueue and after a dequeue.
LEMMA ListLength ==
    ASSUME SerialInv, NEW s \in Sessions
    PROVE  /\ Len(list[s]) \in Nat
           /\ \A t \in Turns : Len(Append(list[s], t)) = Len(list[s]) + 1
           /\ list[s] = <<>> <=> Len(list[s]) = 0
           /\ list[s] # <<>> => /\ Len(Tail(list[s])) = Len(list[s]) - 1
                                /\ Head(list[s]) \in Turns
<1>1. list[s] \in Seq(Turns)
  BY DEF SerialInv, TypeInv, TypeOK
<1> QED
  BY <1>1

\* A loop of the caller's session has set the flag the caller looks at.
LEMMA BusyIsFlagged ==
    ASSUME SerialInv, NEW t \in Turns, InFlight(t), HasBusyLoop(key[t])
    PROVE  running[obj[t]]
<1>1. PICK d \in Turns : Busy(d) /\ key[d] = key[t]
  BY DEF HasBusyLoop
<1>2. registered[key[t]] = obj[d] /\ running[obj[d]] /\ obj[d] \in Turns
  BY <1>1 DEF SerialInv, OneDrain, Draining, Busy, Executing, TypeInv, TypeOK
<1>3. obj[t] = obj[d]
  BY <1>2, NoneAssumption DEF SerialInv, StateObjects, StateObject
<1> QED
  BY <1>2, <1>3

\* Nothing waits and nobody counts at first.
LEMMA InitLimit == Init => LimitInv
<1> SUFFICES ASSUME Init PROVE LimitInv
  OBVIOUS
<1>1. SerialInv /\ ServedInv
  BY InitServed DEF ServedInv
<1>2. \A s \in Sessions : ~HasBusyLoop(s) /\ Len(list[s]) = 0
  BY <1>1, ListLength DEF Init, HasBusyLoop, Busy, Executing
<1>3. WithinMost /\ CountsTrue
  BY <1>2, MostIsNat DEF Init, WithinMost, Room, CountsTrue
<1> QED
  BY <1>1, <1>3 DEF LimitInv

\* A new caller reads the length and changes nothing.
LEMMA SubmitLimit ==
    ASSUME LimitInv, ~Burst, NEW t \in Turns, NEW s \in Sessions, Submit(t, s)
    PROVE  LimitInv'
<1> USE DEF LimitInv
<1>1. ServedInv' /\ SerialInv
  BY SubmitServed DEF ServedInv
<1>2. /\ UNCHANGED <<list, drain, hand, dropped>> /\ pc[t] = "new" /\ drain[t] = "none"
      /\ key'[t] = s /\ seen'[t] = Len(list[s]) /\ pc'[t] = "listing"
      /\ \A u \in Turns : u # t => key'[u] = key[u]
  BY <1>1 DEF Submit, loopVars, SerialInv, TypeInv, TypeOK, Submitted
<1>3. \A u \in Turns : ~InFlight(u)
  BY <1>1 DEF Submit, SerialInv, OneJob
<1>4. \A u \in Turns : u # t => pc'[u] \notin {"listing", "dropping"}
  BY <1>1, <1>3 DEF Submit, InFlight, SerialInv, TypeInv, TypeOK
<1>5. \A r \in Sessions : HasBusyLoop(r)' => HasBusyLoop(r)
  BY <1>2 DEF HasBusyLoop, Busy, Executing
<1>6. WithinMost'
  BY <1>2, <1>5 DEF WithinMost, Room
<1>7. CountsTrue'
  BY <1>2, <1>4 DEF CountsTrue
<1> QED
  BY <1>1, <1>6, <1>7

\* A caller pushes when there is room, or takes one out first.
LEMMA EnqueueStepLimit ==
    ASSUME LimitInv, NEW t \in Turns,
           \/ Admit(t) \/ AdmitOverLimit(t) \/ TakeOldest(t) \/ ReplaceOldest(t)
           \/ RefuseNew(t) \/ RefuseNoCandidate(t)
    PROVE  LimitInv'
<1> USE DEF LimitInv
<1>1. ServedInv' /\ SerialInv
  BY EnqueueStepServed DEF ServedInv
<1>2. /\ UNCHANGED <<key, obj, seen, running, drain, hand>>
      /\ pc[t] \in {"listing", "dropping"} /\ key[t] \in Sessions /\ InFlight(t)
      /\ \A u \in Turns : u # t => pc'[u] = pc[u]
  BY <1>1 DEF Admit, AdmitOverLimit, TakeOldest, ReplaceOldest, RefuseNew, RefuseNoCandidate,
         Push, Leave, bookVars, loopVars, SerialInv, TypeInv, TypeOK, Submitted, InFlight
<1>3. \A u \in Turns : u # t => pc'[u] \notin {"listing", "dropping"}
  BY <1>1, <1>2 DEF SerialInv, OneJob, InFlight
<1>4. \A s \in Sessions : HasBusyLoop(s)' <=> HasBusyLoop(s)
  BY <1>2 DEF HasBusyLoop, Busy, Executing
<1>5. HasBusyLoop(key[t]) => running[obj[t]]
  BY <1>1, <1>2, BusyIsFlagged
<1>6. CASE Admit(t) \/ AdmitOverLimit(t) \/ ReplaceOldest(t)
  <2>1. /\ pc'[t] = "pushed" /\ list'[key[t]] = Append(list[key[t]], t)
        /\ \A s \in Sessions : s # key[t] => list'[s] = list[s]
    BY <1>1, <1>2, <1>6 DEF Admit, AdmitOverLimit, ReplaceOldest, Push, SerialInv, TypeInv, TypeOK
  <2>2. Room(key[t], 1)
    <3>1. CASE Admit(t)
      <4>1. seen[t] = Len(list[key[t]]) /\ Depth(t) < HardLimit
        BY <3>1 DEF Admit, CountsTrue
      <4>2. Len(list[key[t]]) \in Nat /\ HardLimit \in Nat
        BY <1>1, <1>2, ListLength, LimitAssumption
      <4>3. CASE running[obj[t]]
        <5>1. Len(list[key[t]]) + 1 < HardLimit
          BY <4>1, <4>3 DEF Depth
        <5> QED
          BY <4>2, <5>1 DEF Room, Most
      <4>4. CASE ~running[obj[t]]
        <5>1. Len(list[key[t]]) < HardLimit /\ ~HasBusyLoop(key[t])
          BY <1>5, <4>1, <4>2, <4>4 DEF Depth
        <5> QED
          BY <4>2, <5>1 DEF Room, Most
      <4> QED
        BY <4>3, <4>4
    <3>2. CASE AdmitOverLimit(t)
      <4>1. list[key[t]] = <<>> /\ ~running[obj[t]]
        BY <3>2 DEF AdmitOverLimit, CountsTrue
      <4> QED
        BY <1>1, <1>2, <1>5, <4>1, ListLength, MostIsNat DEF Room
    <3>3. CASE ReplaceOldest(t)
      BY <3>3 DEF ReplaceOldest, CountsTrue
    <3> QED
      BY <1>6, <3>1, <3>2, <3>3
  <2>3. Len(list'[key[t]]) = Len(list[key[t]]) + 1 /\ Len(list[key[t]]) \in Nat
    BY <1>1, <1>2, <2>1, ListLength
  <2>4. Room(key[t], 0)'
    BY <1>2, <1>4, <2>2, <2>3 DEF Room
  <2>5. WithinMost'
    BY <1>2, <1>4, <2>1, <2>4 DEF WithinMost, Room
  <2>6. CountsTrue'
    BY <1>3, <2>1 DEF CountsTrue
  <2> QED
    BY <1>1, <2>5, <2>6
<1>7. CASE TakeOldest(t)
  <2>1. /\ pc'[t] = "dropping" /\ dropped'[t] = Oldest(key[t]) /\ Shift(key[t])
    BY <1>1, <1>7 DEF TakeOldest, SerialInv, TypeInv, TypeOK
  <2>2. \A s \in Sessions : s # key[t] => list'[s] = list[s]
    BY <2>1 DEF Shift
  <2>3. CASE list[key[t]] = <<>>
    <3>1. list' = list /\ dropped'[t] = None
      BY <2>1, <2>3 DEF Shift, Oldest
    <3>2. WithinMost'
      BY <1>2, <1>4, <3>1 DEF WithinMost, Room
    <3>3. CountsTrue'
      BY <1>2, <1>3, <2>1, <2>3, <3>1 DEF CountsTrue
    <3> QED
      BY <1>1, <3>2, <3>3
  <2>4. CASE list[key[t]] # <<>>
    <3>1. list'[key[t]] = Tail(list[key[t]]) /\ dropped'[t] # None
      BY <1>1, <1>2, <2>1, <2>4, ListLength, NoneAssumption
         DEF Shift, Oldest, SerialInv, TypeInv, TypeOK
    <3>2. Len(list'[key[t]]) = Len(list[key[t]]) - 1 /\ Len(list[key[t]]) \in Nat
      BY <1>1, <1>2, <2>4, <3>1, ListLength
    <3>3. Room(key[t], 1)'
      BY <1>2, <1>4, <3>2, MostIsNat DEF WithinMost, Room
    <3>4. Room(key[t], 0)'
      BY <1>2, <1>4, <3>2, MostIsNat DEF WithinMost, Room
    <3>5. WithinMost'
      BY <1>2, <1>4, <2>2, <3>4 DEF WithinMost, Room
    <3>6. CountsTrue'
      BY <1>2, <1>3, <2>1, <3>1, <3>3 DEF CountsTrue, Room, HasBusyLoop
    <3> QED
      BY <1>1, <3>5, <3>6
  <2> QED
    BY <2>3, <2>4
<1>8. CASE RefuseNew(t) \/ RefuseNoCandidate(t)
  <2>1. pc'[t] = "out" /\ UNCHANGED list
    BY <1>1, <1>8 DEF RefuseNew, RefuseNoCandidate, Leave, SerialInv, TypeInv, TypeOK
  <2>2. WithinMost' /\ CountsTrue'
    BY <1>2, <1>3, <1>4, <2>1 DEF WithinMost, Room, CountsTrue
  <2> QED
    BY <1>1, <2>2
<1> QED
  BY <1>6, <1>7, <1>8

\* A turn goes from the list to the loop that takes it.
LEMMA LoopLimit ==
    ASSUME LimitInv, NEW t \in Turns,
           \/ RegisterBusy(t) \/ RegisterAndDrain(t)
           \/ StartTurn(t) \/ EndDrain(t) \/ ExecuteReturns(t) \/ SettleAndNext(t)
    PROVE  LimitInv'
<1> USE DEF LimitInv
<1>1. ServedInv' /\ SerialInv
  BY RegisterServed, DrainServed DEF ServedInv
<1>2. /\ UNCHANGED <<key, obj>> /\ key[t] \in Sessions
      /\ \A u \in Turns : u # t => pc'[u] = pc[u] /\ drain'[u] = drain[u] /\ hand'[u] = hand[u]
  BY <1>1 DEF RegisterBusy, RegisterAndDrain, StartTurn, EndDrain, ExecuteReturns,
         SettleAndNext, Leave, bookVars, loopVars, SerialInv, TypeInv, TypeOK, Submitted
<1>3. pc'[t] = "out"
  BY <1>1 DEF RegisterBusy, RegisterAndDrain, StartTurn, EndDrain, ExecuteReturns,
         SettleAndNext, Leave, bookVars, SerialInv, TypeInv, TypeOK, Submitted
<1>4. \A u \in Turns : u # t => pc'[u] \notin {"listing", "dropping"}
  BY <1>1, <1>2, RunsAlone DEF RegisterBusy, RegisterAndDrain, StartTurn, EndDrain,
         ExecuteReturns, SettleAndNext, SerialInv, OneJob, InFlight
<1>5. CountsTrue'
  BY <1>3, <1>4 DEF CountsTrue
<1>6. CASE \/ RegisterBusy(t) \/ StartTurn(t) \/ EndDrain(t) \/ ExecuteReturns(t)
  <2>1. UNCHANGED list /\ (Busy(t)' => Busy(t))
    BY <1>1, <1>6 DEF RegisterBusy, StartTurn, EndDrain, ExecuteReturns, bookVars, loopVars,
       Busy, Executing, SerialInv, TypeInv, TypeOK
  <2>2. \A s \in Sessions : HasBusyLoop(s)' => HasBusyLoop(s)
    BY <1>2, <2>1 DEF HasBusyLoop, Busy, Executing
  <2>3. WithinMost'
    BY <2>1, <2>2 DEF WithinMost, Room
  <2> QED
    BY <1>1, <1>5, <2>3
<1>7. CASE RegisterAndDrain(t) \/ SettleAndNext(t)
  <2>1. /\ hand'[t] = Oldest(key[t]) /\ drain'[t] = "dequeuing" /\ Shift(key[t])
    BY <1>1, <1>7 DEF RegisterAndDrain, SettleAndNext, SerialInv, TypeInv, TypeOK
  <2>2. \A s \in Sessions : s # key[t] => list'[s] = list[s]
    BY <2>1 DEF Shift
  <2>3. \A s \in Sessions : s # key[t] => (HasBusyLoop(s)' => HasBusyLoop(s))
    BY <1>2 DEF HasBusyLoop, Busy, Executing
  <2>4. Room(key[t], 0)'
    <3>1. CASE list[key[t]] = <<>>
      <4>1. list' = list
        BY <2>1, <3>1 DEF Shift
      <4> QED
        BY <1>1, <1>2, <3>1, <4>1, ListLength, MostIsNat DEF Room
    <3>2. CASE list[key[t]] # <<>>
      <4>1. list'[key[t]] = Tail(list[key[t]])
        BY <1>1, <1>2, <2>1, <3>2 DEF Shift, SerialInv, TypeInv, TypeOK
      <4>2. Len(list'[key[t]]) = Len(list[key[t]]) - 1 /\ Len(list[key[t]]) \in Nat
        BY <1>1, <1>2, <3>2, <4>1, ListLength
      <4> QED
        BY <1>2, <4>2, MostIsNat DEF WithinMost, Room
    <3> QED
      BY <3>1, <3>2
  <2>5. WithinMost'
    BY <1>2, <2>2, <2>3, <2>4 DEF WithinMost, Room
  <2> QED
    BY <1>1, <1>5, <2>5
<1> QED
  BY <1>6, <1>7

\* Every step keeps the invariant.
LEMMA NextLimit == ASSUME LimitInv, ~Burst, [Next]_vars PROVE LimitInv'
<1>1. CASE UNCHANGED vars
  <2>1. ServedInv'
    BY <1>1, NextServed DEF LimitInv
  <2> QED
    BY <1>1, <2>1 DEF LimitInv, WithinMost, Room, CountsTrue, HasBusyLoop, Busy, Executing, vars
<1>2. CASE Next
  BY <1>2, SubmitLimit, EnqueueStepLimit, LoopLimit DEF Next, RunJob
<1> QED
  BY <1>1, <1>2

\* The hard limit holds: with the event loop idle and callers that do not submit inside
\* one tick, a session has no more turns waiting and running than its limit.
THEOREM LimitHolds == ~Burst => (Spec => []DepthWithinLimit)
<1> SUFFICES ASSUME ~Burst PROVE Spec => []DepthWithinLimit
  OBVIOUS
<1>1. LimitInv => DepthWithinLimit
  <2> SUFFICES ASSUME LimitInv, NEW s \in Sessions
               PROVE  Len(list[s]) + (IF \E d \in Turns : Executing(d) /\ key[d] = s
                                      THEN 1 ELSE 0) <= Most
    BY DEF DepthWithinLimit, Most
  <2>1. Room(s, 0) /\ Len(list[s]) \in Nat
    BY ListLength DEF LimitInv, WithinMost, ServedInv
  <2>2. (\E d \in Turns : Executing(d) /\ key[d] = s) => HasBusyLoop(s)
    BY DEF HasBusyLoop, Busy
  <2>3. Len(list[s]) <= Most /\ (HasBusyLoop(s) => Len(list[s]) + 1 <= Most)
    BY <2>1, MostIsNat DEF Room
  <2>4. CASE \E d \in Turns : Executing(d) /\ key[d] = s
    BY <2>2, <2>3, <2>4
  <2>5. CASE ~\E d \in Turns : Executing(d) /\ key[d] = s
    BY <2>1, <2>3, <2>5
  <2> QED
    BY <2>4, <2>5
<1>2. LimitInv /\ [Next]_vars => LimitInv'
  BY NextLimit
<1> QED
  BY <1>1, <1>2, InitLimit, PTL DEF Spec

-----------------------------------------------------------------------------
(***************************************************************************)
(* Custody, whoever submits when.  The four places a turn can be held in   *)
(* exclude each other, none holds it twice, and it is in one of them       *)
(* exactly as long as its promise is open.                                 *)
(***************************************************************************)
In(q, t) == \E i \in DOMAIN q : q[i] = t
Distinct(q) == \A i, j \in DOMAIN q : q[i] = q[j] => i = j

Handed(t) == \E d \in Turns : hand[d] = t
Listed(t) == \E s \in Sessions : In(list[s], t)
AtDropper(t) == \E u \in Turns : pc[u] = "dropping" /\ dropped[u] = t
AtCaller(t) == pc[t] \in {"listing", "dropping"}

\* A list has the turns of its session, each once.
OwnLists ==
    \A s \in Sessions :
        Distinct(list[s]) /\ \A t \in Turns : In(list[s], t) => key[t] = s

HeldOnce ==
    /\ \A d, e \in Turns : hand[d] = hand[e] /\ hand[d] # None => d = e
    /\ \A u, v \in Turns :
           pc[u] = "dropping" /\ pc[v] = "dropping" /\ dropped[u] = dropped[v]
             /\ dropped[u] # None => u = v

InOnePlace(t) ==
    /\ Handed(t) => ~Listed(t) /\ ~AtDropper(t) /\ ~AtCaller(t)
    /\ Listed(t) => ~AtDropper(t) /\ ~AtCaller(t)
    /\ AtDropper(t) => ~AtCaller(t)

HeldWhileOpen(t) ==
    (key[t] # None /\ fate[t] = "open")
      <=> (Handed(t) \/ Listed(t) \/ AtDropper(t) \/ AtCaller(t))

Untouched(t) ==
    /\ pc[t] = "new" <=> key[t] = None
    /\ pc[t] = "new" => fate[t] = "open"
    /\ drain[t] = "none" => hand[t] = None

CustodyInv ==
    /\ TypeInv /\ OwnLists /\ HeldOnce
    /\ \A t \in Turns : Untouched(t) /\ InOnePlace(t) /\ HeldWhileOpen(t)

\* A turn added to a list that does not have it.
LEMMA AppendOnce ==
    ASSUME NEW q \in Seq(Turns), NEW t \in Turns, Distinct(q), ~In(q, t)
    PROVE  /\ Distinct(Append(q, t))
           /\ \A u \in Turns : In(Append(q, t), u) <=> In(q, u) \/ u = t
<1> DEFINE r == Append(q, t)
           n == Len(q)
<1>1. n \in Nat /\ DOMAIN q = 1..n /\ DOMAIN r = 1..(n + 1)
  OBVIOUS
<1>2. r[n + 1] = t /\ \A i \in 1..n : r[i] = q[i]
  OBVIOUS
<1> HIDE DEF r, n
<1>3. \A i \in 1..(n + 1) : i \in 1..n \/ i = n + 1
  BY <1>1
<1>4. (1..n) \subseteq 1..(n + 1) /\ n + 1 \in 1..(n + 1)
  BY <1>1
<1>5. Distinct(r)
  BY <1>1, <1>2, <1>3 DEF Distinct, In
<1>6. \A u \in Turns : In(r, u) <=> In(q, u) \/ u = t
  BY <1>1, <1>2, <1>3, <1>4 DEF In
<1> QED
  BY <1>5, <1>6 DEF r

\* The head taken from a list that has it once.
LEMMA TailOnce ==
    ASSUME NEW q \in Seq(Turns), q # <<>>, Distinct(q)
    PROVE  /\ Distinct(Tail(q)) /\ Head(q) \in Turns /\ In(q, Head(q))
           /\ \A u \in Turns : In(Tail(q), u) <=> In(q, u) /\ u # Head(q)
<1> DEFINE r == Tail(q)
           n == Len(q)
<1>1. n \in Nat /\ n > 0 /\ DOMAIN q = 1..n /\ DOMAIN r = 1..(n - 1)
  OBVIOUS
<1>2. /\ Head(q) = q[1] /\ q[1] \in Turns
      /\ \A i \in 1..(n - 1) : r[i] = q[i + 1]
  OBVIOUS
<1> HIDE DEF r, n
<1>3. 1 \in 1..n /\ \A i \in 1..(n - 1) : i \in Nat /\ i + 1 \in 1..n /\ i + 1 # 1
  BY <1>1
<1>4. \A i \in 1..n : i = 1 \/ (i - 1 \in 1..(n - 1) /\ (i - 1) + 1 = i)
  BY <1>1
<1>5. Distinct(r)
  <2>1. ASSUME NEW i \in 1..(n - 1), NEW j \in 1..(n - 1), r[i] = r[j] PROVE i = j
    <3>1. q[i + 1] = q[j + 1]
      BY <1>2, <2>1
    <3>2. i + 1 = j + 1
      BY <1>1, <1>3, <3>1 DEF Distinct
    <3> QED
      BY <1>3, <3>2
  <2> QED
    BY <1>1, <2>1 DEF Distinct
<1>6. ASSUME NEW u \in Turns PROVE In(r, u) <=> In(q, u) /\ u # q[1]
  <2>1. ASSUME In(r, u) PROVE In(q, u) /\ u # q[1]
    <3>1. PICK i \in 1..(n - 1) : r[i] = u
      BY <1>1, <2>1 DEF In
    <3>2. q[i + 1] = u /\ i + 1 \in 1..n /\ i + 1 # 1
      BY <1>2, <1>3, <3>1
    <3> QED
      BY <1>1, <1>3, <3>2 DEF In, Distinct
  <2>2. ASSUME In(q, u), u # q[1] PROVE In(r, u)
    <3>1. PICK i \in 1..n : q[i] = u
      BY <1>1, <2>2 DEF In
    <3>2. i - 1 \in 1..(n - 1) /\ (i - 1) + 1 = i
      BY <1>4, <2>2, <3>1
    <3>3. r[i - 1] = u
      BY <1>2, <3>1, <3>2
    <3> QED
      BY <1>1, <3>2, <3>3 DEF In
  <2> QED
    BY <2>1, <2>2
<1>7. In(q, q[1])
  BY <1>1, <1>3 DEF In
<1> QED
  BY <1>2, <1>5, <1>6, <1>7 DEF r

\* A push puts its turn on the list of its session.
LEMMA PushMoves ==
    ASSUME TypeInv, OwnLists, NEW t \in Turns, key[t] \in Sessions, ~Listed(t), Push(t),
           key' = key
    PROVE  OwnLists' /\ \A u \in Turns : Listed(u)' <=> Listed(u) \/ u = t
<1> DEFINE s == key[t]
<1>1. /\ list' = [list EXCEPT ![s] = Append(list[s], t)]
      /\ list[s] \in Seq(Turns) /\ Distinct(list[s]) /\ ~In(list[s], t)
  BY DEF Push, TypeInv, TypeOK, OwnLists, Listed
<1>2. /\ Distinct(Append(list[s], t))
      /\ \A u \in Turns : In(Append(list[s], t), u) <=> In(list[s], u) \/ u = t
  BY <1>1, AppendOnce
<1>3. /\ list'[s] = Append(list[s], t)
      /\ \A r \in Sessions : r # s => list'[r] = list[r]
  BY <1>1 DEF TypeInv, TypeOK
<1>4. ASSUME NEW r \in Sessions
      PROVE  Distinct(list'[r]) /\ \A u \in Turns : In(list'[r], u) => key[u] = r
  BY <1>2, <1>3 DEF OwnLists
<1>5. ASSUME NEW u \in Turns PROVE Listed(u)' <=> Listed(u) \/ u = t
  BY <1>2, <1>3 DEF Listed
<1> QED
  BY <1>4, <1>5 DEF OwnLists

\* A shift takes the oldest turn, if there is one, off the list.
LEMMA ShiftMoves ==
    ASSUME TypeInv, OwnLists, NEW s \in Sessions, Shift(s), key' = key
    PROVE  /\ OwnLists'
           /\ Oldest(s) # None => Oldest(s) \in Turns /\ Listed(Oldest(s))
           /\ \A u \in Turns : Listed(u)' <=> Listed(u) /\ u # Oldest(s)
<1>1. list[s] \in Seq(Turns) /\ Distinct(list[s])
  BY DEF TypeInv, TypeOK, OwnLists
<1>2. CASE list[s] = <<>>
  <2>1. list' = list /\ Oldest(s) = None /\ \A u \in Turns : u # None
    BY <1>2, NoneAssumption DEF Shift, Oldest
  <2> QED
    BY <2>1 DEF OwnLists, Listed
<1>3. CASE list[s] # <<>>
  <2>1. Oldest(s) = Head(list[s])
    BY <1>3 DEF Oldest
  <2>2. /\ Distinct(Tail(list[s])) /\ Oldest(s) \in Turns /\ In(list[s], Oldest(s))
        /\ \A u \in Turns : In(Tail(list[s]), u) <=> In(list[s], u) /\ u # Oldest(s)
    BY <1>1, <1>3, <2>1, TailOnce
  <2>3. /\ list'[s] = Tail(list[s])
        /\ \A r \in Sessions : r # s => list'[r] = list[r]
    BY <1>3 DEF Shift, TypeInv, TypeOK
  <2>4. ASSUME NEW r \in Sessions
        PROVE  Distinct(list'[r]) /\ \A u \in Turns : In(list'[r], u) => key[u] = r
    BY <2>2, <2>3 DEF OwnLists
  <2>5. key[Oldest(s)] = s
    BY <2>2 DEF OwnLists
  <2>6. ASSUME NEW u \in Turns PROVE Listed(u)' <=> Listed(u) /\ u # Oldest(s)
    <3>1. ASSUME NEW r \in Sessions, In(list'[r], u) PROVE In(list[r], u) /\ u # Oldest(s)
      BY <2>2, <2>3, <2>5, <3>1 DEF OwnLists
    <3>2. ASSUME NEW r \in Sessions, In(list[r], u), u # Oldest(s) PROVE In(list'[r], u)
      BY <2>2, <2>3, <3>2
    <3> QED
      BY <3>1, <3>2 DEF Listed
  <2>7. Listed(Oldest(s))
    BY <2>2 DEF Listed
  <2> QED
    BY <2>2, <2>4, <2>6, <2>7 DEF OwnLists
<1> QED
  BY <1>2, <1>3

-----------------------------------------------------------------------------
\* At first no turn is anywhere.
LEMMA InitCustody == Init => CustodyInv
<1> SUFFICES ASSUME Init PROVE CustodyInv
  OBVIOUS
<1>1. TypeInv
  BY InitType
<1>2. \A s \in Sessions : list[s] = <<>>
  BY DEF Init
<1>3. \A s \in Sessions : DOMAIN list[s] = {}
  BY <1>2
<1>4. OwnLists /\ \A t \in Turns : ~Listed(t)
  BY <1>3 DEF OwnLists, Listed, In, Distinct
<1>5. HeldOnce /\ \A t \in Turns : ~Handed(t) /\ ~AtDropper(t) /\ ~AtCaller(t) /\ Untouched(t)
  BY NoneAssumption DEF Init, HeldOnce, Handed, AtDropper, AtCaller, Untouched
<1>6. \A t \in Turns : InOnePlace(t) /\ HeldWhileOpen(t)
  BY <1>4, <1>5 DEF InOnePlace, HeldWhileOpen, Init
<1> QED
  BY <1>1, <1>4, <1>5, <1>6 DEF CustodyInv

\* A new turn is with its caller.
LEMMA SubmitCustody ==
    ASSUME CustodyInv, NEW t \in Turns, NEW s \in Sessions, Submit(t, s)
    PROVE  CustodyInv'
<1> USE DEF CustodyInv
<1>1. TypeInv'
  BY SubmitType
<1>2. /\ pc[t] = "new" /\ key[t] = None /\ key'[t] = s /\ pc'[t] = "listing"
      /\ \A u \in Turns : u # t => key'[u] = key[u] /\ pc'[u] = pc[u]
      /\ UNCHANGED <<dropped, list, drain, hand, fate>> /\ s # None
  BY NoneAssumption DEF Submit, loopVars, TypeInv, TypeOK, Untouched
<1>3. ~Handed(t) /\ ~Listed(t) /\ ~AtDropper(t) /\ ~AtCaller(t) /\ fate[t] = "open"
  BY <1>2 DEF HeldWhileOpen, Untouched
<1>4. \A u \in Turns : /\ Handed(u)' <=> Handed(u)
                       /\ Listed(u)' <=> Listed(u)
                       /\ AtDropper(u)' <=> AtDropper(u)
                       /\ AtCaller(u)' <=> AtCaller(u) \/ u = t
  <2>1. \A u \in Turns : Handed(u)' <=> Handed(u)
    BY <1>2 DEF Handed
  <2>2. \A u \in Turns : Listed(u)' <=> Listed(u)
    BY <1>2 DEF Listed
  <2>3. \A u \in Turns : AtDropper(u)' <=> AtDropper(u)
    BY <1>2 DEF AtDropper
  <2>4. \A u \in Turns : AtCaller(u)' <=> AtCaller(u) \/ u = t
    BY <1>2 DEF AtCaller
  <2> QED
    BY <2>1, <2>2, <2>3, <2>4
<1>5. OwnLists'
  <2>1. ASSUME NEW r \in Sessions, NEW u \in Turns, In(list[r], u) PROVE key'[u] = r
    <3>1. u # t
      BY <1>3, <2>1 DEF Listed
    <3> QED
      BY <1>2, <2>1, <3>1 DEF OwnLists
  <2> QED
    BY <1>2, <2>1 DEF OwnLists
<1>6. HeldOnce'
  BY <1>2 DEF HeldOnce
<1>7. \A u \in Turns : Untouched(u)'
  BY <1>2 DEF Untouched
<1>8. \A u \in Turns : InOnePlace(u)' /\ HeldWhileOpen(u)'
  BY <1>2, <1>3, <1>4 DEF InOnePlace, HeldWhileOpen
<1> QED
  BY <1>1, <1>5, <1>6, <1>7, <1>8

\* Its caller puts it on the list, and may drop another one for it.
LEMMA PushCustody ==
    ASSUME CustodyInv, NEW t \in Turns, Admit(t) \/ AdmitOverLimit(t) \/ ReplaceOldest(t)
    PROVE  CustodyInv'
<1> USE DEF CustodyInv
<1>1. TypeInv'
  BY AdmitType, ReplaceOldestType
<1>2. /\ Push(t) /\ UNCHANGED <<key, dropped, drain, hand>>
      /\ pc[t] \in {"listing", "dropping"} /\ key[t] \in Sessions /\ AtCaller(t)
      /\ pc'[t] = "pushed" /\ \A u \in Turns : u # t => pc'[u] = pc[u]
  BY DEF Admit, AdmitOverLimit, ReplaceOldest, Push, bookVars, loopVars, TypeInv, TypeOK,
         Submitted, AtCaller
<1>3. ~Handed(t) /\ ~Listed(t) /\ ~AtDropper(t) /\ fate[t] = "open" /\ key[t] # None
  BY <1>2 DEF InOnePlace, HeldWhileOpen
<1>4. OwnLists' /\ \A u \in Turns : Listed(u)' <=> Listed(u) \/ u = t
  BY <1>2, <1>3, PushMoves
<1>5. \A u \in Turns : Handed(u)' <=> Handed(u)
  BY <1>2 DEF Handed
<1>6. \A u \in Turns : AtCaller(u)' <=> AtCaller(u) /\ u # t
  BY <1>2 DEF AtCaller
<1>7. HeldOnce'
  BY <1>2 DEF HeldOnce
<1>8. CASE Admit(t) \/ AdmitOverLimit(t)
  <2>1. fate' = fate /\ (pc[t] = "dropping" => dropped[t] = None)
    BY <1>8 DEF Admit, AdmitOverLimit
  <2>2. \A u \in Turns : AtDropper(u)' <=> AtDropper(u)
    BY <1>2, <2>1, NoneAssumption DEF AtDropper
  <2>3. \A u \in Turns : Untouched(u)'
    BY <1>2, <2>1 DEF Untouched
  <2>4. \A u \in Turns : InOnePlace(u)' /\ HeldWhileOpen(u)'
    BY <1>2, <1>3, <1>4, <1>5, <1>6, <2>1, <2>2 DEF InOnePlace, HeldWhileOpen
  <2> QED
    BY <1>1, <1>4, <1>7, <2>3, <2>4
<1>9. CASE ReplaceOldest(t)
  <2> DEFINE x == dropped[t]
  <2>1. pc[t] = "dropping" /\ x \in Turns /\ Settle(x, "dropped") /\ AtDropper(x)
    BY <1>9 DEF ReplaceOldest, TypeInv, TypeOK, AtDropper
  <2>2. fate[x] = "open" /\ fate'[x] = "dropped" /\ \A u \in Turns : u # x => fate'[u] = fate[u]
    <3>1. fate[x] = "open"
      BY <2>1 DEF HeldWhileOpen
    <3> QED
      BY <2>1, <3>1 DEF Settle, TypeInv, TypeOK
  <2>3. \A u \in Turns : AtDropper(u)' <=> AtDropper(u) /\ u # x
    <3>1. \A u, v \in Turns : AtDropper(u) /\ u # x /\ pc[v] = "dropping" /\ dropped[v] = u => v # t
      OBVIOUS
    <3>2. \A v \in Turns : v # t /\ pc[v] = "dropping" => dropped[v] # x
      BY <2>1, NoneAssumption DEF HeldOnce
    <3> QED
      BY <1>2, <3>1, <3>2 DEF AtDropper
  <2>4. \A u \in Turns : Untouched(u)'
    <3>1. pc[x] # "new"
      BY <2>1 DEF HeldWhileOpen, Untouched
    <3> QED
      BY <1>2, <2>2, <3>1 DEF Untouched
  <2>5. ~Handed(x) /\ ~Listed(x) /\ ~AtCaller(x) /\ x # t /\ key[x] # None
    BY <1>2, <2>1 DEF InOnePlace, HeldWhileOpen
  <2> HIDE DEF x
  <2>6. \A u \in Turns : InOnePlace(u)' /\ HeldWhileOpen(u)'
    BY <1>2, <1>3, <1>4, <1>5, <1>6, <2>2, <2>3, <2>5 DEF InOnePlace, HeldWhileOpen
  <2> QED
    BY <1>1, <1>4, <1>7, <2>4, <2>6
<1> QED
  BY <1>8, <1>9

\* A turn that is refused is nowhere.
LEMMA RefuseCustody ==
    ASSUME CustodyInv, NEW t \in Turns, RefuseNew(t) \/ RefuseNoCandidate(t)
    PROVE  CustodyInv'
<1> USE DEF CustodyInv
<1>1. TypeInv'
  BY RefuseType
<1>2. /\ UNCHANGED <<key, dropped, drain, hand, list>>
      /\ pc[t] \in {"listing", "dropping"} /\ AtCaller(t)
      /\ (pc[t] = "dropping" => dropped[t] = None) /\ Settle(t, "refused")
      /\ pc'[t] = "out" /\ \A u \in Turns : u # t => pc'[u] = pc[u]
  BY DEF RefuseNew, RefuseNoCandidate, Leave, bookVars, loopVars, TypeInv, TypeOK, AtCaller
<1>3. ~Handed(t) /\ ~Listed(t) /\ ~AtDropper(t) /\ fate[t] = "open" /\ key[t] # None
  BY <1>2 DEF InOnePlace, HeldWhileOpen
<1>4. fate'[t] = "refused" /\ \A u \in Turns : u # t => fate'[u] = fate[u]
  BY <1>2, <1>3 DEF Settle, TypeInv, TypeOK
<1>5. \A u \in Turns : (Handed(u)' <=> Handed(u)) /\ (Listed(u)' <=> Listed(u))
  BY <1>2 DEF Handed, Listed
<1>6. \A u \in Turns : AtCaller(u)' <=> AtCaller(u) /\ u # t
  BY <1>2 DEF AtCaller
<1>7. \A u \in Turns : AtDropper(u)' <=> AtDropper(u)
  BY <1>2, NoneAssumption DEF AtDropper
<1>8. OwnLists' /\ HeldOnce'
  BY <1>2 DEF OwnLists, HeldOnce
<1>9. \A u \in Turns : Untouched(u)'
  BY <1>2, <1>3, <1>4 DEF Untouched
<1>10. \A u \in Turns : InOnePlace(u)' /\ HeldWhileOpen(u)'
  BY <1>2, <1>3, <1>4, <1>5, <1>6, <1>7 DEF InOnePlace, HeldWhileOpen
<1> QED
  BY <1>1, <1>8, <1>9, <1>10

\* The oldest turn goes from the list to the caller that will drop it.
LEMMA TakeOldestCustody ==
    ASSUME CustodyInv, NEW t \in Turns, TakeOldest(t)
    PROVE  CustodyInv'
<1> USE DEF CustodyInv
<1> DEFINE x == Oldest(key[t])
<1>1. TypeInv'
  BY TakeOldestType
<1>2. /\ UNCHANGED <<key, drain, hand, fate>> /\ Shift(key[t]) /\ key[t] \in Sessions
      /\ pc[t] = "listing" /\ pc'[t] = "dropping" /\ dropped'[t] = x
      /\ \A u \in Turns : u # t => pc'[u] = pc[u] /\ dropped'[u] = dropped[u]
  BY DEF TakeOldest, bookVars, loopVars, TypeInv, TypeOK, Submitted
<1>3. /\ OwnLists' /\ (x # None => x \in Turns /\ Listed(x))
      /\ \A u \in Turns : Listed(u)' <=> Listed(u) /\ u # x
  BY <1>2, ShiftMoves
<1> HIDE DEF x
<1>4. \A u \in Turns : (Handed(u)' <=> Handed(u)) /\ (AtCaller(u)' <=> AtCaller(u))
  BY <1>2 DEF Handed, AtCaller
<1>5. \A u \in Turns : AtDropper(u)' <=> AtDropper(u) \/ u = x
  BY <1>2 DEF AtDropper
<1>6. x # None => ~AtDropper(x) /\ ~Handed(x) /\ ~AtCaller(x) /\ HeldWhileOpen(x)
  BY <1>3 DEF InOnePlace
<1>7. HeldOnce'
  BY <1>2, <1>3, <1>6 DEF HeldOnce, AtDropper
<1>8. \A u \in Turns : Untouched(u)'
  BY <1>2 DEF Untouched
<1>9. \A u \in Turns : InOnePlace(u)' /\ HeldWhileOpen(u)'
  BY <1>2, <1>3, <1>4, <1>5, <1>6, NoneAssumption DEF InOnePlace, HeldWhileOpen
<1> QED
  BY <1>1, <1>3, <1>7, <1>8, <1>9

\* A drain loop starts and takes the oldest turn.
LEMMA RegisterAndDrainCustody ==
    ASSUME CustodyInv, NEW t \in Turns, RegisterAndDrain(t)
    PROVE  CustodyInv'
<1> USE DEF CustodyInv
<1> DEFINE x == Oldest(key[t])
<1>1. TypeInv'
  BY RegisterAndDrainType
<1>2. /\ UNCHANGED <<key, dropped, fate>> /\ Shift(key[t]) /\ key[t] \in Sessions
      /\ pc[t] = "pushed" /\ pc'[t] = "out" /\ hand'[t] = x /\ drain'[t] # "none"
      /\ \A u \in Turns : u # t => pc'[u] = pc[u] /\ hand'[u] = hand[u] /\ drain'[u] = drain[u]
  BY DEF RegisterAndDrain, bookVars, TypeInv, TypeOK, Submitted
<1>3. /\ OwnLists' /\ (x # None => x \in Turns /\ Listed(x))
      /\ \A u \in Turns : Listed(u)' <=> Listed(u) /\ u # x
  BY <1>2, ShiftMoves
<1> HIDE DEF x
<1>4. hand[t] = None
  BY <1>2 DEF Untouched, TypeInv, TypeOK, Submitted, DrainStates
<1>5. \A u \in Turns : (AtDropper(u)' <=> AtDropper(u)) /\ (AtCaller(u)' <=> AtCaller(u))
  BY <1>2 DEF AtDropper, AtCaller
<1>6. \A u \in Turns : Handed(u)' <=> Handed(u) \/ u = x
  BY <1>2, <1>4, NoneAssumption DEF Handed
<1>7. x # None => ~AtDropper(x) /\ ~Handed(x) /\ ~AtCaller(x) /\ HeldWhileOpen(x)
  BY <1>3 DEF InOnePlace
<1>8. HeldOnce'
  BY <1>2, <1>3, <1>7 DEF HeldOnce, Handed
<1>9. \A u \in Turns : Untouched(u)'
  BY <1>2 DEF Untouched
<1>10. \A u \in Turns : InOnePlace(u)' /\ HeldWhileOpen(u)'
  BY <1>2, <1>3, <1>5, <1>6, <1>7, NoneAssumption DEF InOnePlace, HeldWhileOpen
<1> QED
  BY <1>1, <1>3, <1>8, <1>9, <1>10

\* A loop settles the turn it has and takes the oldest one.
LEMMA SettleAndNextCustody ==
    ASSUME CustodyInv, NEW d \in Turns, SettleAndNext(d)
    PROVE  CustodyInv'
<1> USE DEF CustodyInv
<1> DEFINE x == Oldest(key[d])
           h == hand[d]
<1>1. TypeInv'
  BY SettleAndNextType
<1>2. /\ UNCHANGED <<key, pc, dropped>> /\ Shift(key[d]) /\ key[d] \in Sessions
      /\ hand'[d] = x /\ drain[d] # "none" /\ drain'[d] # "none"
      /\ \A u \in Turns : u # d => hand'[u] = hand[u] /\ drain'[u] = drain[u]
      /\ \E how \in {"resolved", "failed"} : Settle(h, how)
  BY DEF SettleAndNext, bookVars, TypeInv, TypeOK, Submitted
<1>3. /\ OwnLists' /\ (x # None => x \in Turns /\ Listed(x))
      /\ \A u \in Turns : Listed(u)' <=> Listed(u) /\ u # x
  BY <1>2, ShiftMoves
<1>4. h # None => h \in Turns /\ Handed(h)
  BY DEF Handed, TypeInv, TypeOK
<1>5. h # None => /\ ~Listed(h) /\ ~AtDropper(h) /\ ~AtCaller(h)
                  /\ fate[h] = "open" /\ key[h] # None
  BY <1>4 DEF InOnePlace, HeldWhileOpen
<1>6. /\ h # None => fate'[h] # "open"
      /\ \A u \in Turns : u # h => fate'[u] = fate[u]
  <2>1. PICK how \in {"resolved", "failed"} : Settle(h, how)
    BY <1>2
  <2> QED
    BY <1>4, <1>5, <2>1 DEF Settle, TypeInv, TypeOK
<1>7. \A u \in Turns : (AtDropper(u)' <=> AtDropper(u)) /\ (AtCaller(u)' <=> AtCaller(u))
  BY <1>2 DEF AtDropper, AtCaller
<1>8. x # None => ~AtDropper(x) /\ ~Handed(x) /\ ~AtCaller(x) /\ HeldWhileOpen(x) /\ x # h
  BY <1>3, <1>5 DEF InOnePlace
<1>9. \A u \in Turns : u # d => hand[u] # h \/ h = None
  BY DEF HeldOnce
<1>10. hand[d] = h
  OBVIOUS
<1> HIDE DEF x, h
<1>11. \A u \in Turns : Handed(u)' <=> (Handed(u) /\ u # h) \/ u = x
  <2>1. ASSUME NEW u \in Turns, Handed(u)' PROVE (Handed(u) /\ u # h) \/ u = x
    <3>1. PICK e \in Turns : hand'[e] = u
      BY <2>1 DEF Handed
    <3>2. CASE e = d
      BY <1>2, <3>1, <3>2
    <3>3. CASE e # d
      BY <1>2, <1>9, <3>1, <3>3, NoneAssumption DEF Handed
    <3> QED
      BY <3>2, <3>3
  <2>2. ASSUME NEW u \in Turns, Handed(u), u # h PROVE Handed(u)'
    BY <1>2, <1>10, <2>2 DEF Handed
  <2>3. ASSUME NEW u \in Turns, u = x PROVE Handed(u)'
    BY <1>2, <2>3 DEF Handed
  <2> QED
    BY <2>1, <2>2, <2>3
<1>12. HeldOnce'
  BY <1>2, <1>3, <1>8 DEF HeldOnce, Handed
<1>13. \A u \in Turns : Untouched(u)'
  BY <1>2, <1>5, <1>6, NoneAssumption DEF Untouched
<1>14. \A u \in Turns : InOnePlace(u)' /\ HeldWhileOpen(u)'
  BY <1>2, <1>3, <1>4, <1>5, <1>6, <1>7, <1>8, <1>11, NoneAssumption
     DEF InOnePlace, HeldWhileOpen
<1> QED
  BY <1>1, <1>3, <1>12, <1>13, <1>14

\* The other steps move no turn.
LEMMA RestCustody ==
    ASSUME CustodyInv, NEW t \in Turns,
           RegisterBusy(t) \/ StartTurn(t) \/ EndDrain(t) \/ ExecuteReturns(t)
    PROVE  CustodyInv'
<1> USE DEF CustodyInv
<1>1. TypeInv'
  BY RegisterBusyType, DrainStepType
<1>2. /\ UNCHANGED <<key, dropped, hand, list, fate>>
      /\ \A u \in Turns : /\ pc'[u] = pc[u] \/ (pc[u] = "pushed" /\ pc'[u] = "out")
                          /\ drain'[u] = "none" => drain[u] = "none"
  BY DEF RegisterBusy, StartTurn, EndDrain, ExecuteReturns, Leave, bookVars, loopVars,
         TypeInv, TypeOK
<1>3. \A u \in Turns : /\ Handed(u)' <=> Handed(u)
                       /\ Listed(u)' <=> Listed(u)
  BY <1>2 DEF Handed, Listed
<1>4. \A u \in Turns : /\ AtDropper(u)' <=> AtDropper(u)
                       /\ AtCaller(u)' <=> AtCaller(u)
  BY <1>2 DEF AtDropper, AtCaller
<1>5. OwnLists' /\ HeldOnce'
  BY <1>2 DEF OwnLists, HeldOnce
<1>6. \A u \in Turns : Untouched(u)'
  BY <1>2 DEF Untouched
<1>7. \A u \in Turns : InOnePlace(u)' /\ HeldWhileOpen(u)'
  BY <1>2, <1>3, <1>4 DEF InOnePlace, HeldWhileOpen
<1> QED
  BY <1>1, <1>5, <1>6, <1>7

\* Every step keeps the turns in custody.
LEMMA NextCustody == ASSUME CustodyInv, [Next]_vars PROVE CustodyInv'
<1>1. CASE UNCHANGED vars
  <2>1. TypeInv'
    BY <1>1, NextType DEF CustodyInv
  <2>2. /\ \A u \in Turns : Handed(u)' <=> Handed(u)
        /\ \A u \in Turns : Listed(u)' <=> Listed(u)
        /\ \A u \in Turns : AtDropper(u)' <=> AtDropper(u)
        /\ \A u \in Turns : AtCaller(u)' <=> AtCaller(u)
    BY <1>1 DEF vars, Handed, Listed, AtDropper, AtCaller
  <2>3. OwnLists' /\ HeldOnce' /\ \A u \in Turns : Untouched(u)'
    BY <1>1 DEF CustodyInv, vars, OwnLists, HeldOnce, Untouched
  <2>4. \A u \in Turns : InOnePlace(u)' /\ HeldWhileOpen(u)'
    BY <1>1, <2>2 DEF CustodyInv, vars, InOnePlace, HeldWhileOpen
  <2> QED
    BY <2>1, <2>3, <2>4 DEF CustodyInv
<1>2. CASE Next
  BY <1>2, SubmitCustody, PushCustody, RefuseCustody, TakeOldestCustody,
     RegisterAndDrainCustody, SettleAndNextCustody, RestCustody DEF Next, RunJob
<1> QED
  BY <1>1, <1>2

\* A set with at most one element has as many as one is in it.
LEMMA OneOrNone ==
    ASSUME NEW S, \A x, y \in S : x = y
    PROVE  Cardinality(S) = IF S = {} THEN 0 ELSE 1
<1>1. CASE S = {}
  BY <1>1, FS_EmptySet
<1>2. CASE S # {}
  <2>1. PICK x \in S : TRUE
    BY <1>2
  <2>2. S = {x}
    BY <2>1
  <2> QED
    BY <1>2, <2>2, FS_Singleton
<1> QED
  BY <1>1, <1>2

\* The four numbers of Custodians(t) are 0 or 1, and at most one is 1.
LEMMA CustodyCounts == CustodyInv => Custody
<1> SUFFICES ASSUME CustodyInv, NEW t \in Turns, key[t] # None
             PROVE  Custodians(t) = (IF fate[t] = "open" THEN 1 ELSE 0)
  BY DEF Custody
<1> DEFINE H == {d \in Turns : hand[d] = t}
           q == list[key[t]]
           L == {i \in DOMAIN q : q[i] = t}
           D == {u \in Turns : pc[u] = "dropping" /\ dropped[u] = t}
<1>1. InOnePlace(t) /\ HeldWhileOpen(t) /\ key[t] \in Sessions
  BY DEF CustodyInv, TypeInv, TypeOK
<1>2. Cardinality(H) = IF Handed(t) THEN 1 ELSE 0
  <2>1. \A d, e \in H : d = e
    BY NoneAssumption DEF CustodyInv, HeldOnce
  <2>2. H = {} <=> ~Handed(t)
    BY DEF Handed
  <2> HIDE DEF H
  <2> QED
    BY <2>1, <2>2, OneOrNone
<1>3. Cardinality(L) = IF Listed(t) THEN 1 ELSE 0
  <2>1. \A i, j \in L : i = j
    BY <1>1 DEF CustodyInv, OwnLists, Distinct
  <2>2. L = {} <=> ~In(q, t)
    BY DEF In
  <2>3. In(q, t) <=> Listed(t)
    BY <1>1 DEF CustodyInv, OwnLists, Listed
  <2> HIDE DEF L
  <2> QED
    BY <2>1, <2>2, <2>3, OneOrNone
<1>4. Cardinality(D) = IF AtDropper(t) THEN 1 ELSE 0
  <2>1. \A u, v \in D : u = v
    BY NoneAssumption DEF CustodyInv, HeldOnce
  <2>2. D = {} <=> ~AtDropper(t)
    BY DEF AtDropper
  <2> HIDE DEF D
  <2> QED
    BY <2>1, <2>2, OneOrNone
<1>5. Custodians(t) = Cardinality(H) + Cardinality(L) + Cardinality(D)
                        + (IF AtCaller(t) THEN 1 ELSE 0)
  BY DEF Custodians, AtCaller
<1> HIDE DEF H, L, D, q
<1> QED
  BY <1>1, <1>2, <1>3, <1>4, <1>5 DEF InOnePlace, HeldWhileOpen

\* Custody, for every limit, strategy and caller discipline: a submitted turn is
\* held in exactly one place until its promise is settled, and then in none.
THEOREM EveryTurnHasItsHolder == Spec => []Custody
<1>1. CustodyInv => Custody
  BY CustodyCounts
<1>2. CustodyInv /\ [Next]_vars => CustodyInv'
  BY NextCustody
<1> QED
  BY <1>1, <1>2, InitCustody, PTL DEF Spec

-----------------------------------------------------------------------------
(***************************************************************************)
(* The refinement of SerialSessions, fairness left out.  Only the turn     *)
(* whose microtask runs is anywhere but in a list or with a loop that      *)
(* executes it, so a step changes what one session's list stands for, and  *)
(* most steps do not change even that.                                     *)
(***************************************************************************)

\* A sequence and a turn before or behind it.
LEMMA TurnBehind ==
    ASSUME NEW q \in Seq(Turns), NEW t \in Turns
    PROVE  /\ q \o <<t>> = Append(q, t) /\ Append(q, t) \in Seq(Turns)
           /\ Len(Append(q, t)) = Len(q) + 1 /\ Len(q) \in Nat
           /\ Append(q, t) # <<>> /\ Append(q, t)[Len(q) + 1] = t
           /\ SubSeq(Append(q, t), 1, Len(q)) = q
<1> DEFINE r == Append(q, t)
           n == Len(q)
<1>1. /\ q \o <<t>> = r /\ r \in Seq(Turns) /\ Len(r) = n + 1 /\ n \in Nat
      /\ r # <<>> /\ r[n + 1] = t /\ \A i \in 1..n : r[i] = q[i]
  BY AppendIsConcat, AppendProperties, LenProperties
<1> HIDE DEF r
<1>2. SubSeq(r, 1, n) \in Seq(Turns) /\ Len(SubSeq(r, 1, n)) = n
  <2>1. \A i \in 1..n : r[i] \in Turns
    BY <1>1, ElementOfSeq
  <2>2. 1 \in Int /\ n \in Int
    BY <1>1
  <2> QED
    BY <1>1, <2>1, <2>2, SubSeqProperties
<1>3. \A i \in 1..n : SubSeq(r, 1, n)[i] = q[i]
  BY <1>1
<1>4. SubSeq(r, 1, n) = q
  <2> DEFINE p == SubSeq(r, 1, n)
  <2>1. p \in Seq(Turns) /\ Len(p) = Len(q) /\ \A i \in 1..Len(p) : p[i] = q[i]
    BY <1>2, <1>3
  <2> HIDE DEF p
  <2> QED
    BY <2>1, SeqEqual DEF p
<1> QED
  BY <1>1, <1>4 DEF r

\* A sequence with a turn before it.
LEMMA TurnBefore ==
    ASSUME NEW q \in Seq(Turns), NEW t \in Turns
    PROVE  /\ <<t>> \o q \in Seq(Turns) /\ Len(<<t>> \o q) = Len(q) + 1
           /\ <<t>> \o q # <<>> /\ Head(<<t>> \o q) = t /\ Tail(<<t>> \o q) = q
<1> DEFINE r == <<t>> \o q
           n == Len(q)
<1>1. <<t>> \in Seq(Turns) /\ Len(<<t>>) = 1 /\ <<t>>[1] = t /\ n \in Nat
  BY LenProperties
<1>2. /\ r \in Seq(Turns) /\ Len(r) = 1 + n
      /\ \A i \in 1..(1 + n) : r[i] = IF i <= 1 THEN <<t>>[i] ELSE q[i - 1]
  BY <1>1, ConcatProperties
<1>3. r[1] = t /\ \A i \in 1..n : r[i + 1] = q[i]
  BY <1>1, <1>2
<1> HIDE DEF r
<1>4. r # <<>> /\ Head(r) = t
  BY <1>1, <1>2, <1>3
<1>5. Tail(r) \in Seq(Turns) /\ Len(Tail(r)) = n /\ \A i \in 1..n : Tail(r)[i] = q[i]
  BY <1>1, <1>2, <1>3, <1>4, HeadTailProperties
<1>6. Tail(r) = q
  BY <1>1, <1>5, SeqEqual
<1> QED
  BY <1>1, <1>2, <1>4, <1>6 DEF r

\* A sequence is its head and its tail.
LEMMA HeadBeforeTail ==
    ASSUME NEW q \in Seq(Turns), q # <<>>
    PROVE  Head(q) \in Turns /\ Tail(q) \in Seq(Turns) /\ <<Head(q)>> \o Tail(q) = q
<1>1. Len(q) \in Nat /\ Len(q) >= 1 /\ Head(q) = q[1] /\ Head(q) \in Turns /\ Tail(q) \in Seq(Turns)
  BY EmptySeq, LenProperties
<1>2. 1 \in 1..Len(q) /\ Len(q) \in 1..Len(q)
  BY <1>1
<1>3. SubSeq(q, 1, Len(q)) = <<q[1]>> \o SubSeq(q, 1 + 1, Len(q))
  BY <1>2, SubSeqRecursiveFirst
<1>4. SubSeq(q, 1, Len(q)) = q /\ Tail(q) = SubSeq(q, 2, Len(q))
  BY SubSeqFull, TailIsSubSeq
<1> QED
  BY <1>1, <1>3, <1>4

\* A turn before and a turn behind commute.
LEMMA BeforeAndBehind ==
    ASSUME NEW q \in Seq(Turns), NEW t \in Turns, NEW x \in Turns
    PROVE  (<<x>> \o q) \o <<t>> = <<x>> \o Append(q, t)
<1>1. <<x>> \in Seq(Turns) /\ <<t>> \in Seq(Turns)
  OBVIOUS
<1>2. (<<x>> \o q) \o <<t>> = <<x>> \o (q \o <<t>>)
  BY <1>1, ConcatAssociative
<1> QED
  BY <1>2, TurnBehind

\* A function that differs from another one at one place.
LEMMA DiffersAt ==
    ASSUME NEW S, NEW f, NEW g, f = [x \in S |-> f[x]], g = [x \in S |-> g[x]],
           NEW s \in S, \A r \in S : r # s => g[r] = f[r]
    PROVE  g = [f EXCEPT ![s] = g[s]]
OBVIOUS

\* Nobody but t is between two awaits with a turn that waits.
Alone(t) ==
    \A u \in Turns :
        u # t => pc[u] \notin {"listing", "dropping"} /\ drain[u] # "dequeuing"

\* The turns that wait are those in the list, and what t is handling.
Shown(t) ==
    /\ \A r \in Sessions : r # key[t] => WaitingTurns[r] = list[r]
    /\ key[t] \in Sessions =>
         LET q == list[key[t]]
             w == WaitingTurns[key[t]]
         IN  /\ pc[t] = "listing" => w = Append(q, t)
             /\ pc[t] = "dropping" /\ dropped[t] = None => w = Append(q, t)
             /\ pc[t] = "dropping" /\ dropped[t] # None => w = <<dropped[t]>> \o Append(q, t)
             /\ drain[t] = "dequeuing" /\ hand[t] # None => w = <<hand[t]>> \o q
             /\ pc[t] \notin {"listing", "dropping"}
                  /\ (drain[t] = "dequeuing" => hand[t] = None) => w = q

\* Which they are when nobody but t is handling one.
LEMMA WaitingOf ==
    ASSUME TypeInv, NEW t \in Turns, Alone(t)
    PROVE  Shown(t)
<1>1. ASSUME NEW r \in Sessions
      PROVE  /\ InDrainHand(r) = IF key[t] = r /\ drain[t] = "dequeuing" /\ hand[t] # None
                                 THEN {hand[t]} ELSE {}
             /\ AboutToDrop(r) = IF key[t] = r /\ pc[t] = "dropping" /\ dropped[t] # None
                                 THEN {dropped[t]} ELSE {}
             /\ Arriving(r) = IF key[t] = r /\ pc[t] \in {"listing", "dropping"}
                              THEN {t} ELSE {}
             /\ list[r] \in Seq(Turns)
             /\ WaitingTurns[r] =
                  Sole(InDrainHand(r)) \o Sole(AboutToDrop(r)) \o list[r] \o Sole(Arriving(r))
  <2>1. InDrainHand(r) = IF key[t] = r /\ drain[t] = "dequeuing" /\ hand[t] # None
                         THEN {hand[t]} ELSE {}
    BY DEF InDrainHand, Alone
  <2>2. AboutToDrop(r) = IF key[t] = r /\ pc[t] = "dropping" /\ dropped[t] # None
                         THEN {dropped[t]} ELSE {}
    BY DEF AboutToDrop, Alone
  <2>3. Arriving(r) = IF key[t] = r /\ pc[t] \in {"listing", "dropping"} THEN {t} ELSE {}
    BY DEF Arriving, Alone
  <2>4. list[r] \in Seq(Turns)
    BY DEF TypeInv, TypeOK
  <2>5. WaitingTurns[r] =
          Sole(InDrainHand(r)) \o Sole(AboutToDrop(r)) \o list[r] \o Sole(Arriving(r))
    BY DEF WaitingTurns
  <2> QED
    BY <2>1, <2>2, <2>3, <2>4, <2>5
<1>2. Sole({}) = <<>> /\ \A x : Sole({x}) = <<x>>
  BY DEF Sole
<1>3. \A q \in Seq(Turns) : <<>> \o q = q /\ q \o <<>> = q
  BY ConcatEmptySeq
<1>4. <<>> \in Seq(Turns) /\ \A x \in Turns : <<x>> \in Seq(Turns)
  OBVIOUS
<1>5. \A r \in Sessions : r # key[t] => WaitingTurns[r] = list[r]
  <2> SUFFICES ASSUME NEW r \in Sessions, r # key[t] PROVE WaitingTurns[r] = list[r]
    OBVIOUS
  <2>1. WaitingTurns[r] = <<>> \o <<>> \o list[r] \o <<>> /\ list[r] \in Seq(Turns)
    BY <1>1, <1>2
  <2> QED
    BY <1>3, <1>4, <2>1
<1>6. ASSUME key[t] \in Sessions
      PROVE  LET q == list[key[t]]
                 w == WaitingTurns[key[t]]
             IN  /\ pc[t] = "listing" => w = Append(q, t)
                 /\ pc[t] = "dropping" /\ dropped[t] = None => w = Append(q, t)
                 /\ pc[t] = "dropping" /\ dropped[t] # None => w = <<dropped[t]>> \o Append(q, t)
                 /\ drain[t] = "dequeuing" /\ hand[t] # None => w = <<hand[t]>> \o q
                 /\ pc[t] \notin {"listing", "dropping"}
                      /\ (drain[t] = "dequeuing" => hand[t] = None) => w = q
  <2> DEFINE q == list[key[t]]
             w == WaitingTurns[key[t]]
             A == InDrainHand(key[t])
             B == AboutToDrop(key[t])
             C == Arriving(key[t])
  <2>1. w = Sole(A) \o Sole(B) \o q \o Sole(C) /\ q \in Seq(Turns)
    BY <1>1, <1>6
  <2>2. /\ A = IF drain[t] = "dequeuing" /\ hand[t] # None THEN {hand[t]} ELSE {}
        /\ B = IF pc[t] = "dropping" /\ dropped[t] # None THEN {dropped[t]} ELSE {}
        /\ C = IF pc[t] \in {"listing", "dropping"} THEN {t} ELSE {}
    BY <1>1, <1>6
  <2>3. drain[t] = "dequeuing" => pc[t] \notin {"listing", "dropping"}
    BY DEF TypeInv, Submitted
  <2>4. q \o <<t>> = Append(q, t) /\ Append(q, t) \in Seq(Turns)
    BY <2>1, TurnBehind
  <2>5. hand[t] # None => hand[t] \in Turns
    BY DEF TypeInv, TypeOK
  <2>6. dropped[t] # None => dropped[t] \in Turns
    BY DEF TypeInv, TypeOK
  <2> HIDE DEF A, B, C, q, w
  <2>7. ASSUME pc[t] \in {"listing", "dropping"}, pc[t] = "dropping" => dropped[t] = None
        PROVE  w = Append(q, t)
    <3>1. Sole(A) = <<>> /\ Sole(B) = <<>> /\ Sole(C) = <<t>>
      BY <1>2, <2>2, <2>3, <2>7
    <3> QED
      BY <1>3, <1>4, <2>1, <2>4, <3>1
  <2>8. ASSUME pc[t] = "dropping", dropped[t] # None
        PROVE  w = <<dropped[t]>> \o Append(q, t)
    <3>1. Sole(A) = <<>> /\ Sole(B) = <<dropped[t]>> /\ Sole(C) = <<t>>
      BY <1>2, <2>2, <2>3, <2>8
    <3>2. <<>> \o <<dropped[t]>> = <<dropped[t]>>
      BY <1>3, <1>4, <2>6, <2>8
    <3>3. w = (<<dropped[t]>> \o q) \o <<t>>
      BY <2>1, <3>1, <3>2
    <3> QED
      BY <2>1, <2>6, <2>8, <3>3, BeforeAndBehind
  <2>9. ASSUME drain[t] = "dequeuing", hand[t] # None PROVE w = <<hand[t]>> \o q
    <3>1. Sole(A) = <<hand[t]>> /\ Sole(B) = <<>> /\ Sole(C) = <<>>
      BY <1>2, <2>2, <2>3, <2>9
    <3>2. <<hand[t]>> \o <<>> = <<hand[t]>> /\ <<hand[t]>> \o q \in Seq(Turns)
      BY <1>3, <1>4, <2>1, <2>5, <2>9, ConcatProperties
    <3> QED
      BY <1>3, <2>1, <3>1, <3>2
  <2>10. ASSUME pc[t] \notin {"listing", "dropping"}, drain[t] = "dequeuing" => hand[t] = None
         PROVE  w = q
    <3>1. Sole(A) = <<>> /\ Sole(B) = <<>> /\ Sole(C) = <<>>
      BY <1>2, <2>2, <2>10
    <3> QED
      BY <1>3, <1>4, <2>1, <3>1
  <2> QED
    BY <2>7, <2>8, <2>9, <2>10 DEF q, w
<1> QED
  BY <1>5, <1>6 DEF Shown

\* A session's active turn is that of its loop that executes one.
ActiveIs ==
    \A s \in Sessions :
        /\ \A d \in Turns : Executing(d) /\ key[d] = s => ActiveTurn[s] = hand[d]
        /\ (\A d \in Turns : Executing(d) => key[d] # s) => ActiveTurn[s] = None

\* At most one loop executes, so a session has one active turn.
LEMMA ActiveOf == OneDrain => ActiveIs
<1> SUFFICES ASSUME OneDrain, NEW s \in Sessions
             PROVE  /\ \A d \in Turns : Executing(d) /\ key[d] = s => ActiveTurn[s] = hand[d]
                    /\ (\A d \in Turns : Executing(d) => key[d] # s) => ActiveTurn[s] = None
  BY DEF ActiveIs
<1>1. ASSUME NEW d \in Turns, Executing(d), key[d] = s PROVE ActiveTurn[s] = hand[d]
  <2>1. \A e \in Turns : Executing(e) /\ key[e] = s => e = d
    BY <1>1 DEF OneDrain, Draining, Executing
  <2>2. (CHOOSE e \in Turns : Executing(e) /\ key[e] = s) = d
    BY <1>1, <2>1
  <2> QED
    BY <1>1, <2>2 DEF ActiveTurn
<1>2. (\A d \in Turns : Executing(d) => key[d] # s) => ActiveTurn[s] = None
  BY DEF ActiveTurn
<1> QED
  BY <1>1, <1>2

\* Both hold after a step as well.
LEMMA Mapped ==
    /\ TypeInv => \A t \in Turns : Alone(t) => Shown(t)
    /\ OneDrain => ActiveIs
BY WaitingOf, ActiveOf

\* And in the next state.
LEMMA MappedNext ==
    /\ TypeInv' => (\A t \in Turns : Alone(t) => Shown(t))'
    /\ OneDrain' => ActiveIs'
BY Mapped, PTL

-----------------------------------------------------------------------------
\* A loop that executes has a turn.
HasTurn == \A d \in Turns : Executing(d) => hand[d] # None

\* A caller that has taken out the oldest turn did so over the limit.
OverInDrop ==
    \A t \in Turns : pc[t] = "dropping" =>
        /\ Depth(t) >= HardLimit
        /\ IF dropped[t] = None THEN seen[t] = 0 ELSE seen[t] = Len(list[key[t]]) + 1

RefineInv == LimitInv /\ CustodyInv /\ HasTurn /\ OverInDrop

\* What a step of turn t, or of its drain loop, can be.
StepOf(t) ==
    \/ \E s \in Sessions : Submit(t, s)
    \/ Admit(t) \/ RefuseNew(t) \/ TakeOldest(t) \/ ReplaceOldest(t)
    \/ RefuseNoCandidate(t) \/ AdmitOverLimit(t)
    \/ RegisterBusy(t) \/ RegisterAndDrain(t)
    \/ StartTurn(t) \/ EndDrain(t) \/ SettleAndNext(t) \/ ExecuteReturns(t)

\* It leaves the others where they are, between two macrotasks.
LEMMA StepIsAlone ==
    ASSUME SerialInv, ~Burst, NEW t \in Turns, StepOf(t)
    PROVE  /\ Alone(t) /\ Alone(t)'
           /\ \A u \in Turns : u # t => /\ pc'[u] = pc[u] /\ drain'[u] = drain[u]
                                        /\ hand'[u] = hand[u] /\ key'[u] = key[u]
<1> USE DEF SerialInv, TypeInv
<1>1. \A u \in Turns : u # t => /\ pc'[u] = pc[u] /\ drain'[u] = drain[u]
                                /\ hand'[u] = hand[u] /\ key'[u] = key[u]
  <2>1. CASE \E s \in Sessions : Submit(t, s)
    BY <2>1 DEF Submit, loopVars, TypeOK
  <2>2. CASE Admit(t) \/ ReplaceOldest(t) \/ AdmitOverLimit(t)
    BY <2>2 DEF Admit, ReplaceOldest, AdmitOverLimit, Push, bookVars, loopVars, TypeOK
  <2>3. CASE RefuseNew(t) \/ RefuseNoCandidate(t) \/ RegisterBusy(t)
    BY <2>3 DEF RefuseNew, RefuseNoCandidate, RegisterBusy, Leave, bookVars, loopVars, TypeOK
  <2>4. CASE TakeOldest(t) \/ RegisterAndDrain(t)
    BY <2>4 DEF TakeOldest, RegisterAndDrain, bookVars, loopVars, TypeOK
  <2>5. CASE StartTurn(t) \/ EndDrain(t) \/ SettleAndNext(t) \/ ExecuteReturns(t)
    BY <2>5 DEF StartTurn, EndDrain, SettleAndNext, ExecuteReturns, bookVars, loopVars, TypeOK
  <2> QED
    BY <2>1, <2>2, <2>3, <2>4, <2>5 DEF StepOf
<1>2. Alone(t)
  <2>1. CASE Runs("enqueue", t) \/ Runs("drain", t)
    BY <2>1, RunsAlone DEF Alone, InFlight
  <2>2. CASE jobs = <<>>
    BY <2>2 DEF OneJob, Alone, InFlight
  <2> QED
    BY <2>1, <2>2 DEF StepOf, Submit, Admit, RefuseNew, TakeOldest, ReplaceOldest,
       RefuseNoCandidate, AdmitOverLimit, RegisterBusy, RegisterAndDrain, StartTurn, EndDrain,
       SettleAndNext, ExecuteReturns
<1> QED
  BY <1>1, <1>2 DEF Alone

\* Nothing is done at first.
LEMMA InitRefine == Init => RefineInv
<1> SUFFICES ASSUME Init PROVE RefineInv
  OBVIOUS
<1>1. LimitInv /\ CustodyInv
  BY InitLimit, InitCustody
<1>2. HasTurn /\ OverInDrop
  BY DEF Init, HasTurn, Executing, OverInDrop
<1> QED
  BY <1>1, <1>2 DEF RefineInv

\* Every step keeps the invariant.
LEMMA StepRefine ==
    ASSUME RefineInv, ~Burst, NEW t \in Turns, StepOf(t)
    PROVE  RefineInv'
<1> USE DEF RefineInv
<1>0. LimitInv' /\ CustodyInv'
  <2>1. Next
    BY DEF Next, RunJob, StepOf
  <2> QED
    BY <2>1, NextLimit, NextCustody
<1>1. SerialInv /\ TypeInv /\ key[t] \in Sessions \cup {None}
  BY DEF LimitInv, ServedInv, SerialInv, TypeInv, TypeOK
<1>2. /\ Alone(t) /\ Alone(t)'
      /\ \A u \in Turns : u # t => /\ pc'[u] = pc[u] /\ drain'[u] = drain[u]
                                   /\ hand'[u] = hand[u] /\ key'[u] = key[u]
  BY <1>1, StepIsAlone
<1>3. HasTurn'
  <2>1. ASSUME Executing(t)' PROVE hand'[t] # None
    <3>1. CASE StartTurn(t)
      BY <3>1 DEF StartTurn
    <3>2. CASE ~StartTurn(t)
      <4>1. Executing(t) /\ hand'[t] = hand[t]
        <5>1. CASE \E s \in Sessions : Submit(t, s)
          BY <2>1, <5>1 DEF Submit, loopVars, Executing
        <5>2. CASE \/ Admit(t) \/ ReplaceOldest(t) \/ AdmitOverLimit(t) \/ RefuseNew(t)
                   \/ RefuseNoCandidate(t) \/ RegisterBusy(t) \/ TakeOldest(t)
          BY <2>1, <5>2 DEF Admit, ReplaceOldest, AdmitOverLimit, RefuseNew, RefuseNoCandidate,
                            RegisterBusy, TakeOldest, loopVars, Executing
        <5>3. CASE RegisterAndDrain(t) \/ EndDrain(t) \/ SettleAndNext(t)
          BY <1>1, <2>1, <5>3 DEF RegisterAndDrain, EndDrain, SettleAndNext, Executing, TypeInv, TypeOK
        <5>4. CASE ExecuteReturns(t)
          BY <5>4 DEF ExecuteReturns, Executing
        <5> QED
          BY <3>2, <5>1, <5>2, <5>3, <5>4 DEF StepOf
      <4> QED
        BY <4>1 DEF HasTurn
    <3> QED
      BY <3>1, <3>2
  <2> QED
    BY <1>2, <2>1 DEF HasTurn, Executing
<1>4. OverInDrop'
  <2>1. \A u \in Turns : u # t => pc'[u] # "dropping"
    BY <1>2 DEF Alone
  <2>2. CASE ~TakeOldest(t)
    <3>1. pc'[t] # "dropping"
      <4>1. CASE \E s \in Sessions : Submit(t, s)
        BY <1>1, <4>1 DEF Submit, TypeInv, TypeOK
      <4>2. CASE Admit(t) \/ ReplaceOldest(t) \/ AdmitOverLimit(t)
        BY <1>1, <4>2 DEF Admit, ReplaceOldest, AdmitOverLimit, Push, TypeInv, TypeOK
      <4>3. CASE RefuseNew(t) \/ RefuseNoCandidate(t) \/ RegisterBusy(t) \/ RegisterAndDrain(t)
        BY <1>1, <4>3 DEF RefuseNew, RefuseNoCandidate, RegisterBusy, RegisterAndDrain, Leave,
                          TypeInv, TypeOK
      <4>4. CASE StartTurn(t) \/ EndDrain(t) \/ SettleAndNext(t) \/ ExecuteReturns(t)
        <5>1. pc'[t] = pc[t] /\ drain[t] # "none"
          BY <4>4 DEF StartTurn, EndDrain, SettleAndNext, ExecuteReturns
        <5> QED
          BY <1>1, <5>1 DEF TypeInv, Submitted
      <4> QED
        BY <2>2, <4>1, <4>2, <4>3, <4>4 DEF StepOf
    <3> QED
      BY <2>1, <3>1 DEF OverInDrop
  <2>3. CASE TakeOldest(t)
    <3>1. /\ UNCHANGED <<key, obj, seen, running>> /\ pc[t] = "listing" /\ Shift(key[t])
          /\ Depth(t) >= HardLimit /\ dropped'[t] = Oldest(key[t]) /\ key[t] \in Sessions
      BY <1>1, <2>3 DEF TakeOldest, bookVars, loopVars, TypeInv, TypeOK, Submitted
    <3>2. seen[t] = Len(list[key[t]]) /\ list[key[t]] \in Seq(Turns)
      BY <1>1, <3>1 DEF LimitInv, CountsTrue, TypeInv, TypeOK
    <3>3. Depth(t)' >= HardLimit
      BY <3>1 DEF Depth
    <3>4. CASE list[key[t]] = <<>>
      BY <2>1, <3>1, <3>2, <3>3, <3>4 DEF OverInDrop, Oldest, Shift
    <3>5. CASE list[key[t]] # <<>>
      <4>1. /\ Head(list[key[t]]) \in Turns /\ Len(list[key[t]]) \in Nat
            /\ Len(Tail(list[key[t]])) = Len(list[key[t]]) - 1
        BY <3>2, <3>5
      <4>2. dropped'[t] # None /\ list'[key[t]] = Tail(list[key[t]])
        BY <1>1, <3>1, <3>5, <4>1, NoneAssumption DEF Oldest, Shift, TypeInv, TypeOK
      <4>3. seen'[t] = Len(list'[key'[t]]) + 1
        BY <3>1, <3>2, <4>1, <4>2
      <4> QED
        BY <2>1, <3>3, <4>2, <4>3 DEF OverInDrop
    <3> QED
      BY <3>4, <3>5
  <2> QED
    BY <2>2, <2>3
<1> QED
  BY <1>0, <1>3, <1>4

-----------------------------------------------------------------------------
\* What the step of a turn does to what its session's list stands for; it does
\* nothing to that of the others.
LEMMA StepShows ==
    ASSUME RefineInv, ~Burst, NEW t \in Turns, StepOf(t)
    PROVE  /\ RefineInv' /\ Shown(t) /\ Shown(t)' /\ ActiveIs /\ ActiveIs'
           /\ \A u \in Turns : u # t => /\ drain'[u] = drain[u]
                                        /\ hand'[u] = hand[u] /\ key'[u] = key[u]
<1>1. RefineInv'
  BY StepRefine
<1>2. TypeInv /\ TypeInv' /\ SerialInv /\ SerialInv' /\ OneDrain /\ OneDrain'
  BY <1>1 DEF RefineInv, LimitInv, ServedInv, SerialInv
<1>3. Shown(t) /\ Shown(t)'
  BY <1>2, StepIsAlone, Mapped, MappedNext
<1>4. ActiveIs /\ ActiveIs'
  BY <1>2, Mapped, MappedNext
<1> QED
  BY <1>1, <1>2, <1>3, <1>4, StepIsAlone

\* As long as no loop starts or ends an execution, the active turns are the same.
LEMMA SameActive ==
    ASSUME ActiveIs, ActiveIs',
           \A d \in Turns : Executing(d)' <=> Executing(d),
           \A d \in Turns : Executing(d) => hand'[d] = hand[d] /\ key'[d] = key[d]
    PROVE  \A s \in Sessions : ActiveTurn'[s] = ActiveTurn[s]
<1> SUFFICES ASSUME NEW s \in Sessions PROVE ActiveTurn'[s] = ActiveTurn[s]
  OBVIOUS
<1>1. CASE \E d \in Turns : Executing(d) /\ key[d] = s
  <2>1. PICK d \in Turns : Executing(d) /\ key[d] = s
    BY <1>1
  <2>2. ActiveTurn[s] = hand[d]
    BY <2>1 DEF ActiveIs
  <2>3. ActiveTurn'[s] = hand'[d]
    BY <2>1 DEF ActiveIs
  <2> QED
    BY <2>1, <2>2, <2>3
<1>2. CASE ~\E d \in Turns : Executing(d) /\ key[d] = s
  <2>1. ActiveTurn[s] = None
    BY <1>2 DEF ActiveIs
  <2>2. ActiveTurn'[s] = None
    BY <1>2 DEF ActiveIs
  <2> QED
    BY <2>1, <2>2
<1> QED
  BY <1>1, <1>2

\* A step that leaves the lists' and the loops' meaning alone is a stutter.
LEMMA Stutters ==
    ASSUME key' = key, fate' = fate,
           \A s \in Sessions : WaitingTurns'[s] = WaitingTurns[s],
           \A s \in Sessions : ActiveTurn'[s] = ActiveTurn[s]
    PROVE  UNCHANGED Serial!vars
<1>1. WaitingTurns' = WaitingTurns
  <2>1. /\ WaitingTurns = [s \in Sessions |-> WaitingTurns[s]]
        /\ WaitingTurns' = [s \in Sessions |-> WaitingTurns'[s]]
    BY DEF WaitingTurns
  <2> HIDE DEF WaitingTurns
  <2> QED
    BY <2>1
<1>2. ActiveTurn' = ActiveTurn
  <2>1. /\ ActiveTurn = [s \in Sessions |-> ActiveTurn[s]]
        /\ ActiveTurn' = [s \in Sessions |-> ActiveTurn'[s]]
    BY DEF ActiveTurn
  <2> QED
    BY <2>1
<1> QED
  BY <1>1, <1>2 DEF Serial!vars

\* The value of the mapped variables after a change at one session.
LEMMA WaitingAt ==
    ASSUME NEW s \in Sessions, \A r \in Sessions : r # s => WaitingTurns'[r] = WaitingTurns[r]
    PROVE  WaitingTurns' = [WaitingTurns EXCEPT ![s] = WaitingTurns'[s]]
<1>1. /\ WaitingTurns = [r \in Sessions |-> WaitingTurns[r]]
      /\ WaitingTurns' = [r \in Sessions |-> WaitingTurns'[r]]
  BY DEF WaitingTurns
<1> QED
  BY <1>1, DiffersAt

\* The same for the active turns.
LEMMA ActiveAt ==
    ASSUME NEW s \in Sessions, \A r \in Sessions : r # s => ActiveTurn'[r] = ActiveTurn[r]
    PROVE  ActiveTurn' = [ActiveTurn EXCEPT ![s] = ActiveTurn'[s]]
<1>1. /\ ActiveTurn = [r \in Sessions |-> ActiveTurn[r]]
      /\ ActiveTurn' = [r \in Sessions |-> ActiveTurn'[r]]
  BY DEF ActiveTurn
<1> QED
  BY <1>1, DiffersAt

\* Without a change they are the same function.
LEMMA ActiveSame ==
    ASSUME \A r \in Sessions : ActiveTurn'[r] = ActiveTurn[r]
    PROVE  ActiveTurn' = ActiveTurn
<1>1. /\ ActiveTurn = [r \in Sessions |-> ActiveTurn[r]]
      /\ ActiveTurn' = [r \in Sessions |-> ActiveTurn'[r]]
  BY DEF ActiveTurn
<1> QED
  BY <1>1

\* As are the waiting turns.
LEMMA WaitingSame ==
    ASSUME \A r \in Sessions : WaitingTurns'[r] = WaitingTurns[r]
    PROVE  WaitingTurns' = WaitingTurns
<1>1. /\ WaitingTurns = [r \in Sessions |-> WaitingTurns[r]]
      /\ WaitingTurns' = [r \in Sessions |-> WaitingTurns'[r]]
  BY DEF WaitingTurns
<1> QED
  BY <1>1

\* When the abstract queue is over its limit.
LEMMA IsOver ==
    ASSUME NEW s, Len(WaitingTurns[s]) \in Nat,
           \/ Len(WaitingTurns[s]) > HardLimit
           \/ ActiveTurn[s] # None /\ Len(WaitingTurns[s]) + 1 > HardLimit
    PROVE  Serial!OverLimit(s)
<1> DEFINE n == Len(WaitingTurns[s])
<1>1. n \in Nat /\ (n > HardLimit \/ (ActiveTurn[s] # None /\ n + 1 > HardLimit))
  OBVIOUS
<1> HIDE DEF n
<1>2. CASE ActiveTurn[s] = None
  <2>1. n + 0 > HardLimit
    BY <1>1, <1>2, LimitAssumption
  <2> QED
    BY <1>2, <2>1 DEF Serial!OverLimit, n
<1>3. CASE ActiveTurn[s] # None
  <2>1. n + 1 > HardLimit
    BY <1>1, <1>3, LimitAssumption
  <2> QED
    BY <1>3, <2>1 DEF Serial!OverLimit, n
<1> QED
  BY <1>2, <1>3

\* The session of a caller that finds its state object flagged has an active turn.
LEMMA FlaggedIsActive ==
    ASSUME RefineInv, ~Burst, NEW t \in Turns, InFlight(t), running[obj[t]], ActiveIs
    PROVE  key[t] \in Sessions /\ ActiveTurn[key[t]] # None
<1>1. PICK d \in Turns : drain[d] = "executing" /\ key[d] = key[t]
  BY FlaggedLoop DEF RefineInv, LimitInv
<1>2. key[t] \in Sessions /\ Executing(d)
  BY <1>1 DEF RefineInv, LimitInv, ServedInv, SerialInv, TypeInv, Submitted, InFlight, Executing
<1> QED
  BY <1>1, <1>2 DEF ActiveIs, RefineInv, HasTurn

-----------------------------------------------------------------------------
\* A submitted turn waits behind the others.
LEMMA SubmitMaps ==
    ASSUME RefineInv, ~Burst, NEW t \in Turns, NEW s \in Sessions, Submit(t, s)
    PROVE  Serial!Submit(t, s)
<1>1. /\ RefineInv' /\ Shown(t) /\ Shown(t)' /\ ActiveIs /\ ActiveIs'
      /\ \A u \in Turns : u # t => /\ drain'[u] = drain[u]
                                   /\ hand'[u] = hand[u] /\ key'[u] = key[u]
  <2>1. StepOf(t)
    BY DEF StepOf
  <2> QED
    BY <2>1, StepShows
<1>2. /\ key[t] = None /\ pc[t] = "new" /\ drain[t] = "none" /\ list[s] \in Seq(Turns)
      /\ key' = [key EXCEPT ![t] = s] /\ key'[t] = s /\ pc'[t] = "listing"
      /\ UNCHANGED <<list, drain, hand, fate>>
  BY DEF Submit, loopVars, RefineInv, CustodyInv, Untouched, TypeInv, TypeOK, Submitted
<1>3. \A r \in Sessions : WaitingTurns[r] = list[r]
  BY <1>1, <1>2, NoneAssumption DEF Shown
<1>4. /\ \A r \in Sessions : r # s => WaitingTurns'[r] = list[r]
      /\ WaitingTurns'[s] = Append(list[s], t)
  BY <1>1, <1>2 DEF Shown
<1>5. WaitingTurns' = [WaitingTurns EXCEPT ![s] = Append(WaitingTurns[s], t)]
  BY <1>3, <1>4, WaitingAt
<1>6. ActiveTurn' = ActiveTurn
  <2>1. \A d \in Turns : Executing(d)' <=> Executing(d)
    BY <1>2 DEF Executing
  <2>2. \A d \in Turns : Executing(d) => hand'[d] = hand[d] /\ key'[d] = key[d]
    BY <1>1, <1>2 DEF Executing
  <2> QED
    BY <1>1, <2>1, <2>2, SameActive, ActiveSame
<1> QED
  BY <1>2, <1>5, <1>6 DEF Serial!Submit

\* Refusing takes the newest turn away, over the limit.
LEMMA RefuseMaps ==
    ASSUME RefineInv, ~Burst, NEW t \in Turns, RefuseNew(t) \/ RefuseNoCandidate(t)
    PROVE  Serial!Refuse(key[t])
<1> DEFINE s == key[t]
<1>1. /\ RefineInv' /\ Shown(t) /\ Shown(t)' /\ ActiveIs /\ ActiveIs'
      /\ \A u \in Turns : u # t => /\ drain'[u] = drain[u]
                                   /\ hand'[u] = hand[u] /\ key'[u] = key[u]
  <2>1. StepOf(t)
    BY DEF StepOf
  <2> QED
    BY <2>1, StepShows
<1>2. /\ UNCHANGED <<key, obj, running, list, drain, hand>> /\ Settle(t, "refused")
      /\ pc[t] \in {"listing", "dropping"} /\ (pc[t] = "dropping" => dropped[t] = None)
      /\ pc'[t] = "out" /\ drain[t] = "none" /\ s \in Sessions /\ list[s] \in Seq(Turns)
      /\ InFlight(t) /\ seen[t] \in Nat
  BY DEF RefuseNew, RefuseNoCandidate, Leave, bookVars, loopVars, RefineInv, CustodyInv,
         TypeInv, TypeOK, Submitted, InFlight
<1>3. /\ WaitingTurns[s] = Append(list[s], t) /\ WaitingTurns'[s] = list[s]
      /\ \A r \in Sessions : r # s => WaitingTurns'[r] = WaitingTurns[r]
  BY <1>1, <1>2 DEF Shown
<1>4. Depth(t) >= HardLimit /\ seen[t] = Len(list[s])
  <2>1. CASE RefuseNew(t)
    BY <2>1 DEF RefuseNew, RefineInv, LimitInv, CountsTrue
  <2>2. CASE RefuseNoCandidate(t)
    <3>1. pc[t] = "dropping" /\ dropped[t] = None
      BY <2>2 DEF RefuseNoCandidate
    <3>2. list[s] = <<>> /\ seen[t] = 0 /\ Depth(t) >= HardLimit
      BY <3>1 DEF RefineInv, LimitInv, CountsTrue, OverInDrop
    <3> QED
      BY <3>2
  <2> QED
    BY <2>1, <2>2
<1>5. running[obj[t]] => ActiveTurn[s] # None
  BY <1>1, <1>2, FlaggedIsActive
<1>6. Serial!OverLimit(s)
  <2>1. Len(WaitingTurns[s]) = Len(list[s]) + 1 /\ Len(list[s]) \in Nat
    BY <1>2, <1>3, TurnBehind
  <2>2. CASE running[obj[t]]
    <3>1. Len(list[s]) + 1 >= HardLimit
      BY <1>4, <2>2 DEF Depth
    <3>2. Len(WaitingTurns[s]) \in Nat /\ Len(WaitingTurns[s]) + 1 > HardLimit
      BY <2>1, <3>1, LimitAssumption
    <3> QED
      BY <1>5, <2>2, <3>2, IsOver
  <2>3. CASE ~running[obj[t]]
    <3>1. Len(list[s]) >= HardLimit
      BY <1>4, <2>1, <2>3 DEF Depth
    <3>2. Len(WaitingTurns[s]) \in Nat /\ Len(WaitingTurns[s]) > HardLimit
      BY <2>1, <3>1, LimitAssumption
    <3> QED
      BY <3>2, IsOver
  <2> QED
    BY <2>2, <2>3
<1>7. fate[t] = "open" /\ fate' = [fate EXCEPT ![t] = "refused"]
  <2>1. fate[t] = "open"
    BY <1>2 DEF RefineInv, CustodyInv, HeldWhileOpen, AtCaller
  <2> QED
    BY <1>2, <2>1 DEF Settle
<1>8. ActiveTurn' = ActiveTurn
  BY <1>1, <1>2, SameActive, ActiveSame DEF Executing
<1>9. /\ WaitingTurns[s] # <<>> /\ WaitingTurns[s][Len(WaitingTurns[s])] = t
      /\ SubSeq(WaitingTurns[s], 1, Len(WaitingTurns[s]) - 1) = list[s]
  <2>1. Append(list[s], t) # <<>> /\ Append(list[s], t)[Len(list[s]) + 1] = t
    BY <1>2, TurnBehind
  <2>2. SubSeq(Append(list[s], t), 1, Len(list[s])) = list[s]
    BY <1>2, TurnBehind
  <2>3. Len(WaitingTurns[s]) = Len(list[s]) + 1 /\ Len(WaitingTurns[s]) - 1 = Len(list[s])
    BY <1>2, <1>3, TurnBehind
  <2> QED
    BY <1>3, <2>1, <2>2, <2>3
<1>10. WaitingTurns' = [WaitingTurns EXCEPT ![s] = SubSeq(@, 1, Len(@) - 1)]
  BY <1>2, <1>3, <1>9, WaitingAt
<1> QED
  BY <1>2, <1>6, <1>7, <1>8, <1>9, <1>10 DEF Serial!Refuse, Serial!Settle

\* Replacing the oldest turn drops it, over the limit.
LEMMA ReplaceMaps ==
    ASSUME RefineInv, ~Burst, NEW t \in Turns, ReplaceOldest(t)
    PROVE  Serial!Drop(key[t])
<1> DEFINE s == key[t]
           x == dropped[t]
           q == Append(list[s], t)
<1>1. /\ RefineInv' /\ Shown(t) /\ Shown(t)' /\ ActiveIs /\ ActiveIs'
      /\ \A u \in Turns : u # t => /\ drain'[u] = drain[u]
                                   /\ hand'[u] = hand[u] /\ key'[u] = key[u]
  <2>1. StepOf(t)
    BY DEF StepOf
  <2> QED
    BY <2>1, StepShows
<1>2. /\ UNCHANGED <<key, obj, running, drain, hand>> /\ Settle(x, "dropped")
      /\ pc[t] = "dropping" /\ x # None /\ x \in Turns
      /\ pc'[t] = "pushed" /\ drain[t] = "none" /\ s \in Sessions /\ list[s] \in Seq(Turns)
      /\ InFlight(t) /\ list' = [list EXCEPT ![s] = q] /\ list'[s] = q
  BY DEF ReplaceOldest, Push, bookVars, loopVars, RefineInv, CustodyInv,
         TypeInv, TypeOK, Submitted, InFlight
<1>3. q \in Seq(Turns) /\ Len(q) = Len(list[s]) + 1 /\ Len(list[s]) \in Nat
  BY <1>2, TurnBehind
<1>4. \A r \in Sessions : r # s => list'[r] = list[r]
  BY <1>2
<1> HIDE DEF q
<1>5. /\ WaitingTurns[s] = <<x>> \o q /\ WaitingTurns'[s] = q
      /\ \A r \in Sessions : r # s => WaitingTurns'[r] = WaitingTurns[r]
  BY <1>1, <1>2, <1>4 DEF Shown, q
<1>6. Depth(t) >= HardLimit /\ seen[t] = Len(list[s]) + 1
  BY <1>2 DEF RefineInv, OverInDrop
<1>7. running[obj[t]] => ActiveTurn[s] # None
  BY <1>1, <1>2, FlaggedIsActive
<1>8. /\ <<x>> \o q # <<>> /\ Head(<<x>> \o q) = x /\ Tail(<<x>> \o q) = q
      /\ Len(<<x>> \o q) = Len(q) + 1
  BY <1>2, <1>3, TurnBefore
<1>9. Serial!OverLimit(s)
  <2>1. Len(WaitingTurns[s]) = Len(q) + 1
    BY <1>5, <1>8, Zenon
  <2>2. Len(WaitingTurns[s]) = Len(list[s]) + 2
    BY <1>3, <2>1
  <2>3. Depth(t) = Len(list[s]) + 1 + (IF running[obj[t]] THEN 1 ELSE 0)
    BY <1>6 DEF Depth
  <2>4. Len(WaitingTurns[s]) \in Nat /\ Len(list[s]) \in Nat
    BY <1>3, <2>2
  <2>5. CASE running[obj[t]]
    <3>1. Len(WaitingTurns[s]) + 1 > HardLimit
      BY <1>6, <2>2, <2>3, <2>4, <2>5, LimitAssumption
    <3> QED
      BY <1>7, <2>4, <2>5, <3>1, IsOver
  <2>6. CASE ~running[obj[t]]
    <3>1. Len(WaitingTurns[s]) > HardLimit
      BY <1>6, <2>2, <2>3, <2>4, <2>6, LimitAssumption
    <3> QED
      BY <2>4, <3>1, IsOver
  <2> QED
    BY <2>5, <2>6
<1>10. fate[x] = "open" /\ fate' = [fate EXCEPT ![x] = "dropped"]
  <2>1. fate[x] = "open"
    BY <1>2 DEF RefineInv, CustodyInv, HeldWhileOpen, AtDropper
  <2> QED
    BY <1>2, <2>1 DEF Settle
<1>11. ActiveTurn' = ActiveTurn
  BY <1>1, <1>2, SameActive, ActiveSame DEF Executing
<1>12. WaitingTurns' = [WaitingTurns EXCEPT ![s] = Tail(@)]
  BY <1>2, <1>5, <1>8, WaitingAt
<1> QED
  BY <1>2, <1>5, <1>8, <1>9, <1>10, <1>11, <1>12 DEF Serial!Drop, Serial!Settle

\* A loop that starts a turn starts the oldest that waits.
LEMMA StartMaps ==
    ASSUME RefineInv, ~Burst, NEW d \in Turns, StartTurn(d)
    PROVE  Serial!Start(key[d])
<1> DEFINE s == key[d]
           x == hand[d]
           q == list[s]
<1>1. /\ RefineInv' /\ Shown(d) /\ Shown(d)' /\ ActiveIs /\ ActiveIs'
      /\ \A u \in Turns : u # d => /\ drain'[u] = drain[u]
                                   /\ hand'[u] = hand[u] /\ key'[u] = key[u]
  <2>1. StepOf(d)
    BY DEF StepOf
  <2> QED
    BY <2>1, StepShows
<1>2. /\ UNCHANGED <<key, list, hand, fate, pc>>
      /\ drain[d] = "dequeuing" /\ drain'[d] = "executing" /\ x # None /\ x \in Turns
      /\ pc[d] = "out" /\ s \in Sessions /\ q \in Seq(Turns)
  BY DEF StartTurn, bookVars, RefineInv, CustodyInv, TypeInv, TypeOK, Submitted
<1>3. /\ WaitingTurns[s] = <<x>> \o q /\ WaitingTurns'[s] = q
      /\ \A r \in Sessions : r # s => WaitingTurns'[r] = WaitingTurns[r]
  BY <1>1, <1>2 DEF Shown
<1>4. <<x>> \o q # <<>> /\ Head(<<x>> \o q) = x /\ Tail(<<x>> \o q) = q
  BY <1>2, TurnBefore
<1>5. OneDrain
  BY DEF RefineInv, LimitInv, ServedInv, SerialInv
<1>6. \A e \in Turns : Executing(e) => key[e] # s
  BY <1>2, <1>5 DEF OneDrain, Draining, Executing
<1>7. ActiveTurn[s] = None
  BY <1>1, <1>2, <1>6 DEF ActiveIs
<1>8. ActiveTurn'[s] = x
  <2>1. Executing(d)' /\ key'[d] = s /\ hand'[d] = x
    BY <1>2 DEF Executing
  <2> QED
    BY <1>1, <1>2, <2>1 DEF ActiveIs
<1>9. ASSUME NEW r \in Sessions, r # s PROVE ActiveTurn'[r] = ActiveTurn[r]
  <2>1. \A e \in Turns : key[e] = r => (Executing(e)' <=> Executing(e))
    BY <1>1, <1>9 DEF Executing
  <2>2. CASE \E e \in Turns : Executing(e) /\ key[e] = r
    <3>1. PICK e \in Turns : Executing(e) /\ key[e] = r
      BY <2>2
    <3>2. ActiveTurn[r] = hand[e]
      BY <1>1, <3>1 DEF ActiveIs
    <3>3. Executing(e)' /\ key'[e] = r /\ hand'[e] = hand[e]
      BY <1>2, <2>1, <3>1
    <3>4. ActiveTurn'[r] = hand'[e]
      BY <1>1, <3>3 DEF ActiveIs
    <3> QED
      BY <3>2, <3>3, <3>4
  <2>3. CASE ~\E e \in Turns : Executing(e) /\ key[e] = r
    <3>1. ActiveTurn[r] = None
      BY <1>1, <2>3 DEF ActiveIs
    <3>2. \A e \in Turns : Executing(e)' => key'[e] # r
      BY <1>2, <2>1, <2>3
    <3>3. ActiveTurn'[r] = None
      BY <1>1, <3>2 DEF ActiveIs
    <3> QED
      BY <3>1, <3>3
  <2> QED
    BY <2>2, <2>3
<1>10. WaitingTurns' = [WaitingTurns EXCEPT ![s] = Tail(@)]
  BY <1>2, <1>3, <1>4, WaitingAt
<1>11. ActiveTurn' = [ActiveTurn EXCEPT ![s] = Head(WaitingTurns[s])]
  BY <1>2, <1>3, <1>4, <1>8, <1>9, ActiveAt
<1> QED
  BY <1>2, <1>3, <1>4, <1>7, <1>10, <1>11 DEF Serial!Start

\* What is taken from a list for a loop or a caller still waits.
LEMMA OldestStillWaits ==
    ASSUME TypeInv, NEW s \in Sessions, Shift(s)
    PROVE  /\ Oldest(s) = None => list' = list
           /\ Oldest(s) # None => Oldest(s) \in Turns /\ <<Oldest(s)>> \o list'[s] = list[s]
           /\ \A r \in Sessions : r # s => list'[r] = list[r]
<1>1. list[s] \in Seq(Turns)
  BY DEF TypeInv, TypeOK
<1>2. CASE list[s] = <<>>
  BY <1>2 DEF Oldest, Shift
<1>3. CASE list[s] # <<>>
  <2>1. Head(list[s]) \in Turns /\ <<Head(list[s])>> \o Tail(list[s]) = list[s]
    BY <1>1, <1>3, HeadBeforeTail
  <2>2. Oldest(s) = Head(list[s]) /\ Oldest(s) # None
    BY <1>3, <2>1, NoneAssumption DEF Oldest
  <2>3. list'[s] = Tail(list[s]) /\ \A r \in Sessions : r # s => list'[r] = list[r]
    BY <1>3 DEF Shift, TypeInv, TypeOK
  <2> QED
    BY <2>1, <2>2, <2>3
<1> QED
  BY <1>2, <1>3

\* A loop that settles its turn finishes it.
LEMMA SettleMaps ==
    ASSUME RefineInv, ~Burst, NEW d \in Turns, SettleAndNext(d)
    PROVE  Serial!Finish(key[d])
<1> DEFINE s == key[d]
           h == hand[d]
<1>1. /\ RefineInv' /\ Shown(d) /\ Shown(d)' /\ ActiveIs /\ ActiveIs'
      /\ \A u \in Turns : u # d => /\ drain'[u] = drain[u]
                                   /\ hand'[u] = hand[u] /\ key'[u] = key[u]
  <2>1. StepOf(d)
    BY DEF StepOf
  <2> QED
    BY <2>1, StepShows
<1>2. /\ UNCHANGED <<key, pc>> /\ Shift(s) /\ hand'[d] = Oldest(s)
      /\ drain[d] = "settling" /\ drain'[d] = "dequeuing" /\ TypeInv
      /\ pc[d] = "out" /\ s \in Sessions /\ list[s] \in Seq(Turns)
      /\ h # None /\ h \in Turns /\ Executing(d)
      /\ \E how \in {"resolved", "failed"} : Settle(h, how)
  BY DEF SettleAndNext, bookVars, RefineInv, CustodyInv, TypeInv, TypeOK, Submitted, HasTurn,
         Executing
<1>3. /\ Oldest(s) = None => list' = list
      /\ Oldest(s) # None => Oldest(s) \in Turns /\ <<Oldest(s)>> \o list'[s] = list[s]
      /\ \A r \in Sessions : r # s => list'[r] = list[r]
  BY <1>2, OldestStillWaits
<1>4. WaitingTurns[s] = list[s] /\ \A r \in Sessions : r # s => WaitingTurns[r] = list[r]
  BY <1>1, <1>2 DEF Shown
<1>5. WaitingTurns'[s] = list[s]
  <2>1. CASE Oldest(s) = None
    BY <1>1, <1>2, <1>3, <2>1 DEF Shown
  <2>2. CASE Oldest(s) # None
    BY <1>1, <1>2, <1>3, <2>2 DEF Shown
  <2> QED
    BY <2>1, <2>2
<1>6. \A r \in Sessions : r # s => WaitingTurns'[r] = list[r]
  BY <1>1, <1>2, <1>3 DEF Shown
<1>7. WaitingTurns' = WaitingTurns
  BY <1>4, <1>5, <1>6, WaitingSame
<1>8. OneDrain
  BY DEF RefineInv, LimitInv, ServedInv, SerialInv
<1>9. ActiveTurn[s] = h /\ ActiveTurn'[s] = None
  <2>1. \A e \in Turns : Executing(e)' => key'[e] # s
    BY <1>1, <1>2, <1>8 DEF OneDrain, Draining, Executing
  <2> QED
    BY <1>1, <1>2, <2>1 DEF ActiveIs
<1>10. ASSUME NEW r \in Sessions, r # s PROVE ActiveTurn'[r] = ActiveTurn[r]
  <2>1. \A e \in Turns : key[e] = r => (Executing(e)' <=> Executing(e)) /\ e # d
    BY <1>1, <1>10 DEF Executing
  <2>2. CASE \E e \in Turns : Executing(e) /\ key[e] = r
    <3>1. PICK e \in Turns : Executing(e) /\ key[e] = r
      BY <2>2
    <3>2. ActiveTurn[r] = hand[e]
      BY <1>1, <3>1 DEF ActiveIs
    <3>3. Executing(e)' /\ key'[e] = r /\ hand'[e] = hand[e]
      BY <1>1, <2>1, <3>1
    <3>4. ActiveTurn'[r] = hand'[e]
      BY <1>1, <3>3 DEF ActiveIs
    <3> QED
      BY <3>2, <3>3, <3>4
  <2>3. CASE ~\E e \in Turns : Executing(e) /\ key[e] = r
    <3>1. ActiveTurn[r] = None
      BY <1>1, <2>3 DEF ActiveIs
    <3>2. \A e \in Turns : Executing(e)' => key'[e] # r
      BY <1>2, <2>1, <2>3
    <3>3. ActiveTurn'[r] = None
      BY <1>1, <3>2 DEF ActiveIs
    <3> QED
      BY <3>1, <3>3
  <2> QED
    BY <2>2, <2>3
<1>11. ActiveTurn' = [ActiveTurn EXCEPT ![s] = None]
  BY <1>2, <1>9, <1>10, ActiveAt
<1>12. \E how \in {"resolved", "failed"} : fate[h] = "open" /\ fate' = [fate EXCEPT ![h] = how]
  <2>1. fate[h] = "open"
    BY <1>2 DEF RefineInv, CustodyInv, HeldWhileOpen, Handed
  <2> QED
    BY <1>2, <2>1 DEF Settle
<1> QED
  BY <1>2, <1>7, <1>9, <1>11, <1>12 DEF Serial!Finish, Serial!Settle

\* The other steps are stutters.
LEMMA RestMaps ==
    ASSUME RefineInv, ~Burst, NEW t \in Turns,
           \/ Admit(t) \/ AdmitOverLimit(t) \/ TakeOldest(t) \/ RegisterBusy(t)
           \/ RegisterAndDrain(t) \/ EndDrain(t) \/ ExecuteReturns(t)
    PROVE  UNCHANGED Serial!vars
<1> DEFINE s == key[t]
<1>1. /\ RefineInv' /\ Shown(t) /\ Shown(t)' /\ ActiveIs /\ ActiveIs'
      /\ \A u \in Turns : u # t => /\ drain'[u] = drain[u]
                                   /\ hand'[u] = hand[u] /\ key'[u] = key[u]
  <2>1. StepOf(t)
    BY DEF StepOf
  <2> QED
    BY <2>1, StepShows
<1>2. /\ UNCHANGED <<key, fate>> /\ s \in Sessions /\ list[s] \in Seq(Turns)
      /\ TypeInv /\ TypeInv'
  BY <1>1 DEF Admit, AdmitOverLimit, TakeOldest, RegisterBusy, RegisterAndDrain, EndDrain,
     ExecuteReturns, bookVars, RefineInv, CustodyInv, TypeInv, TypeOK, Submitted, Runs
<1>3. \A r \in Sessions : r # s => WaitingTurns'[r] = list'[r] /\ WaitingTurns[r] = list[r]
  BY <1>1, <1>2 DEF Shown
<1>4. CASE Admit(t) \/ AdmitOverLimit(t)
  <2>1. /\ UNCHANGED <<drain, hand>> /\ pc[t] \in {"listing", "dropping"} /\ drain[t] = "none"
        /\ (pc[t] = "dropping" => dropped[t] = None)
        /\ pc'[t] = "pushed" /\ list' = [list EXCEPT ![s] = Append(list[s], t)]
        /\ list'[s] = Append(list[s], t)
    BY <1>2, <1>4 DEF Admit, AdmitOverLimit, Push, loopVars, TypeInv, TypeOK, Submitted
  <2>2. WaitingTurns[s] = Append(list[s], t) /\ WaitingTurns'[s] = list'[s]
    BY <1>1, <1>2, <2>1 DEF Shown
  <2>3. \A r \in Sessions : r # s => list'[r] = list[r]
    BY <2>1
  <2>4. WaitingTurns'[s] = WaitingTurns[s]
    BY <2>1, <2>2
  <2>5. \A r \in Sessions : WaitingTurns'[r] = WaitingTurns[r]
    BY <1>3, <2>3, <2>4
  <2>6. \A r \in Sessions : ActiveTurn'[r] = ActiveTurn[r]
    BY <1>1, <1>2, <2>1, SameActive DEF Executing
  <2> QED
    BY <1>2, <2>5, <2>6, Stutters
<1>5. CASE TakeOldest(t)
  <2>1. /\ UNCHANGED <<drain, hand>> /\ pc[t] = "listing" /\ drain[t] = "none"
        /\ pc'[t] = "dropping" /\ dropped'[t] = Oldest(s) /\ Shift(s)
    BY <1>2, <1>5 DEF TakeOldest, loopVars, TypeInv, TypeOK, Submitted
  <2>2. /\ Oldest(s) = None => list' = list
        /\ Oldest(s) # None => Oldest(s) \in Turns /\ <<Oldest(s)>> \o list'[s] = list[s]
        /\ \A r \in Sessions : r # s => list'[r] = list[r]
    BY <1>2, <2>1, OldestStillWaits
  <2>3. WaitingTurns[s] = Append(list[s], t)
    BY <1>1, <1>2, <2>1 DEF Shown
  <2>4. WaitingTurns'[s] = Append(list[s], t)
    <3>1. CASE Oldest(s) = None
      BY <1>1, <1>2, <2>1, <2>2, <3>1 DEF Shown
    <3>2. CASE Oldest(s) # None
      <4>1. list'[s] \in Seq(Turns) /\ Oldest(s) \in Turns
        BY <1>2, <2>2, <3>2 DEF TypeInv, TypeOK
      <4>2. WaitingTurns'[s] = <<Oldest(s)>> \o Append(list'[s], t)
        BY <1>1, <1>2, <2>1, <3>2 DEF Shown
      <4>3. <<Oldest(s)>> \o Append(list'[s], t) = (<<Oldest(s)>> \o list'[s]) \o <<t>>
        BY <4>1, BeforeAndBehind
      <4>4. list[s] \o <<t>> = Append(list[s], t)
        BY <1>2, TurnBehind
      <4> QED
        BY <2>2, <3>2, <4>2, <4>3, <4>4
    <3> QED
      BY <3>1, <3>2
  <2>5. \A r \in Sessions : WaitingTurns'[r] = WaitingTurns[r]
    BY <1>3, <2>2, <2>3, <2>4
  <2>6. \A r \in Sessions : ActiveTurn'[r] = ActiveTurn[r]
    BY <1>1, <1>2, <2>1, SameActive DEF Executing
  <2> QED
    BY <1>2, <2>5, <2>6, Stutters
<1>6. CASE RegisterAndDrain(t)
  <2>1. /\ pc[t] = "pushed" /\ drain[t] = "none" /\ pc'[t] = "out"
        /\ drain'[t] = "dequeuing" /\ hand'[t] = Oldest(s) /\ Shift(s)
    BY <1>2, <1>6 DEF RegisterAndDrain, TypeInv, TypeOK, Submitted
  <2>2. /\ Oldest(s) = None => list' = list
        /\ Oldest(s) # None => Oldest(s) \in Turns /\ <<Oldest(s)>> \o list'[s] = list[s]
        /\ \A r \in Sessions : r # s => list'[r] = list[r]
    BY <1>2, <2>1, OldestStillWaits
  <2>3. WaitingTurns[s] = list[s]
    BY <1>1, <1>2, <2>1 DEF Shown
  <2>4. WaitingTurns'[s] = list[s]
    <3>1. CASE Oldest(s) = None
      BY <1>1, <1>2, <2>1, <2>2, <3>1 DEF Shown
    <3>2. CASE Oldest(s) # None
      BY <1>1, <1>2, <2>1, <2>2, <3>2 DEF Shown
    <3> QED
      BY <3>1, <3>2
  <2>5. \A r \in Sessions : WaitingTurns'[r] = WaitingTurns[r]
    BY <1>3, <2>2, <2>3, <2>4
  <2>6. \A d \in Turns : Executing(d)' <=> Executing(d)
    BY <1>1, <2>1 DEF Executing
  <2>7. \A d \in Turns : Executing(d) => hand'[d] = hand[d] /\ key'[d] = key[d]
    BY <1>1, <2>1 DEF Executing
  <2>8. \A r \in Sessions : ActiveTurn'[r] = ActiveTurn[r]
    BY <1>1, <2>6, <2>7, SameActive
  <2> QED
    BY <1>2, <2>5, <2>8, Stutters
<1>7. CASE RegisterBusy(t) \/ EndDrain(t) \/ ExecuteReturns(t)
  <2>1. /\ UNCHANGED <<list, hand>> /\ pc[t] \in {"pushed", "out"} /\ pc'[t] = "out"
        /\ (drain[t] = "dequeuing" => hand[t] = None) /\ drain'[t] # "dequeuing"
        /\ (Executing(t)' <=> Executing(t))
    BY <1>2, <1>7 DEF RegisterBusy, EndDrain, ExecuteReturns, Leave, bookVars, loopVars,
                      Executing, TypeInv, TypeOK, Submitted
  <2>2. WaitingTurns[s] = list[s] /\ WaitingTurns'[s] = list'[s]
    BY <1>1, <1>2, <2>1 DEF Shown
  <2>3. \A r \in Sessions : WaitingTurns'[r] = WaitingTurns[r]
    BY <1>3, <2>1, <2>2
  <2>4. \A d \in Turns : Executing(d)' <=> Executing(d)
    BY <1>1, <2>1 DEF Executing
  <2>5. \A r \in Sessions : ActiveTurn'[r] = ActiveTurn[r]
    BY <1>1, <1>2, <2>1, <2>4, SameActive
  <2> QED
    BY <1>2, <2>3, <2>5, Stutters
<1> QED
  BY <1>4, <1>5, <1>6, <1>7

\* Every step is one of SerialSessions or a stutter.
LEMMA NextMaps ==
    ASSUME RefineInv, ~Burst, [Next]_vars
    PROVE  RefineInv' /\ [Serial!Next]_(Serial!vars)
<1>1. CASE UNCHANGED vars
  <2>1. LimitInv' /\ CustodyInv'
    BY <1>1, NextLimit, NextCustody DEF RefineInv
  <2>2. HasTurn' /\ OverInDrop'
    BY <1>1 DEF RefineInv, vars, HasTurn, Executing, OverInDrop, Depth
  <2>3. UNCHANGED Serial!vars
    BY <1>1 DEF vars, Serial!vars, WaitingTurns, ActiveTurn, InDrainHand, AboutToDrop, Arriving,
                Executing
  <2> QED
    BY <2>1, <2>2, <2>3 DEF RefineInv
<1>2. CASE Next
  <2>1. PICK t \in Turns : StepOf(t)
    BY <1>2 DEF Next, RunJob, StepOf
  <2>2. RefineInv' /\ key[t] \in Sessions \cup {None}
    BY <2>1, StepRefine DEF RefineInv, CustodyInv, TypeInv, TypeOK
  <2>3. CASE \E s \in Sessions : Submit(t, s)
    BY <2>2, <2>3, SubmitMaps DEF Serial!Next
  <2>4. CASE RefuseNew(t) \/ RefuseNoCandidate(t) \/ ReplaceOldest(t) \/ StartTurn(t)
             \/ SettleAndNext(t)
    <3>1. key[t] \in Sessions
      BY <2>4 DEF RefuseNew, RefuseNoCandidate, ReplaceOldest, StartTurn, SettleAndNext,
         RefineInv, CustodyInv, TypeInv, Submitted
    <3> QED
      BY <2>2, <2>4, <3>1, RefuseMaps, ReplaceMaps, StartMaps, SettleMaps DEF Serial!Next
  <2>5. CASE \/ Admit(t) \/ AdmitOverLimit(t) \/ TakeOldest(t) \/ RegisterBusy(t)
             \/ RegisterAndDrain(t) \/ EndDrain(t) \/ ExecuteReturns(t)
    BY <2>2, <2>5, RestMaps
  <2> QED
    BY <2>1, <2>3, <2>4, <2>5 DEF StepOf
<1> QED
  BY <1>1, <1>2

\* The queue implements its abstract specification, fairness left out: with
\* callers that do not submit inside one tick, whatever the limit and the
\* strategy, a session's turns execute one at a time in the order they were
\* submitted, are turned away only over the limit, and each promise is settled
\* once.
THEOREM QueueIsSerial == ~Burst => (Spec => SerialSafety)
<1> SUFFICES ASSUME ~Burst PROVE Spec => SerialSafety
  OBVIOUS
<1>1. Init => Serial!Init
  <2> SUFFICES ASSUME Init PROVE Serial!Init
    OBVIOUS
  <2>1. WaitingTurns = [s \in Sessions |-> <<>>]
    <3>1. ASSUME NEW s \in Sessions
          PROVE  InDrainHand(s) = {} /\ AboutToDrop(s) = {} /\ Arriving(s) = {} /\ list[s] = <<>>
      BY DEF Init, InDrainHand, AboutToDrop, Arriving
    <3>2. <<>> \o <<>> = <<>>
      BY EmptySeq, ConcatEmptySeq
    <3>3. ASSUME NEW s \in Sessions
          PROVE  Sole(InDrainHand(s)) \o Sole(AboutToDrop(s)) \o list[s] \o Sole(Arriving(s)) = <<>>
      BY <3>1, <3>2 DEF Sole
    <3> QED
      BY <3>3 DEF WaitingTurns
  <2>2. ActiveTurn = [s \in Sessions |-> None]
    BY DEF Init, ActiveTurn, Executing
  <2> QED
    BY <2>1, <2>2 DEF Init, Serial!Init
<1>2. RefineInv /\ [Next]_vars => RefineInv' /\ [Serial!Next]_(Serial!vars)
  BY NextMaps
<1> QED
  BY <1>1, <1>2, InitRefine, PTL DEF Spec, SerialSafety
=============================================================================
