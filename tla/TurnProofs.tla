----------------------------- MODULE TurnProofs -----------------------------
(***************************************************************************)
(* What a turn of TurnExecution tells and leaves behind, for any runs and  *)
(* sessions, thresholds, errors and number of failing writes.              *)
(***************************************************************************)
EXTENDS TurnExecution, Inductions

Types ==
    /\ pc \in [Runs -> Steps]
    /\ waiting \in [Lanes -> Seq(Runs)]
    /\ DOMAIN events = Runs /\ events = [r \in Runs |-> events[r]]
    /\ DOMAIN outcome = Runs /\ outcome = [r \in Runs |-> outcome[r]]

\* A run is in the queue of its own profile and session, once, and only until it is executed.
QueuedOnce ==
    \A s \in Lanes :
        /\ \A i \in DOMAIN waiting[s] : pc[waiting[s][i]] = "queued" /\ Lane(waiting[s][i]) = s
        /\ \A i, j \in DOMAIN waiting[s] : waiting[s][i] = waiting[s][j] => i = j

\* The events of a run before it told its end, and after.
Told     == {"queued", "started", "completed", "failed"}
Asked    == Append(<<>>, "queued")
Before   == Append(Asked, "started")
Good     == Append(Before, "completed")
Bad      == Append(Before, "failed")
WorseEnd == Append(Good, "failed")

\* What a run has told follows from where it is and, at the end, what it got.
Working == {"gate", "prompt", "stream", "tool", "verify", "finish"}

EventsFollow(r) ==
    /\ pc[r] = "new" => events[r] = <<>>
    /\ pc[r] = "queued" => events[r] = Asked
    /\ pc[r] \in Working => events[r] = Before
    /\ pc[r] \in {"hinting", "closing"} => events[r] = Good
    /\ pc[r] \in {"caught", "unwind"} => events[r] \in {Bad, WorseEnd}
    /\ pc[r] = "done" => IF outcome[r] = "error" THEN events[r] \in {Bad, WorseEnd}
                                                 ELSE events[r] = Good

EventsInv == Types /\ QueuedOnce /\ \A r \in Runs : EventsFollow(r)

\* A branch has a handle that the turn will still see, or a write of its own failed.
BranchInv ==
    /\ Types
    /\ branches \subseteq Runs /\ branches \subseteq handle \cup unwound
    /\ \A r \in Runs : r \in handle =>
           pc[r] \in {"prompt", "stream", "tool", "verify", "caught"} \/ r \in unwound

\* A step in which only r moves, from a step it executes to another one.
Moves(r) ==
    /\ \E step \in Steps \ {"new", "queued"} : Goto(r, step)
    /\ Executing(r)
    /\ UNCHANGED waiting

-----------------------------------------------------------------------------
\* The queue.

\* A run has a queue.
LEMMA LaneType == \A r \in Runs : Lane(r) \in Lanes
BY TurnConstants DEF Lane, Lanes

\* A run is put once in the queue of its own profile and session.
LEMMA SubmitQueue ==
    ASSUME Types, QueuedOnce, NEW r \in Runs, Submit(r) PROVE Types' /\ QueuedOnce'
<1> DEFINE s == Lane(r)
<1>1. s \in Lanes /\ waiting[s] \in Seq(Runs) /\ pc[r] = "new"
  BY LaneType DEF Types, Submit
<1>2. /\ pc' = [pc EXCEPT ![r] = "queued"]
      /\ waiting' = [waiting EXCEPT ![s] = Append(@, r)]
      /\ events' = [events EXCEPT ![r] = Append(@, "queued")]
      /\ outcome' = outcome
  BY DEF Submit, Goto, Emit
<1>3. Types'
  <2>1. Append(waiting[s], r) \in Seq(Runs)
    BY <1>1
  <2> HIDE DEF s
  <2>2. waiting' \in [Lanes -> Seq(Runs)]
    BY <1>2, <2>1 DEF Types
  <2>3. pc' \in [Runs -> Steps]
    BY <1>2 DEF Types, Steps
  <2> QED
    BY <1>2, <2>2, <2>3 DEF Types
<1>4. \A q \in Lanes : \A i \in DOMAIN waiting[q] : waiting[q][i] # r /\ waiting[q][i] \in Runs
  BY <1>1 DEF QueuedOnce, Types
<1>5. /\ DOMAIN waiting'[s] = DOMAIN waiting[s] \cup {Len(waiting[s]) + 1}
      /\ Len(waiting[s]) + 1 \notin DOMAIN waiting[s]
      /\ waiting'[s][Len(waiting[s]) + 1] = r
      /\ \A i \in DOMAIN waiting[s] : waiting'[s][i] = waiting[s][i]
  BY <1>1, <1>2 DEF Types
<1>6. \A q \in Lanes : q # s => waiting'[q] = waiting[q]
  BY <1>2 DEF Types
<1>7. /\ \A q \in Runs : q # r => pc'[q] = pc[q]
      /\ pc'[r] = "queued"
  BY <1>2 DEF Types
<1>8. ASSUME NEW q \in Lanes
      PROVE  /\ \A i \in DOMAIN waiting'[q] :
                     pc'[waiting'[q][i]] = "queued" /\ Lane(waiting'[q][i]) = q
             /\ \A i, j \in DOMAIN waiting'[q] : waiting'[q][i] = waiting'[q][j] => i = j
  <2>1. CASE q = s
    BY <2>1, <1>1, <1>4, <1>5, <1>7 DEF QueuedOnce
  <2>2. CASE q # s
    BY <2>2, <1>4, <1>6, <1>7 DEF QueuedOnce
  <2> QED
    BY <2>1, <2>2
<1> QED
  BY <1>3, <1>8 DEF QueuedOnce

\* The run at the head of its queue is taken out, and was waiting there.
LEMMA StartQueue ==
    ASSUME Types, QueuedOnce, NEW r \in Runs, Start(r)
    PROVE  Types' /\ QueuedOnce' /\ pc[r] = "queued"
<1> DEFINE s == Lane(r)
<1>1. /\ s \in Lanes /\ waiting[s] \in Seq(Runs)
      /\ waiting[s] # <<>> /\ waiting[s][1] = r /\ 1 \in DOMAIN waiting[s]
  BY LaneType DEF Types, Start
<1>2. /\ pc' = [pc EXCEPT ![r] = "gate"]
      /\ waiting' = [waiting EXCEPT ![s] = Tail(@)]
      /\ events' = [events EXCEPT ![r] = Append(@, "started")]
      /\ outcome' = outcome
  BY DEF Start, Goto, Emit
<1>3. pc[r] = "queued"
  BY <1>1 DEF QueuedOnce
<1>4. /\ Tail(waiting[s]) \in Seq(Runs)
      /\ \A i \in DOMAIN Tail(waiting[s]) : /\ Tail(waiting[s])[i] = waiting[s][i + 1]
                                            /\ i + 1 \in DOMAIN waiting[s]
                                            /\ i \in Nat /\ i # 0
  BY <1>1
<1>5. Types'
  BY <1>2, <1>4 DEF Types, Steps
<1>6. /\ waiting'[s] = Tail(waiting[s])
      /\ \A q \in Lanes : q # s => waiting'[q] = waiting[q]
      /\ \A q \in Runs : q # r => pc'[q] = pc[q]
  BY <1>1, <1>2 DEF Types
<1>7. ASSUME NEW q \in Lanes
      PROVE  /\ \A i \in DOMAIN waiting'[q] :
                     pc'[waiting'[q][i]] = "queued" /\ Lane(waiting'[q][i]) = q
             /\ \A i, j \in DOMAIN waiting'[q] : waiting'[q][i] = waiting'[q][j] => i = j
  <2>1. CASE q = s
    <3>1. \A i \in DOMAIN Tail(waiting[s]) :
              /\ waiting[s][i + 1] # r
              /\ waiting[s][i + 1] \in Runs
      BY <1>1, <1>4 DEF QueuedOnce
    <3>2. \A i, j \in DOMAIN Tail(waiting[s]) :
              Tail(waiting[s])[i] = Tail(waiting[s])[j] => i = j
      BY <1>1, <1>4 DEF QueuedOnce
    <3> QED
      BY <2>1, <3>1, <3>2, <1>1, <1>4, <1>6 DEF QueuedOnce
  <2>2. CASE q # s
    <3>1. \A i \in DOMAIN waiting[q] : waiting[q][i] # r /\ waiting[q][i] \in Runs
      BY <2>2 DEF QueuedOnce, Types
    <3> QED
      BY <2>2, <3>1, <1>6 DEF QueuedOnce
  <2> QED
    BY <2>1, <2>2
<1> QED
  BY <1>3, <1>5, <1>7 DEF QueuedOnce

\* A run that is being executed is in no queue, so its moves leave the queues sound.
LEMMA MovesQueue ==
    ASSUME Types, QueuedOnce, NEW r \in Runs, Moves(r) PROVE QueuedOnce'
<1>1. /\ pc[r] # "queued" /\ waiting' = waiting
      /\ \A q \in Runs : q # r => pc'[q] = pc[q]
  BY DEF Moves, Goto, Executing, Types
<1>2. \A q \in Lanes : \A i \in DOMAIN waiting[q] : waiting[q][i] # r /\ waiting[q][i] \in Runs
  BY <1>1 DEF QueuedOnce, Types
<1> QED
  BY <1>1, <1>2 DEF QueuedOnce

-----------------------------------------------------------------------------
\* What each action does to a run's place, events and outcome.

\* A move that tells nothing, or one event, and leaves the outcome.
Silent(r, from, to) ==
    pc[r] \in from /\ Goto(r, to) /\ UNCHANGED <<waiting, events, outcome>>
Telling(r, from, to, type) ==
    pc[r] \in from /\ Goto(r, to) /\ Emit(r, type) /\ UNCHANGED <<waiting, outcome>>
Settling(r, from, o) ==
    /\ pc[r] \in from /\ Goto(r, "done")
    /\ outcome' = [outcome EXCEPT ![r] = o]
    /\ UNCHANGED <<waiting, events>>

\* The actions of the turn that runs are moves of these kinds.
LEMMA ProceedKinds ==
    ASSUME NEW r \in Runs, Proceed(r), ~Submit(r), ~Start(r)
    PROVE  \/ Telling(r, {"gate"}, "hinting", "completed")
           \/ Telling(r, {"finish"}, "closing", "completed")
           \/ \E to \in {"prompt", "stream", "tool", "verify", "finish"} :
                  Silent(r, {"gate", "prompt", "stream", "tool", "verify"}, to)
           \/ Silent(r, {"caught"}, "unwind")
           \/ Settling(r, {"hinting"}, "hint")
           \/ Settling(r, {"closing"}, "result")
           \/ Settling(r, {"unwind"}, "error")
<1>1. CASE AskForHint(r)
  BY <1>1 DEF AskForHint, Telling, sessVars
<1>2. CASE PassGate(r)
  BY <1>2 DEF PassGate, Silent, sessVars
<1>3. CASE CallModel(r)
  BY <1>3 DEF CallModel, Silent, sessVars
<1>4. CASE StartTool(r)
  BY <1>4 DEF StartTool, Silent, sessVars
<1>5. CASE ToolEdits(r)
  BY <1>5 DEF ToolEdits, Silent, sessVars
<1>6. CASE EndRound(r)
  BY <1>6 DEF EndRound, Silent, sessVars
<1>7. CASE Verified(r)
  BY <1>7 DEF Verified, Silent, sessVars
<1>8. CASE Finish(r)
  BY <1>8 DEF Finish, Telling
<1>9. CASE Return(r)
  BY <1>9 DEF Return, Settling, Settle
<1>10. CASE Observed(r)
  BY <1>10 DEF Observed, Silent, sessVars
<1>11. CASE Rethrow(r)
  BY <1>11 DEF Rethrow, Settling, Settle
<1> QED
  BY <1>1, <1>2, <1>3, <1>4, <1>5, <1>6, <1>7, <1>8, <1>9, <1>10, <1>11 DEF Proceed

FailFrom == {"gate", "hinting", "prompt", "stream", "tool", "verify", "finish", "closing"}

\* A failing step tells "failed" and goes to the catch, or cuts the catch short.
LEMMA FailKinds ==
    ASSUME NEW r \in Runs, Fails(r)
    PROVE  \/ Telling(r, FailFrom, "caught", "failed")
           \/ Settling(r, {"caught", "unwind"}, "error")
<1>1. ASSUME NEW e \in Errors, StreamFails(r, e)
      PROVE  Telling(r, FailFrom, "caught", "failed")
  BY <1>1 DEF StreamFails, Caught, Telling, FailFrom
<1>2. ASSUME NEW e \in Errors, ChecksFail(r, e)
      PROVE  Telling(r, FailFrom, "caught", "failed")
  BY <1>2 DEF ChecksFail, Caught, Telling, FailFrom
<1>3. ASSUME NEW e \in Errors, CheckpointFails(r, e)
      PROVE  Telling(r, FailFrom, "caught", "failed")
  BY <1>3 DEF CheckpointFails, Caught, Telling, FailFrom
<1>4. ASSUME NEW e \in Errors, StepFails(r, e)
      PROVE  Telling(r, FailFrom, "caught", "failed")
  BY <1>4 DEF StepFails, Caught, Telling, FailFrom
<1>5. CASE CatchFails(r)
  BY <1>5 DEF CatchFails, Settling, Settle
<1> QED
  BY <1>1, <1>2, <1>3, <1>4, <1>5 DEF Fails

-----------------------------------------------------------------------------
\* The moves keep the invariant of the events.

\* A step that tells nothing stays among the steps with the same events.
LEMMA SilentKeeps ==
    ASSUME EventsInv, NEW r \in Runs,
           \/ \E to \in {"prompt", "stream", "tool", "verify", "finish"} :
                  Silent(r, {"gate", "prompt", "stream", "tool", "verify"}, to)
           \/ Silent(r, {"caught"}, "unwind")
    PROVE  EventsInv'
<1>1. PICK to \in {"prompt", "stream", "tool", "verify", "finish", "unwind"} :
          /\ Goto(r, to) /\ UNCHANGED <<waiting, events, outcome>>
          /\ \/ to # "unwind" /\ pc[r] \in Working
             \/ to = "unwind" /\ pc[r] = "caught"
  BY DEF Silent, Working
<1>2. Types' /\ pc'[r] = to /\ \A q \in Runs : q # r => pc'[q] = pc[q]
  BY <1>1 DEF EventsInv, Types, Goto, Steps
<1>3. Moves(r)
  BY <1>1 DEF Moves, Executing, Steps, Working
<1>4. QueuedOnce'
  BY <1>3, MovesQueue DEF EventsInv
<1>5. EventsFollow(r)'
  BY <1>1, <1>2 DEF EventsInv, EventsFollow, Working
<1>6. \A q \in Runs : q # r => EventsFollow(q)'
  BY <1>1, <1>2 DEF EventsInv, EventsFollow
<1> QED
  BY <1>2, <1>4, <1>5, <1>6 DEF EventsInv

\* A step that tells its end goes where that event is the last one.
LEMMA TellingKeeps ==
    ASSUME EventsInv, NEW r \in Runs,
           \/ Telling(r, {"gate"}, "hinting", "completed")
           \/ Telling(r, {"finish"}, "closing", "completed")
           \/ Telling(r, FailFrom, "caught", "failed")
    PROVE  EventsInv'
<1>1. PICK to \in {"hinting", "closing", "caught"}, type \in {"completed", "failed"} :
          /\ Goto(r, to) /\ Emit(r, type) /\ UNCHANGED <<waiting, outcome>>
          /\ \/ to # "caught" /\ type = "completed" /\ pc[r] \in Working
             \/ to = "caught" /\ type = "failed" /\ pc[r] \in FailFrom
  BY DEF Telling, Working
<1>2. /\ Types' /\ pc'[r] = to /\ \A q \in Runs : q # r => pc'[q] = pc[q]
      /\ events'[r] = Append(events[r], type) /\ \A q \in Runs : q # r => events'[q] = events[q]
  BY <1>1 DEF EventsInv, Types, Goto, Emit, Steps
<1>3. Moves(r)
  BY <1>1 DEF Moves, Executing, Steps, Working, FailFrom
<1>4. QueuedOnce'
  BY <1>3, MovesQueue DEF EventsInv
<1>5. EventsFollow(r)'
  <2>1. CASE to # "caught"
    <3>1. events[r] = Before /\ events'[r] = Append(events[r], "completed")
      BY <2>1, <1>1, <1>2 DEF EventsInv, EventsFollow
    <3>2. events'[r] = Good
      BY <3>1 DEF Before, Good
    <3> QED
      BY <2>1, <3>2, <1>2 DEF EventsFollow, Working
  <2>2. CASE to = "caught"
    <3>1. events'[r] = Append(events[r], "failed") /\ events[r] \in {Before, Good}
      BY <2>2, <1>1, <1>2 DEF EventsInv, EventsFollow, FailFrom, Working
    <3>2. events'[r] \in {Bad, WorseEnd}
      BY <3>1 DEF Before, Good, Bad, WorseEnd
    <3> QED
      BY <2>2, <3>2, <1>2 DEF EventsFollow, Working
  <2> QED
    BY <2>1, <2>2
<1>6. \A q \in Runs : q # r => EventsFollow(q)'
  BY <1>1, <1>2 DEF EventsInv, EventsFollow
<1> QED
  BY <1>2, <1>4, <1>5, <1>6 DEF EventsInv

\* The outcome agrees with the events of the step the run leaves.
LEMMA SettlingKeeps ==
    ASSUME EventsInv, NEW r \in Runs,
           \/ Settling(r, {"hinting"}, "hint")
           \/ Settling(r, {"closing"}, "result")
           \/ Settling(r, {"unwind"}, "error")
           \/ Settling(r, {"caught", "unwind"}, "error")
    PROVE  EventsInv'
<1>1. PICK o \in {"hint", "result", "error"} :
          /\ Goto(r, "done") /\ outcome' = [outcome EXCEPT ![r] = o]
          /\ UNCHANGED <<waiting, events>>
          /\ \/ o # "error" /\ pc[r] \in {"hinting", "closing"}
             \/ o = "error" /\ pc[r] \in {"caught", "unwind"}
  BY DEF Settling
<1>2. /\ Types' /\ pc'[r] = "done" /\ \A q \in Runs : q # r => pc'[q] = pc[q]
      /\ outcome'[r] = o /\ \A q \in Runs : q # r => outcome'[q] = outcome[q]
  BY <1>1 DEF EventsInv, Types, Goto, Steps
<1>3. Moves(r)
  BY <1>1 DEF Moves, Executing, Steps
<1>4. QueuedOnce'
  BY <1>3, MovesQueue DEF EventsInv
<1>5. EventsFollow(r)'
  BY <1>1, <1>2 DEF EventsInv, EventsFollow, Working
<1>6. \A q \in Runs : q # r => EventsFollow(q)'
  BY <1>1, <1>2 DEF EventsInv, EventsFollow
<1> QED
  BY <1>2, <1>4, <1>5, <1>6 DEF EventsInv

\* Submitting tells "queued", starting tells "started".
LEMMA QueueStepsKeep ==
    ASSUME EventsInv, NEW r \in Runs, Submit(r) \/ Start(r)
    PROVE  EventsInv'
<1>1. CASE Submit(r)
  <2>1. Types' /\ QueuedOnce'
    BY <1>1, SubmitQueue DEF EventsInv
  <2>2. /\ pc[r] = "new" /\ pc' = [pc EXCEPT ![r] = "queued"]
        /\ events' = [events EXCEPT ![r] = Append(@, "queued")] /\ outcome' = outcome
    BY <1>1 DEF Submit, Goto, Emit
  <2>3. /\ pc'[r] = "queued" /\ events'[r] = Append(<<>>, "queued")
        /\ \A q \in Runs : q # r => pc'[q] = pc[q] /\ events'[q] = events[q]
    BY <2>2 DEF EventsInv, EventsFollow, Types
  <2>4. EventsFollow(r)'
    BY <2>3 DEF EventsFollow, Working, Asked
  <2>5. \A q \in Runs : q # r => EventsFollow(q)'
    BY <2>2, <2>3 DEF EventsInv, EventsFollow
  <2> QED
    BY <2>1, <2>4, <2>5 DEF EventsInv
<1>2. CASE Start(r)
  <2>1. Types' /\ QueuedOnce' /\ pc[r] = "queued"
    BY <1>2, StartQueue DEF EventsInv
  <2>2. /\ pc' = [pc EXCEPT ![r] = "gate"]
        /\ events' = [events EXCEPT ![r] = Append(@, "started")] /\ outcome' = outcome
    BY <1>2 DEF Start, Goto, Emit
  <2>3. /\ pc'[r] = "gate" /\ events'[r] = Append(Asked, "started")
        /\ \A q \in Runs : q # r => pc'[q] = pc[q] /\ events'[q] = events[q]
    BY <2>1, <2>2 DEF EventsInv, EventsFollow, Types
  <2>4. EventsFollow(r)'
    BY <2>3 DEF EventsFollow, Working, Before
  <2>5. \A q \in Runs : q # r => EventsFollow(q)'
    BY <2>2, <2>3 DEF EventsInv, EventsFollow
  <2> QED
    BY <2>1, <2>4, <2>5 DEF EventsInv
<1> QED
  BY <1>1, <1>2

\* Every step keeps the invariant of the events.
LEMMA EventsStep == EventsInv /\ [Next]_vars => EventsInv'
<1> SUFFICES ASSUME EventsInv, [Next]_vars PROVE EventsInv'
  OBVIOUS
<1>1. CASE OperatorEdits \/ OperatorCommits \/ UNCHANGED vars
  BY <1>1 DEF OperatorEdits, OperatorCommits, vars, runVars, sessVars, EventsInv, Types,
              QueuedOnce, EventsFollow
<1>2. ASSUME NEW r \in Runs, Proceed(r) PROVE EventsInv'
  <2>1. CASE Submit(r) \/ Start(r)
    BY <2>1, QueueStepsKeep
  <2>2. CASE ~Submit(r) /\ ~Start(r)
    BY <1>2, <2>2, ProceedKinds, SilentKeeps, TellingKeeps, SettlingKeeps
  <2> QED
    BY <2>1, <2>2
<1>3. ASSUME NEW r \in Runs, Fails(r) PROVE EventsInv'
  BY <1>3, FailKinds, TellingKeeps, SettlingKeeps
<1> QED
  BY <1>1, <1>2, <1>3 DEF Next

\* Nothing is told at first.
LEMMA EventsInit == Init => EventsInv
BY DEF Init, EventsInv, Types, QueuedOnce, EventsFollow, Steps, Working

\* What appending to a sequence leaves and adds.
LEMMA AppendFacts ==
    ASSUME NEW S, NEW q \in Seq(S), NEW x \in S
    PROVE  /\ Append(q, x) \in Seq(S) /\ Len(Append(q, x)) = Len(q) + 1
           /\ Append(q, x)[Len(q) + 1] = x
           /\ \A i \in 1..Len(q) : Append(q, x)[i] = q[i]
OBVIOUS

\* The invariant says of a run that ended what its followers saw.
LEMMA EventsTell == EventsInv => EventsTellTheOutcome
<1> SUFFICES ASSUME EventsInv, NEW r \in Runs, Ended(r)
             PROVE  /\ events[r][Len(events[r])] =
                           IF outcome[r] = "error" THEN "failed" ELSE "completed"
                    /\ \A i, j \in DOMAIN events[r] : events[r][i] = events[r][j] => i = j
  BY DEF EventsTellTheOutcome
<1>1. IF outcome[r] = "error" THEN events[r] \in {Bad, WorseEnd} ELSE events[r] = Good
  BY DEF EventsInv, EventsFollow, Ended
<1>2. /\ Before \in Seq(Told) /\ Len(Before) = 2 /\ Before[1] = "queued" /\ Before[2] = "started"
      /\ Good \in Seq(Told) /\ Bad \in Seq(Told) /\ WorseEnd \in Seq(Told)
      /\ Len(Good) = 3 /\ Len(Bad) = 3 /\ Len(WorseEnd) = 4
  <2>1. Asked \in Seq(Told) /\ Len(Asked) = 1 /\ Asked[1] = "queued"
    <3>1. <<>> \in Seq(Told) /\ Len(<<>>) = 0
      OBVIOUS
    <3> QED
      BY <3>1 DEF Asked, Told
  <2>2. Before \in Seq(Told) /\ Len(Before) = 2 /\ Before[1] = "queued" /\ Before[2] = "started"
    <3>1. "started" \in Told
      BY DEF Told
    <3>2. 1 \in 1..Len(Asked) /\ Len(Asked) + 1 = 2
      BY <2>1
    <3>3. Asked \in Seq(Told)
      BY <2>1
    <3>4. /\ Before \in Seq(Told) /\ Len(Before) = Len(Asked) + 1
          /\ Before[Len(Asked) + 1] = "started"
          /\ \A i \in 1..Len(Asked) : Before[i] = Asked[i]
      BY <3>1, <3>3, AppendFacts DEF Before
    <3> QED
      BY <2>1, <3>2, <3>4
  <2>3. Good \in Seq(Told) /\ Len(Good) = 3
    <3>1. "completed" \in Told
      BY DEF Told
    <3>2. Len(Before) + 1 = 3
      BY <2>2
    <3>3. Good \in Seq(Told) /\ Len(Good) = Len(Before) + 1
      <4> HIDE DEF Before
      <4> QED
        BY <2>2, <3>1, AppendFacts DEF Good
    <3> QED
      BY <3>2, <3>3, Zenon
  <2>4. Bad \in Seq(Told) /\ Len(Bad) = 3
    <3>1. "failed" \in Told
      BY DEF Told
    <3>2. Len(Before) + 1 = 3
      BY <2>2
    <3>3. Bad \in Seq(Told) /\ Len(Bad) = Len(Before) + 1
      <4> HIDE DEF Before
      <4> QED
        BY <2>2, <3>1, AppendFacts DEF Bad
    <3> QED
      BY <3>2, <3>3, Zenon
  <2>5. WorseEnd \in Seq(Told) /\ Len(WorseEnd) = 4
    <3>1. "failed" \in Told
      BY DEF Told
    <3>2. Len(Good) + 1 = 4
      BY <2>3
    <3> QED
      BY <2>3, <3>1, <3>2, AppendFacts DEF WorseEnd
  <2> QED
    BY <2>2, <2>3, <2>4, <2>5
<1>3. /\ Good[1] = "queued" /\ Good[2] = "started" /\ Good[3] = "completed"
      /\ Bad[1] = "queued" /\ Bad[2] = "started" /\ Bad[3] = "failed"
      /\ WorseEnd[1] = "queued" /\ WorseEnd[2] = "started"
      /\ WorseEnd[3] = "completed" /\ WorseEnd[4] = "failed"
  BY <1>2 DEF Good, Bad, WorseEnd
<1>4. /\ \A i, j \in DOMAIN Good : Good[i] = Good[j] => i = j
      /\ \A i, j \in DOMAIN Bad : Bad[i] = Bad[j] => i = j
      /\ \A i, j \in DOMAIN WorseEnd : WorseEnd[i] = WorseEnd[j] => i = j
  <2> HIDE DEF Good, Bad, WorseEnd
  <2>1. DOMAIN Good = {1, 2, 3} /\ DOMAIN Bad = {1, 2, 3} /\ DOMAIN WorseEnd = {1, 2, 3, 4}
    BY <1>2
  <2>2. \A i, j \in DOMAIN Good : Good[i] = Good[j] => i = j
    BY <1>3, <2>1
  <2>3. \A i, j \in DOMAIN Bad : Bad[i] = Bad[j] => i = j
    BY <1>3, <2>1
  <2>4. \A i, j \in DOMAIN WorseEnd : WorseEnd[i] = WorseEnd[j] => i = j
    BY <1>3, <2>1
  <2> QED
    BY <2>2, <2>3, <2>4
<1> QED
  <2> HIDE DEF Good, Bad, WorseEnd, Before
  <2>1. CASE outcome[r] = "error" /\ events[r] = Bad
    BY <1>2, <1>3, <1>4, <2>1
  <2>2. CASE outcome[r] = "error" /\ events[r] = WorseEnd
    BY <1>2, <1>3, <1>4, <2>2
  <2>3. CASE outcome[r] # "error"
    BY <1>1, <1>2, <1>3, <1>4, <2>3
  <2> QED
    BY <1>1, <2>1, <2>2, <2>3

\* Whoever follows a turn by its lifecycle events learns what its caller learns,
\* and no event comes twice, for any number of runs, sessions and failing writes.
THEOREM EventsTrue == Spec => []EventsTellTheOutcome
<1>1. Spec => []EventsInv
  BY EventsInit, EventsStep, PTL DEF Spec
<1> QED
  BY <1>1, EventsTell, PTL

-----------------------------------------------------------------------------
\* Checkpoints.

\* There is no branch at first.
LEMMA BranchInit == Init => BranchInv
BY DEF Init, BranchInv, Types, Steps

\* The effect of a cleanup: the handle is given up, the branch is deleted or the
\* fault is noted.
LEMMA CleanupEffect ==
    ASSUME NEW r \in Runs, Cleanup(r)
    PROVE  /\ handle' = handle \ {r}
           /\ \/ branches' = branches \ {r} /\ unwound' = unwound
              \/ branches' = branches /\ unwound' = unwound \cup {r}
BY DEF Cleanup

\* What every step does to the checkpoint of the run r that moves: it keeps its
\* handle where the turn will see it, or takes one, or gives it up.
Keeps(r)   == UNCHANGED <<handle, branches>> /\ unwound' \in {unwound, unwound \cup {r}}
Takes(r)   == /\ handle' \in {handle, handle \cup {r}}
              /\ branches' = branches \cup {r} /\ UNCHANGED unwound
              /\ r \in handle'
GivesUp(r) == /\ handle' = handle \ {r}
              /\ \/ branches' = branches \ {r} /\ unwound' = unwound
                 \/ branches' = branches /\ unwound' = unwound \cup {r}
Strands(r) == /\ UNCHANGED handle /\ branches' = branches \cup {r}
              /\ unwound' = unwound \cup {r}

Held == {"prompt", "stream", "tool", "verify", "caught"}

\* Every step of a run keeps the types.
LEMMA TypesStep ==
    ASSUME BranchInv, NEW r \in Runs, Proceed(r) \/ Fails(r) PROVE Types'
<1>1. CASE Submit(r)
  <2>1. Lane(r) \in Lanes /\ waiting[Lane(r)] \in Seq(Runs)
    BY LaneType DEF BranchInv, Types
  <2>2. Append(waiting[Lane(r)], r) \in Seq(Runs)
    BY <2>1
  <2>3. waiting' = [waiting EXCEPT ![Lane(r)] = Append(waiting[Lane(r)], r)]
    BY <1>1 DEF Submit
  <2>4. waiting' \in [Lanes -> Seq(Runs)]
    BY <2>2, <2>3 DEF BranchInv, Types
  <2> QED
    BY <1>1, <2>4 DEF BranchInv, Types, Submit, Goto, Emit, Steps
<1>2. CASE Start(r)
  <2>1. /\ Lane(r) \in Lanes /\ waiting[Lane(r)] \in Seq(Runs)
        /\ waiting[Lane(r)] # <<>>
    BY <1>2, LaneType DEF BranchInv, Types, Start
  <2>2. Tail(waiting[Lane(r)]) \in Seq(Runs)
    BY <2>1
  <2> QED
    BY <1>2, <2>2 DEF BranchInv, Types, Start, Goto, Emit, Steps
<1>3. CASE ~Submit(r) /\ ~Start(r)
  <2>1. /\ \E to \in Steps : Goto(r, to)
        /\ \/ UNCHANGED events
           \/ \E type \in {"completed", "failed"} : Emit(r, type)
        /\ \/ UNCHANGED outcome
           \/ \E o \in {"hint", "result", "error"} : outcome' = [outcome EXCEPT ![r] = o]
        /\ UNCHANGED waiting
    BY <1>3, ProceedKinds, FailKinds DEF Silent, Telling, Settling, Steps
  <2> QED
    BY <2>1 DEF BranchInv, Types, Goto, Emit
<1> QED
  BY <1>1, <1>2, <1>3

\* Every step keeps, takes, gives up or strands the checkpoint of the run that moves.
LEMMA ProceedCheckpoint ==
    ASSUME BranchInv, NEW r \in Runs, Proceed(r)
    PROVE  /\ \E to \in Steps : Goto(r, to) /\ (r \in handle' => to \in Held \/ r \in unwound')
           /\ Keeps(r) \/ Takes(r) \/ GivesUp(r)
<1>1. r \in handle => pc[r] \in Held \/ r \in unwound
  BY DEF BranchInv, Held
<1>2. CASE Submit(r)
  BY <1>1, <1>2 DEF Submit, Held, Steps, Keeps, gitVars, histVars
<1>3. CASE Start(r)
  <2>1. SessionOf[r] \in Sessions /\ ~Executing(r)
    BY <1>3, TurnConstants DEF Start
  <2> QED
    BY <1>1, <1>3, <2>1 DEF Start, Executing, Held, Steps, Keeps, gitVars, histVars
<1>4. CASE AskForHint(r)
  BY <1>1, <1>4 DEF AskForHint, Held, Steps, Keeps, gitVars, histVars
<1>5. CASE PassGate(r)
  BY <1>1, <1>5 DEF PassGate, Held, Steps, Keeps, gitVars, histVars
<1>6. CASE CallModel(r)
  BY <1>1, <1>6 DEF CallModel, Held, Steps, Keeps, gitVars, histVars
<1>7. CASE StartTool(r)
  BY <1>1, <1>7 DEF StartTool, Held, Steps, Keeps, Takes, gitVars, histVars
<1>8. CASE ToolEdits(r)
  BY <1>1, <1>8 DEF ToolEdits, Held, Steps, Keeps, histVars
<1>9. CASE EndRound(r)
  BY <1>1, <1>9 DEF EndRound, Held, Steps, Keeps, gitVars, histVars
<1>10. CASE Verified(r)
  BY <1>10, CleanupEffect DEF Verified, Held, Steps, GivesUp
<1>11. CASE Finish(r)
  BY <1>1, <1>11 DEF Finish, Held, Steps, Keeps, gitVars, histVars
<1>12. CASE Return(r)
  BY <1>1, <1>12 DEF Return, Settle, Held, Steps, Keeps, gitVars, histVars
<1>13. CASE Observed(r)
  BY <1>1, <1>13, CleanupEffect DEF Observed, Held, Steps, Keeps, GivesUp, gitVars
<1>14. CASE Rethrow(r)
  BY <1>1, <1>14 DEF Rethrow, Settle, Held, Steps, Keeps, gitVars, histVars
<1> QED
  BY <1>2, <1>3, <1>4, <1>5, <1>6, <1>7, <1>8, <1>9, <1>10, <1>11, <1>12, <1>13, <1>14 DEF Proceed

\* So does every failing step, which may strand a branch and notes it.
LEMMA FailCheckpoint ==
    ASSUME BranchInv, NEW r \in Runs, Fails(r)
    PROVE  /\ \E to \in Steps : Goto(r, to) /\ (r \in handle' => to \in Held \/ r \in unwound')
           /\ Keeps(r) \/ Strands(r)
<1>1. ASSUME NEW e \in Errors, StreamFails(r, e) PROVE Goto(r, "caught") /\ Keeps(r)
  BY <1>1 DEF StreamFails, Caught, Keeps, gitVars, histVars
<1>2. ASSUME NEW e \in Errors, ChecksFail(r, e) PROVE Goto(r, "caught") /\ Keeps(r)
  BY <1>2 DEF ChecksFail, Caught, Keeps, histVars
<1>3. ASSUME NEW e \in Errors, CheckpointFails(r, e) PROVE Goto(r, "caught") /\ Strands(r)
  BY <1>3 DEF CheckpointFails, Caught, Strands
<1>4. ASSUME NEW e \in Errors, StepFails(r, e) PROVE Goto(r, "caught") /\ Keeps(r)
  BY <1>4 DEF StepFails, Caught, Keeps, gitVars
<1>5. CASE CatchFails(r)
  BY <1>5 DEF CatchFails, Settle, Keeps, Steps, gitVars
<1> QED
  BY <1>1, <1>2, <1>3, <1>4, <1>5 DEF Fails, Held, Steps

\* Every step keeps the invariant of the branches.
LEMMA BranchStep == BranchInv /\ [Next]_vars => BranchInv'
<1> SUFFICES ASSUME BranchInv, [Next]_vars PROVE BranchInv'
  OBVIOUS
<1>1. CASE OperatorEdits \/ OperatorCommits \/ UNCHANGED vars
  <2>1. UNCHANGED <<handle, branches, pc, waiting, events, outcome>>
    BY <1>1 DEF OperatorEdits, OperatorCommits, vars, runVars, sessVars, gitVars
  <2>2. UNCHANGED unwound
    BY <1>1 DEF OperatorEdits, OperatorCommits, vars, histVars
  <2> QED
    BY <2>1, <2>2 DEF BranchInv, Types
<1>2. ASSUME NEW r \in Runs, Proceed(r) \/ Fails(r) PROVE BranchInv'
  <2>1. Types'
    BY <1>2, TypesStep
  <2>2. PICK to \in Steps : Goto(r, to) /\ (r \in handle' => to \in Held \/ r \in unwound')
    BY <1>2, ProceedCheckpoint, FailCheckpoint
  <2>3. Keeps(r) \/ Takes(r) \/ GivesUp(r) \/ Strands(r)
    BY <1>2, ProceedCheckpoint, FailCheckpoint
  <2>4. branches' \subseteq Runs /\ branches' \subseteq handle' \cup unwound'
    BY <2>3 DEF BranchInv, Keeps, Takes, GivesUp, Strands
  <2>5. pc'[r] = to /\ \A q \in Runs : q # r => pc'[q] = pc[q]
    BY <2>2 DEF BranchInv, Types, Goto
  <2>6. \A q \in Runs : q # r => (q \in handle' => q \in handle) /\ (q \in unwound => q \in unwound')
    BY <2>3 DEF Keeps, Takes, GivesUp, Strands
  <2>7. \A q \in Runs : q \in handle' => pc'[q] \in Held \/ q \in unwound'
    BY <2>2, <2>5, <2>6 DEF BranchInv, Held
  <2> QED
    BY <2>1, <2>4, <2>7 DEF BranchInv, Held
<1> QED
  BY <1>1, <1>2 DEF Next

\* A branch of a run that ended is one that a failed write stranded.
LEMMA BranchesGo == BranchInv => CheckpointsReleased
<1> SUFFICES ASSUME BranchInv, NEW r \in branches, Ended(r) PROVE r \in unwound
  BY DEF CheckpointsReleased
<1>1. pc[r] = "done" /\ r \in Runs /\ r \in handle \cup unwound
  BY DEF BranchInv, Ended
<1> QED
  BY <1>1 DEF BranchInv

\* No turn leaves its checkpoint branch behind unless a write of the checkpoint's or
\* of the catch's own failed, for any runs, sessions and number of faults.
THEOREM BranchesReleased == Spec => []CheckpointsReleased
<1>1. Spec => []BranchInv
  BY BranchInit, BranchStep, PTL DEF Spec
<1> QED
  BY <1>1, BranchesGo, PTL

-----------------------------------------------------------------------------
(***************************************************************************)
(* The failure loop guard of a session id and the ends told under it.      *)
(***************************************************************************)

\* Where a run is that has failed.
Over == {"caught", "unwind", "done"}

GuardTypes ==
    /\ pc \in [Runs -> Steps]
    /\ guard \in [Sessions -> [error : Errors \cup {None}, count : Nat]]
    /\ ends \in [Sessions -> Seq(TheEnds)]

\* The guard g counts the last failures of the list with one error: these, and no more.
Counted(g, past) ==
    /\ g.count <= Len(past)
    /\ \A i \in (Len(past) - g.count + 1)..Len(past) : past[i].how = g.error
    /\ g.count = 0 => Len(past) = 0 \/ past[Len(past)].how = "success"
    /\ g.count > 0 => /\ g.error \in Errors
                      /\ Len(past) > g.count => past[Len(past) - g.count].how # g.error

\* A run is told to have failed once, and is over then (at is where the runs are).
FailedOnce(past, at) ==
    /\ \A i \in DOMAIN past : past[i].how \in Errors => at[past[i].run] \in Over
    /\ \A i, j \in DOMAIN past :
           past[i].how \in Errors /\ past[j].how \in Errors /\ past[i].run = past[j].run => i = j

GuardInv ==
    /\ GuardTypes
    /\ \A s \in Sessions : Counted(guard[s], ends[s]) /\ FailedOnce(ends[s], pc)

\* At first nothing has ended.
LEMMA GuardInit == Init => GuardInv
BY DEF Init, GuardInv, GuardTypes, Counted, FailedOnce, Steps, Quiet

\* What the step of a run does: nothing to the guard and the ends, or it tells a failure
\* and counts it, or tells a success and forgets the failures.
Quietly(r) ==
    /\ UNCHANGED <<guard, ends>>
    /\ pc[r] \in Over => pc'[r] \in Over
Counts(r) ==
    /\ pc[r] \notin Over
    /\ \E e \in Errors : RecordFailure(SessionOf[r], e) /\ EndTold(r, e)
Forgets(r) ==
    pc[r] \notin Over /\ RecordSuccess(SessionOf[r]) /\ EndTold(r, "success")

\* Only a run of the queue is started.
LEMMA StartsQueued ==
    ASSUME EventsInv, NEW r \in Runs, Start(r) PROVE pc[r] = "queued"
BY StartQueue DEF EventsInv

\* Every step is one of these.
LEMMA GuardKinds ==
    ASSUME GuardTypes, NEW r \in Runs, Proceed(r) \/ Fails(r), Start(r) => pc[r] = "queued"
    PROVE  /\ \E to \in Steps : Goto(r, to)
           /\ Quietly(r) \/ (Counts(r) /\ pc'[r] \in Over) \/ Forgets(r)
<1> DEFINE Goal == /\ \E to \in Steps : Goto(r, to)
                   /\ Quietly(r) \/ (Counts(r) /\ pc'[r] \in Over) \/ Forgets(r)
<1> USE DEF Goto, Over, Steps
<1>0. ASSUME NEW to, Goto(r, to) PROVE pc'[r] = to
  BY <1>0 DEF GuardTypes
<1>1. CASE AskForHint(r) \/ PassGate(r) \/ CallModel(r) \/ StartTool(r) \/ ToolEdits(r)
  BY <1>0, <1>1 DEF AskForHint, PassGate, CallModel, StartTool, ToolEdits, Quietly, sessVars,
                    histVars
<1>9. CASE Submit(r)
  <2>1. pc[r] = "new" /\ Goto(r, "queued") /\ UNCHANGED <<guard, ends>>
    BY <1>9 DEF Submit, histVars
  <2> QED
    BY <1>0, <2>1 DEF Quietly
<1>2. CASE Start(r)
  <2>1. Goto(r, "gate") /\ UNCHANGED <<guard, ends>>
    BY <1>2 DEF Start, histVars
  <2> QED
    BY <1>0, <1>2, <2>1 DEF Quietly
<1>3. CASE EndRound(r) \/ Verified(r)
  BY <1>0, <1>3 DEF EndRound, Verified, Quietly, sessVars, histVars
<1>4. CASE Finish(r)
  BY <1>0, <1>4 DEF Finish, Forgets
<1>5. CASE Return(r)
  BY <1>0, <1>5 DEF Return, Settle, Quietly, histVars
<1>6. CASE Observed(r)
  BY <1>0, <1>6 DEF Observed, Quietly, sessVars
<1>7. CASE Rethrow(r) \/ CatchFails(r)
  BY <1>0, <1>7 DEF Rethrow, CatchFails, Settle, Quietly, histVars
<1>8. ASSUME NEW e \in Errors, StreamFails(r, e) \/ ChecksFail(r, e) \/ CheckpointFails(r, e)
                               \/ StepFails(r, e)
      PROVE  Goal
  BY <1>0, <1>8 DEF StreamFails, ChecksFail, CheckpointFails, StepFails, Caught, Counts
<1> QED
  BY <1>1, <1>2, <1>3, <1>4, <1>5, <1>6, <1>7, <1>8, <1>9 DEF Proceed, Fails

\* One failure more, of a run that had not failed.
LEMMA OneMoreFailure ==
    ASSUME NEW past \in Seq(TheEnds), NEW r \in Runs, NEW e \in Errors,
           NEW g \in [error : Errors \cup {None}, count : Nat], Counted(g, past),
           NEW at, NEW later, FailedOnce(past, at), at[r] \notin Over, later[r] \in Over,
           \A q : at[q] \in Over => later[q] \in Over
    PROVE  LET more == Append(past, [run |-> r, how |-> e])
           IN  /\ more \in Seq(TheEnds)
               /\ Counted([error |-> e, count |-> IF g.error = e THEN g.count + 1 ELSE 1], more)
               /\ FailedOnce(more, later)
<1> DEFINE end == [run |-> r, how |-> e]
           more == Append(past, end)
           n == Len(past)
<1>1. end \in TheEnds /\ end.run = r /\ end.how = e
  BY DEF TheEnds
<1> HIDE DEF end
<1>2. /\ n \in Nat /\ more \in Seq(TheEnds) /\ Len(more) = n + 1 /\ more[n + 1] = end
      /\ \A i \in 1..n : more[i] = past[i]
      /\ DOMAIN more = 1..(n + 1) /\ DOMAIN past = 1..n
  BY <1>1, AppendFacts
<1> HIDE DEF more, n
<1>3. \A i \in DOMAIN more : i = n + 1 \/ i \in DOMAIN past
  BY <1>2
<1>4. \A i \in DOMAIN more : more[i].how \in Errors => later[more[i].run] \in Over
  BY <1>1, <1>2, <1>3 DEF FailedOnce
<1>5. ASSUME NEW i \in DOMAIN more, NEW j \in DOMAIN more, more[i].how \in Errors,
             more[j].how \in Errors, more[i].run = more[j].run
      PROVE  i = j
  <2>1. CASE i \in DOMAIN past /\ j \in DOMAIN past
    BY <1>2, <1>5, <2>1 DEF FailedOnce
  <2>2. CASE i = n + 1 /\ j \in DOMAIN past
    BY <1>1, <1>2, <1>5, <2>2 DEF FailedOnce
  <2>3. CASE i \in DOMAIN past /\ j = n + 1
    BY <1>1, <1>2, <1>5, <2>3 DEF FailedOnce
  <2> QED
    BY <1>3, <2>1, <2>2, <2>3
<1>6. Counted([error |-> e, count |-> IF g.error = e THEN g.count + 1 ELSE 1], more)
  <2>1. g.count \in Nat /\ g.count <= n
    BY DEF Counted, n
  <2>2. CASE g.error = e
    <3>1. ASSUME NEW i \in (n + 1 - (g.count + 1) + 1)..(n + 1) PROVE more[i].how = e
      <4>1. i = n + 1 \/ (i \in (n - g.count + 1)..n /\ i \in 1..n)
        BY <1>2, <2>1
      <4> QED
        BY <1>1, <1>2, <2>2, <4>1 DEF Counted, n
    <3>2. g.count + 1 < n + 1 => more[n + 1 - (g.count + 1)].how # e
      <4> SUFFICES ASSUME g.count < n PROVE more[n - g.count].how # e
        BY <1>2, <2>1
      <4>1. n - g.count \in 1..n
        BY <1>2, <2>1
      <4>2. CASE g.count > 0
        BY <1>2, <2>1, <2>2, <4>1, <4>2 DEF Counted, n
      <4>3. CASE g.count = 0
        <5>1. past[n].how = "success" /\ n \in 1..n
          BY <1>2, <4>1, <4>3 DEF Counted, n
        <5> QED
          BY <1>2, <4>3, <5>1, TurnConstants
      <4> QED
        BY <2>1, <4>2, <4>3
    <3> QED
      BY <1>2, <2>1, <2>2, <3>1, <3>2 DEF Counted
  <2>3. CASE g.error # e
    <3>1. \A i \in (n + 1 - 1 + 1)..(n + 1) : more[i].how = e
      BY <1>1, <1>2
    <3>2. n + 1 > 1 => more[n].how # e
      <4> SUFFICES ASSUME n > 0 PROVE past[n].how # e
        BY <1>2
      <4>1. CASE g.count = 0
        BY <1>2, <4>1, TurnConstants DEF Counted, n
      <4>2. CASE g.count > 0
        <5>1. n \in (n - g.count + 1)..n
          BY <1>2, <2>1, <4>2
        <5> QED
          BY <2>3, <5>1 DEF Counted, n
      <4> QED
        BY <2>1, <4>1, <4>2
    <3> QED
      BY <1>2, <2>3, <3>1, <3>2 DEF Counted
  <2> QED
    BY <2>2, <2>3
<1> QED
  BY <1>2, <1>4, <1>5, <1>6 DEF more, end, FailedOnce

\* One success more.
LEMMA OneMoreSuccess ==
    ASSUME NEW past \in Seq(TheEnds), NEW r \in Runs, NEW at, NEW later, FailedOnce(past, at),
           \A q : at[q] \in Over => later[q] \in Over
    PROVE  LET more == Append(past, [run |-> r, how |-> "success"])
           IN  more \in Seq(TheEnds) /\ Counted(Quiet, more) /\ FailedOnce(more, later)
<1> DEFINE end == [run |-> r, how |-> "success"]
           more == Append(past, end)
           n == Len(past)
<1>1. end \in TheEnds /\ end.how = "success" /\ end.how \notin Errors
  BY TurnConstants DEF TheEnds
<1> HIDE DEF end
<1>2. /\ n \in Nat /\ more \in Seq(TheEnds) /\ Len(more) = n + 1 /\ more[n + 1] = end
      /\ \A i \in 1..n : more[i] = past[i]
      /\ DOMAIN more = 1..(n + 1) /\ DOMAIN past = 1..n
  BY <1>1, AppendFacts
<1> HIDE DEF more, n
<1>3. \A i \in DOMAIN more : more[i].how \in Errors => i \in DOMAIN past /\ more[i] = past[i]
  BY <1>1, <1>2
<1>4. FailedOnce(more, later)
  BY <1>3 DEF FailedOnce
<1>5. Counted(Quiet, more)
  BY <1>1, <1>2 DEF Counted, Quiet
<1> QED
  BY <1>2, <1>4, <1>5 DEF more, end

\* Every step keeps what the guards have counted.
LEMMA GuardStep == EventsInv /\ GuardInv /\ [Next]_vars => GuardInv'
<1> SUFFICES ASSUME EventsInv, GuardInv, [Next]_vars PROVE GuardInv'
  OBVIOUS
<1>1. CASE OperatorEdits \/ OperatorCommits \/ UNCHANGED vars
  <2>1. UNCHANGED <<pc, guard, ends>>
    BY <1>1 DEF OperatorEdits, OperatorCommits, vars, runVars, sessVars, histVars
  <2> QED
    BY <2>1 DEF GuardInv, GuardTypes, Counted, FailedOnce
<1>2. ASSUME NEW r \in Runs, Proceed(r) \/ Fails(r) PROVE GuardInv'
  <2> DEFINE s == SessionOf[r]
  <2>1. /\ \E to \in Steps : Goto(r, to)
        /\ Quietly(r) \/ (Counts(r) /\ pc'[r] \in Over) \/ Forgets(r)
    BY <1>2, StartsQueued, GuardKinds DEF GuardInv
  <2>2. pc' \in [Runs -> Steps] /\ \A q : q # r => (pc'[q] = pc[q])
    BY <2>1 DEF Goto, GuardInv, GuardTypes
  <2>3. /\ s \in Sessions /\ ends[s] \in Seq(TheEnds)
        /\ FailedOnce(ends[s], pc) /\ Counted(guard[s], ends[s])
        /\ guard[s] \in [error : Errors \cup {None}, count : Nat]
    BY TurnConstants DEF GuardInv, GuardTypes
  <2>4. \A q : pc[q] \in Over => pc'[q] \in Over
    BY <2>1, <2>2 DEF Quietly, Counts, Forgets
  <2>5. CASE Quietly(r)
    BY <2>2, <2>4, <2>5 DEF Quietly, GuardInv, GuardTypes, FailedOnce
  <2>6. ASSUME NEW g \in [error : Errors \cup {None}, count : Nat], NEW more \in Seq(TheEnds),
               ends' = [ends EXCEPT ![s] = more], guard' = [guard EXCEPT ![s] = g],
               Counted(g, more), FailedOnce(more, pc')
        PROVE  GuardInv'
    <3>1. GuardTypes'
      BY <2>2, <2>3, <2>6 DEF GuardInv, GuardTypes
    <3>2. ASSUME NEW z \in Sessions PROVE Counted(guard'[z], ends'[z]) /\ FailedOnce(ends'[z], pc')
      <4>1. CASE z = s
        BY <2>6, <4>1 DEF GuardInv, GuardTypes
      <4>2. CASE z # s
        <5>1. guard'[z] = guard[z] /\ ends'[z] = ends[z]
          BY <2>6, <4>2 DEF GuardInv, GuardTypes
        <5> QED
          BY <2>4, <5>1 DEF GuardInv, FailedOnce
      <4> QED
        BY <4>1, <4>2
    <3> QED
      BY <3>1, <3>2 DEF GuardInv
  <2>7. CASE Counts(r) /\ pc'[r] \in Over
    <3>1. PICK e \in Errors : RecordFailure(s, e) /\ EndTold(r, e)
      BY <2>7 DEF Counts
    <3> DEFINE g == [error |-> e, count |-> IF guard[s].error = e THEN guard[s].count + 1 ELSE 1]
               more == Append(ends[s], [run |-> r, how |-> e])
    <3>2. more \in Seq(TheEnds) /\ Counted(g, more) /\ FailedOnce(more, pc')
      BY <2>3, <2>4, <2>7, OneMoreFailure DEF Counts
    <3>3. guard' = [guard EXCEPT ![s] = g] /\ ends' = [ends EXCEPT ![s] = more]
      BY <2>3, <3>1 DEF RecordFailure, EndTold, GuardInv, GuardTypes
    <3>4. g \in [error : Errors \cup {None}, count : Nat]
      BY <2>3
    <3> QED
      BY <2>6, <3>2, <3>3, <3>4
  <2>8. CASE Forgets(r)
    <3> DEFINE more == Append(ends[s], [run |-> r, how |-> "success"])
    <3>1. more \in Seq(TheEnds) /\ Counted(Quiet, more) /\ FailedOnce(more, pc')
      BY <2>3, <2>4, OneMoreSuccess
    <3>2. guard' = [guard EXCEPT ![s] = Quiet] /\ ends' = [ends EXCEPT ![s] = more]
      BY <2>3, <2>8 DEF Forgets, RecordSuccess, EndTold, GuardInv, GuardTypes
    <3>3. Quiet \in [error : Errors \cup {None}, count : Nat]
      BY DEF Quiet
    <3> QED
      BY <2>6, <3>1, <3>2, <3>3
  <2> QED
    BY <2>1, <2>5, <2>7, <2>8
<1> QED
  BY <1>1, <1>2 DEF Next

\* As many failures counted as the threshold are as many repeated at the end of the list.
LEMMA CountedIsRepeated ==
    ASSUME NEW past \in Seq(TheEnds), NEW g \in [error : Errors \cup {None}, count : Nat],
           Counted(g, past), NEW at, FailedOnce(past, at)
    PROVE  g.count >= EscalationThreshold <=> Repeated(past)
<1> DEFINE n == Len(past)
           t == EscalationThreshold
<1>1. /\ n \in Nat /\ t \in Nat /\ t > 0 /\ g.count \in Nat /\ g.count <= n
      /\ DOMAIN past = 1..n
  BY TurnConstants DEF Counted
<1>2. ASSUME g.count >= t PROVE Repeated(past)
  <2>1. g.error \in Errors /\ g.error # "success"
    BY <1>1, <1>2, TurnConstants DEF Counted
  <2>2. \A i \in (n - t + 1)..n : i \in (n - g.count + 1)..n /\ i \in 1..n
    BY <1>1, <1>2
  <2>3. \A i \in (n - t + 1)..n : past[i].how = g.error
    BY <2>2 DEF Counted
  <2>4. n \in (n - t + 1)..n /\ n >= t
    BY <1>1, <1>2
  <2>5. \A i, j \in (n - t + 1)..n : past[i].run = past[j].run => i = j
    BY <1>1, <2>1, <2>2, <2>3 DEF FailedOnce
  <2> HIDE DEF n, t
  <2>6. \A i \in (n - t + 1)..n : past[i].how = past[n].how /\ past[i].how # "success"
    BY <2>1, <2>3, <2>4
  <2> QED
    BY <2>4, <2>5, <2>6 DEF Repeated, n, t
<1>3. ASSUME Repeated(past), g.count < t PROVE FALSE
  <2>1. /\ n >= t
        /\ \A i \in (n - t + 1)..n : past[i].how = past[n].how /\ past[i].how # "success"
    BY <1>3 DEF Repeated
  <2>2. n \in (n - t + 1)..n
    BY <1>1, <2>1
  <2>3. CASE g.count = 0
    BY <1>1, <2>1, <2>2, <2>3 DEF Counted
  <2>4. CASE g.count > 0
    <3>1. n - g.count \in (n - t + 1)..n /\ n > g.count /\ n \in (n - g.count + 1)..n
      BY <1>1, <1>3, <2>1, <2>4
    <3>2. past[n].how = g.error /\ past[n - g.count].how # g.error
      BY <2>4, <3>1 DEF Counted
    <3> QED
      BY <2>1, <3>1, <3>2
  <2> QED
    BY <1>1, <2>3, <2>4
<1> QED
  BY <1>1, <1>2, <1>3

\* The turn that is executed is forced if and only if the failures are there.
LEMMA ForcedFollows ==
    ASSUME EventsInv, GuardInv, [Next]_vars, NEW r \in Runs, pc[r] = "queued", pc'[r] = "gate",
           \A q \in Runs : q \in forced => pc[q] \notin {"new", "queued"}
    PROVE  r \in forced' <=> Repeated(ends[SessionOf[r]])
<1> DEFINE s == SessionOf[r]
<1>1. pc \in [Runs -> Steps]
  BY DEF GuardInv, GuardTypes
<1>2. ASSUME NEW q \in Runs, Proceed(q) \/ Fails(q), ~Start(q) PROVE FALSE
  <2>1. q = r
    <3>1. PICK to \in Steps : Goto(q, to)
      BY <1>2, StartsQueued, GuardKinds DEF GuardInv
    <3> QED
      BY <1>1, <3>1 DEF Goto
  <2> QED
    BY <1>1, <1>2, <2>1 DEF Proceed, Submit, AskForHint, PassGate, CallModel, StartTool, ToolEdits,
           EndRound, Verified, Finish, Return, Observed, Rethrow, Fails, StreamFails, ChecksFail,
           CheckpointFails, StepFails, CatchFails, Caught, Settle, Goto
<1>3. Start(r)
  <2>1. PICK q \in Runs : Start(q)
    BY <1>2 DEF Next, OperatorEdits, OperatorCommits, vars, runVars
  <2> QED
    BY <1>1, <2>1 DEF Start, Goto
<1>4. r \in forced' <=> RequiresStepBack(s)
  BY <1>3 DEF Start
<1>5. /\ s \in Sessions /\ ends[s] \in Seq(TheEnds) /\ Counted(guard[s], ends[s])
      /\ guard[s] \in [error : Errors \cup {None}, count : Nat] /\ FailedOnce(ends[s], pc)
  BY TurnConstants DEF GuardInv, GuardTypes
<1> QED
  BY <1>4, <1>5, CountedIsRepeated DEF RequiresStepBack

\* A run that was forced has started.
ForcedRan == forced \subseteq Runs /\ \A r \in forced : pc[r] \notin {"new", "queued"}

\* A run that has started does not wait again, and only a start forces.
LEMMA ForcedStep == EventsInv /\ GuardTypes /\ ForcedRan /\ [Next]_vars => ForcedRan'
<1> SUFFICES ASSUME EventsInv, GuardTypes, ForcedRan, [Next]_vars PROVE ForcedRan'
  OBVIOUS
<1>1. CASE OperatorEdits \/ OperatorCommits \/ UNCHANGED vars
  BY <1>1 DEF OperatorEdits, OperatorCommits, vars, runVars, ForcedRan
<1>2. ASSUME NEW r \in Runs, Proceed(r) \/ Fails(r) PROVE ForcedRan'
  <2>1. PICK to \in Steps : Goto(r, to)
    BY <1>2, StartsQueued, GuardKinds
  <2>2. pc'[r] = to /\ \A q \in Runs : q # r => pc'[q] = pc[q]
    BY <2>1 DEF Goto, GuardTypes
  <2>3. CASE Submit(r)
    BY <2>2, <2>3 DEF Submit, ForcedRan
  <2>4. CASE Start(r)
    <3>1. pc'[r] = "gate" /\ forced' \subseteq forced \cup {r}
      BY <2>4 DEF Start, Goto, GuardTypes
    <3> QED
      BY <2>2, <3>1 DEF ForcedRan
  <2>5. CASE ~Submit(r) /\ ~Start(r)
    <3>1. forced' = forced
      BY <1>2, <2>5 DEF Proceed, Submit, AskForHint, PassGate, CallModel, StartTool, ToolEdits,
             EndRound, Verified, Finish, Return, Observed, Rethrow, Fails, StreamFails, ChecksFail,
             CheckpointFails, StepFails, CatchFails, Caught
    <3>2. pc'[r] \notin {"new", "queued"}
      <4>1. to \notin {"new", "queued"}
        BY <1>2, <2>5, ProceedKinds, FailKinds, <2>2
           DEF Silent, Telling, Settling, Goto, GuardTypes
      <4> QED
        BY <2>2, <4>1
    <3> QED
      BY <2>2, <3>1, <3>2 DEF ForcedRan
  <2> QED
    BY <2>3, <2>4, <2>5
<1> QED
  BY <1>1, <1>2 DEF Next

\* A turn is forced into multi-path reasoning exactly when the last ends told under its
\* session id are as many failures as the threshold, with one error and of different
\* turns (FailureLoopGuard), whichever profiles' turns overlap there and whatever fails,
\* for any runs, sessions, profiles, errors and threshold.
THEOREM ForcedAfterRepeats == Spec => ForcedExactlyAfterRepeats
<1>1. Init => ForcedRan
  BY DEF Init, ForcedRan
<1>2. EventsInv /\ GuardInv /\ ForcedRan /\ [Next]_vars => [\A r \in Runs : pc[r] = "queued" /\ pc'[r] = "gate"
                        => (r \in forced' <=> Repeated(ends[SessionOf[r]]))]_vars
  BY ForcedFollows DEF ForcedRan
<1>3. GuardInv => GuardTypes
  BY DEF GuardInv
<1> QED
  BY <1>1, <1>2, <1>3, EventsInit, EventsStep, GuardInit, GuardStep, ForcedStep, PTL DEF Spec, ForcedExactlyAfterRepeats
=============================================================================
