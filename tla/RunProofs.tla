----------------------------- MODULE RunProofs ------------------------------
(***************************************************************************)
(* RunLifecycle, for any runs and clients and however often turns fail and *)
(* the process is killed: no run stays pending without a turn, no request  *)
(* is lost and a result that was handed out is final.                      *)
(***************************************************************************)
EXTENDS RunLifecycle, TLAPS

\* Records are records, in memory, in the file and in the write under way.
RecordTypes ==
    /\ mem \in [Runs -> Records] /\ disk \in [Runs -> Records] /\ payload \in [Runs -> Records]
    /\ turn \in [Runs -> {"none", "running", "resolved", "rejected"}]

\* A starting process has made every pending record interrupted; it resumes runs,
\* and takes new ones, once it serves requests.
PendingInv ==
    /\ RecordTypes
    /\ up = "booting" => \A r \in Runs : mem[r].status # "pending"
    /\ resume # "off" => up = "up"
    /\ NoStuckPending

-----------------------------------------------------------------------------
(***************************************************************************)
(* What the operations of the store do to the records.                     *)
(***************************************************************************)

\* A field of a record is set.
LEMMA StatusSet ==
    ASSUME NEW record \in Records, NEW status \in Statuses
    PROVE  /\ [record EXCEPT !.status = status] \in Records
           /\ [record EXCEPT !.status = status].status = status
BY DEF Records

\* Consuming a record leaves its status.
LEMMA ConsumedSet ==
    ASSUME NEW record \in Records
    PROVE  /\ [record EXCEPT !.consumed = TRUE] \in Records
           /\ [record EXCEPT !.consumed = TRUE].status = record.status
BY DEF Records

\* The empty registry is a registry.
LEMMA NoRunsType == NoRuns \in [Runs -> Records]
BY DEF NoRuns, Absent, Records, Statuses

\* A new record changes no other one.
LEMMA CreateType ==
    ASSUME RecordTypes, NEW r \in Runs, NEW o, CreatePending(r, o)
    PROVE  /\ mem' \in [Runs -> Records]
           /\ \A q \in Runs : q # r => mem'[q] = mem[q]
           /\ disk' = disk /\ payload' = payload
BY DEF RecordTypes, CreatePending, Persist, Records, Statuses

\* A marked run is not pending, and no other record changes.
LEMMA MarkType ==
    ASSUME RecordTypes, NEW r \in Runs, NEW o, MarkCompleted(r, o) \/ MarkFailed(r, o)
    PROVE  /\ mem' \in [Runs -> Records]
           /\ mem'[r].status # "pending"
           /\ \A q \in Runs : q # r => mem'[q] = mem[q]
           /\ disk' = disk /\ payload' = payload
<1>1. PICK status \in {"completed", "failed"} : mem' = [mem EXCEPT ![r].status = status]
  BY DEF MarkCompleted, MarkFailed, SetStatus
<1>2. status \in Statuses /\ mem[r] \in Records
  BY DEF RecordTypes, Statuses
<1>3. mem' = [mem EXCEPT ![r] = [mem[r] EXCEPT !.status = status]]
  BY <1>1
<1>4. mem' \in [Runs -> Records] /\ mem'[r].status = status
  BY <1>2, <1>3, StatusSet DEF RecordTypes
<1> QED
  BY <1>3, <1>4 DEF MarkCompleted, MarkFailed, Persist, RecordTypes

\* Also when there is no run to consume.
LEMMA ConsumeType ==
    ASSUME RecordTypes, NEW r, NEW o, Consume(r, o)
    PROVE  /\ mem' \in [Runs -> Records]
           /\ \A q \in Runs : mem'[q].status = mem[q].status
           /\ disk' = disk /\ payload' = payload
<1>1. disk' = disk /\ payload' = payload
  BY DEF Consume, Persist, storeVars
<1>2. mem' = mem \/ mem' = [mem EXCEPT ![r].consumed = TRUE]
  BY DEF Consume, storeVars
<1>3. mem' = mem \/ mem' = [mem EXCEPT ![r] = [mem[r] EXCEPT !.consumed = TRUE]]
  BY <1>2
<1>4. ASSUME r \in Runs
      PROVE  /\ [mem[r] EXCEPT !.consumed = TRUE] \in Records
             /\ [mem[r] EXCEPT !.consumed = TRUE].status = mem[r].status
  BY <1>4, ConsumedSet DEF RecordTypes
<1> QED
  BY <1>1, <1>3, <1>4 DEF RecordTypes

\* No record is pending once all in flight are interrupted.
LEMMA InterruptType ==
    ASSUME NEW rs \in [Runs -> Records]
    PROVE  /\ InterruptInFlight(rs) \in [Runs -> Records]
           /\ \A r \in Runs : InterruptInFlight(rs)[r].status # "pending"
<1> SUFFICES ASSUME NEW r \in Runs
             PROVE  /\ InterruptInFlight(rs)[r] \in Records
                    /\ InterruptInFlight(rs)[r].status # "pending"
  BY DEF InterruptInFlight
<1>1. rs[r] \in Records /\ "interrupted" \in Statuses
  BY DEF Statuses
<1>2. /\ [rs[r] EXCEPT !.status = "interrupted"] \in Records
      /\ [rs[r] EXCEPT !.status = "interrupted"].status = "interrupted"
  BY <1>1, StatusSet
<1> QED
  BY <1>1, <1>2 DEF InterruptInFlight

\* Writing the file leaves the records in memory.
LEMMA WriteType ==
    ASSUME RecordTypes, StartWrite \/ FinishWrite
    PROVE  /\ mem' = mem /\ disk' \in [Runs -> Records] /\ payload' \in [Runs -> Records]
BY NoRunsType DEF RecordTypes, StartWrite, FinishWrite

-----------------------------------------------------------------------------
\* Nothing is pending in the first process.
LEMMA InitPending == Init => PendingInv
BY DEF Init, StoreInit, PendingInv, RecordTypes, NoStuckPending, NoRuns, Absent, Records, Statuses

\* A killed process leaves no record in memory.
LEMMA DieKeeps == ASSUME PendingInv, Die PROVE PendingInv'
BY DEF PendingInv, Die, Lose, RecordTypes, NoStuckPending, NoRuns, Absent, Records, Statuses

\* A starting process interrupts what it finds pending.
LEMMA BootKeeps == ASSUME PendingInv, Boot \/ Listen PROVE PendingInv'
<1>1. CASE Boot
  <2>1. mem' = InterruptInFlight(disk) /\ disk' = disk /\ payload' = payload
        /\ turn' = turn /\ resume' = resume /\ up' = "booting" /\ up = "down"
    BY <1>1 DEF Boot, Load, procVars, resVars
  <2> QED
    BY <2>1, InterruptType DEF PendingInv, RecordTypes, NoStuckPending
<1>2. CASE Listen
  BY <1>2 DEF Listen, PendingInv, RecordTypes, NoStuckPending, storeVars, procVars
<1> QED
  BY <1>1, <1>2

\* A step that changes neither the process nor the resumption, and makes no
\* record pending and no turn end.
LEMMA QuietKeeps ==
    ASSUME PendingInv, RecordTypes', up' = up, resume' # "off" => up = "up",
           \A r \in Runs : mem'[r].status = "pending" =>
               mem[r].status = "pending" /\ (turn[r] # "none" => turn'[r] # "none")
    PROVE  PendingInv'
BY DEF PendingInv, NoStuckPending

\* A new run gets a pending record and a turn in one step.
LEMMA StartKeeps ==
    ASSUME PendingInv, NEW r \in Runs, NEW o, CreatePending(r, o),
           turn' = [turn EXCEPT ![r] = "running"], up = "up", up' = up
    PROVE  PendingInv'
<1>1. RecordTypes
  BY DEF PendingInv
<1>2. /\ mem' \in [Runs -> Records] /\ \A q \in Runs : q # r => mem'[q] = mem[q]
      /\ disk' = disk /\ payload' = payload
  BY <1>1, CreateType
<1> QED
  BY <1>2 DEF PendingInv, RecordTypes, NoStuckPending

\* The steps of a turn mark its record before they let go of it.
LEMMA TurnKeeps ==
    ASSUME PendingInv, NEW r \in Runs,
           RunStep(r) \/ Reject(r) \/ RejectUnattached(r) \/ AppendFails(r)
    PROVE  PendingInv'
<1>1. RecordTypes
  BY DEF PendingInv
<1>2. CASE RejectUnattached(r) \/ GatewayFailedUnhandled(r)
  BY <1>2, DieKeeps DEF RejectUnattached, GatewayFailedUnhandled
<1>3. CASE Serve(r) \/ Resolve(r) \/ GatewayCompleted(r) \/ GatewayFailed(r)
           \/ ResumedDone(r) \/ Reject(r)
  <2>1. /\ mem' = mem /\ disk' = disk /\ payload' = payload /\ up' = up /\ resume' = resume
        /\ turn' = turn \/ \E how \in {"resolved", "rejected"} : turn' = [turn EXCEPT ![r] = how]
    BY <1>3 DEF Serve, Resolve, GatewayCompleted, GatewayFailed, ResumedDone, Reject,
                storeVars, procVars, resVars
  <2>2. RecordTypes'
    BY <1>1, <2>1 DEF RecordTypes
  <2>3. \A q \in Runs : turn[q] # "none" => turn'[q] # "none"
    BY <1>1, <2>1 DEF RecordTypes
  <2> QED
    BY <2>1, <2>2, <2>3, QuietKeeps DEF PendingInv
<1>4. CASE HandleResolved(r) \/ HandleRejected(r) \/ AppendFails(r)
  <2>1. /\ MarkCompleted(r, <<"settle", r>>) \/ MarkFailed(r, <<"settle", r>>)
        /\ up' = up /\ resume' = resume /\ turn' = turn
    BY <1>4 DEF HandleResolved, HandleRejected, AppendFails, resVars
  <2>2. /\ mem' \in [Runs -> Records] /\ mem'[r].status # "pending"
        /\ \A q \in Runs : q # r => mem'[q] = mem[q]
        /\ disk' = disk /\ payload' = payload
    BY <1>1, <2>1, MarkType
  <2>3. RecordTypes'
    BY <1>1, <2>1, <2>2 DEF RecordTypes
  <2> QED
    BY <2>1, <2>2, <2>3, QuietKeeps DEF PendingInv
<1>5. CASE ResumedSettled(r)
  <2>1. Consume(r, <<"settle", r>>) /\ up' = up /\ resume' = resume /\ turn' = turn
    BY <1>5 DEF ResumedSettled, resVars
  <2>2. /\ mem' \in [Runs -> Records] /\ \A q \in Runs : mem'[q].status = mem[q].status
        /\ disk' = disk /\ payload' = payload
    BY <1>1, <2>1, ConsumeType
  <2>3. RecordTypes'
    BY <1>1, <2>1, <2>2 DEF RecordTypes
  <2> QED
    BY <2>1, <2>2, <2>3, QuietKeeps DEF PendingInv
<1> QED
  BY <1>2, <1>3, <1>4, <1>5 DEF RunStep

\* agent.wait and the resumption, but for a resumed run's start, consume records
\* or leave them alone.
LEMMA ConsumersKeep ==
    ASSUME PendingInv, NEW r, NEW o,
           Consume(r, o) \/ UNCHANGED storeVars, up' = up,
           resume' # "off" => resume # "off", turn' = turn
    PROVE  PendingInv'
<1>1. RecordTypes
  BY DEF PendingInv
<1>2. /\ mem' \in [Runs -> Records] /\ \A q \in Runs : mem'[q].status = mem[q].status
      /\ disk' = disk /\ payload' = payload
  <2>1. CASE Consume(r, o)
    BY <1>1, <2>1, ConsumeType
  <2>2. CASE UNCHANGED storeVars
    BY <1>1, <2>2 DEF RecordTypes, storeVars
  <2> QED
    BY <2>1, <2>2
<1>3. RecordTypes'
  BY <1>1, <1>2 DEF RecordTypes
<1> QED
  BY <1>2, <1>3, QuietKeeps DEF PendingInv

\* What agent.wait does changes no status.
LEMMA WaitKeeps ==
    ASSUME PendingInv, NEW c \in Clients,
           \/ WaitStep(c) \/ WaitAppendFails(c)
           \/ \E r \in Runs : WaitBlocks(c, r) \/ WaitCall(c, r)
    PROVE  PendingInv'
<1>1. up' = up /\ resume' = resume /\ turn' = turn
  BY DEF WaitStep, WaitAppendFails, WaitBlocks, WaitCall, BlockedResolves, BlockedRejects,
         TakeResult, AnswerResult, AnswerError, WaitResult, WaitError, WaitStoredResult,
         WaitStoredError, WaitGone, procVars, resVars
<1>2. UNCHANGED storeVars \/ \E r : Consume(r, <<"wait", c>>)
  BY DEF WaitStep, WaitAppendFails, WaitBlocks, WaitCall, BlockedResolves, BlockedRejects,
         TakeResult, AnswerResult, AnswerError, WaitResult, WaitError, WaitStoredResult,
         WaitStoredError, WaitGone
<1> QED
  BY <1>1, <1>2, ConsumersKeep

\* The resumption consumes records and starts new runs.
LEMMA ResumeKeeps == ASSUME PendingInv, ResumeStep PROVE PendingInv'
<1>1. CASE ResumeList \/ ResumeConsume \/ ResumeAttach \/ ResumeDiscarded
           \/ \E r \in Runs : ResumeDiscard(r)
  <2>1. up' = up /\ turn' = turn /\ resume # "off"
    BY <1>1 DEF ResumeList, ResumeConsume, ResumeAttach, ResumeDiscarded, ResumeDiscard, procVars
  <2>2. UNCHANGED storeVars \/ \E r : Consume(r, <<"resume", None>>)
    BY <1>1 DEF ResumeList, ResumeConsume, ResumeAttach, ResumeDiscarded, ResumeDiscard
  <2> QED
    BY <2>1, <2>2, ConsumersKeep
<1>2. ASSUME NEW r \in Runs, NEW n \in Runs, ResumeStart(r, n) PROVE PendingInv'
  BY <1>2, StartKeeps DEF ResumeStart, PendingInv
<1> QED
  BY <1>1, <1>2 DEF ResumeStep

\* Every step keeps the invariant.
LEMMA StepKeeps == PendingInv /\ [Next]_vars => PendingInv'
<1> SUFFICES ASSUME PendingInv, [Next]_vars PROVE PendingInv'
  OBVIOUS
<1>1. CASE Boot \/ Listen
  BY <1>1, BootKeeps
<1>2. CASE Write
  <2>1. mem' = mem /\ RecordTypes' /\ up' = up /\ resume' = resume /\ turn' = turn
    BY <1>2, WriteType DEF Write, PendingInv, RecordTypes, procVars, resVars
  <2> QED
    BY <2>1, QuietKeeps DEF PendingInv
<1>3. CASE ResumeStep
  BY <1>3, ResumeKeeps
<1>4. CASE Kill
  BY <1>4, DieKeeps DEF Kill
<1>5. ASSUME NEW r \in Runs, RunStep(r) \/ Reject(r) \/ RejectUnattached(r) \/ AppendFails(r)
      PROVE  PendingInv'
  BY <1>5, TurnKeeps
<1>6. ASSUME NEW r \in Runs, NEW hasThread \in BOOLEAN, AgentRun(r, hasThread) PROVE PendingInv'
  BY <1>6, StartKeeps DEF AgentRun
<1>7. ASSUME NEW c \in Clients,
             \/ WaitStep(c) \/ WaitAppendFails(c)
             \/ \E r \in Runs : WaitBlocks(c, r) \/ WaitCall(c, r)
      PROVE  PendingInv'
  BY <1>7, WaitKeeps
<1>8. CASE UNCHANGED vars
  BY <1>8 DEF vars, storeVars, procVars, resVars, PendingInv, RecordTypes, NoStuckPending
<1> QED
  BY <1>1, <1>2, <1>3, <1>4, <1>5, <1>6, <1>7, <1>8 DEF Next, Fault

\* When the process serves requests, a record that is pending belongs to a turn of this
\* process: whenever the last one died, none is stuck (docs/resilience.md).
THEOREM NothingIsStuck == Spec => []NoStuckPending
<1>1. Init => PendingInv
  BY InitPending
<1>2. PendingInv /\ [Next]_vars => PendingInv'
  BY StepKeeps
<1>3. PendingInv => NoStuckPending
  BY DEF PendingInv
<1> QED
  BY <1>1, <1>2, <1>3, PTL DEF Spec
-----------------------------------------------------------------------------
(***************************************************************************)
(* What is on file: requests that are not lost, and results that were      *)
(* handed out.                                                             *)
(***************************************************************************)

Unread(status) == [status |-> status, consumed |-> FALSE]
New == Unread("pending")

\* A record that is there; one that is done with; one that promises an outcome.
Seen(record) == record.status # "absent"
Closed(record) == record.consumed /\ record.status = "completed"
Promising(record) ==
    \/ record.status \in {"completed", "failed"}
    \/ record.status \in {"pending", "interrupted"} /\ ~record.consumed

\* The status of a run that has a turn follows from where the handlers are.
StatusFits(r) ==
    IF turn[r] = "none" THEN ~attached[r] /\ settle[r] = "none" /\ entry[r] = "none"
    ELSE /\ settle[r] = "none" => mem[r] = New
         /\ settle[r] = "completing" => mem[r] = Unread("completed")
         /\ settle[r] = "failing" => mem[r] = Unread("failed")
         /\ settle[r] = "threw" => mem[r].status = "failed"
         /\ settle[r] = "done" /\ ~Resumed(r) => mem[r].status = "completed"
         /\ settle[r] \in {"done", "consuming"} => mem[r].status \in {"completed", "failed"}
         /\ settle[r] = "consuming" => Resumed(r)
         /\ settle[r] # "none" => attached[r]

TurnInv == \A r \in Runs : StatusFits(r)

\* What a run is: of a request, of a resumption, or not used.
OriginInv ==
    \A r \in Runs :
        /\ call[r] # "none" => origin[r] = r
        /\ call[origin[r]] = "none" => origin[r] = r
        /\ call[r] = "none" => resumable[r] /\ entry[r] = "none"
        /\ call[r] = "none" /\ origin[r] = r =>
               mem[r] = Absent /\ disk[r] = Absent /\ payload[r] = Absent /\ turn[r] = "none"
        /\ call[r] = "creating" => /\ turn[r] # "none" /\ ~attached[r]
                                   /\ disk[r] \in {Absent, New} /\ payload[r] \in {Absent, New}
        /\ call[r] = "lost" => turn[r] = "none"
        /\ entry[r] = "result" => settle[r] = "done"
        /\ entry[r] = "error" => settle[r] = "threw"
        /\ entry[r] # "none" => call[r] = "served"
        /\ call[r] = "served" /\ entry[r] = "none" =>
               turn[r] = "none" \/ settle[r] \in {"done", "threw"}

\* The file never has what the write under way, or the records, do not have.
GrowingInv ==
    \A r \in Runs :
        /\ Seen(disk[r]) => Seen(mem[r]) /\ (writing => Seen(payload[r]))
        /\ writing /\ Seen(payload[r]) => Seen(mem[r])
        /\ Closed(disk[r]) => Closed(mem[r]) /\ (writing => Closed(payload[r]))
        /\ writing /\ Closed(payload[r]) => Closed(mem[r])

\* Who waits for a write has asked for one; agent.wait takes what is completed.
RunWrites(r) ==
    /\ call[r] = "none" => Saved(<<"run", r>>)
    /\ call[r] = "creating" =>
         /\ Saved(<<"run", r>>) => Seen(disk[r])
         /\ writing /\ chain[1] = <<"run", r>> => Seen(payload[r])

WaitWrites(c) ==
    /\ wait[c] # "idle" => target[c] \in Runs /\ call[target[c]] = "served"
    /\ wait[c] \in {"idle", "blocked", "appending", "appendingBlocked"} => Saved(<<"wait", c>>)
    /\ wait[c] \in {"appending", "appendingBlocked", "taking", "takingBlocked"} =>
         /\ mem[target[c]].status = "completed"
         /\ turn[target[c]] = "none" \/ settle[target[c]] = "done"
    /\ wait[c] \in {"taking", "takingBlocked"} =>
         /\ Closed(mem[target[c]])
         /\ Saved(<<"wait", c>>) => Closed(disk[target[c]])
         /\ writing /\ chain[1] = <<"wait", c>> => Closed(payload[target[c]])

WriteInv ==
    /\ writing => chain # <<>>
    /\ \A r \in Runs : RunWrites(r)
    /\ \A c \in Clients : WaitWrites(c)

\* The resumption handles interrupted runs, and has the new one in the records
\* before it consumes the old one.
ResumeInv ==
    /\ \A r \in todo : mem[r].status = "interrupted" /\ turn[r] = "none"
    /\ resume = "creating" =>
         /\ current \in Runs /\ mem[current].status = "interrupted" /\ turn[current] = "none"
         /\ renewed \in Runs /\ origin[renewed] = origin[current]
    /\ resume \in {"creating", "consuming"} =>
         renewed \in Runs /\ turn[renewed] # "none" /\ ~attached[renewed] /\ Resumed(renewed)

\* A process that does not serve requests does nothing; one that is down has no writes.
UpInv ==
    /\ up # "up" => /\ \A r \in Runs : turn[r] = "none"
                    /\ \A c \in Clients : wait[c] = "idle"
                    /\ resume = "off" /\ todo = {}
    /\ up = "down" => chain = <<>> /\ ~writing

CarriedIn(records, q) == \E r \in Runs : origin[r] = q /\ Promising(records[r])

\* A request is carried by the records, and by every version of them on its way to the file.
CarriedInv ==
    \A q \in Runs :
        call[q] = "served" /\ resumable[q] /\ q \notin taken =>
            CarriedIn(mem, q) /\ CarriedIn(disk, q) /\ (writing => CarriedIn(payload, q))

DurableInv ==
    /\ TypeOK
    /\ TurnInv /\ OriginInv /\ GrowingInv /\ WriteInv /\ ResumeInv /\ UpInv /\ CarriedInv
    /\ ResultHandedOutForGood

-----------------------------------------------------------------------------
\* Who waits for a write, when one is added to the chain or done.
LEMMA ChainAppended ==
    ASSUME chain \in Seq(Owners), NEW o \in Owners, chain' = Append(chain, o)
    PROVE  /\ chain' \in Seq(Owners) /\ chain' # <<>>
           /\ \A p : Saved(p)' <=> Saved(p) /\ p # o
           /\ chain # <<>> => chain'[1] = chain[1]
<1>1. Len(chain) \in Nat /\ DOMAIN chain = 1..Len(chain)
  OBVIOUS
<1>2. /\ chain' \in Seq(Owners) /\ Len(chain') = Len(chain) + 1
      /\ \A i \in 1..Len(chain) : chain'[i] = chain[i]
      /\ chain'[Len(chain) + 1] = o
  BY <1>1
<1>3. DOMAIN chain' = 1..(Len(chain) + 1)
  BY <1>2
<1>4. ASSUME NEW p PROVE Saved(p)' <=> Saved(p) /\ p # o
  BY <1>1, <1>2, <1>3 DEF Saved
<1>5. chain # <<>> => chain'[1] = chain[1]
  BY <1>1, <1>2
<1>6. chain' # <<>>
  BY <1>1, <1>2
<1> QED
  BY <1>2, <1>4, <1>5, <1>6

\* Taking the first write of the chain leaves the others saved.
LEMMA ChainTaken ==
    ASSUME chain \in Seq(Owners), chain # <<>>, chain' = Tail(chain)
    PROVE  /\ chain' \in Seq(Owners)
           /\ \A p : Saved(p) => Saved(p)'
           /\ \A p : Saved(p)' => Saved(p) \/ chain[1] = p
<1>1. Len(chain) \in Nat /\ DOMAIN chain = 1..Len(chain) /\ Len(chain) >= 1
  OBVIOUS
<1>2. /\ chain' \in Seq(Owners) /\ Len(chain') = Len(chain) - 1
      /\ \A i \in 1..(Len(chain) - 1) : chain'[i] = chain[i + 1]
  BY <1>1
<1>3. DOMAIN chain' = 1..(Len(chain) - 1)
  BY <1>2
<1>4. ASSUME NEW p, Saved(p) PROVE Saved(p)'
  <2>1. ASSUME NEW i \in 1..(Len(chain) - 1) PROVE chain'[i] # p
    <3>1. i + 1 \in DOMAIN chain
      BY <1>1
    <3> QED
      BY <1>2, <1>4, <3>1 DEF Saved
  <2> QED
    BY <1>3, <2>1 DEF Saved
<1>5. ASSUME NEW p, Saved(p)', chain[1] # p PROVE Saved(p)
  <2>1. ASSUME NEW i \in 1..Len(chain) PROVE chain[i] # p
    <3>1. CASE i = 1
      BY <1>5, <3>1
    <3>2. CASE i # 1
      <4>1. i - 1 \in 1..(Len(chain) - 1) /\ i - 1 + 1 = i
        BY <1>1, <3>2
      <4>2. chain'[i - 1] # p
        BY <1>3, <1>5, <4>1 DEF Saved
      <4> QED
        BY <1>2, <4>1, <4>2
    <3> QED
      BY <3>1, <3>2
  <2> QED
    BY <1>1, <2>1 DEF Saved
<1> QED
  BY <1>2, <1>4, <1>5

\* Who may own a write.
LEMMA OwnersHas ==
    /\ \A r \in Runs : <<"run", r>> \in Owners /\ <<"settle", r>> \in Owners
    /\ \A c \in Clients : <<"wait", c>> \in Owners
    /\ <<"boot", None>> \in Owners /\ <<"resume", None>> \in Owners
BY DEF Owners

\* A record with a new status, and one that is consumed.
LEMMA MarkedRecord ==
    ASSUME mem \in [Runs -> Records], NEW r \in Runs, NEW o, NEW status \in Statuses,
           SetStatus(r, status), Persist(o)
    PROVE  /\ mem' = [mem EXCEPT ![r] = [status |-> status, consumed |-> mem[r].consumed]]
           /\ [status |-> status, consumed |-> mem[r].consumed] \in Records
<1>1. mem[r] \in Records
  OBVIOUS
<1>2. [mem[r] EXCEPT !.status = status] = [status |-> status, consumed |-> mem[r].consumed]
  BY <1>1 DEF Records
<1>3. mem' = [mem EXCEPT ![r] = [mem[r] EXCEPT !.status = status]]
  BY DEF SetStatus
<1> QED
  BY <1>1, <1>2, <1>3 DEF Records

\* A record that is there is consumed, and the chain gets a write.
LEMMA ConsumedRecord ==
    ASSUME mem \in [Runs -> Records], NEW r \in Runs, NEW o, Consume(r, o)
    PROVE  IF Seen(mem[r])
           THEN /\ mem' = [mem EXCEPT ![r] = [status |-> mem[r].status, consumed |-> TRUE]]
                /\ [status |-> mem[r].status, consumed |-> TRUE] \in Records
                /\ Persist(o)
           ELSE UNCHANGED storeVars
BY DEF Consume, Records, Seen

-----------------------------------------------------------------------------
\* Steps that leave the records alone: those of a turn and of its handlers ...
LEMMA ServeDurable == ASSUME DurableInv, NEW r \in Runs, Serve(r) PROVE DurableInv'
<1> USE DEF DurableInv
<1>1. /\ call[r] = "creating" /\ Saved(<<"run", r>>)
      /\ call' = [call EXCEPT ![r] = "served"] /\ attached' = [attached EXCEPT ![r] = TRUE]
      /\ entry' = [entry EXCEPT ![r] = "active"]
      /\ UNCHANGED <<mem, disk, chain, writing, payload, up, turn, settle, wait, target, resume,
                     todo, current, renewed, told, taken, resumable, origin, kills, faults>>
  BY DEF Serve, storeVars, waitVars, resVars, histVars, fixedVars
<1>2. turn[r] # "none" /\ ~attached[r] /\ settle[r] = "none" /\ origin[r] = r /\ mem[r] = New
  BY <1>1 DEF OriginInv, TurnInv, StatusFits, TypeOK
<1>3. disk[r] = New /\ (writing => payload[r] = New)
  <2>1. Seen(disk[r])
    BY <1>1 DEF WriteInv, RunWrites, WaitWrites
  <2>2. disk[r] \in {Absent, New} /\ payload[r] \in {Absent, New}
    BY <1>1 DEF OriginInv
  <2>3. disk[r] = New
    BY <2>1, <2>2 DEF Seen, Absent
  <2>4. writing => Seen(payload[r])
    BY <2>1 DEF GrowingInv
  <2> QED
    BY <2>2, <2>3, <2>4 DEF Seen, Absent
<1>4. TypeOK'
  BY <1>1 DEF TypeOK
<1>5. TurnInv'
  BY <1>1, <1>2 DEF TurnInv, StatusFits, TypeOK, Resumed
<1>6. OriginInv'
  BY <1>1, <1>2 DEF OriginInv, TypeOK
<1>7. GrowingInv'
  BY <1>1 DEF GrowingInv
<1>8. WriteInv'
  BY <1>1 DEF WriteInv, RunWrites, WaitWrites, TypeOK, Saved
<1>9. ResumeInv'
  BY <1>1, <1>2 DEF ResumeInv, TypeOK, Resumed
<1>10. UpInv'
  BY <1>1 DEF UpInv
<1>11. CarriedInv'
  <2>1. Promising(New)
    BY DEF Promising, New, Unread
  <2>2. CarriedIn(mem, r) /\ CarriedIn(disk, r) /\ (writing => CarriedIn(payload, r))
    BY <1>2, <1>3, <2>1 DEF CarriedIn
  <2>3. ASSUME NEW q \in Runs, (call[q] = "served" /\ resumable[q] /\ q \notin taken)'
        PROVE  CarriedIn(mem, q) /\ CarriedIn(disk, q) /\ (writing => CarriedIn(payload, q))
    <3>1. CASE q = r
      BY <2>2, <3>1
    <3>2. CASE q # r
      BY <1>1, <2>3, <3>2 DEF CarriedInv, TypeOK
    <3> QED
      BY <3>1, <3>2
  <2> QED
    BY <1>1, <2>3 DEF CarriedInv, CarriedIn
<1>12. ResultHandedOutForGood'
  BY <1>1 DEF ResultHandedOutForGood
<1> QED
  BY <1>4, <1>5, <1>6, <1>7, <1>8, <1>9, <1>10, <1>11, <1>12

\* ... those that settle it ...
LEMMA SettleDurable ==
    ASSUME DurableInv, NEW r \in Runs,
           Resolve(r) \/ Reject(r) \/ GatewayCompleted(r) \/ GatewayFailed(r) \/ ResumedDone(r)
    PROVE  DurableInv'
<1> USE DEF DurableInv
<1>1. UNCHANGED <<mem, disk, chain, writing, payload, up, call, attached, wait, target, resume,
                  todo, current, renewed, told, taken, resumable, origin, kills>>
  BY DEF Resolve, Reject, GatewayCompleted, GatewayFailed, ResumedDone, storeVars, waitVars,
         resVars, histVars, fixedVars
<1>2. /\ turn[r] # "none" /\ turn' \in [Runs -> {"none", "running", "resolved", "rejected"}]
      /\ turn'[r] # "none" /\ \A q \in Runs : q # r => turn'[q] = turn[q]
  BY DEF Resolve, Reject, GatewayCompleted, GatewayFailed, ResumedDone, TypeOK, Settling, TurnInv, StatusFits
<1>3. \/ UNCHANGED <<settle, entry>>
      \/ /\ ~Resumed(r) /\ settle[r] = "completing" /\ settle' = [settle EXCEPT ![r] = "done"]
         /\ entry' = [entry EXCEPT ![r] = "result"]
      \/ /\ ~Resumed(r) /\ settle[r] = "failing" /\ settle' = [settle EXCEPT ![r] = "threw"]
         /\ entry' = [entry EXCEPT ![r] = "error"]
      \/ settle[r] = "consuming" /\ settle' = [settle EXCEPT ![r] = "done"] /\ UNCHANGED entry
  BY DEF Resolve, Reject, GatewayCompleted, GatewayFailed, ResumedDone, Settling
<1>4. TypeOK'
  <2>1. faults' \in 0..MaxFaults
    BY BoundsAssumption DEF Resolve, Reject, GatewayCompleted, GatewayFailed, ResumedDone, TypeOK
  <2>2. /\ settle \in [Runs -> {"none", "completing", "failing", "consuming", "done", "threw"}]
        /\ entry \in [Runs -> {"none", "active", "result", "error"}]
    BY DEF TypeOK
  <2>3. settle' \in [Runs -> {"none", "completing", "failing", "consuming", "done", "threw"}]
    BY <1>3, <2>2
  <2>4. entry' \in [Runs -> {"none", "active", "result", "error"}]
    BY <1>3, <2>2
  <2> QED
    BY <1>1, <1>2, <2>1, <2>3, <2>4 DEF TypeOK
<1>13. settle'[r] # "none" => attached[r]
  BY <1>3 DEF TurnInv, StatusFits, TypeOK
<1>5. TurnInv'
  <2>1. ASSUME NEW q \in Runs, q # r
        PROVE  settle'[q] = settle[q] /\ entry'[q] = entry[q] /\ turn'[q] = turn[q]
    BY <1>2, <1>3, <2>1 DEF TypeOK
  <2>2. /\ settle'[r] = "none" => settle[r] = "none"
        /\ settle'[r] \in {"completing", "failing"} => settle'[r] = settle[r]
        /\ settle'[r] = "threw" => mem[r].status = "failed"
        /\ settle'[r] = "done" /\ ~Resumed(r) => mem[r].status = "completed"
        /\ settle'[r] \in {"done", "consuming"} => mem[r].status \in {"completed", "failed"}
        /\ settle'[r] = "consuming" => Resumed(r)
    <3>1. CASE UNCHANGED <<settle, entry>>
      BY <1>2, <3>1 DEF TurnInv, StatusFits
    <3>2. CASE settle[r] = "consuming" /\ settle' = [settle EXCEPT ![r] = "done"]
      <4>1. Resumed(r)
        BY <3>2 DEF TurnInv, StatusFits
      <4> QED
        BY <1>2, <3>2, <4>1 DEF TurnInv, StatusFits, TypeOK
    <3>3. CASE ~(UNCHANGED settle \/ settle[r] = "consuming")
      BY <1>2, <1>3, <3>3 DEF TurnInv, StatusFits, TypeOK, New, Unread
    <3> QED
      BY <1>3, <3>1, <3>2, <3>3
  <2>3. ASSUME NEW q \in Runs, q # r PROVE StatusFits(q)'
    BY <1>1, <2>1, <2>3 DEF TurnInv, StatusFits, Resumed
  <2> QED
    BY <1>1, <1>2, <1>13, <2>2, <2>3 DEF TurnInv, StatusFits, Resumed
<1>6. OriginInv'
  <2>1. ASSUME entry' # entry PROVE call[r] = "served"
    BY <1>2, <1>3, <1>13, <2>1 DEF OriginInv, TypeOK, Resumed
  <2> QED
    BY <1>1, <1>2, <1>3, <2>1 DEF OriginInv, TypeOK, TurnInv, StatusFits
<1>7. GrowingInv'
  BY <1>1 DEF GrowingInv
<1>8. WriteInv'
  <2>1. \A o : Saved(o)' <=> Saved(o)
    BY <1>1 DEF Saved
  <2>2. \A q \in Runs : turn[q] = "none" \/ settle[q] = "done" => turn'[q] = "none" \/ settle'[q] = "done"
    BY <1>2, <1>3 DEF TypeOK
  <2>3. \A q \in Runs : RunWrites(q)'
    BY <1>1, <2>1 DEF WriteInv, RunWrites
  <2>4. \A c \in Clients : WaitWrites(c)'
    BY <1>1, <2>1, <2>2 DEF WriteInv, WaitWrites
  <2> QED
    BY <1>1, <2>3, <2>4 DEF WriteInv
<1>9. ResumeInv'
  BY <1>1, <1>2 DEF ResumeInv, TypeOK, Resumed
<1>10. UpInv'
  BY <1>1, <1>2 DEF UpInv
<1>11. CarriedInv'
  BY <1>1 DEF CarriedInv, CarriedIn
<1>12. ResultHandedOutForGood'
  BY <1>1 DEF ResultHandedOutForGood
<1> QED
  BY <1>4, <1>5, <1>6, <1>7, <1>8, <1>9, <1>10, <1>11, <1>12

\* ... and those of agent.wait that only look, drop an entry or answer.
LEMMA WaitDurable ==
    ASSUME DurableInv, NEW c \in Clients,
           \/ \E r \in Runs : \/ WaitBlocks(c, r) \/ WaitResult(c, r)
                              \/ WaitStoredResult(c, r) \/ WaitGone(c, r)
           \/ BlockedResolves(c) \/ BlockedRejects(c) \/ WaitAppendFails(c)
           \/ AnswerResult(c) \/ AnswerError(c)
    PROVE  DurableInv'
<1> USE DEF DurableInv
<1> DEFINE Looking == {"idle", "blocked"}
           Holding == {"appending", "appendingBlocked"}
           Over(r) == turn[r] = "none" \/ settle[r] \in {"done", "threw"}
           Has(r) == mem[r].status = "completed" /\ (turn[r] = "none" \/ settle[r] = "done")
           Looks(t) ==
             /\ call[t] = "served" /\ target' = [target EXCEPT ![c] = t]
             /\ UNCHANGED entry \/ (Over(t) /\ entry' = [entry EXCEPT ![t] = "none"])
             /\ \/ UNCHANGED told
                \/ \E a \in {"error", "gone"} : told' = [told EXCEPT ![t] = a]
                \/ Closed(disk[t]) /\ told' = [told EXCEPT ![t] = "result"]
             /\ Saved(<<"wait", c>>)
             /\ \/ \E to \in Looking : wait' = [wait EXCEPT ![c] = to]
                \/ \E to \in Holding : wait' = [wait EXCEPT ![c] = to] /\ Has(t)
<1>1. UNCHANGED <<mem, disk, chain, writing, payload, up, call, turn, attached, settle, resume,
                  todo, current, renewed, taken, resumable, origin, kills>>
  BY DEF WaitBlocks, WaitResult, WaitStoredResult, WaitGone, BlockedResolves, BlockedRejects,
         WaitAppendFails, AnswerResult, AnswerError, storeVars, procVars, resVars, histVars,
         fixedVars
<1>2. up = "up"
  BY DEF WaitBlocks, WaitResult, WaitStoredResult, WaitGone, BlockedResolves, BlockedRejects,
         WaitAppendFails, AnswerResult, AnswerError, Calls, UpInv
<1>3. PICK t \in Runs : Looks(t)
  <2>1. ASSUME NEW r \in Runs, WaitBlocks(c, r) \/ WaitGone(c, r) PROVE Looks(r)
    <3>1. call[r] = "served" /\ target' = [target EXCEPT ![c] = r] /\ wait[c] = "idle" /\ UNCHANGED entry
      BY <2>1 DEF WaitBlocks, WaitGone, Calls, procVars
    <3>2. \E to \in Looking : wait' = [wait EXCEPT ![c] = to]
      BY <2>1, <3>1 DEF WaitBlocks, WaitGone, Waiting, TypeOK
    <3> QED
      BY <2>1, <3>1, <3>2 DEF WaitBlocks, WaitGone, Tell, WriteInv, RunWrites, WaitWrites, histVars
  <2>2. ASSUME NEW r \in Runs, WaitResult(c, r) \/ WaitStoredResult(c, r) PROVE Looks(r)
    <3>1. call[r] = "served" /\ target' = [target EXCEPT ![c] = r] /\ wait[c] = "idle" /\ UNCHANGED told
          /\ wait' = [wait EXCEPT ![c] = "appending"]
      BY <2>2 DEF WaitResult, WaitStoredResult, Calls, Waiting, histVars
    <3>2. origin[r] = r /\ Saved(<<"wait", c>>)
      BY <3>1 DEF OriginInv, WriteInv, RunWrites, WaitWrites
    <3>3. CASE WaitResult(c, r)
      <4>1. entry[r] = "result" /\ entry' = [entry EXCEPT ![r] = "none"]
        BY <3>3 DEF WaitResult, Drop
      <4>2. settle[r] = "done" /\ mem[r].status = "completed"
        BY <3>2, <4>1 DEF OriginInv, TurnInv, StatusFits, Resumed
      <4> QED
        BY <3>1, <3>2, <4>1, <4>2
    <3>4. CASE WaitStoredResult(c, r)
      <4>1. entry[r] = "none" /\ mem[r].status = "completed" /\ UNCHANGED entry
        BY <3>4 DEF WaitStoredResult, procVars
      <4>2. Has(r)
        BY <3>1, <4>1 DEF OriginInv, TurnInv, StatusFits
      <4> QED
        BY <3>1, <3>2, <4>1, <4>2
    <3> QED
      BY <2>2, <3>3, <3>4
  <2> DEFINE t == target[c]
  <2>3. ASSUME wait[c] # "idle", UNCHANGED target
        PROVE  t \in Runs /\ call[t] = "served" /\ target' = [target EXCEPT ![c] = t] /\ origin[t] = t
    <3>1. t \in Runs /\ call[t] = "served"
      BY <2>3 DEF WriteInv, RunWrites, WaitWrites
    <3>2. target = [target EXCEPT ![c] = t]
      BY DEF TypeOK
    <3> QED
      BY <2>3, <3>1, <3>2 DEF OriginInv
  <2>4. CASE BlockedResolves(c)
    <3>1. wait[c] = "blocked" /\ settle[t] = "done" /\ wait' = [wait EXCEPT ![c] = "appendingBlocked"]
          /\ UNCHANGED <<target, entry, told>>
      BY <2>4 DEF BlockedResolves, Waiting, procVars, histVars
    <3>2. Has(t) /\ Saved(<<"wait", c>>)
      BY <2>3, <3>1 DEF TurnInv, StatusFits, Resumed, WriteInv, RunWrites, WaitWrites
    <3> QED
      BY <2>3, <3>1, <3>2
  <2>5. CASE BlockedRejects(c)
    <3>1. wait[c] = "blocked" /\ settle[t] = "threw" /\ wait' = [wait EXCEPT ![c] = "idle"]
          /\ entry' = [entry EXCEPT ![t] = "none"] /\ told' = [told EXCEPT ![t] = "error"]
          /\ UNCHANGED target
      BY <2>5 DEF BlockedRejects, Waiting, Drop, Tell
    <3> QED
      BY <2>3, <3>1 DEF WriteInv, RunWrites, WaitWrites
  <2>6. CASE WaitAppendFails(c)
    <3>1. wait[c] \in {"appending", "appendingBlocked"} /\ wait' = [wait EXCEPT ![c] = "idle"]
          /\ (UNCHANGED entry \/ entry' = [entry EXCEPT ![t] = "none"])
          /\ UNCHANGED <<target, told>>
      BY <2>6 DEF WaitAppendFails, Waiting, Drop, histVars
    <3>2. Over(t) /\ Saved(<<"wait", c>>)
      BY <3>1 DEF WriteInv, RunWrites, WaitWrites
    <3> QED
      BY <2>3, <3>1, <3>2
  <2>7. CASE AnswerResult(c)
    <3>1. wait[c] \in {"taking", "takingBlocked"} /\ wait' = [wait EXCEPT ![c] = "idle"]
          /\ (UNCHANGED entry \/ entry' = [entry EXCEPT ![t] = "none"])
          /\ told' = [told EXCEPT ![t] = "result"] /\ Saved(<<"wait", c>>) /\ UNCHANGED target
      BY <2>7 DEF AnswerResult, Waiting, Drop, Tell
    <3>2. Over(t) /\ Closed(disk[t])
      BY <3>1 DEF WriteInv, RunWrites, WaitWrites
    <3> QED
      BY <2>3, <3>1, <3>2
  <2>8. CASE AnswerError(c)
    <3>1. wait[c] = "takingError" /\ wait' = [wait EXCEPT ![c] = "idle"] /\ UNCHANGED entry
          /\ told' = [told EXCEPT ![t] = "error"] /\ Saved(<<"wait", c>>) /\ UNCHANGED target
      BY <2>8 DEF AnswerError, Waiting, Tell, procVars
    <3> QED
      BY <2>3, <3>1
  <2>9. CASE BlockedResolves(c) \/ BlockedRejects(c) \/ WaitAppendFails(c)
             \/ AnswerResult(c) \/ AnswerError(c)
    <3>1. wait[c] # "idle" /\ UNCHANGED target
      BY <2>9 DEF BlockedResolves, BlockedRejects, WaitAppendFails, AnswerResult, AnswerError
    <3>2. t \in Runs
      BY <2>3, <3>1
    <3> HIDE DEF Looks
    <3> QED
      BY <2>4, <2>5, <2>6, <2>7, <2>8, <2>9, <3>2
  <2> HIDE DEF Looks
  <2> QED
    BY <2>1, <2>2, <2>9
<1>4. faults' \in 0..MaxFaults
  BY BoundsAssumption DEF WaitBlocks, WaitResult, WaitStoredResult, WaitGone, BlockedResolves,
     BlockedRejects, WaitAppendFails, AnswerResult, AnswerError, TypeOK
<1>5. TypeOK'
  <2>1. target' \in [Clients -> Runs \cup {None}]
    <3>1. target' = [target EXCEPT ![c] = t]
      BY <1>3
    <3> QED
      BY <3>1 DEF TypeOK
  <2>4. entry' \in [Runs -> {"none", "active", "result", "error"}]
    BY <1>3 DEF TypeOK
  <2>2. told' \in [Runs -> {"nothing", "result", "error", "gone"}]
    BY <1>3 DEF TypeOK
  <2>3. wait' \in [Clients -> {"idle", "blocked", "appending", "appendingBlocked",
                             "taking", "takingBlocked", "takingError"}]
    <3>1. PICK to \in Looking \cup Holding : wait' = [wait EXCEPT ![c] = to]
      BY <1>3
    <3> QED
      BY <3>1 DEF TypeOK
  <2> QED
    BY <1>1, <1>4, <2>1, <2>2, <2>3, <2>4 DEF TypeOK
<1>6. TurnInv'
  BY <1>1, <1>3 DEF TurnInv, StatusFits, TypeOK, Resumed
<1>7. OriginInv'
  BY <1>1, <1>3 DEF OriginInv, TypeOK
<1>8. GrowingInv'
  BY <1>1 DEF GrowingInv
<1>9. WriteInv'
  <2>1. \A d \in Clients : d # c => wait'[d] = wait[d] /\ target'[d] = target[d]
    BY <1>3 DEF TypeOK
  <2>2. target'[c] = t /\ (wait'[c] \in Looking \/ (wait'[c] \in Holding /\ Has(t)))
    BY <1>3 DEF TypeOK
  <2>3. Saved(<<"wait", c>>) /\ call[t] = "served"
    BY <1>3
  <2>4. \A o : Saved(o)' <=> Saved(o)
    BY <1>1 DEF Saved
  <2> QED
    BY <1>1, <2>1, <2>2, <2>3, <2>4 DEF WriteInv, RunWrites, WaitWrites
<1>10. ResumeInv' /\ UpInv'
  BY <1>1, <1>2 DEF ResumeInv, UpInv, Resumed
<1>11. CarriedInv'
  BY <1>1 DEF CarriedInv, CarriedIn
<1>12. ResultHandedOutForGood'
  BY <1>1, <1>3 DEF ResultHandedOutForGood, Closed, TypeOK
<1> QED
  BY <1>5, <1>6, <1>7, <1>8, <1>9, <1>10, <1>11, <1>12

-----------------------------------------------------------------------------
\* One record changes, and keeps what it had.
LEMMA RecordGrows ==
    ASSUME TypeOK, GrowingInv, NEW r \in Runs, NEW record,
           mem' = [mem EXCEPT ![r] = record], UNCHANGED <<disk, writing, payload>>,
           Seen(record), Closed(mem[r]) => Closed(record)
    PROVE  GrowingInv'
<1>1. mem'[r] = record /\ \A q \in Runs : q # r => mem'[q] = mem[q]
  BY DEF TypeOK
<1> QED
  BY <1>1 DEF GrowingInv

\* A request stays carried if the record that changes still promises an outcome,
\* or another one of the same request does, or agent.wait has taken it.
LEMMA PromiseKept ==
    ASSUME TypeOK, CarriedInv, NEW r \in Runs, NEW record,
           mem' = [mem EXCEPT ![r] = record],
           UNCHANGED <<disk, writing, payload, call, resumable, origin>>, taken \subseteq taken',
           \/ Promising(record) \/ ~Promising(mem[r]) \/ origin[r] \in taken'
           \/ ~resumable[origin[r]]
           \/ \E n \in Runs : n # r /\ origin[n] = origin[r] /\ Promising(mem[n])
    PROVE  CarriedInv'
<1>1. mem'[r] = record /\ \A q \in Runs : q # r => mem'[q] = mem[q]
  BY DEF TypeOK
<1> SUFFICES ASSUME NEW q \in Runs, call[q] = "served", resumable[q], q \notin taken'
             PROVE  CarriedIn(mem', q)
  BY DEF CarriedInv, CarriedIn
<1>2. PICK n \in Runs : origin[n] = q /\ Promising(mem[n])
  BY DEF CarriedInv, CarriedIn
<1>3. CASE n # r
  BY <1>1, <1>2, <1>3 DEF CarriedIn
<1>4. CASE n = r
  BY <1>1, <1>2, <1>4 DEF CarriedIn
<1> QED
  BY <1>3, <1>4

\* A write is added for someone else than agent.run and agent.wait, and what
\* those have seen completed stays so.
LEMMA WriteAdded ==
    ASSUME TypeOK, WriteInv, NEW o \in Owners, chain' = Append(chain, o),
           \A r \in Runs : o # <<"run", r>>, \A c \in Clients : o # <<"wait", c>>,
           UNCHANGED <<disk, writing, payload, call, wait, target>>,
           \A r \in Runs :
               mem[r].status = "completed" /\ (turn[r] = "none" \/ settle[r] = "done")
                   => /\ mem'[r].status = "completed"
                      /\ turn'[r] = "none" \/ settle'[r] = "done"
                      /\ Closed(mem[r]) => Closed(mem'[r])
    PROVE  WriteInv'
<1>1. /\ chain' # <<>> /\ \A p : Saved(p)' <=> Saved(p) /\ p # o
      /\ chain # <<>> => chain'[1] = chain[1]
  BY ChainAppended DEF TypeOK
<1>2. writing => chain # <<>>
  BY DEF WriteInv, RunWrites, WaitWrites
<1> QED
  BY <1>1, <1>2 DEF WriteInv, RunWrites, WaitWrites

-----------------------------------------------------------------------------
\* The handlers of a turn mark its record.
LEMMA MarkDurable ==
    ASSUME DurableInv, NEW r \in Runs, HandleResolved(r) \/ HandleRejected(r) \/ AppendFails(r)
    PROVE  DurableInv'
<1> USE DEF DurableInv
<1>1. UNCHANGED <<disk, writing, payload, up, call, turn, attached, entry, wait, target, resume,
                  todo, current, renewed, told, taken, resumable, origin, kills>>
      /\ chain' = Append(chain, <<"settle", r>>)
  BY DEF HandleResolved, HandleRejected, AppendFails, MarkCompleted, MarkFailed, Persist, waitVars,
         resVars, histVars, fixedVars
<1>2. attached[r] /\ settle[r] \in {"none", "completing"} /\ turn[r] # "none"
  <2>1. attached[r] /\ settle[r] \in {"none", "completing"}
    BY DEF HandleResolved, HandleRejected, AppendFails, Settling, TurnInv, StatusFits
  <2> QED
    BY <2>1 DEF TurnInv, StatusFits
<1>3. mem[r].status \in {"pending", "completed"} /\ mem[r].consumed = FALSE
  BY <1>2 DEF TurnInv, StatusFits, New, Unread
<1>4. PICK status \in {"completed", "failed"} :
        /\ mem' = [mem EXCEPT ![r] = Unread(status)]
        /\ settle' = [settle EXCEPT ![r] = IF status = "completed" THEN "completing" ELSE "failing"]
  <2>1. PICK status \in {"completed", "failed"} :
          /\ SetStatus(r, status) /\ Persist(<<"settle", r>>)
          /\ settle' = [settle EXCEPT ![r] = IF status = "completed" THEN "completing" ELSE "failing"]
    BY DEF HandleResolved, HandleRejected, AppendFails, MarkCompleted, MarkFailed, Settling
  <2>2. status \in Statuses /\ mem \in [Runs -> Records]
    BY DEF Statuses, TypeOK
  <2>3. mem' = [mem EXCEPT ![r] = [status |-> status, consumed |-> mem[r].consumed]]
    BY <2>1, <2>2, MarkedRecord
  <2>4. [status |-> status, consumed |-> FALSE] = Unread(status)
    BY DEF Unread
  <2> QED
    BY <1>3, <2>1, <2>3, <2>4
<1> DEFINE record == Unread(status)
<1>5. record \in Records /\ record.status = status /\ record.consumed = FALSE
  BY DEF New, Unread, Records, Statuses
<1>6. TypeOK'
  <2>1. faults' \in 0..MaxFaults
    BY BoundsAssumption DEF HandleResolved, HandleRejected, AppendFails, TypeOK
  <2>2. chain' \in Seq(Owners)
    BY <1>1, ChainAppended, OwnersHas DEF TypeOK
  <2>3. mem' \in [Runs -> Records]
    BY <1>4, <1>5 DEF TypeOK
  <2>4. settle' \in [Runs -> {"none", "completing", "failing", "consuming", "done", "threw"}]
    BY <1>4 DEF TypeOK
  <2> QED
    BY <1>1, <2>1, <2>2, <2>3, <2>4 DEF TypeOK
<1>7. TurnInv'
  <2>1. ASSUME NEW q \in Runs, q # r PROVE StatusFits(q)'
    <3>1. mem'[q] = mem[q] /\ settle'[q] = settle[q]
      BY <1>4, <2>1 DEF TypeOK
    <3> QED
      BY <1>1, <3>1 DEF TurnInv, StatusFits, Resumed
  <2>2. mem'[r] = record /\ settle'[r] = IF status = "completed" THEN "completing" ELSE "failing"
    BY <1>4 DEF TypeOK
  <2>3. StatusFits(r)'
    BY <1>1, <1>2, <2>2 DEF StatusFits
  <2> QED
    BY <2>1, <2>3 DEF TurnInv
<1>8. OriginInv'
  <2>1. call[r] # "creating" /\ ~(call[r] = "none" /\ origin[r] = r) /\ entry[r] \notin {"result", "error"}
    BY <1>2 DEF OriginInv
  <2>2. \A q \in Runs : q # r => mem'[q] = mem[q] /\ settle'[q] = settle[q]
    BY <1>4 DEF TypeOK
  <2>3. call[r] = "served" /\ entry[r] = "none" => FALSE
    BY <1>2 DEF OriginInv
  <2> QED
    BY <1>1, <2>1, <2>2, <2>3 DEF OriginInv
<1>9. GrowingInv'
  <2>1. Seen(record) /\ ~Closed(mem[r])
    BY <1>3, <1>5 DEF Seen, Closed
  <2> HIDE DEF record
  <2> QED
    BY <1>1, <1>4, <2>1, RecordGrows DEF record
<1>10. WriteInv'
  <2>1. \A q \in Runs : q # r => mem'[q] = mem[q] /\ settle'[q] = settle[q]
    BY <1>4 DEF TypeOK
  <2>2. ~(turn[r] = "none" \/ settle[r] = "done")
    BY <1>2
  <2>3. WriteInv /\ TypeOK
    OBVIOUS
  <2>4. /\ <<"settle", r>> \in Owners /\ chain' = Append(chain, <<"settle", r>>)
        /\ \A q \in Runs : <<"settle", r>> # <<"run", q>>
        /\ \A c \in Clients : <<"settle", r>> # <<"wait", c>>
    BY <1>1, OwnersHas
  <2>5. \A q \in Runs :
            mem[q].status = "completed" /\ (turn[q] = "none" \/ settle[q] = "done")
                => /\ mem'[q].status = "completed"
                   /\ turn'[q] = "none" \/ settle'[q] = "done"
                   /\ Closed(mem[q]) => Closed(mem'[q])
    BY <1>1, <2>1, <2>2 DEF Closed
  <2> HIDE DEF DurableInv
  <2> QED
    BY <1>1, <2>3, <2>4, <2>5, WriteAdded
<1>11. ResumeInv'
  <2>1. \A q \in Runs : q # r => mem'[q] = mem[q]
    BY <1>4 DEF TypeOK
  <2>2. r \notin todo /\ todo \subseteq Runs /\ (resume = "creating" => current # r)
    BY <1>2 DEF ResumeInv, TypeOK
  <2>3. \A q \in todo : mem'[q] = mem[q]
    BY <2>1, <2>2
  <2>4. resume = "creating" => current \in Runs /\ mem'[current] = mem[current]
    BY <2>1, <2>2 DEF ResumeInv
  <2>5. ResumeInv
    OBVIOUS
  <2> HIDE DEF DurableInv, record
  <2> QED
    BY <1>1, <2>3, <2>4, <2>5 DEF ResumeInv, Resumed
<1>12. UpInv'
  <2>1. up = "up"
    BY <1>2 DEF UpInv
  <2> QED
    BY <1>1, <2>1 DEF UpInv
<1>13. CarriedInv'
  <2>1. Promising(record)
    BY <1>5 DEF Promising
  <2> HIDE DEF record
  <2> QED
    BY <1>1, <1>4, <2>1, PromiseKept DEF record
<1>14. ResultHandedOutForGood'
  BY <1>1 DEF ResultHandedOutForGood
<1> QED
  BY <1>6, <1>7, <1>8, <1>9, <1>10, <1>11, <1>12, <1>13, <1>14

-----------------------------------------------------------------------------
\* A run that no handler is on its way to mark: its record may be consumed.
AtRest(r) == turn[r] = "none" \/ settle[r] \in {"done", "threw"}

Read(status) == [status |-> status, consumed |-> TRUE]

\* A record is consumed: its status stays, and a write is added.
LEMMA ReadRecord ==
    ASSUME TypeOK, NEW r \in Runs, NEW o, Consume(r, o), Seen(mem[r])
    PROVE  /\ mem' = [mem EXCEPT ![r] = Read(mem[r].status)]
           /\ mem' \in [Runs -> Records]
           /\ mem'[r] = Read(mem[r].status) /\ \A q \in Runs : q # r => mem'[q] = mem[q]
           /\ \A q \in Runs : mem'[q].status = mem[q].status
           /\ chain' = Append(chain, o)
           /\ UNCHANGED <<disk, writing, payload>>
<1>1. /\ mem' = [mem EXCEPT ![r] = [status |-> mem[r].status, consumed |-> TRUE]]
      /\ [status |-> mem[r].status, consumed |-> TRUE] \in Records /\ Persist(o)
  BY ConsumedRecord DEF TypeOK
<1>2. mem' = [mem EXCEPT ![r] = Read(mem[r].status)] /\ Read(mem[r].status) \in Records
  BY <1>1 DEF Read
<1>3. mem'[r] = Read(mem[r].status) /\ \A q \in Runs : q # r => mem'[q] = mem[q]
  BY <1>2 DEF TypeOK
<1>4. Read(mem[r].status).status = mem[r].status
  BY DEF Read
<1>5. mem' \in [Runs -> Records]
  BY <1>2 DEF TypeOK
<1> QED
  BY <1>1, <1>2, <1>3, <1>4, <1>5 DEF Persist

\* Consuming the record of a run at rest disturbs neither its turn nor what the
\* file has; entries may be dropped.
LEMMA ReadDurable ==
    ASSUME TypeOK, TurnInv, OriginInv, GrowingInv, UpInv, NEW r \in Runs, NEW o,
           Consume(r, o), Seen(mem[r]), AtRest(r),
           UNCHANGED <<up, call, turn, attached, settle, resumable, origin>>,
           entry' = entry \/ entry' = [entry EXCEPT ![r] = "none"]
    PROVE  TurnInv' /\ OriginInv' /\ GrowingInv'
<1>1. /\ mem' = [mem EXCEPT ![r] = Read(mem[r].status)]
      /\ mem'[r] = Read(mem[r].status) /\ \A q \in Runs : q # r => mem'[q] = mem[q]
      /\ mem'[r].status = mem[r].status /\ UNCHANGED <<disk, writing, payload>>
  BY ReadRecord
<1>2. entry'[r] \in {entry[r], "none"} /\ \A q \in Runs : q # r => entry'[q] = entry[q]
  BY DEF TypeOK
<1>3. TurnInv'
  <2>1. ASSUME NEW q \in Runs, q # r PROVE StatusFits(q)'
    BY <1>1, <1>2, <2>1 DEF TurnInv, StatusFits, Resumed
  <2>2. StatusFits(r)'
    BY <1>1, <1>2 DEF TurnInv, StatusFits, Resumed, AtRest
  <2> QED
    BY <2>1, <2>2 DEF TurnInv
<1>4. OriginInv'
  <2>1. ~(call[r] = "none" /\ origin[r] = r)
    BY DEF OriginInv, Seen, Absent
  <2> QED
    BY <1>1, <1>2, <2>1 DEF OriginInv, AtRest, TypeOK
<1>5. GrowingInv'
  <2>1. Seen(Read(mem[r].status)) /\ (Closed(mem[r]) => Closed(Read(mem[r].status)))
    BY DEF Seen, Closed, Read
  <2> QED
    BY <1>1, <2>1, RecordGrows
<1> QED
  BY <1>3, <1>4, <1>5

\* agent.wait consumes a record.
LEMMA TakeDurable ==
    ASSUME DurableInv, NEW c \in Clients,
           TakeResult(c) \/ \E r \in Runs : WaitError(c, r) \/ WaitStoredError(c, r)
    PROVE  DurableInv'
<1> USE DEF DurableInv
<1> DEFINE Taking == {"taking", "takingBlocked"}
           Takes(t) ==
             /\ call[t] = "served" /\ target' = [target EXCEPT ![c] = t]
             /\ Consume(t, <<"wait", c>>) /\ taken' = taken \cup {t}
             /\ Seen(mem[t]) /\ AtRest(t)
             /\ entry' = entry \/ entry' = [entry EXCEPT ![t] = "none"]
             /\ wait[c] \in {"idle", "blocked", "appending", "appendingBlocked"}
             /\ \/ wait' = [wait EXCEPT ![c] = "takingError"]
                \/ /\ \E to \in Taking : wait' = [wait EXCEPT ![c] = to]
                   /\ mem[t].status = "completed" /\ (turn[t] = "none" \/ settle[t] = "done")
<1>1. UNCHANGED <<up, call, turn, attached, settle, resume, todo, current, renewed, told,
                  resumable, origin, kills, faults>>
  BY DEF TakeResult, WaitError, WaitStoredError, procVars, resVars, histVars, fixedVars
<1>2. PICK t \in Runs : Takes(t)
  <2>1. ASSUME NEW r \in Runs, WaitError(c, r) PROVE Takes(r)
    <3>1. /\ call[r] = "served" /\ target' = [target EXCEPT ![c] = r] /\ wait[c] = "idle"
          /\ Consume(r, <<"wait", c>>) /\ taken' = taken \cup {r}
          /\ entry[r] = "error" /\ entry' = [entry EXCEPT ![r] = "none"]
          /\ wait' = [wait EXCEPT ![c] = "takingError"]
      BY <2>1 DEF WaitError, Calls, Waiting, Drop
    <3>2. settle[r] = "threw" /\ mem[r].status = "failed"
      BY <3>1 DEF OriginInv, TurnInv, StatusFits
    <3> QED
      BY <3>1, <3>2 DEF Seen, AtRest
  <2>2. ASSUME NEW r \in Runs, WaitStoredError(c, r) PROVE Takes(r)
    <3>1. /\ call[r] = "served" /\ target' = [target EXCEPT ![c] = r] /\ wait[c] = "idle"
          /\ Consume(r, <<"wait", c>>) /\ taken' = taken \cup {r}
          /\ entry[r] = "none" /\ entry' = entry /\ Seen(mem[r])
          /\ wait' = [wait EXCEPT ![c] = "takingError"]
      BY <2>2 DEF WaitStoredError, Calls, Waiting, procVars, Visible, Seen
    <3> QED
      BY <3>1 DEF OriginInv, AtRest
  <2>3. CASE TakeResult(c)
    <3> DEFINE g == target[c]
    <3>1. /\ wait[c] \in {"appending", "appendingBlocked"} /\ target' = target /\ entry' = entry
          /\ Consume(g, <<"wait", c>>) /\ taken' = taken \cup {g}
          /\ \E to \in Taking : wait' = [wait EXCEPT ![c] = to]
      BY <2>3 DEF TakeResult, Waiting, procVars
    <3>2. /\ g \in Runs /\ call[g] = "served" /\ mem[g].status = "completed"
          /\ turn[g] = "none" \/ settle[g] = "done"
      BY <3>1 DEF WriteInv, RunWrites, WaitWrites
    <3>3. target = [target EXCEPT ![c] = g]
      BY DEF TypeOK
    <3>4. Takes(g)
      BY <3>1, <3>2, <3>3 DEF Seen, AtRest
    <3> HIDE DEF g, Takes
    <3> QED
      BY <3>2, <3>4
  <2> HIDE DEF Takes
  <2> QED
    BY <2>1, <2>2, <2>3
<1>3. /\ mem' = [mem EXCEPT ![t] = Read(mem[t].status)] /\ mem' \in [Runs -> Records]
      /\ mem'[t] = Read(mem[t].status) /\ \A q \in Runs : q # t => mem'[q] = mem[q]
      /\ \A q \in Runs : mem'[q].status = mem[q].status
      /\ chain' = Append(chain, <<"wait", c>>) /\ UNCHANGED <<disk, writing, payload>>
  BY <1>2, ReadRecord
<1>4. /\ chain' \in Seq(Owners) /\ chain' # <<>>
      /\ \A p : Saved(p)' <=> Saved(p) /\ p # <<"wait", c>>
      /\ chain # <<>> => chain'[1] = chain[1]
  BY <1>3, ChainAppended, OwnersHas DEF TypeOK
<1>5. up = "up"
  BY DEF TakeResult, WaitError, WaitStoredError, Calls, UpInv
<1>6. TypeOK'
  <2>1. target' \in [Clients -> Runs \cup {None}]
    <3>1. target' = [target EXCEPT ![c] = t]
      BY <1>2
    <3> QED
      BY <3>1 DEF TypeOK
  <2>2. entry' \in [Runs -> {"none", "active", "result", "error"}] /\ taken' \subseteq Runs
    BY <1>2 DEF TypeOK
  <2>3. wait' \in [Clients -> {"idle", "blocked", "appending", "appendingBlocked",
                             "taking", "takingBlocked", "takingError"}]
    <3>1. PICK to \in Taking \cup {"takingError"} : wait' = [wait EXCEPT ![c] = to]
      BY <1>2
    <3> QED
      BY <3>1 DEF TypeOK
  <2> QED
    BY <1>1, <1>3, <1>4, <2>1, <2>2, <2>3 DEF TypeOK
<1>7. TurnInv' /\ OriginInv' /\ GrowingInv'
  BY <1>1, <1>2, ReadDurable
<1>8. WriteInv'
  <2>1. \A d \in Clients : d # c => wait'[d] = wait[d] /\ target'[d] = target[d]
    BY <1>2 DEF TypeOK
  <2>2. /\ target'[c] = t /\ call[t] = "served"
        /\ \/ wait'[c] = "takingError"
           \/ /\ wait'[c] \in Taking /\ mem[t].status = "completed"
              /\ turn[t] = "none" \/ settle[t] = "done"
    BY <1>2 DEF TypeOK
  <2>3. Saved(<<"wait", c>>) /\ (writing => chain # <<>>)
    BY <1>2 DEF WriteInv, RunWrites, WaitWrites
  <2>4. writing => chain'[1] = chain[1] /\ chain[1] # <<"wait", c>>
    <3>1. chain # <<>> => 1 \in DOMAIN chain
      BY DEF TypeOK
    <3> QED
      BY <1>4, <2>3, <3>1 DEF Saved
  <2>5. mem[t].status = "completed" => Closed(mem'[t])
    BY <1>3 DEF Closed, Read
  <2>6. \A q \in Runs : Closed(mem[q]) => Closed(mem'[q])
    BY <1>3 DEF Closed, Read
  <2>7. ASSUME NEW r \in Runs
        PROVE  RunWrites(r)'
    BY <1>1, <1>3, <1>4, <2>4 DEF WriteInv, RunWrites, WaitWrites
  <2>8. ASSUME NEW d \in Clients, d # c
        PROVE  WaitWrites(d)'
    <3>1. WaitWrites(d) /\ wait'[d] = wait[d] /\ target'[d] = target[d]
      BY <2>1, <2>8 DEF WriteInv
    <3>2. wait'[d] # "idle" => target'[d] \in Runs /\ call'[target'[d]] = "served"
      BY <1>1, <3>1 DEF WaitWrites
    <3>3. Saved(<<"wait", d>>)' <=> Saved(<<"wait", d>>)
      BY <1>4, <2>8
    <3>4. wait'[d] \in {"appending", "appendingBlocked", "taking", "takingBlocked"} =>
            /\ mem'[target'[d]].status = "completed"
            /\ turn'[target'[d]] = "none" \/ settle'[target'[d]] = "done"
      BY <1>1, <1>3, <3>1, <3>2 DEF WaitWrites
    <3>5. wait'[d] \in {"taking", "takingBlocked"} => Closed(mem'[target'[d]])
      BY <2>6, <3>1, <3>2 DEF WaitWrites
    <3>6. wait'[d] \in {"taking", "takingBlocked"} /\ Saved(<<"wait", d>>) => Closed(disk'[target'[d]])
      BY <1>3, <3>1 DEF WaitWrites
    <3>7. wait'[d] \in {"taking", "takingBlocked"} /\ writing' /\ chain'[1] = <<"wait", d>>
            => Closed(payload'[target'[d]])
      BY <1>3, <2>4, <3>1 DEF WaitWrites
    <3> QED
      BY <3>1, <3>2, <3>3, <3>4, <3>5, <3>6, <3>7 DEF WaitWrites
  <2> QED
    BY <1>1, <1>3, <1>4, <2>2, <2>4, <2>5, <2>7, <2>8 DEF WriteInv, RunWrites, WaitWrites
<1>9. ResumeInv'
  BY <1>1, <1>3 DEF ResumeInv, Resumed, TypeOK
<1>10. UpInv'
  BY <1>1, <1>5 DEF UpInv
<1>11. CarriedInv'
  <2>1. origin[t] \in taken' /\ taken \subseteq taken'
    BY <1>2 DEF OriginInv
  <2> QED
    BY <1>1, <1>3, <2>1, PromiseKept
<1>12. ResultHandedOutForGood'
  BY <1>1, <1>3 DEF ResultHandedOutForGood
<1> QED
  BY <1>6, <1>7, <1>8, <1>9, <1>10, <1>11, <1>12

\* The handlers of a resumed run consume the record they have marked.
LEMMA ResumedDurable == ASSUME DurableInv, NEW r \in Runs, ResumedSettled(r) PROVE DurableInv'
<1> USE DEF DurableInv
<1>1. /\ UNCHANGED <<up, call, turn, attached, entry, wait, target, resume, todo, current, renewed,
                     told, taken, resumable, origin, kills, faults>>
      /\ Resumed(r) /\ Consume(r, <<"settle", r>>)
      /\ settle[r] \in {"completing", "failing"} /\ settle' = [settle EXCEPT ![r] = "consuming"]
  BY DEF ResumedSettled, Settling, waitVars, resVars, histVars, fixedVars
<1>2. turn[r] # "none" /\ attached[r] /\ mem[r].status \in {"completed", "failed"} /\ Seen(mem[r])
      /\ ~Closed(mem[r])
  BY <1>1 DEF TurnInv, StatusFits, Unread, Seen, Closed
<1>3. /\ mem' = [mem EXCEPT ![r] = Read(mem[r].status)] /\ mem' \in [Runs -> Records]
      /\ mem'[r] = Read(mem[r].status) /\ \A q \in Runs : q # r => mem'[q] = mem[q]
      /\ \A q \in Runs : mem'[q].status = mem[q].status
      /\ chain' = Append(chain, <<"settle", r>>) /\ UNCHANGED <<disk, writing, payload>>
  BY <1>1, <1>2, ReadRecord
<1>4. settle'[r] = "consuming" /\ \A q \in Runs : q # r => settle'[q] = settle[q]
  BY <1>1 DEF TypeOK
<1>5. TypeOK'
  <2>1. chain' \in Seq(Owners)
    BY <1>3, ChainAppended, OwnersHas DEF TypeOK
  <2> QED
    BY <1>1, <1>3, <2>1 DEF TypeOK
<1>6. TurnInv'
  <2>1. ASSUME NEW q \in Runs, q # r PROVE StatusFits(q)'
    BY <1>1, <1>3, <1>4, <2>1 DEF TurnInv, StatusFits, Resumed
  <2>2. StatusFits(r)'
    BY <1>1, <1>2, <1>3, <1>4 DEF StatusFits, Resumed
  <2> QED
    BY <2>1, <2>2 DEF TurnInv
<1>7. OriginInv'
  <2>1. /\ call[r] = "none" /\ origin[r] # r /\ entry[r] = "none"
    BY <1>1 DEF OriginInv, Resumed
  <2> QED
    BY <1>1, <1>3, <1>4, <2>1 DEF OriginInv
<1>8. GrowingInv'
  <2>1. Seen(Read(mem[r].status))
    BY <1>2 DEF Seen, Read
  <2> QED
    BY <1>2, <1>3, <2>1, RecordGrows
<1>9. WriteInv'
  <2>1. ~(turn[r] = "none" \/ settle[r] = "done")
    BY <1>1, <1>2
  <2> QED
    BY <1>1, <1>3, <1>4, <2>1, WriteAdded, OwnersHas
<1>10. ResumeInv'
  BY <1>1, <1>3 DEF ResumeInv, Resumed, TypeOK
<1>11. UpInv'
  <2>1. up = "up"
    BY <1>2 DEF UpInv
  <2> QED
    BY <1>1, <2>1 DEF UpInv
<1>12. CarriedInv'
  <2>1. Promising(Read(mem[r].status))
    BY <1>2 DEF Promising, Read
  <2> QED
    BY <1>1, <1>3, <2>1, PromiseKept
<1>13. ResultHandedOutForGood'
  BY <1>1, <1>3 DEF ResultHandedOutForGood
<1> QED
  BY <1>5, <1>6, <1>7, <1>8, <1>9, <1>10, <1>11, <1>12, <1>13

\* The resumption consumes the run it handles: after the new one is in the
\* records, or because its thread has no messages.
LEMMA ResumeReadDurable ==
    ASSUME DurableInv, ResumeConsume \/ \E r \in Runs : ResumeDiscard(r)
    PROVE  DurableInv'
<1> USE DEF DurableInv
<1>1. UNCHANGED <<up, call, turn, attached, settle, entry, wait, target, renewed, told, taken,
                  resumable, origin, kills, faults>>
      /\ resume \in {"next", "creating"}
  BY DEF ResumeConsume, ResumeDiscard, procVars, waitVars, histVars, fixedVars
<1>2. PICK r \in Runs :
        /\ Consume(r, <<"resume", None>>) /\ mem[r].status = "interrupted" /\ turn[r] = "none"
        /\ todo' \subseteq todo /\ current' \in Runs \cup {None}
        /\ \/ resume' = "discarding" /\ ~resumable[r]
           \/ /\ resume = "creating" /\ resume' = "consuming"
              /\ renewed \in Runs /\ origin[renewed] = origin[r]
  <2>1. CASE ResumeConsume
    <3>1. resume = "creating" /\ Consume(current, <<"resume", None>>) /\ resume' = "consuming"
          /\ todo' = todo /\ current' = current
      BY <2>1 DEF ResumeConsume
    <3> QED
      BY <3>1 DEF ResumeInv
  <2>2. ASSUME NEW r \in Runs, ResumeDiscard(r)
        PROVE  /\ Consume(r, <<"resume", None>>) /\ mem[r].status = "interrupted" /\ turn[r] = "none"
               /\ todo' \subseteq todo /\ current' \in Runs \cup {None}
               /\ resume' = "discarding" /\ ~resumable[r]
    BY <2>2 DEF ResumeDiscard, ResumeInv
  <2> QED
    BY <2>1, <2>2
<1>3. Seen(mem[r]) /\ AtRest(r) /\ up = "up"
  BY <1>1, <1>2 DEF Seen, AtRest, UpInv
<1>4. /\ mem' = [mem EXCEPT ![r] = Read(mem[r].status)] /\ mem' \in [Runs -> Records]
      /\ mem'[r] = Read(mem[r].status) /\ \A q \in Runs : q # r => mem'[q] = mem[q]
      /\ \A q \in Runs : mem'[q].status = mem[q].status
      /\ chain' = Append(chain, <<"resume", None>>) /\ UNCHANGED <<disk, writing, payload>>
  BY <1>2, <1>3, ReadRecord
<1>5. TypeOK'
  <2>1. chain' \in Seq(Owners)
    BY <1>4, ChainAppended, OwnersHas DEF TypeOK
  <2>2. resume' \in {"discarding", "consuming"} /\ todo' \subseteq Runs /\ current' \in Runs \cup {None}
    BY <1>2 DEF TypeOK
  <2> QED
    BY <1>1, <1>4, <2>1, <2>2 DEF TypeOK
<1>6. TurnInv' /\ OriginInv' /\ GrowingInv'
  BY <1>1, <1>2, <1>3, ReadDurable
<1>7. WriteInv'
  <2>1. \A q \in Runs : Closed(mem[q]) => Closed(mem'[q])
    BY <1>4 DEF Closed, Read
  <2> QED
    BY <1>1, <1>4, <2>1, WriteAdded, OwnersHas
<1>8. ResumeInv'
  BY <1>1, <1>2, <1>4 DEF ResumeInv, Resumed, TypeOK
<1>9. UpInv'
  BY <1>1, <1>3 DEF UpInv
<1>10. CarriedInv'
  <2>1. CASE ~resumable[r]
    <3>1. ~resumable[origin[r]]
      BY <2>1 DEF OriginInv
    <3> QED
      BY <1>1, <1>4, <3>1, PromiseKept
  <2>2. CASE resume = "creating" /\ renewed \in Runs /\ origin[renewed] = origin[r]
    <3>1. renewed # r /\ mem[renewed] = New
      BY <1>2, <2>2 DEF ResumeInv, TurnInv, StatusFits
    <3>2. Promising(mem[renewed])
      BY <3>1 DEF Promising, New, Unread
    <3> QED
      BY <1>1, <1>4, <2>2, <3>1, <3>2, PromiseKept
  <2> QED
    BY <1>2, <2>1, <2>2
<1>11. ResultHandedOutForGood'
  BY <1>1, <1>4 DEF ResultHandedOutForGood
<1> QED
  BY <1>5, <1>6, <1>7, <1>8, <1>9, <1>10, <1>11

\* Its other steps, and the start of service, leave the records alone.
LEMMA ResumeQuietDurable ==
    ASSUME DurableInv, ResumeList \/ ResumeAttach \/ ResumeDiscarded \/ Listen
    PROVE  DurableInv'
<1> USE DEF DurableInv
<1>1. UNCHANGED <<mem, disk, chain, writing, payload, call, turn, settle, entry, wait, target,
                  told, taken, resumable, origin, kills, faults>>
  BY DEF ResumeList, ResumeAttach, ResumeDiscarded, Listen, storeVars, procVars, waitVars, histVars,
         fixedVars
<1>2. /\ resume' \in {"next", "listing"} /\ up' = "up"
      /\ up = "up" \/ (up = "booting" /\ todo' = todo)
      /\ current' \in Runs \cup {None} /\ renewed' \in Runs \cup {None}
      /\ todo' = todo \/ todo' = Interrupted
      /\ \/ attached' = attached
         \/ /\ renewed \in Runs /\ turn[renewed] # "none" /\ call[renewed] = "none"
            /\ attached' = [attached EXCEPT ![renewed] = TRUE]
  BY DEF ResumeList, ResumeAttach, ResumeDiscarded, Listen, resVars, procVars, UpInv, ResumeInv,
         OriginInv, Resumed, TypeOK
<1>3. TypeOK'
  <2>1. todo' \subseteq Runs /\ attached' \in [Runs -> BOOLEAN]
    BY <1>2 DEF TypeOK, Interrupted
  <2> QED
    BY <1>1, <1>2, <2>1 DEF TypeOK
<1>4. TurnInv'
  <2>1. \A q \in Runs : attached'[q] = attached[q] \/ (attached'[q] /\ turn[q] # "none")
    BY <1>2 DEF TypeOK
  <2>2. ASSUME NEW q \in Runs PROVE StatusFits(q)'
    BY <1>1, <2>1 DEF TurnInv, StatusFits, Resumed
  <2> QED
    BY <2>2 DEF TurnInv
<1>5. OriginInv'
  BY <1>1, <1>2 DEF OriginInv, TypeOK
<1>6. GrowingInv' /\ ResultHandedOutForGood'
  BY <1>1 DEF GrowingInv, ResultHandedOutForGood
<1>7. WriteInv'
  BY <1>1 DEF WriteInv, RunWrites, WaitWrites, Saved
<1>8. ResumeInv'
  <2>1. ASSUME NEW q \in Interrupted PROVE mem[q].status = "interrupted" /\ turn[q] = "none"
    <3>1. q \in Runs /\ mem[q].status = "interrupted"
      BY DEF Interrupted
    <3>2. settle[q] \in {"none", "completing", "failing", "consuming", "done", "threw"} /\ StatusFits(q)
      BY <3>1 DEF TypeOK, TurnInv
    <3> QED
      BY <3>1, <3>2 DEF StatusFits, New, Unread
  <2> QED
    BY <1>1, <1>2, <2>1 DEF ResumeInv
<1>9. UpInv'
  BY <1>2 DEF UpInv
<1>10. CarriedInv'
  BY <1>1 DEF CarriedInv, CarriedIn
<1> QED
  BY <1>3, <1>4, <1>5, <1>6, <1>7, <1>8, <1>9, <1>10

-----------------------------------------------------------------------------
\* A new run: of agent.run, or of the resumption.
LEMMA CreateDurable ==
    ASSUME DurableInv, NEW n \in Runs,
           \/ \E hasThread \in BOOLEAN : AgentRun(n, hasThread)
           \/ \E r \in Runs : ResumeStart(r, n)
    PROVE  DurableInv'
<1> USE DEF DurableInv
<1>1. /\ call[n] = "none" /\ origin[n] = n /\ up = "up"
      /\ UNCHANGED <<up, attached, settle, entry, wait, target, told, taken, kills, faults>>
      /\ turn' = [turn EXCEPT ![n] = "running"]
  BY DEF AgentRun, ResumeStart, Fresh, Unused, waitVars, histVars, UpInv
<1>2. PICK o \in Owners :
        /\ CreatePending(n, o)
        /\ \/ /\ o = <<"run", n>> /\ call' = [call EXCEPT ![n] = "creating"] /\ UNCHANGED origin
              /\ UNCHANGED <<resume, todo, current, renewed>>
              /\ \E hasThread \in BOOLEAN : resumable' = [resumable EXCEPT ![n] = hasThread]
           \/ /\ o = <<"resume", None>> /\ UNCHANGED <<call, resumable>>
              /\ resume' = "creating" /\ renewed' = n
              /\ \E r \in todo : /\ current' = r /\ todo' = todo \ {r}
                                 /\ origin' = [origin EXCEPT ![n] = origin[r]]
  <2>1. ASSUME NEW hasThread \in BOOLEAN, AgentRun(n, hasThread)
        PROVE  /\ CreatePending(n, <<"run", n>>) /\ call' = [call EXCEPT ![n] = "creating"]
               /\ UNCHANGED <<origin, resume, todo, current, renewed>>
               /\ resumable' = [resumable EXCEPT ![n] = hasThread]
    BY <2>1 DEF AgentRun, resVars
  <2>2. ASSUME NEW r \in Runs, ResumeStart(r, n)
        PROVE  /\ CreatePending(n, <<"resume", None>>) /\ UNCHANGED <<call, resumable>>
               /\ resume' = "creating" /\ renewed' = n /\ r \in todo
               /\ current' = r /\ todo' = todo \ {r}
               /\ origin' = [origin EXCEPT ![n] = origin[r]]
    BY <2>2 DEF ResumeStart
  <2> QED
    BY <2>1, <2>2, OwnersHas
<1>3. /\ mem[n] = Absent /\ disk[n] = Absent /\ payload[n] = Absent /\ turn[n] = "none"
      /\ ~attached[n] /\ settle[n] = "none" /\ entry[n] = "none"
  BY <1>1 DEF OriginInv, TurnInv, StatusFits
<1>4. /\ mem' = [mem EXCEPT ![n] = New] /\ New \in Records
      /\ chain' = Append(chain, o) /\ UNCHANGED <<disk, writing, payload>>
  BY <1>2 DEF CreatePending, Persist, New, Unread, Records, Statuses
<1>5. mem'[n] = New /\ turn'[n] = "running"
      /\ \A q \in Runs : q # n => mem'[q] = mem[q] /\ turn'[q] = turn[q]
  BY <1>1, <1>4 DEF TypeOK
<1>6. ASSUME NEW r \in todo
      PROVE  r \in Runs /\ r # n /\ origin[r] \in Runs /\ origin[r] # n /\ call[origin[r]] # "none"
  <2>1. r \in Runs /\ mem[r].status = "interrupted" /\ origin[r] \in Runs
    BY DEF ResumeInv, TypeOK
  <2>2. ~(call[r] = "none" /\ origin[r] = r)
    BY <2>1 DEF OriginInv, Absent
  <2> QED
    BY <1>1, <1>3, <2>1, <2>2 DEF OriginInv, Absent
<1>7. /\ chain' \in Seq(Owners) /\ chain' # <<>> /\ \A p : Saved(p)' <=> Saved(p) /\ p # o
      /\ chain # <<>> => chain'[1] = chain[1]
  BY <1>4, ChainAppended DEF TypeOK
<1>8. TypeOK'
  <2>1. mem' \in [Runs -> Records] /\ turn' \in [Runs -> {"none", "running", "resolved", "rejected"}]
    BY <1>1, <1>4 DEF TypeOK
  <2>2. call' \in [Runs -> {"none", "creating", "served", "lost"}] /\ resumable' \in [Runs -> BOOLEAN]
    <3>1. call' = call \/ call' = [call EXCEPT ![n] = "creating"]
      BY <1>2
    <3>2. resumable' = resumable
          \/ \E hasThread \in BOOLEAN : resumable' = [resumable EXCEPT ![n] = hasThread]
      BY <1>2
    <3>3. call' \in [Runs -> {"none", "creating", "served", "lost"}]
      BY <3>1 DEF TypeOK
    <3> QED
      BY <3>2, <3>3 DEF TypeOK
  <2>3. /\ resume' \in {"off", "listing", "next", "creating", "consuming", "discarding"}
        /\ todo' \subseteq Runs /\ current' \in Runs \cup {None} /\ renewed' \in Runs \cup {None}
        /\ origin' \in [Runs -> Runs]
    BY <1>2, <1>6 DEF TypeOK
  <2> QED
    BY <1>1, <1>4, <1>7, <2>1, <2>2, <2>3 DEF TypeOK
<1>9. \A q \in Runs : q # n => call'[q] = call[q] /\ origin'[q] = origin[q] /\ resumable'[q] = resumable[q]
  BY <1>2 DEF TypeOK
<1>10. \/ call'[n] = "creating" /\ origin'[n] = n
       \/ call'[n] = "none" /\ origin'[n] # n /\ origin'[n] \in Runs /\ call'[origin'[n]] # "none"
          /\ resumable'[n]
  <2>1. CASE o = <<"run", n>>
    BY <1>1, <1>2, <2>1 DEF TypeOK
  <2>2. CASE o # <<"run", n>>
    BY <1>1, <1>2, <1>6, <2>2 DEF TypeOK, OriginInv
  <2> QED
    BY <2>1, <2>2
<1>11. TurnInv'
  <2>1. ASSUME NEW q \in Runs PROVE StatusFits(q)'
    BY <1>1, <1>3, <1>5, <1>9 DEF TurnInv, StatusFits, Resumed
  <2> QED
    BY <2>1 DEF TurnInv
<1>12. OriginInv'
  <2>1. ASSUME NEW q \in Runs, q # n
        PROVE  call'[origin'[q]] = "none" => origin'[q] = q
    <3>1. origin'[q] = origin[q] /\ origin[q] \in Runs
      BY <1>9, <2>1 DEF TypeOK
    <3>2. CASE origin[q] = n
      BY <1>1, <2>1, <3>1, <3>2 DEF OriginInv
    <3>3. CASE origin[q] # n
      BY <1>9, <3>1, <3>3 DEF OriginInv
    <3> QED
      BY <3>2, <3>3
  <2> QED
    BY <1>1, <1>3, <1>4, <1>5, <1>9, <1>10, <2>1 DEF OriginInv
<1>13. GrowingInv'
  <2>1. Seen(New) /\ ~Closed(mem[n])
    BY <1>3 DEF Seen, Closed, New, Unread, Absent
  <2> QED
    BY <1>4, <2>1, RecordGrows
<1>14. WriteInv'
  <2>1. ASSUME NEW r \in Runs PROVE RunWrites(r)'
    <3>1. CASE r # n
      BY <1>2, <1>4, <1>7, <1>9, <3>1 DEF WriteInv, RunWrites
    <3>2. CASE r = n
      <4>1. Saved(<<"run", n>>) /\ (writing => chain # <<>>)
        BY <1>1 DEF WriteInv, RunWrites
      <4>2. writing => chain'[1] = chain[1] /\ chain[1] # <<"run", n>>
        <5>1. chain # <<>> => 1 \in DOMAIN chain
          BY DEF TypeOK
        <5> QED
          BY <1>7, <4>1, <5>1 DEF Saved
      <4>3. call'[n] # "none" => o = <<"run", n>>
        BY <1>1, <1>2
      <4>4. call'[n] = "none" => o # <<"run", n>>
        BY <1>2 DEF TypeOK
      <4> QED
        BY <1>4, <1>7, <3>2, <4>1, <4>2, <4>3, <4>4 DEF RunWrites
    <3> QED
      BY <3>1, <3>2
  <2>2. ASSUME NEW c \in Clients PROVE WaitWrites(c)'
    <3>1. o # <<"wait", c>>
      BY <1>2
    <3>2. wait[c] # "idle" => target[c] \in Runs /\ target[c] # n /\ call[target[c]] = "served"
      BY <1>1 DEF WriteInv, WaitWrites
    <3>3. writing => chain'[1] = chain[1]
      BY <1>7 DEF WriteInv
    <3>4. WaitWrites(c)
      BY DEF WriteInv
    <3> QED
      BY <1>1, <1>4, <1>5, <1>7, <1>9, <3>1, <3>2, <3>3, <3>4 DEF WaitWrites
  <2> QED
    BY <1>7, <2>1, <2>2 DEF WriteInv
<1>15. ResumeInv'
  <2>1. \A r \in todo : mem'[r].status = "interrupted" /\ turn'[r] = "none"
    BY <1>5, <1>6 DEF ResumeInv, TypeOK
  <2>2. CASE o = <<"run", n>>
    <3>1. resume = "creating" => current # n /\ current \in Runs /\ mem[current].status = "interrupted" /\ turn[current] = "none"
      BY <1>3 DEF ResumeInv, Absent
    <3>2. resume \in {"creating", "consuming"} => renewed \in Runs /\ renewed # n
      BY <1>3 DEF ResumeInv
    <3>3. /\ UNCHANGED <<resume, todo, current, renewed, origin>>
      BY <1>2, <2>2
    <3> QED
      BY <1>1, <1>5, <2>1, <3>1, <3>2, <3>3 DEF ResumeInv, Resumed
  <2>3. CASE o # <<"run", n>>
    <3>1. PICK r \in todo : current' = r /\ todo' = todo \ {r} /\ origin' = [origin EXCEPT ![n] = origin[r]]
      BY <1>2, <2>3
    <3>2. resume' = "creating" /\ renewed' = n
      BY <1>2, <2>3
    <3>3. r \in Runs /\ r # n /\ origin[r] # n
      BY <1>6
    <3>4. origin'[n] = origin[r] /\ origin'[r] = origin[r]
      BY <3>1, <3>3 DEF TypeOK
    <3> QED
      BY <1>1, <1>3, <1>5, <2>1, <3>1, <3>2, <3>3, <3>4 DEF ResumeInv, Resumed
  <2> QED
    BY <2>2, <2>3
<1>16. UpInv'
  BY <1>1 DEF UpInv
<1>17. CarriedInv'
  <2>1. ~Promising(Absent)
    BY DEF Promising, Absent
  <2>2. ASSUME NEW q \in Runs, q # n, NEW records, records[n] = Absent, CarriedIn(records, q)
        PROVE  \E r \in Runs : r # n /\ origin'[r] = q /\ Promising(records[r])
    BY <1>9, <2>1, <2>2 DEF CarriedIn
  <2>3. ASSUME NEW q \in Runs, (call[q] = "served" /\ resumable[q] /\ q \notin taken)'
        PROVE  (CarriedIn(mem, q) /\ CarriedIn(disk, q) /\ (writing => CarriedIn(payload, q)))'
    <3>1. q # n
      BY <1>10, <2>3
    <3>2. CarriedIn(mem, q) /\ CarriedIn(disk, q) /\ (writing => CarriedIn(payload, q))
      BY <1>1, <1>9, <2>3, <3>1 DEF CarriedInv
    <3>3. \E r \in Runs : r # n /\ origin'[r] = q /\ Promising(mem[r])
      BY <1>3, <2>2, <3>1, <3>2
    <3>4. \E r \in Runs : r # n /\ origin'[r] = q /\ Promising(disk[r])
      BY <1>3, <2>2, <3>1, <3>2
    <3>5. writing => \E r \in Runs : r # n /\ origin'[r] = q /\ Promising(payload[r])
      BY <1>3, <2>2, <3>1, <3>2
    <3> QED
      BY <1>4, <1>5, <3>3, <3>4, <3>5 DEF CarriedIn
  <2> QED
    BY <2>3 DEF CarriedInv
<1>18. ResultHandedOutForGood'
  BY <1>1, <1>4 DEF ResultHandedOutForGood
<1> QED
  BY <1>8, <1>11, <1>12, <1>13, <1>14, <1>15, <1>16, <1>17, <1>18

-----------------------------------------------------------------------------
\* The writes.
LEMMA WriteDurable == ASSUME DurableInv, Write PROVE DurableInv'
<1> USE DEF DurableInv
<1>1. UNCHANGED <<mem, up, call, turn, attached, settle, entry, wait, target, resume, todo,
                  current, renewed, told, taken, resumable, origin, kills, faults>>
  BY DEF Write, StartWrite, FinishWrite, procVars, waitVars, resVars, histVars, fixedVars
<1>2. TurnInv' /\ ResumeInv'
  BY <1>1 DEF TurnInv, StatusFits, ResumeInv, Resumed
<1>3. CASE StartWrite
  <2>1. chain # <<>> /\ writing' = TRUE /\ payload' = mem /\ UNCHANGED <<disk, chain>>
    BY <1>3 DEF StartWrite
  <2>2. TypeOK'
    BY <1>1, <2>1 DEF TypeOK
  <2>3. OriginInv'
    BY <1>1, <2>1 DEF OriginInv, TurnInv, StatusFits
  <2>4. GrowingInv'
    BY <1>1, <2>1 DEF GrowingInv
  <2>5. WriteInv'
    <3>1. \A r \in Runs : call[r] = "creating" => Seen(mem[r])
      BY DEF OriginInv, TurnInv, StatusFits, New, Unread, Seen
    <3>2. \A o : Saved(o)' <=> Saved(o)
      BY <2>1 DEF Saved
    <3> QED
      BY <1>1, <2>1, <3>1, <3>2 DEF WriteInv, RunWrites, WaitWrites
  <2>6. UpInv'
    BY <1>1, <2>1 DEF UpInv
  <2>7. CarriedInv' /\ ResultHandedOutForGood'
    BY <1>1, <2>1 DEF CarriedInv, CarriedIn, ResultHandedOutForGood
  <2> QED
    BY <1>2, <2>2, <2>3, <2>4, <2>5, <2>6, <2>7
<1>4. CASE FinishWrite
  <2>1. /\ writing /\ disk' = payload /\ chain' = Tail(chain) /\ ~writing' /\ writing' = FALSE
        /\ payload' = NoRuns /\ chain # <<>>
    BY <1>4 DEF FinishWrite, WriteInv
  <2>2. /\ chain' \in Seq(Owners) /\ \A p : Saved(p) => Saved(p)'
        /\ \A p : Saved(p)' => Saved(p) \/ chain[1] = p
    BY <2>1, ChainTaken DEF TypeOK
  <2>3. \A r \in Runs : NoRuns[r] = Absent
    BY DEF NoRuns
  <2>4. TypeOK'
    BY <1>1, <2>1, <2>2, NoRunsType DEF TypeOK
  <2>5. OriginInv'
    BY <1>1, <2>1, <2>3 DEF OriginInv
  <2>6. GrowingInv'
    BY <1>1, <2>1 DEF GrowingInv
  <2>7. WriteInv'
    <3>1. ASSUME NEW r \in Runs PROVE RunWrites(r)'
      <4>1. Seen(disk[r]) => Seen(payload[r])
        BY <2>1 DEF GrowingInv
      <4> QED
        BY <1>1, <2>1, <2>2, <4>1 DEF WriteInv, RunWrites
    <3>2. ASSUME NEW c \in Clients PROVE WaitWrites(c)'
      <4>1. \A r \in Runs : Closed(disk[r]) => Closed(payload[r])
        BY <2>1 DEF GrowingInv
      <4>2. WaitWrites(c)
        BY DEF WriteInv
      <4> QED
        BY <1>1, <2>1, <2>2, <4>1, <4>2 DEF WaitWrites
    <3> QED
      BY <2>1, <3>1, <3>2 DEF WriteInv
  <2>8. UpInv'
    BY <1>1, <2>1 DEF UpInv
  <2>9. CarriedInv'
    BY <1>1, <2>1 DEF CarriedInv, CarriedIn
  <2>10. ResultHandedOutForGood'
    BY <1>1, <2>1 DEF ResultHandedOutForGood, GrowingInv, Closed
  <2> QED
    BY <1>2, <2>2, <2>4, <2>5, <2>6, <2>7, <2>8, <2>9, <2>10
<1> QED
  BY <1>3, <1>4 DEF Write

\* The process dies: what the file has is what there is.
LEMMA DieDurable ==
    ASSUME DurableInv, Die, kills' \in 0..MaxKills, faults' \in 0..MaxFaults
    PROVE  DurableInv'
<1> USE DEF DurableInv
<1>1. /\ up' = "down" /\ mem' = disk /\ chain' = <<>> /\ writing' = FALSE /\ payload' = NoRuns
      /\ call' = [r \in Runs |-> IF call[r] = "creating" THEN "lost" ELSE call[r]]
      /\ turn' = [r \in Runs |-> "none"] /\ attached' = [r \in Runs |-> FALSE]
      /\ settle' = [r \in Runs |-> "none"] /\ entry' = [r \in Runs |-> "none"]
      /\ wait' = [c \in Clients |-> "idle"] /\ target' = [c \in Clients |-> None]
      /\ resume' = "off" /\ todo' = {} /\ current' = None /\ renewed' = None
      /\ UNCHANGED <<disk, told, taken, resumable, origin>>
  BY DEF Die, Lose, histVars, fixedVars
<1>2. TypeOK'
  <2>1. chain' \in Seq(Owners)
    BY <1>1
  <2> QED
    BY <1>1, <2>1, NoRunsType DEF TypeOK
<1>3. TurnInv'
  BY <1>1 DEF TurnInv, StatusFits
<1>4. OriginInv'
  <2>1. \A r \in Runs : NoRuns[r] = Absent
    BY DEF NoRuns
  <2>2. \A r \in Runs : call'[r] = "none" <=> call[r] = "none"
    BY <1>1
  <2>3. \A r \in Runs : call'[r] # "creating" /\ turn'[r] = "none" /\ entry'[r] = "none" /\ origin[r] \in Runs
    BY <1>1 DEF TypeOK
  <2> QED
    BY <1>1, <2>1, <2>2, <2>3 DEF OriginInv
<1>5. GrowingInv' /\ ResultHandedOutForGood'
  BY <1>1 DEF GrowingInv, ResultHandedOutForGood
<1>6. WriteInv'
  <2>1. \A o : Saved(o)'
    BY <1>1 DEF Saved
  <2> QED
    BY <1>1, <2>1 DEF WriteInv, RunWrites, WaitWrites
<1>7. ResumeInv' /\ UpInv'
  BY <1>1 DEF ResumeInv, UpInv
<1>8. CarriedInv'
  BY <1>1 DEF CarriedInv, CarriedIn
<1> QED
  BY <1>2, <1>3, <1>4, <1>5, <1>6, <1>7, <1>8

\* A starting process interrupts what the file has in flight.
LEMMA BootDurable == ASSUME DurableInv, Boot PROVE DurableInv'
<1> USE DEF DurableInv
<1>1. /\ up = "down" /\ up' = "booting" /\ mem' = InterruptInFlight(disk)
      /\ chain' \in {<<>>, <<(<<"boot", None>>)>>} /\ writing = FALSE
      /\ UNCHANGED <<disk, writing, payload, call, turn, attached, settle, entry, wait, target,
                     resume, todo, current, renewed, told, taken, resumable, origin, kills, faults>>
  BY DEF Boot, Load, procVars, waitVars, resVars, histVars, fixedVars, UpInv, TypeOK
<1>2. ASSUME NEW r \in Runs
      PROVE  /\ disk[r].status # "pending" => mem'[r] = disk[r]
             /\ disk[r].status = "pending" =>
                  mem'[r].status = "interrupted" /\ mem'[r].consumed = disk[r].consumed
  <2>1. disk[r] \in Records
    BY DEF TypeOK
  <2>2. mem'[r] = IF disk[r].status = "pending" THEN [disk[r] EXCEPT !.status = "interrupted"]
                  ELSE disk[r]
    BY <1>1 DEF InterruptInFlight
  <2> QED
    BY <2>1, <2>2 DEF Records
<1>3. /\ \A r \in Runs : turn[r] = "none"
      /\ \A c \in Clients : wait[c] = "idle"
      /\ resume = "off" /\ todo = {}
  BY <1>1 DEF UpInv
<1>4. TypeOK'
  <2>1. chain' \in Seq(Owners)
    <3>1. <<"boot", None>> \in Owners
      BY OwnersHas
    <3>2. \A o \in Owners : <<o>> \in Seq(Owners)
      OBVIOUS
    <3>3. <<>> \in Seq(Owners)
      OBVIOUS
    <3> DEFINE o == <<"boot", None>>
    <3>4. chain' \in {<<>>, <<o>>}
      BY <1>1
    <3>5. o \in Owners
      BY <3>1
    <3> HIDE DEF o
    <3>6. <<o>> \in Seq(Owners)
      BY <3>2, <3>5
    <3> QED
      BY <3>3, <3>4, <3>6
  <2>2. mem' \in [Runs -> Records]
    BY <1>1, InterruptType DEF TypeOK
  <2> QED
    BY <1>1, <2>1, <2>2 DEF TypeOK
<1>5. TurnInv'
  BY <1>1, <1>3 DEF TurnInv, StatusFits
<1>6. OriginInv'
  BY <1>1, <1>2, <1>3 DEF OriginInv, Absent
<1>7. GrowingInv'
  BY <1>1, <1>2 DEF GrowingInv, Seen, Closed
<1>8. WriteInv'
  <2>1. \A r \in Runs : Saved(<<"run", r>>)'
    BY <1>1 DEF Saved
  <2>2. \A c \in Clients : Saved(<<"wait", c>>)'
    BY <1>1 DEF Saved
  <2>3. \A r \in Runs : call[r] # "creating"
    BY <1>3 DEF OriginInv
  <2> QED
    BY <1>1, <1>3, <2>1, <2>2, <2>3 DEF WriteInv, RunWrites, WaitWrites
<1>9. ResumeInv' /\ UpInv'
  BY <1>1, <1>3 DEF ResumeInv, UpInv
<1>10. CarriedInv'
  <2>1. \A r \in Runs : Promising(disk[r]) => Promising(mem'[r])
    BY <1>2 DEF Promising
  <2> QED
    BY <1>1, <2>1 DEF CarriedInv, CarriedIn
<1>11. ResultHandedOutForGood'
  BY <1>1 DEF ResultHandedOutForGood
<1> QED
  BY <1>4, <1>5, <1>6, <1>7, <1>8, <1>9, <1>10, <1>11

\* At first nothing is on file and no request is made.
LEMMA InitDurable == Init => DurableInv
<1> SUFFICES ASSUME Init PROVE DurableInv
  OBVIOUS
<1>1. /\ mem = NoRuns /\ disk = NoRuns /\ payload = NoRuns /\ chain = <<>> /\ writing = FALSE
  BY DEF Init, StoreInit
<1>2. \A r \in Runs : NoRuns[r] = Absent
  BY DEF NoRuns
<1>3. <<>> \in Seq(Owners) /\ \A o : Saved(o)
  BY <1>1 DEF Saved
<1>4. TypeOK
  <2>1. 0 \in 0..MaxKills /\ 0 \in 0..MaxFaults
    BY BoundsAssumption
  <2> QED
    BY <1>1, <1>3, <2>1, NoRunsType DEF Init, TypeOK
<1>5. TurnInv /\ ResumeInv /\ UpInv
  BY DEF Init, TurnInv, StatusFits, ResumeInv, UpInv
<1>6. OriginInv
  BY <1>1, <1>2 DEF Init, OriginInv
<1>7. GrowingInv
  BY <1>1, <1>2 DEF GrowingInv
<1>8. WriteInv
  BY <1>1, <1>3 DEF Init, WriteInv, RunWrites, WaitWrites
<1>9. CarriedInv /\ ResultHandedOutForGood
  BY DEF Init, CarriedInv, ResultHandedOutForGood
<1> QED
  BY <1>4, <1>5, <1>6, <1>7, <1>8, <1>9 DEF DurableInv

\* Every step keeps what is on file.
LEMMA NextDurable == DurableInv /\ [Next]_vars => DurableInv'
<1> SUFFICES ASSUME DurableInv, [Next]_vars PROVE DurableInv'
  OBVIOUS
<1>1. TypeOK
  BY DEF DurableInv
<1>2. CASE Boot \/ Listen
  BY <1>2, BootDurable, ResumeQuietDurable
<1>3. CASE Write
  BY <1>3, WriteDurable
<1>4. CASE ResumeStep
  BY <1>4, ResumeQuietDurable, ResumeReadDurable, CreateDurable DEF ResumeStep
<1>5. CASE Kill
  <2>1. kills' \in 0..MaxKills /\ faults' \in 0..MaxFaults /\ Die
    BY <1>1, <1>5, BoundsAssumption DEF Kill, TypeOK
  <2> QED
    BY <2>1, DieDurable
<1>6. ASSUME NEW r \in Runs, RunStep(r) \/ Reject(r) \/ RejectUnattached(r) \/ AppendFails(r)
      PROVE  DurableInv'
  <2>1. CASE RejectUnattached(r) \/ GatewayFailedUnhandled(r)
    <3>1. kills' \in 0..MaxKills /\ faults' \in 0..MaxFaults /\ Die
      BY <1>1, <2>1, BoundsAssumption DEF RejectUnattached, GatewayFailedUnhandled, TypeOK
    <3> QED
      BY <3>1, DieDurable
  <2> QED
    BY <1>6, <2>1, ServeDurable, SettleDurable, MarkDurable, ResumedDurable DEF RunStep
<1>7. ASSUME NEW r \in Runs, NEW hasThread \in BOOLEAN, AgentRun(r, hasThread) PROVE DurableInv'
  BY <1>7, CreateDurable
<1>8. ASSUME NEW c \in Clients, WaitStep(c) \/ WaitAppendFails(c) PROVE DurableInv'
  BY <1>8, WaitDurable, TakeDurable DEF WaitStep
<1>9. ASSUME NEW c \in Clients, NEW r \in Runs, WaitBlocks(c, r) \/ WaitCall(c, r)
      PROVE  DurableInv'
  BY <1>9, WaitDurable, TakeDurable DEF WaitCall
<1>10. CASE UNCHANGED vars
  <2>1. UNCHANGED <<mem, disk, chain, writing, payload, up, call, turn, attached, settle, entry,
                    wait, target, resume, todo, current, renewed, told, taken, resumable, origin,
                    kills, faults>>
    BY <1>10 DEF vars, storeVars, procVars, waitVars, resVars, histVars, fixedVars
  <2>2. \A o : Saved(o)' <=> Saved(o)
    BY <2>1 DEF Saved
  <2>3. TypeOK' /\ TurnInv' /\ OriginInv' /\ GrowingInv' /\ ResumeInv' /\ UpInv'
    BY <2>1 DEF DurableInv, TypeOK, TurnInv, StatusFits, OriginInv, GrowingInv, ResumeInv, UpInv, Resumed
  <2>4. WriteInv'
    BY <2>1, <2>2 DEF DurableInv, WriteInv, RunWrites, WaitWrites
  <2>5. CarriedInv' /\ ResultHandedOutForGood'
    BY <2>1 DEF DurableInv, CarriedInv, CarriedIn, ResultHandedOutForGood
  <2> QED
    BY <2>3, <2>4, <2>5 DEF DurableInv
<1> QED
  BY <1>2, <1>3, <1>4, <1>5, <1>6, <1>7, <1>8, <1>9, <1>10 DEF Next, Fault

\* Every variable has its type, for any runs, clients and bounds.
THEOREM RunTypes == Spec => []TypeOK
<1>1. DurableInv => TypeOK
  BY DEF DurableInv
<1> QED
  BY InitDurable, NextDurable, <1>1, PTL DEF Spec

\* From the moment agent.run has given a client its run id, and until agent.wait
\* takes the record, the state file carries a run that serves the request: one that
\* has an outcome, or will be resumed; however often the process dies, and between
\* any two steps of the writes and of resumeInterruptedRuns.
THEOREM NoRequestLost == Spec => []RequestNotLost
<1>1. DurableInv => RequestNotLost
  <2> SUFFICES ASSUME DurableInv, NEW q \in Runs, call[q] = "served", resumable[q], q \notin taken
               PROVE  \E r \in Runs : origin[r] = q /\ Carries(r)
    BY DEF RequestNotLost
  <2>1. CarriedIn(disk, q)
    BY DEF DurableInv, CarriedInv
  <2> QED
    BY <2>1 DEF CarriedIn, Promising, Carries
<1> QED
  BY InitDurable, NextDurable, <1>1, PTL DEF Spec

\* When agent.wait has handed out a result, the state file has its record completed
\* and consumed, and keeps it so: no later process hands it out again, runs the
\* request again or calls it interrupted.
THEOREM ResultsAreFinal == Spec => []ResultHandedOutForGood
<1>1. DurableInv => ResultHandedOutForGood
  BY DEF DurableInv
<1> QED
  BY InitDurable, NextDurable, <1>1, PTL DEF Spec
=============================================================================
