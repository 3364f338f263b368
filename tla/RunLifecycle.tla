---------------------------- MODULE RunLifecycle ----------------------------
(***************************************************************************)
(* The life of an agent run across process restarts: agent.run and         *)
(* agent.wait of src/src/gateway.ts, the RunStore they write, and the      *)
(* resumption of interrupted runs at startup in src/src/index.ts.          *)
(*                                                                         *)
(* A turn is only its promise: running, then resolved or rejected.  The    *)
(* process dies when killed, and also (Node's default, and the program     *)
(* installs no handler) when a promise rejects that nobody has attached a  *)
(* handler to.  A supervisor starts it again.  The contents of the thread  *)
(* file are left out: appendAssistantToThread is a step that may fail.     *)
(***************************************************************************)
EXTENDS RunStore, FiniteSets

CONSTANTS Clients,    \* callers of agent.wait
          Requests,   \* at most so many agent.run calls
          MaxKills,   \* at most so many kills of the process
          MaxFaults,  \* at most so many rejected turns and failed thread writes
          None

ASSUME BoundsAssumption == {Requests, MaxKills, MaxFaults} \subseteq Nat
ASSUME NoneAssumption == None \notin Runs

VARIABLES
    up,        \* the process: "down", "booting" or "up"
    call,      \* [Runs -> where the agent.run call that created it is]
    resumable, \* [Runs -> whether the thread of its session has messages]
    origin,    \* [Runs -> the request this run serves: itself unless resumed]
    turn,      \* [Runs -> its turn's promise]
    attached,  \* [Runs -> handlers are attached to that promise]
    settle,    \* [Runs -> where those handlers are]
    entry,     \* [Runs -> its entry of pendingRuns]
    wait,      \* [Clients -> where its agent.wait call is]
    target,    \* [Clients -> the run that call asks for]
    resume,    \* where resumeInterruptedRuns is
    todo,      \* the interrupted runs it has still to handle
    current,   \* the run it is handling
    renewed,   \* the run it has just started for it
    told,      \* [Runs -> the last answer a client got for it]
    taken,     \* runs whose record agent.wait consumed
    kills, faults

procVars  == <<call, turn, attached, settle, entry>>
waitVars  == <<wait, target>>
resVars   == <<resume, todo, current, renewed>>
histVars  == <<told, taken>>
fixedVars == <<resumable, origin>>
vars == <<storeVars, up, procVars, waitVars, resVars, histVars, fixedVars, kills, faults>>

Owners ==
    ({"run", "settle"} \X Runs) \cup ({"wait"} \X Clients)
        \cup ({"boot", "resume"} \X {None})

TypeOK ==
    /\ mem \in [Runs -> Records] /\ disk \in [Runs -> Records]
    /\ payload \in [Runs -> Records] /\ writing \in BOOLEAN
    /\ chain \in Seq(Owners)
    /\ up \in {"down", "booting", "up"}
    /\ call \in [Runs -> {"none", "creating", "served", "lost"}]
    /\ resumable \in [Runs -> BOOLEAN]
    /\ origin \in [Runs -> Runs]
    /\ turn \in [Runs -> {"none", "running", "resolved", "rejected"}]
    /\ attached \in [Runs -> BOOLEAN]
    /\ settle \in [Runs -> {"none", "completing", "failing", "consuming", "done", "threw"}]
    /\ entry \in [Runs -> {"none", "active", "result", "error"}]
    /\ wait \in [Clients -> {"idle", "blocked", "appending", "appendingBlocked",
                             "taking", "takingBlocked", "takingError"}]
    /\ target \in [Clients -> Runs \cup {None}]
    /\ resume \in {"off", "listing", "next", "creating", "consuming", "discarding"}
    /\ todo \subseteq Runs
    /\ current \in Runs \cup {None}
    /\ renewed \in Runs \cup {None}
    /\ told \in [Runs -> {"nothing", "result", "error", "gone"}]
    /\ taken \subseteq Runs
    /\ kills \in 0..MaxKills /\ faults \in 0..MaxFaults

Init ==
    /\ StoreInit
    /\ up = "up"
    /\ call = [r \in Runs |-> "none"]
    /\ resumable = [r \in Runs |-> TRUE]
    /\ origin = [r \in Runs |-> r]
    /\ turn = [r \in Runs |-> "none"]
    /\ attached = [r \in Runs |-> FALSE]
    /\ settle = [r \in Runs |-> "none"]
    /\ entry = [r \in Runs |-> "none"]
    /\ wait = [c \in Clients |-> "idle"]
    /\ target = [c \in Clients |-> None]
    /\ resume = "off" /\ todo = {} /\ current = None /\ renewed = None
    /\ told = [r \in Runs |-> "nothing"]
    /\ taken = {}
    /\ kills = 0 /\ faults = 0

\* randomUUID: an id not used yet; which one does not matter.
Unused == {r \in Runs : call[r] = "none" /\ origin[r] = r}
Fresh(r) == r \in Unused /\ r = (CHOOSE q \in Unused : TRUE)

Resumed(r) == origin[r] # r

-----------------------------------------------------------------------------
(***************************************************************************)
(* Death and restart of the process.                                       *)
(***************************************************************************)

Die ==
    /\ up' = "down"
    /\ Lose
    /\ call' = [r \in Runs |-> IF call[r] = "creating" THEN "lost" ELSE call[r]]
    /\ turn' = [r \in Runs |-> "none"]
    /\ attached' = [r \in Runs |-> FALSE]
    /\ settle' = [r \in Runs |-> "none"]
    /\ entry' = [r \in Runs |-> "none"]
    /\ wait' = [c \in Clients |-> "idle"]
    /\ target' = [c \in Clients |-> None]
    /\ resume' = "off" /\ todo' = {} /\ current' = None /\ renewed' = None
    /\ UNCHANGED <<histVars, fixedVars>>

Kill ==
    /\ up # "down"
    /\ kills < MaxKills
    /\ kills' = kills + 1
    /\ Die
    /\ UNCHANGED faults

Boot ==
    /\ up = "down"
    /\ up' = "booting"
    /\ Load(<<"boot", None>>)
    /\ UNCHANGED <<procVars, waitVars, resVars, histVars, fixedVars, kills, faults>>

\* The gateway listens, and resumeInterruptedRuns is called.
Listen ==
    /\ up = "booting"
    /\ Saved(<<"boot", None>>)
    /\ up' = "up"
    /\ resume' = "listing"
    /\ UNCHANGED <<storeVars, procVars, waitVars, todo, current, renewed, histVars,
                   fixedVars, kills, faults>>

-----------------------------------------------------------------------------
(***************************************************************************)
(* agent.run.                                                              *)
(***************************************************************************)

\* The thread is written, the turn started, createPending called.
AgentRun(r, hasThread) ==
    /\ up = "up"
    /\ Fresh(r)
    /\ Cardinality({q \in Runs : call[q] # "none"}) < Requests
    /\ call' = [call EXCEPT ![r] = "creating"]
    /\ resumable' = [resumable EXCEPT ![r] = hasThread]
    /\ turn' = [turn EXCEPT ![r] = "running"]
    /\ CreatePending(r, <<"run", r>>)
    /\ UNCHANGED <<up, attached, settle, entry, waitVars, resVars, histVars, origin,
                   kills, faults>>

\* Mutant: the client gets its runId before the record is written.
MutServe(r) ==
    /\ call[r] = "creating"
    /\ call' = [call EXCEPT ![r] = "served"]
    /\ attached' = [attached EXCEPT ![r] = TRUE]
    /\ entry' = [entry EXCEPT ![r] = "active"]
    /\ UNCHANGED <<storeVars, up, turn, settle, waitVars, resVars, histVars, fixedVars,
                   kills, faults>>

\* createPending returns: the handlers are attached, the client gets the runId.
Serve(r) ==
    /\ call[r] = "creating"
    /\ Saved(<<"run", r>>)
    /\ call' = [call EXCEPT ![r] = "served"]
    /\ attached' = [attached EXCEPT ![r] = TRUE]
    /\ entry' = [entry EXCEPT ![r] = "active"]
    /\ UNCHANGED <<storeVars, up, turn, settle, waitVars, resVars, histVars, fixedVars,
                   kills, faults>>

-----------------------------------------------------------------------------
(***************************************************************************)
(* The turn's promise and its handlers.                                    *)
(***************************************************************************)

Resolve(r) ==
    /\ turn[r] = "running"
    /\ turn' = [turn EXCEPT ![r] = "resolved"]
    /\ UNCHANGED <<storeVars, up, call, attached, settle, entry, waitVars, resVars,
                   histVars, fixedVars, kills, faults>>

Reject(r) ==
    /\ turn[r] = "running"
    /\ attached[r]
    /\ faults < MaxFaults
    /\ faults' = faults + 1
    /\ turn' = [turn EXCEPT ![r] = "rejected"]
    /\ UNCHANGED <<storeVars, up, call, attached, settle, entry, waitVars, resVars,
                   histVars, fixedVars, kills>>

\* Rejected while createPending or consume is still being awaited.
RejectUnattached(r) ==
    /\ turn[r] = "running"
    /\ ~attached[r]
    /\ faults < MaxFaults
    /\ faults' = faults + 1
    /\ Die
    /\ UNCHANGED kills

Settling(r, from, to) == settle[r] = from /\ settle' = [settle EXCEPT ![r] = to]

HandleResolved(r) ==
    /\ attached[r] /\ turn[r] = "resolved"
    /\ Settling(r, "none", "completing")
    /\ MarkCompleted(r, <<"settle", r>>)
    /\ UNCHANGED <<up, call, turn, attached, entry, waitVars, resVars, histVars,
                   fixedVars, kills, faults>>

HandleRejected(r) ==
    /\ attached[r] /\ turn[r] = "rejected"
    /\ Settling(r, "none", "failing")
    /\ MarkFailed(r, <<"settle", r>>)
    /\ UNCHANGED <<up, call, turn, attached, entry, waitVars, resVars, histVars,
                   fixedVars, kills, faults>>

\* The reply cannot be appended to the thread: the catch handler marks the run
\* failed although it was marked completed.
AppendFails(r) ==
    /\ Saved(<<"settle", r>>)
    /\ Settling(r, "completing", "failing")
    /\ faults < MaxFaults
    /\ faults' = faults + 1
    /\ MarkFailed(r, <<"settle", r>>)
    /\ UNCHANGED <<up, call, turn, attached, entry, waitVars, resVars, histVars,
                   fixedVars, kills>>

\* Mutant: the result is not put into pendingRuns.
MutGatewayCompleted(r) ==
    /\ ~Resumed(r)
    /\ Saved(<<"settle", r>>)
    /\ Settling(r, "completing", "done")
    /\ UNCHANGED <<storeVars, up, call, turn, attached, entry, waitVars, resVars,
                   histVars, fixedVars, kills, faults>>

GatewayCompleted(r) ==
    /\ ~Resumed(r)
    /\ Saved(<<"settle", r>>)
    /\ Settling(r, "completing", "done")
    /\ entry' = [entry EXCEPT ![r] = "result"]
    /\ UNCHANGED <<storeVars, up, call, turn, attached, waitVars, resVars, histVars,
                   fixedVars, kills, faults>>

BlockedOn(r) == \E c \in Clients : wait[c] = "blocked" /\ target[c] = r

\* The catch handler throws on: to the blocked agent.wait calls ...
GatewayFailed(r) ==
    /\ ~Resumed(r)
    /\ Saved(<<"settle", r>>)
    /\ BlockedOn(r)
    /\ Settling(r, "failing", "threw")
    /\ entry' = [entry EXCEPT ![r] = "error"]
    /\ UNCHANGED <<storeVars, up, call, turn, attached, waitVars, resVars, histVars,
                   fixedVars, kills, faults>>

\* ... and without any, to nobody.
GatewayFailedUnhandled(r) ==
    /\ ~Resumed(r)
    /\ settle[r] = "failing"
    /\ Saved(<<"settle", r>>)
    /\ ~BlockedOn(r)
    /\ Die
    /\ UNCHANGED <<kills, faults>>

\* A resumed run is consumed at once, completed or failed.
ResumedSettled(r) ==
    /\ Resumed(r)
    /\ Saved(<<"settle", r>>)
    /\ \E from \in {"completing", "failing"} : Settling(r, from, "consuming")
    /\ Consume(r, <<"settle", r>>)
    /\ UNCHANGED <<up, call, turn, attached, entry, waitVars, resVars, histVars,
                   fixedVars, kills, faults>>

ResumedDone(r) ==
    /\ Saved(<<"settle", r>>)
    /\ Settling(r, "consuming", "done")
    /\ UNCHANGED <<storeVars, up, call, turn, attached, entry, waitVars, resVars,
                   histVars, fixedVars, kills, faults>>

-----------------------------------------------------------------------------
(***************************************************************************)
(* agent.wait.  The answers that change nothing are left out: "pending"    *)
(* for a run in progress that is only polled, RUN_UNAVAILABLE for a        *)
(* pending record without an entry.                                        *)
(***************************************************************************)

Calls(c, r) ==
    /\ up = "up"
    /\ wait[c] = "idle"
    /\ call[r] = "served"
    /\ target' = [target EXCEPT ![c] = r]

Waiting(c, to) == wait' = [wait EXCEPT ![c] = to]

Drop(r) == entry' = [entry EXCEPT ![r] = "none"]

Tell(r, answer) == told' = [told EXCEPT ![r] = answer]

WaitBlocks(c, r) ==
    /\ Calls(c, r)
    /\ entry[r] = "active"
    /\ Waiting(c, "blocked")
    /\ UNCHANGED <<storeVars, up, procVars, resVars, histVars, fixedVars, kills, faults>>

WaitResult(c, r) ==
    /\ Calls(c, r)
    /\ entry[r] = "result"
    /\ Drop(r)
    /\ Waiting(c, "appending")
    /\ UNCHANGED <<storeVars, up, call, turn, attached, settle, resVars, histVars,
                   fixedVars, kills, faults>>

WaitError(c, r) ==
    /\ Calls(c, r)
    /\ entry[r] = "error"
    /\ Drop(r)
    /\ Consume(r, <<"wait", c>>)
    /\ taken' = taken \cup {r}
    /\ Waiting(c, "takingError")
    /\ UNCHANGED <<up, call, turn, attached, settle, resVars, told, fixedVars,
                   kills, faults>>

\* No entry of pendingRuns: the store is asked.
WaitStoredResult(c, r) ==
    /\ Calls(c, r)
    /\ entry[r] = "none"
    /\ Visible(r)
    /\ mem[r].status = "completed"
    /\ Waiting(c, "appending")
    /\ UNCHANGED <<storeVars, up, procVars, resVars, histVars, fixedVars, kills, faults>>

WaitStoredError(c, r) ==
    /\ Calls(c, r)
    /\ entry[r] = "none"
    /\ Visible(r)
    /\ mem[r].status \in {"failed", "interrupted"}
    /\ Consume(r, <<"wait", c>>)
    /\ taken' = taken \cup {r}
    /\ Waiting(c, "takingError")
    /\ UNCHANGED <<up, procVars, resVars, told, fixedVars, kills, faults>>

\* NOT_FOUND.
WaitGone(c, r) ==
    /\ Calls(c, r)
    /\ entry[r] = "none"
    /\ ~Visible(r)
    /\ told[r] = "nothing"
    /\ Tell(r, "gone")
    /\ UNCHANGED <<storeVars, up, procVars, wait, resVars, taken, fixedVars, kills, faults>>

BlockedResolves(c) ==
    /\ wait[c] = "blocked"
    /\ settle[target[c]] = "done"
    /\ Waiting(c, "appendingBlocked")
    /\ UNCHANGED <<storeVars, up, procVars, target, resVars, histVars, fixedVars,
                   kills, faults>>

\* The finally clause drops the entry; nothing consumes the record.
BlockedRejects(c) ==
    /\ wait[c] = "blocked"
    /\ settle[target[c]] = "threw"
    /\ Drop(target[c])
    /\ Tell(target[c], "error")
    /\ Waiting(c, "idle")
    /\ UNCHANGED <<storeVars, up, call, turn, attached, settle, target, resVars, taken,
                   fixedVars, kills, faults>>

\* appendAssistantToThread done, consume called.
TakeResult(c) ==
    /\ \/ wait[c] = "appending" /\ Waiting(c, "taking")
       \/ wait[c] = "appendingBlocked" /\ Waiting(c, "takingBlocked")
    /\ Consume(target[c], <<"wait", c>>)
    /\ taken' = taken \cup {target[c]}
    /\ UNCHANGED <<up, procVars, target, resVars, told, fixedVars, kills, faults>>

WaitAppendFails(c) ==
    /\ faults < MaxFaults
    /\ faults' = faults + 1
    /\ \/ wait[c] = "appending" /\ UNCHANGED entry
       \/ wait[c] = "appendingBlocked" /\ Drop(target[c])
    /\ Waiting(c, "idle")
    /\ UNCHANGED <<storeVars, up, call, turn, attached, settle, target, resVars, histVars,
                   fixedVars, kills>>

\* Mutant: the result is returned without awaiting consume.
MutAnswerResult(c) ==
    /\ \/ wait[c] = "taking" /\ UNCHANGED entry
       \/ wait[c] = "takingBlocked" /\ Drop(target[c])
    /\ Tell(target[c], "result")
    /\ Waiting(c, "idle")
    /\ UNCHANGED <<storeVars, up, call, turn, attached, settle, target, resVars, taken,
                   fixedVars, kills, faults>>

AnswerResult(c) ==
    /\ Saved(<<"wait", c>>)
    /\ \/ wait[c] = "taking" /\ UNCHANGED entry
       \/ wait[c] = "takingBlocked" /\ Drop(target[c])
    /\ Tell(target[c], "result")
    /\ Waiting(c, "idle")
    /\ UNCHANGED <<storeVars, up, call, turn, attached, settle, target, resVars, taken,
                   fixedVars, kills, faults>>

AnswerError(c) ==
    /\ wait[c] = "takingError"
    /\ Saved(<<"wait", c>>)
    /\ Tell(target[c], "error")
    /\ Waiting(c, "idle")
    /\ UNCHANGED <<storeVars, up, procVars, target, resVars, taken, fixedVars,
                   kills, faults>>

-----------------------------------------------------------------------------
(***************************************************************************)
(* resumeInterruptedRuns.  It takes the runs in the order of the records;  *)
(* here in any order.                                                      *)
(***************************************************************************)

ResumeList ==
    /\ resume = "listing"
    /\ todo' = Interrupted
    /\ resume' = "next"
    /\ UNCHANGED <<storeVars, up, procVars, waitVars, current, renewed, histVars,
                   fixedVars, kills, faults>>

\* Mutant: a run without messages is skipped.
MutResumeDiscard(r) ==
    /\ resume = "next"
    /\ r \in todo
    /\ ~resumable[r]
    /\ todo' = todo \ {r}
    /\ UNCHANGED <<storeVars, up, procVars, waitVars, resume, current, renewed, histVars,
                   fixedVars, kills, faults>>

\* The thread has no messages: the run is only consumed.
ResumeDiscard(r) ==
    /\ resume = "next"
    /\ r \in todo
    /\ ~resumable[r]
    /\ todo' = todo \ {r}
    /\ current' = r
    /\ resume' = "discarding"
    /\ Consume(r, <<"resume", None>>)
    /\ UNCHANGED <<up, procVars, waitVars, renewed, histVars, fixedVars, kills, faults>>

\* A new turn is started from the thread, under a new run id n.
ResumeStart(r, n) ==
    /\ resume = "next"
    /\ r \in todo
    /\ resumable[r]
    /\ Fresh(n)
    /\ todo' = todo \ {r}
    /\ current' = r
    /\ renewed' = n
    /\ origin' = [origin EXCEPT ![n] = origin[r]]
    /\ turn' = [turn EXCEPT ![n] = "running"]
    /\ resume' = "creating"
    /\ CreatePending(n, <<"resume", None>>)
    /\ UNCHANGED <<up, call, attached, settle, entry, waitVars, histVars, resumable,
                   kills, faults>>

ResumeConsume ==
    /\ resume = "creating"
    /\ Saved(<<"resume", None>>)
    /\ Consume(current, <<"resume", None>>)
    /\ resume' = "consuming"
    /\ UNCHANGED <<up, procVars, waitVars, todo, current, renewed, histVars, fixedVars,
                   kills, faults>>

ResumeAttach ==
    /\ resume = "consuming"
    /\ Saved(<<"resume", None>>)
    /\ attached' = [attached EXCEPT ![renewed] = TRUE]
    /\ resume' = "next" /\ current' = None /\ renewed' = None
    /\ UNCHANGED <<storeVars, up, call, turn, settle, entry, waitVars, todo, histVars,
                   fixedVars, kills, faults>>

ResumeDiscarded ==
    /\ resume = "discarding"
    /\ Saved(<<"resume", None>>)
    /\ resume' = "next" /\ current' = None
    /\ UNCHANGED <<storeVars, up, procVars, waitVars, todo, renewed, histVars, fixedVars,
                   kills, faults>>

-----------------------------------------------------------------------------
Write ==
    /\ StartWrite \/ FinishWrite
    /\ UNCHANGED <<up, procVars, waitVars, resVars, histVars, fixedVars, kills, faults>>

RunStep(r) ==
    \/ Serve(r) \/ Resolve(r)
    \/ HandleResolved(r) \/ HandleRejected(r)
    \/ GatewayCompleted(r) \/ GatewayFailed(r) \/ GatewayFailedUnhandled(r)
    \/ ResumedSettled(r) \/ ResumedDone(r)

Fault ==
    \/ Kill
    \/ \E r \in Runs : Reject(r) \/ RejectUnattached(r) \/ AppendFails(r)
    \/ \E c \in Clients : WaitAppendFails(c)

\* One call of agent.wait for r, until its answer.
WaitCall(c, r) ==
    \/ WaitResult(c, r) \/ WaitError(c, r)
    \/ WaitStoredResult(c, r) \/ WaitStoredError(c, r) \/ WaitGone(c, r)

WaitStep(c) ==
    BlockedResolves(c) \/ BlockedRejects(c) \/ TakeResult(c) \/ AnswerResult(c) \/ AnswerError(c)

ResumeStep ==
    \/ ResumeList \/ ResumeConsume \/ ResumeAttach \/ ResumeDiscarded
    \/ \E r \in Runs : ResumeDiscard(r)
    \/ \E r, n \in Runs : ResumeStart(r, n)

Next ==
    \/ Boot \/ Listen \/ Write \/ ResumeStep \/ Fault
    \/ \E r \in Runs : RunStep(r) \/ \E hasThread \in BOOLEAN : AgentRun(r, hasThread)
    \/ \E c \in Clients : WaitStep(c) \/ \E r \in Runs : WaitBlocks(c, r) \/ WaitCall(c, r)

Spec == Init /\ [][Next]_vars

\* Everything the process has started goes on, turns end, the supervisor
\* restarts a dead process, and clients keep polling what they were not answered.
Fairness ==
    /\ WF_vars(Boot) /\ WF_vars(Listen) /\ WF_vars(Write) /\ WF_vars(ResumeStep)
    /\ \A r \in Runs : WF_vars(RunStep(r))
    /\ \A c \in Clients : WF_vars(WaitStep(c))
    /\ \A r \in Runs : SF_vars(\E c \in Clients : told[r] = "nothing" /\ WaitCall(c, r))

FairSpec == Spec /\ Fairness

-----------------------------------------------------------------------------
(***************************************************************************)
(* Properties.                                                             *)
(***************************************************************************)

\* No run is left stuck as "pending" (docs/resilience.md): when the process
\* serves requests, a pending record belongs to a turn of this process.
NoStuckPending ==
    up = "up" => \A r \in Runs : mem[r].status = "pending" => turn[r] # "none"

\* The state file still promises an outcome of the run: completed, failed, in
\* flight (so interrupted at the next start), or interrupted and not consumed.
Carries(r) ==
    \/ disk[r].status \in {"pending", "completed", "failed"}
    \/ disk[r].status = "interrupted" /\ ~disk[r].consumed

\* No request is lost, whenever the process dies: from the moment the client
\* has its runId, and unless agent.wait took its record, some run that serves
\* the request is carried by the state file.
RequestNotLost ==
    \A q \in Runs :
        call[q] = "served" /\ resumable[q] /\ q \notin taken =>
            \E r \in Runs : origin[r] = q /\ Carries(r)

\* A result is handed out durably: once a client got it, no later process will
\* give it again, run the request again or call it interrupted.
ResultHandedOutForGood ==
    \A r \in Runs :
        told[r] = "result" => disk[r].consumed /\ disk[r].status = "completed"

\* Every interrupted run is dealt with at startup: it ends up consumed.
InterruptedEventuallyConsumed ==
    \A r \in Runs :
        (up = "up" /\ mem[r].status = "interrupted") ~> (mem[r].consumed \/ up = "down")

\* Every run a client was given the id of is eventually answered: with the
\* result, the error, or NOT_FOUND once it was resumed under another id.
EveryRunAnswered == \A r \in Runs : (call[r] = "served") ~> (told[r] # "nothing")

(***************************************************************************)
(* What the documents say and the code does not do.                        *)
(***************************************************************************)

\* docs/resilience.md 10.1: an interrupted run is resumed "on the next startup"
\* and then consumed.  So a consumed run is not resumed again.
NeverResumesConsumed ==
    [][\A r, n \in Runs : ResumeStart(r, n) => ~mem[r].consumed]_vars

\* docs/rpc-api-reference.md 5.2: a client may poll without `block` until the
\* run is complete.  So a failing turn does not end the process.
FailedTurnIsContained == kills = 0 => up # "down"
=============================================================================
