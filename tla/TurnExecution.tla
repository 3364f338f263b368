--------------------------- MODULE TurnExecution ---------------------------
(***************************************************************************)
(* What AgentRuntime does with a turn: the `execute` closure of            *)
(* scheduleTurn, with the controllers it consults (failure loop, reasoning *)
(* reset, confidence gate), the git checkpoint it may take of the work     *)
(* tree all turns share, and cancellation by session.                      *)
(*                                                                         *)
(* The turns of one session of one profile run one at a time (SessionQueue *)
(* queues by profileId:sessionId); all others interleave at every await,   *)
(* also those of two profiles with the same session id, as the web UI has  *)
(* them: the controllers and the map of current runs go by the plain id.   *)
(* Model output is reduced to what a round does: ask for tools that change *)
(* the work tree or not, go on to another round, end, or fail.             *)
(***************************************************************************)
EXTENDS Naturals, Sequences

CONSTANTS Runs, Sessions, SessionOf,
          Profiles, ProfileOf,
          Heartbeat,     \* the session whose turn a user's message cancels
          Operator,      \* who edits the work tree outside every turn
          Errors,        \* signatures of errors (normalizeErrorSignature)
          EscalationThreshold, ResetIterations, LowConfidence,
          TestSignals,   \* what hasRecentTestsPassing may answer
          MaxFaults,     \* failing writes and git commands (bound)
          None

ASSUME TurnConstants ==
    /\ SessionOf \in [Runs -> Sessions] /\ ProfileOf \in [Runs -> Profiles]
    /\ Heartbeat \in Sessions /\ Operator \notin Runs
    /\ None \notin Runs \cup Errors
    /\ "success" \notin Errors
    /\ EscalationThreshold \in Nat \ {0} /\ ResetIterations \in Nat \ {0}
    /\ LowConfidence \in Nat /\ TestSignals \subseteq BOOLEAN
    /\ MaxFaults \in Nat

VARIABLES pc,         \* per run: the await its turn stands at
          waiting,    \* per profile and session: the turns in the queue
          current,    \* per session: currentRunIdBySession
          streaming,  \* runs with an entry in the adapter's turnIdToProvider
          aborted,    \* runs whose provider was told to stop
          events,     \* per run: lifecycle events emitted, the repeated ones left out
          outcome,    \* per run: what the caller's promise got
          forced,     \* runs that were forced into multi-path reasoning
          scanned,    \* runs whose reset made a deep scan
          guard,      \* per session: FailureLoopGuard's state
          iterations, \* per session: ReasoningResetController's count
          handle,     \* runs whose checkpointHandle is set
          branches,   \* runs whose checkpoint branch exists in git
          dirty,      \* whose edits are in the work tree, not committed
          faults,     \* faults so far
          unwound,    \* runs whose checkpoint or failure handling a fault cut short
          ends        \* history, per session: the ends its turns told, in that order

runVars == <<pc, events, outcome, forced, scanned>>
sessVars == <<waiting, current, guard, iterations>>
gitVars == <<handle, branches, dirty>>
histVars == <<faults, unwound, ends>>
vars == <<runVars, sessVars, streaming, aborted, gitVars, histVars>>

Steps == {"new", "queued", "gate", "hinting", "prompt", "stream", "tool",
          "verify", "finish", "closing", "caught", "unwind", "done"}
Executing(r) == pc[r] \notin {"new", "queued", "done"}

\* The key of the queue.
Lanes   == Profiles \X Sessions
Lane(r) == <<ProfileOf[r], SessionOf[r]>>

TheEnds == [run : Runs, how : Errors \cup {"success"}]

TypeOK ==
    /\ pc \in [Runs -> Steps]
    /\ waiting \in [Lanes -> Seq(Runs)]
    /\ current \in [Sessions -> Runs \cup {None}]
    /\ streaming \subseteq Runs /\ aborted \subseteq Runs
    /\ events \in [Runs -> Seq({"queued", "started", "completed", "failed"})]
    /\ outcome \in [Runs -> {"none", "result", "hint", "error"}]
    /\ forced \subseteq Runs /\ scanned \subseteq Runs
    /\ guard \in [Sessions -> [error : Errors \cup {None}, count : Nat]]
    /\ iterations \in [Sessions -> 0..ResetIterations]
    /\ handle \subseteq Runs /\ branches \subseteq Runs
    /\ dirty \subseteq Runs \cup {Operator}
    /\ faults \in 0..MaxFaults /\ unwound \subseteq Runs
    /\ ends \in [Sessions -> Seq(TheEnds)]

Quiet == [error |-> None, count |-> 0]

Init ==
    /\ pc = [r \in Runs |-> "new"]
    /\ waiting = [l \in Lanes |-> <<>>]
    /\ current = [s \in Sessions |-> None]
    /\ streaming = {} /\ aborted = {}
    /\ events = [r \in Runs |-> <<>>]
    /\ outcome = [r \in Runs |-> "none"]
    /\ forced = {} /\ scanned = {}
    /\ guard = [s \in Sessions |-> Quiet]
    /\ iterations = [s \in Sessions |-> 0]
    /\ handle = {} /\ branches = {} /\ dirty = {}
    /\ faults = 0 /\ unwound = {}
    /\ ends = [s \in Sessions |-> <<>>]

-----------------------------------------------------------------------------
\* Helpers.

Goto(r, step) == pc' = [pc EXCEPT ![r] = step]
Emit(r, type) == events' = [events EXCEPT ![r] = Append(@, type)]
EndTold(r, how) ==
    ends' = [ends EXCEPT ![SessionOf[r]] = Append(@, [run |-> r, how |-> how])]

\* Mutant: failures count whatever their signature.
MutRecordFailure(s, e) ==
    guard' = [guard EXCEPT ![s] = [error |-> e, count |-> @.count + 1]]

\* The guard counts failures with one signature in a row.
RecordFailure(s, e) ==
    guard' = [guard EXCEPT ![s] =
        [error |-> e, count |-> IF @.error = e THEN @.count + 1 ELSE 1]]
RecordSuccess(s) == guard' = [guard EXCEPT ![s] = Quiet]
RequiresStepBack(s) == guard[s].count >= EscalationThreshold

\* Every so many turns without a success the assumptions are dropped.
ResetDue(s) == iterations[s] + 1 >= ResetIterations

NoteIteration(s) ==
    iterations' = [iterations EXCEPT ![s] = IF ResetDue(s) THEN 0 ELSE @ + 1]

\* The score of ConfidenceModel before the model is called.
AtMost(a, b) == IF a < b THEN a ELSE b
Score(r, passing) ==
    82 - AtMost(35, 12 * guard[SessionOf[r]].count)
       + (IF r \in scanned THEN 8 ELSE 0) + (IF passing THEN 10 ELSE 0)

-----------------------------------------------------------------------------
\* startTurn; for a user's turn, agent.run first cancels the heartbeat's.
Cancels(s) ==
    aborted' = IF current[s] \in streaming THEN aborted \cup {current[s]} ELSE aborted

Submit(r) ==
    /\ pc[r] = "new"
    /\ Goto(r, "queued") /\ Emit(r, "queued")
    /\ waiting' = [waiting EXCEPT ![Lane(r)] = Append(@, r)]
    /\ IF SessionOf[r] = Heartbeat THEN UNCHANGED aborted ELSE Cancels(Heartbeat)
    /\ UNCHANGED <<outcome, forced, scanned, current, guard, iterations,
                   streaming, gitVars, histVars>>

\* The queue executes the turn: everything up to the first await.
Start(r) ==
    LET s == SessionOf[r]
    IN  /\ waiting[Lane(r)] # <<>> /\ Head(waiting[Lane(r)]) = r
        /\ \A q \in Runs : Lane(q) = Lane(r) => ~Executing(q)
        /\ waiting' = [waiting EXCEPT ![Lane(r)] = Tail(@)]
        /\ current' = [current EXCEPT ![s] = r]
        /\ forced' = IF RequiresStepBack(s) THEN forced \cup {r} ELSE forced
        /\ NoteIteration(s)
        /\ scanned' = IF ResetDue(s) THEN scanned \cup {r} ELSE scanned
        /\ Goto(r, "gate") /\ Emit(r, "started")
        /\ UNCHANGED <<outcome, guard, streaming, aborted, gitVars, histVars>>

\* The gate: a hint is asked for, and the turn ends without the model.
AskForHint(r) ==
    /\ pc[r] = "gate"
    /\ \E passing \in TestSignals : Score(r, passing) < LowConfidence
    /\ Goto(r, "hinting") /\ Emit(r, "completed")
    /\ UNCHANGED <<outcome, forced, scanned, sessVars, streaming, aborted,
                   gitVars, histVars>>

PassGate(r) ==
    /\ pc[r] = "gate"
    /\ \E passing \in TestSignals : Score(r, passing) >= LowConfidence
    /\ Goto(r, "prompt")
    /\ UNCHANGED <<events, outcome, forced, scanned, sessVars, streaming,
                   aborted, gitVars, histVars>>

\* The prompt is built and the adapter called: the provider is registered.
CallModel(r) ==
    /\ pc[r] = "prompt"
    /\ Goto(r, "stream")
    /\ streaming' = streaming \cup {r}
    /\ UNCHANGED <<events, outcome, forced, scanned, sessVars, aborted, gitVars, histVars>>

-----------------------------------------------------------------------------
\* A round of the agent loop.

\* A tool that may change the work tree: a checkpoint comes first, unless the
\* turn has one or the tree is not clean.
NeedsCheckpoint(r) == r \notin handle /\ dirty = {}

StartTool(r) ==
    /\ pc[r] = "stream"
    /\ Goto(r, "tool")
    /\ IF NeedsCheckpoint(r)
       THEN handle' = handle \cup {r} /\ branches' = branches \cup {r}
       ELSE UNCHANGED <<handle, branches>>
    /\ UNCHANGED <<events, outcome, forced, scanned, sessVars, streaming,
                   aborted, dirty, histVars>>

\* The tool edits; a failing tool is an output like another.
ToolEdits(r) ==
    /\ pc[r] = "tool"
    /\ Goto(r, "stream")
    /\ dirty' \in {dirty, dirty \cup {r}}
    /\ UNCHANGED <<events, outcome, forced, scanned, sessVars, streaming,
                   aborted, handle, branches, histVars>>

\* The stream ends: the results go into another round, or the loop is over.
EndRound(r) ==
    /\ pc[r] = "stream"
    /\ streaming' = streaming \ {r}
    /\ \/ Goto(r, "prompt")
       \/ Goto(r, "verify")
    /\ UNCHANGED <<events, outcome, forced, scanned, sessVars, aborted,
                   gitVars, histVars>>

\* The person who works in the tree too edits it, or commits what is there
\* (not while a checkpoint exists: what a rollback does to commits is left out).
OperatorEdits ==
    /\ Operator \notin dirty
    /\ dirty' = dirty \cup {Operator}
    /\ UNCHANGED <<runVars, sessVars, streaming, aborted, handle, branches, histVars>>

OperatorCommits ==
    /\ branches = {} /\ dirty # {}
    /\ dirty' = {}
    /\ UNCHANGED <<runVars, sessVars, streaming, aborted, handle, branches, histVars>>

-----------------------------------------------------------------------------
\* The end of a turn that went well.

\* git reset --hard to the checkpoint.
ResetTree == dirty' = {}
\* The branch is deleted; if git fails to, that is swallowed and the branch stays.
Cleanup(r) ==
    /\ handle' = handle \ {r}
    /\ \/ branches' = branches \ {r} /\ UNCHANGED <<faults, unwound>>
       \/ /\ r \in handle /\ faults < MaxFaults
          /\ faults' = faults + 1 /\ unwound' = unwound \cup {r}
          /\ UNCHANGED branches

\* The reliability checks: passed, or there was nothing to check.
Verified(r) ==
    /\ pc[r] = "verify"
    /\ Goto(r, "finish")
    /\ Cleanup(r)
    /\ UNCHANGED <<events, outcome, forced, scanned, sessVars, streaming,
                   aborted, dirty, ends>>

\* memoryStore.append and what follows up to the next await.
Finish(r) ==
    LET s == SessionOf[r]
    IN  /\ pc[r] = "finish"
        /\ Goto(r, "closing") /\ Emit(r, "completed")
        /\ RecordSuccess(s) /\ EndTold(r, "success")
        /\ iterations' = [iterations EXCEPT ![s] = 0]
        /\ UNCHANGED <<outcome, forced, scanned, waiting, current, streaming,
                       aborted, gitVars, faults, unwound>>

\* The finally forgets the session's current run, whichever run that is by now.
Settle(r, o) ==
    /\ Goto(r, "done")
    /\ outcome' = [outcome EXCEPT ![r] = o]
    /\ current' = [current EXCEPT ![SessionOf[r]] = None]

\* The observation and the snapshot are written, the result returned.
Return(r) ==
    /\ \/ pc[r] = "hinting" /\ Settle(r, "hint")
       \/ pc[r] = "closing" /\ Settle(r, "result")
    /\ UNCHANGED <<events, forced, scanned, waiting, guard, iterations,
                   streaming, aborted, gitVars, histVars>>

-----------------------------------------------------------------------------
\* The catch of the closure.

\* Mutant: a turn that has told it completed does not tell it failed.
MutCaught(r, e) ==
    /\ Goto(r, "caught")
    /\ IF "completed" = events[r][Len(events[r])] THEN UNCHANGED events ELSE Emit(r, "failed")
    /\ RecordFailure(SessionOf[r], e) /\ EndTold(r, e)
    /\ streaming' = streaming \ {r}
    /\ UNCHANGED <<outcome, forced, scanned, waiting, current, iterations, aborted>>

\* Everything of the catch up to its first write.
Caught(r, e) ==
    /\ Goto(r, "caught") /\ Emit(r, "failed")
    /\ RecordFailure(SessionOf[r], e) /\ EndTold(r, e)
    /\ streaming' = streaming \ {r}
    /\ UNCHANGED <<outcome, forced, scanned, waiting, current, iterations, aborted>>

\* The stream fails, or a tool is blocked by policy.
StreamFails(r, e) ==
    /\ pc[r] \in {"stream", "tool"}
    /\ Caught(r, e)
    /\ UNCHANGED <<gitVars, faults, unwound>>

\* The checks fail: rolled back here, and again in the catch.
ChecksFail(r, e) ==
    /\ pc[r] = "verify" /\ r \in handle
    /\ ResetTree
    /\ Caught(r, e)
    /\ UNCHANGED <<handle, branches, faults, unwound>>

\* The checkpoint's branch is made, and the journal's line about it fails: the
\* branch stays and nobody has its handle.
CheckpointFails(r, e) ==
    /\ pc[r] = "stream" /\ NeedsCheckpoint(r)
    /\ faults < MaxFaults
    /\ faults' = faults + 1
    /\ branches' = branches \cup {r}
    /\ unwound' = unwound \cup {r}
    /\ Caught(r, e)
    /\ UNCHANGED <<handle, dirty>>

\* A write or a git command fails anywhere before the catch.
StepFails(r, e) ==
    /\ pc[r] \in {"gate", "hinting", "prompt", "verify", "finish", "closing"}
    /\ faults < MaxFaults
    /\ faults' = faults + 1
    /\ Caught(r, e)
    /\ UNCHANGED <<gitVars, unwound>>

\* Mutant: the catch restores the tree and keeps the branch.
MutObserved(r) ==
    /\ pc[r] = "caught"
    /\ Goto(r, "unwind")
    /\ IF r \in handle THEN ResetTree ELSE UNCHANGED dirty
    /\ UNCHANGED <<events, outcome, forced, scanned, sessVars, streaming,
                   aborted, handle, branches, histVars>>

\* The failure is observed and journalled; the checkpoint, if any, is
\* restored and given up.
Observed(r) ==
    /\ pc[r] = "caught"
    /\ Goto(r, "unwind")
    /\ IF r \in handle
       THEN ResetTree /\ Cleanup(r)
       ELSE UNCHANGED <<gitVars, faults, unwound>>
    /\ UNCHANGED <<events, outcome, forced, scanned, sessVars, streaming,
                   aborted, ends>>

\* Snapshot, rethrow, finally.
Rethrow(r) ==
    /\ pc[r] = "unwind"
    /\ Settle(r, "error")
    /\ UNCHANGED <<events, forced, scanned, waiting, guard, iterations,
                   streaming, aborted, gitVars, histVars>>

\* A write of the catch fails: what is left of it is not done.
CatchFails(r) ==
    /\ pc[r] \in {"caught", "unwind"}
    /\ faults < MaxFaults
    /\ faults' = faults + 1
    /\ unwound' = unwound \cup {r}
    /\ Settle(r, "error")
    /\ UNCHANGED <<events, forced, scanned, waiting, guard, iterations,
                   streaming, aborted, gitVars, ends>>

-----------------------------------------------------------------------------
Fails(r) ==
    \/ \E e \in Errors : StreamFails(r, e) \/ ChecksFail(r, e)
                         \/ CheckpointFails(r, e) \/ StepFails(r, e)
    \/ CatchFails(r)

Proceed(r) ==
    \/ Submit(r) \/ Start(r) \/ AskForHint(r) \/ PassGate(r) \/ CallModel(r)
    \/ StartTool(r) \/ ToolEdits(r) \/ EndRound(r) \/ Verified(r) \/ Finish(r)
    \/ Return(r) \/ Observed(r) \/ Rethrow(r)

Next == OperatorEdits \/ OperatorCommits \/ \E r \in Runs : Proceed(r) \/ Fails(r)

Spec == Init /\ [][Next]_vars

-----------------------------------------------------------------------------
Ended(r) == pc[r] = "done"

\* Whoever follows a turn by its events learns what its caller learns: the last
\* event is "completed" for a result or a hint and "failed" for an error, and
\* neither is sent twice, also when the observation or the snapshot written
\* after "completed" fails and the turn with it.
EventsTellTheOutcome ==
    \A r \in Runs : Ended(r) =>
        /\ events[r][Len(events[r])] =
               IF outcome[r] = "error" THEN "failed" ELSE "completed"
        /\ \A i, j \in DOMAIN events[r] : events[r][i] = events[r][j] => i = j

\* No turn leaves its checkpoint behind, however it ends: a branch outlives its
\* turn only if a write of the checkpoint's or the catch's own failed.
CheckpointsReleased ==
    \A r \in branches : Ended(r) => r \in unwound

\* The last ends in the list, as many as the threshold, are failures of different
\* turns with one and the same error.
Repeated(past) ==
    LET n == Len(past)
        Last == (n - EscalationThreshold + 1)..n
    IN  /\ n >= EscalationThreshold
        /\ \A i \in Last : past[i].how = past[n].how /\ past[i].how # "success"
        /\ \A i, j \in Last : past[i].run = past[j].run => i = j

\* A turn is forced into multi-path reasoning exactly when the last ends told under its
\* session id, of whatever profile's turns and however those overlapped, are failures
\* with one error of as many different turns as the threshold: no failure is counted
\* twice, none is forgotten but for a success or another error.
ForcedExactlyAfterRepeats ==
    [][\A r \in Runs : pc[r] = "queued" /\ pc'[r] = "gate"
                        => (r \in forced' <=> Repeated(ends[SessionOf[r]]))]_vars

\* A rollback takes back the edits of its own turn and nobody else's
\* (docs/codebase-reference.md:143, git-checkpoint.ts:30-32).
RollbackSparesOthers ==
    [][\A r \in Runs : pc[r] \in {"verify", "caught"} /\ pc'[r] # pc[r]
                        => dirty \ dirty' \subseteq {r}]_vars

=============================================================================
