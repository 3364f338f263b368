---------------------------- MODULE ModelAdapter ----------------------------
(***************************************************************************)
(* One call of CursorAgentModelAdapter.sendTurn, the providers behind it   *)
(* and the loop of the runtime that consumes its events.                   *)
(*                                                                         *)
(* The chain of models is tried in order.  A CLI model is a child process: *)
(* it writes event lines, is watched by a timer, and ends with the `close` *)
(* event of Node's ChildProcess.  An HTTP model (ollama, openai-compatible *)
(* and lm-studio) is one request with an abort signal.  The generators     *)
(* only run while the consumer asks for the next event: while the runtime  *)
(* executes a tool, or writes a snapshot, nothing is read, but the child,  *)
(* its timer and cancel go on.  Attempts are numbered along the chain:     *)
(* attempt a uses Chain[a].                                                *)
(***************************************************************************)
EXTENDS Naturals, Sequences

CONSTANTS Chain,      \* Seq of "cli" and "http": the providers of the enabled models
          MaxEvents,  \* event lines a child writes (bound)
          None

Attempts == 1..Len(Chain)

VARIABLES pc,        \* of the consumer and the generators it drives
          at,        \* the attempt under way
          lines,     \* per attempt: event lines written and not read
          written,   \* per attempt: how many lines were written
          child,     \* per attempt: "none", "running", "silent" (it runs on with its
                     \* output closed), "exited", "closed"
          code,      \* per attempt: what it exited with
          timer,     \* per attempt: "off", "armed", "fired"
          seen,      \* per attempt: forwardable events, and "done"
          failure,   \* why the last attempt failed
          registered,\* turnIdToProvider has the turn
          processes, \* attempts whose child is in the provider's map
          cancelled, \* cancel(turnId) was called
          timeouts   \* the provider's timeoutCount

childVars == <<lines, written, child, code>>
regVars == <<registered, processes, cancelled>>
vars == <<pc, at, childVars, timer, seen, failure, regVars, timeouts>>

EventKinds == {"delta", "tool", "done", "error", "bad"}
Over == {"ok", "failed"}
Runs(a) == child[a] \in {"running", "silent"}

\* isRecoverableAdapterError looks for auth, transport, timeout or model in
\* the message: a timeout always is, a crash if stderr says so.
Recoverable(f) == f = "timeout"
MayRecover(f) == f \in {"timeout", "crash"}

Init ==
    /\ pc = "next" /\ at = 0
    /\ lines = [a \in Attempts |-> <<>>]
    /\ written = [a \in Attempts |-> 0]
    /\ child = [a \in Attempts |-> "none"]
    /\ code = [a \in Attempts |-> None]
    /\ timer = [a \in Attempts |-> "off"]
    /\ seen = [a \in Attempts |-> {}]
    /\ failure = None
    /\ registered = FALSE /\ processes = {} /\ cancelled = FALSE
    /\ timeouts = 0

-----------------------------------------------------------------------------
\* The adapter's loop over the chain.

\* The next model of the chain: a CLI child is spawned, an HTTP request sent.
Attempt ==
    /\ pc = "next" /\ at < Len(Chain)
    /\ at' = at + 1
    /\ registered' = TRUE
    /\ IF Chain[at + 1] = "cli"
       THEN /\ pc' = "reading"
            /\ child' = [child EXCEPT ![at + 1] = "running"]
            /\ timer' = [timer EXCEPT ![at + 1] = "armed"]
            /\ processes' = processes \cup {at + 1}
       ELSE pc' = "request" /\ UNCHANGED <<child, timer, processes>>
    /\ UNCHANGED <<lines, written, code, seen, failure, cancelled, timeouts>>

\* The CLI cannot be spawned: nobody listens to the child's `error` event, so
\* the process of the gateway dies, its timers with it.
SpawnFails ==
    /\ pc = "next" /\ at < Len(Chain) /\ Chain[at + 1] = "cli"
    /\ pc' = "crashed" /\ at' = at + 1
    /\ timer' = [a \in Attempts |-> IF timer[a] = "armed" THEN "off" ELSE timer[a]]
    /\ registered' = FALSE /\ processes' = {}
    /\ UNCHANGED <<childVars, seen, failure, cancelled, timeouts>>

\* Every model was tried.
Exhausted ==
    /\ pc = "next" /\ at = Len(Chain)
    /\ pc' = "failed"
    /\ UNCHANGED <<at, childVars, timer, seen, failure, regVars, timeouts>>

\* The provider's generator throws: the adapter's catch and finally.
Throw(f) ==
    /\ failure' = f
    /\ registered' = FALSE
    /\ \/ MayRecover(f) /\ pc' = "next"
       \/ ~Recoverable(f) /\ pc' = "failed"

\* The consumer leaves its loop: return() ends the generators at their yield,
\* and only the adapter has a finally there.
Leave(outcome, f) ==
    /\ pc' = outcome
    /\ failure' = f
    /\ registered' = FALSE

-----------------------------------------------------------------------------
\* The child process of an attempt, whoever reads it.

ChildWrites(a, e) ==
    /\ child[a] = "running" /\ written[a] < MaxEvents
    /\ lines' = [lines EXCEPT ![a] = Append(@, e)]
    /\ written' = [written EXCEPT ![a] = @ + 1]
    /\ UNCHANGED <<pc, at, child, code, timer, seen, failure, regVars, timeouts>>

\* It closes its output and runs on.
ChildFallsSilent(a) ==
    /\ child[a] = "running"
    /\ child' = [child EXCEPT ![a] = "silent"]
    /\ UNCHANGED <<pc, at, lines, written, code, timer, seen, failure, regVars, timeouts>>

\* It exits; its pipes still hold what it wrote.
ChildExits(a, c) ==
    /\ Runs(a)
    /\ child' = [child EXCEPT ![a] = "exited"]
    /\ code' = [code EXCEPT ![a] = c]
    /\ UNCHANGED <<pc, at, lines, written, timer, seen, failure, regVars, timeouts>>

\* How an attempt whose child has closed ended.
Resolve ==
    /\ processes' = processes \ {at}
    /\ \/ /\ timer[at] = "fired"
          /\ Throw("timeout")
       \/ /\ timer[at] # "fired"
          /\ code[at] = "nonzero" \/ seen[at] = {}
          /\ Throw("crash")
       \/ /\ timer[at] # "fired"
          /\ code[at] = "zero" /\ seen[at] # {}
          /\ Leave("ok", None)

\* `close` is emitted once, to the listeners there are: only a consumer that has read
\* all the lines has one (one that waits for the next line sees their end first).
ChildCloses(a) ==
    /\ child[a] = "exited"
    /\ ~(pc = "reading" /\ at = a)
    /\ child' = [child EXCEPT ![a] = "closed"]
    /\ IF pc = "closing" /\ at = a
       THEN Resolve
       ELSE UNCHANGED <<pc, failure, registered, processes>>
    /\ UNCHANGED <<at, lines, written, code, timer, seen, cancelled, timeouts>>

\* stageTerminate: the child is told, sent SIGTERM, then SIGKILL.
Terminated(a) ==
    /\ child' = [child EXCEPT ![a] = IF Runs(a) THEN "exited" ELSE @]
    /\ code' = [code EXCEPT ![a] = IF Runs(a) THEN "nonzero" ELSE @]

TimerFires(a) ==
    /\ timer[a] = "armed"
    /\ timer' = [timer EXCEPT ![a] = "fired"]
    /\ timeouts' = timeouts + 1
    /\ Terminated(a)
    /\ UNCHANGED <<pc, at, lines, written, seen, failure, regVars>>

-----------------------------------------------------------------------------
\* Reading a child's lines: runOneAttempt, and the runtime's loop.

\* Mutant: resetTimeout does not set the timer again.
MutReadsNext(e) ==
    /\ pc = "reading"
    /\ lines[at] # <<>> /\ Head(lines[at]) = e
    /\ lines' = [lines EXCEPT ![at] = Tail(@)]
    /\ timer' = [timer EXCEPT ![at] = IF @ = "fired" THEN @ ELSE "off"]

ReadsNext(e) ==
    /\ pc = "reading"
    /\ lines[at] # <<>> /\ Head(lines[at]) = e
    /\ lines' = [lines EXCEPT ![at] = Tail(@)]
    /\ timer' = [timer EXCEPT ![at] = IF @ = "fired" THEN @ ELSE "armed"]

Forwarded == seen' = [seen EXCEPT ![at] = @ \cup {"event"}]

\* After every so many events the runtime writes a snapshot before the next.
ReadDelta ==
    /\ ReadsNext("delta") /\ Forwarded
    /\ pc' \in {"reading", "busy"}
    /\ UNCHANGED <<at, written, child, code, failure, regVars, timeouts>>

\* The runtime executes the tool before it asks for the next event.
ReadToolCall ==
    /\ ReadsNext("tool") /\ Forwarded
    /\ pc' = "busy"
    /\ UNCHANGED <<at, written, child, code, failure, regVars, timeouts>>

Resume ==
    /\ pc = "busy"
    /\ pc' = "reading"
    /\ UNCHANGED <<at, childVars, timer, seen, failure, regVars, timeouts>>

\* A tool blocked by policy, or a snapshot that fails, throws out of the loop.
BusyFails ==
    /\ pc = "busy"
    /\ Leave("failed", "reported")
    /\ UNCHANGED <<at, childVars, timer, seen, processes, cancelled, timeouts>>

\* "done" ends the runtime's loop; what follows the loop of runOneAttempt,
\* clearing the timer included, does not run.
ReadDone ==
    /\ ReadsNext("done")
    /\ seen' = [seen EXCEPT ![at] = @ \cup {"done"}]
    /\ Leave("ok", None)
    /\ UNCHANGED <<at, written, child, code, processes, cancelled, timeouts>>

\* The runtime throws on an error event.
ReadError ==
    /\ ReadsNext("error") /\ Forwarded
    /\ Leave("failed", "reported")
    /\ UNCHANGED <<at, written, child, code, processes, cancelled, timeouts>>

\* A line that is no event throws in the provider.
ReadMalformed ==
    /\ ReadsNext("bad")
    /\ Throw("malformed")
    /\ UNCHANGED <<at, written, child, code, seen, processes, cancelled, timeouts>>

\* The child's output is over: its timer is cleared, and only then `close` awaited,
\* whether the child has exited, runs on, or has closed already while the consumer was
\* busy: then the listener put on now is never called.
EndOfLines ==
    /\ pc = "reading"
    /\ lines[at] = <<>> /\ child[at] \in {"silent", "exited", "closed"}
    /\ timer' = [timer EXCEPT ![at] = IF @ = "fired" THEN @ ELSE "off"]
    /\ pc' = "closing"
    /\ UNCHANGED <<at, childVars, seen, failure, regVars, timeouts>>

-----------------------------------------------------------------------------
\* An HTTP attempt.

RequestSucceeds ==
    /\ pc = "request"
    /\ seen' = [seen EXCEPT ![at] = {"event", "done"}]
    /\ Leave("ok", None)
    /\ UNCHANGED <<at, childVars, timer, processes, cancelled, timeouts>>

\* Unreachable, refused or timed out: the provider yields an error event, at
\* which the runtime leaves; the provider's own throw is never reached.
RequestFails ==
    /\ pc = "request"
    /\ Leave("failed", "unreachable")
    /\ UNCHANGED <<at, childVars, timer, seen, processes, cancelled, timeouts>>

\* cancelTurnForSession: what the registered provider has in flight.
Cancel ==
    /\ registered /\ ~cancelled
    /\ cancelled' = TRUE
    /\ registered' = FALSE
    /\ IF Chain[at] = "cli" /\ at \in processes
       THEN Terminated(at) /\ processes' = processes \ {at}
            /\ UNCHANGED <<pc, failure>>
       ELSE UNCHANGED <<child, code, processes, pc, failure>>
    /\ UNCHANGED <<at, lines, written, timer, seen, timeouts>>

-----------------------------------------------------------------------------
Child(a) ==
    \/ \E e \in EventKinds : ChildWrites(a, e)
    \/ \E c \in {"zero", "nonzero"} : ChildExits(a, c)
    \/ ChildFallsSilent(a) \/ ChildCloses(a) \/ TimerFires(a)

Read ==
    \/ ReadDelta \/ ReadToolCall \/ ReadDone \/ ReadError \/ ReadMalformed
    \/ EndOfLines

Turn ==
    \/ Attempt \/ SpawnFails \/ Exhausted \/ Read \/ Resume \/ BusyFails
    \/ RequestSucceeds \/ RequestFails

Next == Turn \/ Cancel \/ \E a \in Attempts : Child(a)

Spec == Init /\ [][Next]_vars

\* Timers fire, what a child did is delivered, and the runtime goes on; a child
\* need not write, nor exit before its timer fires.
FairSpec ==
    /\ Spec
    /\ WF_vars(Turn)
    /\ \A a \in Attempts : WF_vars(TimerFires(a)) /\ WF_vars(ChildCloses(a))

-----------------------------------------------------------------------------
\* As long as the gateway runs, a running child has a timer that will end it, also when
\* the turn it ran for is over, was cancelled, or has gone on to another model.  The one
\* exception: a child that closed its output itself, while its turn waits for its end.
EveryChildIsWatched ==
    pc # "crashed" =>
        \A a \in Attempts : Runs(a) =>
            \/ timer[a] = "armed"
            \/ child[a] = "silent" /\ pc = "closing" /\ at = a

\* What the guardrail "Timeout watchdog stages cancellation"
\* (docs/cursor-agent-adapter.md:210) says of it: there is no exception.
WatchdogHasNoGap ==
    pc # "crashed" => \A a \in Attempts : Runs(a) => timer[a] = "armed"

\* A turn that failed because a model timed out or could not be reached had no
\* model left to try (docs/PMR-provider-model-resilience.md:186).
FailsOver ==
    pc = "failed" /\ failure \in {"timeout", "unreachable"} => at = Len(Chain)

\* Every turn ends: the watchdog ends a model that does not
\* (docs/cursor-agent-adapter.md:210).
EveryTurnEnds == <>(pc \in Over)
=============================================================================
