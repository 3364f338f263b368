---------------------------- MODULE SessionQueue ----------------------------
(***************************************************************************)
(* SessionQueue of src/src/runtime.ts over the InMemoryQueueBackend of     *)
(* src/src/queue/in-memory-backend.ts: turns submitted for a session are   *)
(* admitted, refused or dropped against a hard limit, and executed by a    *)
(* drain loop.                                                             *)
(*                                                                         *)
(* JavaScript runs one step at a time.  A step runs to its next `await`;   *)
(* each awaited call of the in-memory backend takes effect at once and its *)
(* continuation goes to the end of the microtask queue, here `jobs`.       *)
(* Callers and finished executions are macrotasks: they run when no        *)
(* microtask is left.  A session's state object `{ running }` is named     *)
(* after the turn whose enqueueAsync created it, a drain loop after the    *)
(* turn whose enqueueAsync called it.                                      *)
(***************************************************************************)
EXTENDS Naturals, Sequences, FiniteSets

CONSTANTS Turns,        \* the turns ever submitted: bounds the run
          Sessions,     \* queue keys, `profileId:sessionId`
          HardLimit,    \* options.hardLimit
          Strategies,   \* the values options.dropStrategy may have
          Burst,        \* whether callers may submit inside one tick
          None          \* no turn, no session, no state object

ASSUME LimitAssumption == HardLimit \in Nat
ASSUME StrategyAssumption == Strategies \subseteq {"drop-oldest", "defer-new"}
ASSUME BurstAssumption == Burst \in BOOLEAN
ASSUME NoneAssumption == None \notin Turns /\ None \notin Sessions

VARIABLES
    strategy,   \* options.dropStrategy of this queue
    key,        \* [Turns -> session submitted to, or None]
    pc,         \* [Turns -> where the turn's enqueueAsync is]
    seen,       \* [Turns -> pendingIds.length it read]
    obj,        \* [Turns -> state object it read, or created]
    dropped,    \* [Turns -> the turn it dequeued to make room, or None]
    registered, \* this.sessions: [Sessions -> state object or None]
    running,    \* [state objects -> running flag]
    list,       \* backend.sessions: [Sessions -> Seq(Turns)]
    drain,      \* [Turns -> where the drain loop it started is]
    hand,       \* [Turns -> the payload that drain loop holds, or None]
    fate,       \* [Turns -> how the caller's promise was settled]
    jobs        \* the microtask queue

vars == <<strategy, key, pc, seen, obj, dropped, registered, running, list, drain,
          hand, fate, jobs>>
bookVars == <<strategy, key, seen, obj>>
loopVars == <<drain, hand>>

PcStates    == {"new", "listing", "dropping", "pushed", "out"}
DrainStates == {"none", "dequeuing", "executing", "settling", "done"}
Fates       == {"open", "resolved", "failed", "refused", "dropped"}
Jobs        == {"enqueue", "drain"} \X Turns

TypeOK ==
    /\ strategy \in Strategies
    /\ key \in [Turns -> Sessions \cup {None}]
    /\ pc \in [Turns -> PcStates]
    /\ seen \in [Turns -> Nat]
    /\ obj \in [Turns -> Turns]
    /\ dropped \in [Turns -> Turns \cup {None}]
    /\ registered \in [Sessions -> Turns \cup {None}]
    /\ running \in [Turns -> BOOLEAN]
    /\ list \in [Sessions -> Seq(Turns)]
    /\ drain \in [Turns -> DrainStates]
    /\ hand \in [Turns -> Turns \cup {None}]
    /\ fate \in [Turns -> Fates]
    /\ jobs \in Seq(Jobs)

Init ==
    /\ strategy \in Strategies
    /\ key = [t \in Turns |-> None]
    /\ pc = [t \in Turns |-> "new"]
    /\ seen = [t \in Turns |-> 0]
    /\ obj = [t \in Turns |-> t]
    /\ dropped = [t \in Turns |-> None]
    /\ registered = [s \in Sessions |-> None]
    /\ running = [t \in Turns |-> FALSE]
    /\ list = [s \in Sessions |-> <<>>]
    /\ drain = [t \in Turns |-> "none"]
    /\ hand = [t \in Turns |-> None]
    /\ fate = [t \in Turns |-> "open"]
    /\ jobs = <<>>

(***************************************************************************)
(* Helpers.                                                                *)
(***************************************************************************)

\* The microtask at the head of the queue is the continuation of `kind` for t.
Runs(kind, t) == jobs # <<>> /\ Head(jobs) = <<kind, t>>

\* The running microtask ends at an await: its continuation goes to the back.
Await(kind, t) == jobs' = Append(Tail(jobs), <<kind, t>>)

\* Head of a session's backend list, None when it is empty (dequeue's result).
Oldest(s) == IF list[s] = <<>> THEN None ELSE Head(list[s])

\* Mutant: dequeue returns the head and leaves it in the list.
MutShift(s) == list' = list

\* backend.dequeue: takes effect when called.
Shift(s) ==
    list' = IF list[s] = <<>> THEN list ELSE [list EXCEPT ![s] = Tail(@)]

\* A promise settles once; later calls of resolve or reject do nothing.
Settle(t, how) ==
    fate' = [fate EXCEPT ![t] = IF @ = "open" THEN how ELSE @]

Depth(t) == seen[t] + (IF running[obj[t]] THEN 1 ELSE 0)

\* Mutant: the new turn overtakes the waiting ones.
MutPush(t) ==
    /\ list' = [list EXCEPT ![key[t]] = <<t>> \o @]
    /\ pc' = [pc EXCEPT ![t] = "pushed"]
    /\ Await("enqueue", t)

\* backend.enqueue: takes effect when called.
Push(t) ==
    /\ list' = [list EXCEPT ![key[t]] = Append(@, t)]
    /\ pc' = [pc EXCEPT ![t] = "pushed"]
    /\ Await("enqueue", t)

Leave(t) ==
    /\ pc' = [pc EXCEPT ![t] = "out"]
    /\ jobs' = Tail(jobs)

-----------------------------------------------------------------------------
(***************************************************************************)
(* enqueue and enqueueAsync.                                               *)
(***************************************************************************)

\* Mutant: every enqueue makes a state object of its own.
MutStateObject(t, s) == t

\* sessions.get(key) ?? { running: false }
StateObject(t, s) == IF registered[s] = None THEN t ELSE registered[s]

\* The caller's enqueue, up to the await of listPending.
Submit(t, s) ==
    /\ pc[t] = "new"
    /\ Burst \/ jobs = <<>>
    /\ key' = [key EXCEPT ![t] = s]
    /\ obj' = [obj EXCEPT ![t] = StateObject(t, s)]
    /\ seen' = [seen EXCEPT ![t] = Len(list[s])]
    /\ pc' = [pc EXCEPT ![t] = "listing"]
    /\ jobs' = Append(jobs, <<"enqueue", t>>)
    /\ UNCHANGED <<strategy, dropped, registered, running, list, loopVars, fate>>

Admit(t) ==
    /\ Runs("enqueue", t)
    /\ pc[t] = "listing"
    /\ Depth(t) < HardLimit
    /\ Push(t)
    /\ UNCHANGED <<bookVars, dropped, registered, running, loopVars, fate>>

RefuseNew(t) ==
    /\ Runs("enqueue", t)
    /\ pc[t] = "listing"
    /\ Depth(t) >= HardLimit
    /\ strategy = "defer-new"
    /\ Settle(t, "refused")
    /\ Leave(t)
    /\ UNCHANGED <<bookVars, dropped, registered, running, list, loopVars>>

TakeOldest(t) ==
    /\ Runs("enqueue", t)
    /\ pc[t] = "listing"
    /\ Depth(t) >= HardLimit
    /\ strategy = "drop-oldest"
    /\ dropped' = [dropped EXCEPT ![t] = Oldest(key[t])]
    /\ Shift(key[t])
    /\ pc' = [pc EXCEPT ![t] = "dropping"]
    /\ Await("enqueue", t)
    /\ UNCHANGED <<bookVars, registered, running, loopVars, fate>>

ReplaceOldest(t) ==
    /\ Runs("enqueue", t)
    /\ pc[t] = "dropping"
    /\ dropped[t] # None
    /\ Settle(dropped[t], "dropped")
    /\ Push(t)
    /\ UNCHANGED <<bookVars, dropped, registered, running, loopVars>>

\* Mutant: returns without rejecting.
MutRefuseNoCandidate(t) ==
    /\ Runs("enqueue", t)
    /\ pc[t] = "dropping"
    /\ dropped[t] = None
    /\ running[obj[t]]
    /\ Leave(t)
    /\ UNCHANGED <<bookVars, dropped, registered, running, list, loopVars, fate>>

RefuseNoCandidate(t) ==
    /\ Runs("enqueue", t)
    /\ pc[t] = "dropping"
    /\ dropped[t] = None
    /\ running[obj[t]]
    /\ Settle(t, "refused")
    /\ Leave(t)
    /\ UNCHANGED <<bookVars, dropped, registered, running, list, loopVars>>

AdmitOverLimit(t) ==
    /\ Runs("enqueue", t)
    /\ pc[t] = "dropping"
    /\ dropped[t] = None
    /\ ~running[obj[t]]
    /\ Push(t)
    /\ UNCHANGED <<bookVars, dropped, registered, running, loopVars, fate>>

\* this.sessions.set, then drain() finds the session's loop already running.
RegisterBusy(t) ==
    /\ Runs("enqueue", t)
    /\ pc[t] = "pushed"
    /\ running[obj[t]]
    /\ registered' = [registered EXCEPT ![key[t]] = obj[t]]
    /\ Leave(t)
    /\ UNCHANGED <<bookVars, dropped, running, list, loopVars, fate>>

\* this.sessions.set, then drain() runs up to the await of its first dequeue.
RegisterAndDrain(t) ==
    /\ Runs("enqueue", t)
    /\ pc[t] = "pushed"
    /\ ~running[obj[t]]
    /\ registered' = [registered EXCEPT ![key[t]] = obj[t]]
    /\ running' = [running EXCEPT ![obj[t]] = TRUE]
    /\ pc' = [pc EXCEPT ![t] = "out"]
    /\ drain' = [drain EXCEPT ![t] = "dequeuing"]
    /\ hand' = [hand EXCEPT ![t] = Oldest(key[t])]
    /\ Shift(key[t])
    /\ Await("drain", t)
    /\ UNCHANGED <<bookVars, dropped, fate>>

-----------------------------------------------------------------------------
(***************************************************************************)
(* The drain loop.                                                         *)
(***************************************************************************)

StartTurn(d) ==
    /\ Runs("drain", d)
    /\ drain[d] = "dequeuing"
    /\ hand[d] # None
    /\ drain' = [drain EXCEPT ![d] = "executing"]
    /\ jobs' = Tail(jobs)
    /\ UNCHANGED <<bookVars, pc, dropped, registered, running, list, hand, fate>>

EndDrain(d) ==
    /\ Runs("drain", d)
    /\ drain[d] = "dequeuing"
    /\ hand[d] = None
    /\ running' = [running EXCEPT ![obj[d]] = FALSE]
    /\ drain' = [drain EXCEPT ![d] = "done"]
    /\ jobs' = Tail(jobs)
    /\ UNCHANGED <<bookVars, pc, dropped, registered, list, hand, fate>>

\* The promise of item.execute() settles: a macrotask of its own.
ExecuteReturns(d) ==
    /\ jobs = <<>>
    /\ drain[d] = "executing"
    /\ drain' = [drain EXCEPT ![d] = "settling"]
    /\ jobs' = <<<<"drain", d>>>>
    /\ UNCHANGED <<bookVars, pc, dropped, registered, running, list, hand, fate>>

\* item.resolve or item.reject, then the loop's next dequeue up to its await.
SettleAndNext(d) ==
    /\ Runs("drain", d)
    /\ drain[d] = "settling"
    /\ \E how \in {"resolved", "failed"} : Settle(hand[d], how)
    /\ drain' = [drain EXCEPT ![d] = "dequeuing"]
    /\ hand' = [hand EXCEPT ![d] = Oldest(key[d])]
    /\ Shift(key[d])
    /\ Await("drain", d)
    /\ UNCHANGED <<bookVars, pc, dropped, registered, running>>

-----------------------------------------------------------------------------
RunJob ==
    \E t \in Turns :
        \/ Admit(t) \/ RefuseNew(t) \/ TakeOldest(t) \/ ReplaceOldest(t)
        \/ RefuseNoCandidate(t) \/ AdmitOverLimit(t)
        \/ RegisterBusy(t) \/ RegisterAndDrain(t)
        \/ StartTurn(t) \/ EndDrain(t) \/ SettleAndNext(t)

Next ==
    \/ \E t \in Turns, s \in Sessions : Submit(t, s)
    \/ RunJob
    \/ \E d \in Turns : ExecuteReturns(d)

Spec == Init /\ [][Next]_vars

\* The event loop runs its microtasks, and every execution ends: the adapter
\* bounds a turn by session.turnTimeoutMs.
Fairness == WF_vars(RunJob) /\ \A d \in Turns : WF_vars(ExecuteReturns(d))

FairSpec == Spec /\ Fairness

-----------------------------------------------------------------------------
(***************************************************************************)
(* Properties.                                                             *)
(***************************************************************************)

Executing(d) == drain[d] \in {"executing", "settling"}

\* Two turns of one session never execute at the same time (the purpose of
\* state.running in drain).
OneTurnPerSession ==
    \A d, e \in Turns :
        Executing(d) /\ Executing(e) /\ key[d] = key[e] => d = e

\* The hard limit bounds what a session holds, waiting and running, whenever
\* the event loop is idle; a session may always hold the turn it runs.
DepthWithinLimit ==
    jobs = <<>> =>
        \A s \in Sessions :
            Len(list[s]) + (IF \E d \in Turns : Executing(d) /\ key[d] = s
                            THEN 1 ELSE 0)
              <= (IF HardLimit = 0 THEN 1 ELSE HardLimit)

\* No lost wake-up: when the event loop is idle, a session with waiting turns
\* has a drain loop that is executing and will come back for them.
NoStrandedTurn ==
    jobs = <<>> =>
        \A s \in Sessions :
            list[s] # <<>> => \E d \in Turns : Executing(d) /\ key[d] = s

\* Custody: a submitted turn whose promise is open is held in exactly one place
\* (its own enqueueAsync, the backend list, a drain loop, or a caller about to
\* drop it), and a settled turn in none.  So a turn is neither lost nor executed
\* twice, and one whose caller was told "refused" or "dropped" is not executed.
Custodians(t) ==
    Cardinality({d \in Turns : hand[d] = t})
      + Cardinality({i \in DOMAIN list[key[t]] : list[key[t]][i] = t})
      + Cardinality({u \in Turns : pc[u] = "dropping" /\ dropped[u] = t})
      + (IF pc[t] \in {"listing", "dropping"} THEN 1 ELSE 0)

Custody ==
    \A t \in Turns :
        key[t] # None => Custodians(t) = (IF fate[t] = "open" THEN 1 ELSE 0)

\* Every submitted turn is eventually resolved or rejected: no caller's
\* promise hangs.
EveryTurnSettles ==
    \A t \in Turns : (key[t] # None) ~> (fate[t] # "open")
=============================================================================
