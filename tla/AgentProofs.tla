----------------------------- MODULE AgentProofs -----------------------------
(***************************************************************************)
(* Proofs about what happens within a turn.  Each component is an instance *)
(* of its module for every value of its constants; no theorem is about two *)
(* of them.                                                                *)
(***************************************************************************)
EXTENDS AgentComponents, Inductions, FiniteSetTheorems

-----------------------------------------------------------------------------
\* ModelAdapter.

\* The timer of an attempt is armed with its child, set again by every line that
\* is read, and taken away only when the child's output is over, for a turn that then
\* waits for the child's end, or with the whole process.
WatchInv ==
    /\ child \in [A!Attempts -> {"none", "running", "silent", "exited", "closed"}]
    /\ timer \in [A!Attempts -> {"off", "armed", "fired"}]
    /\ at \in 0..Len(Providers)
    /\ EveryChildIsWatched

\* A step that moves no attempt, starts no child, takes no timer of a running child away
\* and leaves no turn that waits for an end keeps the children watched.
LEMMA CalmStep ==
    ASSUME WatchInv, at' = at,
           child' \in [A!Attempts -> {"none", "running", "silent", "exited", "closed"}],
           timer' \in [A!Attempts -> {"off", "armed", "fired"}],
           \A a \in A!Attempts :
               A!Runs(a)' => /\ A!Runs(a) /\ (child[a] = "silent" => child'[a] = "silent")
                             /\ timer[a] = "armed" => timer'[a] = "armed",
           consumer = "crashed" => consumer' = "crashed",
           consumer = "closing" => consumer' = "closing" \/ ~A!Runs(at)'
    PROVE  WatchInv'
BY DEF WatchInv, EveryChildIsWatched, A!EveryChildIsWatched, A!Runs

\* A line that is read leaves no running child without its timer.
LEMMA ReadingWatches ==
    ASSUME WatchInv, NEW e \in A!EventKinds, A!ReadsNext(e), child' = child, at' = at
    PROVE  WatchInv'
<1>1. timer' \in [A!Attempts -> {"off", "armed", "fired"}]
  BY DEF WatchInv, A!ReadsNext
<1>2. consumer = "reading"
  BY DEF A!ReadsNext
<1>3. ASSUME NEW a \in A!Attempts, A!Runs(a) PROVE timer'[a] = "armed"
  <2>1. timer[a] = "armed"
    BY <1>2, <1>3 DEF WatchInv, EveryChildIsWatched, A!EveryChildIsWatched
  <2> QED
    BY <2>1 DEF WatchInv, A!ReadsNext
<1> QED
  BY <1>1, <1>3 DEF WatchInv, EveryChildIsWatched, A!EveryChildIsWatched, A!Runs

\* A child that is told to end does not run.
LEMMA TerminatedIsOver ==
    ASSUME WatchInv, NEW a \in A!Attempts, A!Terminated(a)
    PROVE  /\ child' \in [A!Attempts -> {"none", "running", "silent", "exited", "closed"}]
           /\ ~A!Runs(a)'
           /\ \A b \in A!Attempts : A!Runs(b)' => A!Runs(b) /\ child'[b] = child[b]
BY DEF WatchInv, A!Terminated, A!Runs

\* Every step keeps the children watched.
LEMMA WatchStep ==
    ASSUME Providers \in Seq({"cli", "http"}), WatchInv, [A!Next]_A!vars
    PROVE  WatchInv'
<1>0. Len(Providers) \in Nat /\ A!Attempts = 1..Len(Providers)
  BY DEF A!Attempts
<1>1. CASE A!Attempt
  <2>1. /\ at + 1 \in A!Attempts /\ at' = at + 1 /\ at' \in 0..Len(Providers)
        /\ consumer = "next"
    BY <1>0, <1>1 DEF A!Attempt, WatchInv
  <2>2. \A a \in A!Attempts : A!Runs(a) => timer[a] = "armed"
    BY <2>1 DEF WatchInv, EveryChildIsWatched, A!EveryChildIsWatched
  <2>3. CASE Providers[at + 1] = "cli"
    <3>1. /\ child' = [child EXCEPT ![at + 1] = "running"]
          /\ timer' = [timer EXCEPT ![at + 1] = "armed"]
      BY <1>1, <2>3 DEF A!Attempt
    <3> QED
      BY <2>1, <2>2, <3>1 DEF WatchInv, EveryChildIsWatched, A!EveryChildIsWatched, A!Runs
  <2>4. CASE Providers[at + 1] # "cli"
    <3>1. child' = child /\ timer' = timer
      BY <1>1, <2>4 DEF A!Attempt
    <3> QED
      BY <2>1, <2>2, <3>1 DEF WatchInv, EveryChildIsWatched, A!EveryChildIsWatched, A!Runs
  <2> QED
    BY <2>3, <2>4
<1>2. CASE A!SpawnFails
  <2>1. /\ at' = at + 1 /\ at' \in 0..Len(Providers) /\ consumer' = "crashed"
        /\ child' = child
        /\ timer' = [a \in A!Attempts |-> IF timer[a] = "armed" THEN "off" ELSE timer[a]]
    BY <1>0, <1>2 DEF A!SpawnFails, A!childVars, WatchInv
  <2> QED
    BY <2>1 DEF WatchInv, EveryChildIsWatched, A!EveryChildIsWatched
<1>3. CASE A!Exhausted \/ A!Resume \/ A!BusyFails \/ A!RequestSucceeds \/ A!RequestFails
           \/ UNCHANGED A!vars
  <2>1. /\ child' = child /\ timer' = timer /\ at' = at
        /\ consumer \in {"crashed", "closing"} => consumer' = consumer
    BY <1>3 DEF A!Exhausted, A!Resume, A!BusyFails, A!RequestSucceeds, A!RequestFails,
                A!Leave, A!vars, A!childVars
  <2>2. \A a \in A!Attempts : A!Runs(a)' <=> A!Runs(a)
    BY <2>1 DEF A!Runs
  <2> QED
    BY <2>1, <2>2, CalmStep DEF WatchInv
<1>4. CASE A!ReadDelta \/ A!ReadToolCall \/ A!ReadDone \/ A!ReadError \/ A!ReadMalformed
  <2>1. PICK e \in A!EventKinds : A!ReadsNext(e) /\ child' = child /\ at' = at
    BY <1>4 DEF A!ReadDelta, A!ReadToolCall, A!ReadDone, A!ReadError, A!ReadMalformed,
                A!EventKinds
  <2> QED
    BY <2>1, ReadingWatches
<1>5. CASE A!EndOfLines
  <2>1. /\ child' = child /\ at' = at /\ child[at] # "running"
        /\ consumer = "reading" /\ consumer' = "closing"
        /\ timer' = [timer EXCEPT ![at] = IF @ = "fired" THEN @ ELSE "off"]
    BY <1>5 DEF A!EndOfLines, A!childVars
  <2>2. timer' \in [A!Attempts -> {"off", "armed", "fired"}]
    BY <2>1 DEF WatchInv
  <2>3. ASSUME NEW a \in A!Attempts, A!Runs(a)
        PROVE  timer'[a] = "armed" \/ (child[a] = "silent" /\ at = a)
    <3>1. timer[a] = "armed"
      BY <2>1, <2>3 DEF WatchInv, EveryChildIsWatched, A!EveryChildIsWatched
    <3> QED
      BY <2>1, <2>3, <3>1 DEF WatchInv, A!Runs
  <2> QED
    BY <2>1, <2>2, <2>3 DEF WatchInv, EveryChildIsWatched, A!EveryChildIsWatched, A!Runs
<1>6. CASE A!Cancel
  <2>1. timer' = timer /\ at' = at /\ consumer' = consumer
    BY <1>6 DEF A!Cancel
  <2>2. CASE child' = child
    BY <2>1, <2>2, CalmStep DEF WatchInv, A!Runs
  <2>3. CASE child' # child
    <3>1. A!Terminated(at)
      BY <1>6, <2>3 DEF A!Cancel
    <3>2. at \in A!Attempts
      BY <2>3, <3>1 DEF WatchInv, A!Terminated
    <3> QED
      BY <2>1, <3>1, <3>2, TerminatedIsOver, CalmStep DEF WatchInv
  <2> QED
    BY <2>2, <2>3
<1>7. ASSUME NEW a \in A!Attempts, A!Child(a) PROVE WatchInv'
  <2>1. ASSUME NEW e \in A!EventKinds, A!ChildWrites(a, e) PROVE WatchInv'
    BY <2>1, CalmStep DEF A!ChildWrites, WatchInv, A!Runs
  <2>2. ASSUME NEW c \in {"zero", "nonzero"}, A!ChildExits(a, c) PROVE WatchInv'
    BY <2>2, CalmStep DEF A!ChildExits, WatchInv, A!Runs
  <2>3. CASE A!ChildFallsSilent(a)
    <3>1. /\ child[a] = "running" /\ child' = [child EXCEPT ![a] = "silent"]
          /\ timer' = timer /\ at' = at /\ consumer' = consumer
      BY <2>3 DEF A!ChildFallsSilent
    <3> QED
      BY <3>1 DEF WatchInv, EveryChildIsWatched, A!EveryChildIsWatched, A!Runs
  <2>4. CASE A!ChildCloses(a)
    <3>1. /\ child[a] = "exited" /\ child' = [child EXCEPT ![a] = "closed"]
          /\ timer' = timer /\ at' = at
          /\ consumer' = consumer \/ (consumer = "closing" /\ at = a)
      BY <2>4 DEF A!ChildCloses
    <3> QED
      BY <3>1, CalmStep DEF WatchInv, A!Runs
  <2>5. CASE A!TimerFires(a)
    <3>1. /\ timer' = [timer EXCEPT ![a] = "fired"] /\ at' = at /\ A!Terminated(a)
          /\ consumer' = consumer
      BY <2>5 DEF A!TimerFires
    <3>2. timer' \in [A!Attempts -> {"off", "armed", "fired"}]
      BY <3>1 DEF WatchInv
    <3> QED
      BY <3>1, <3>2, TerminatedIsOver, CalmStep DEF WatchInv
  <2> QED
    BY <1>7, <2>1, <2>2, <2>3, <2>4, <2>5 DEF A!Child
<1> QED
  BY <1>1, <1>2, <1>3, <1>4, <1>5, <1>6, <1>7 DEF A!Next, A!Turn, A!Read

\* As long as the gateway runs no child runs without its timer, whoever reads it or has
\* left it, whatever was cancelled, but one that closed its output while its turn waits
\* for its end: for every chain of models and every number of events.
THEOREM NoChildIsLeft ==
    Providers \in Seq({"cli", "http"}) => (A!Spec => []EveryChildIsWatched)
<1> SUFFICES ASSUME Providers \in Seq({"cli", "http"}) PROVE A!Spec => []EveryChildIsWatched
  OBVIOUS
<1>1. A!Init => WatchInv
  <2>1. Len(Providers) \in Nat
    OBVIOUS
  <2> QED
    BY <2>1 DEF A!Init, A!Runs, WatchInv, EveryChildIsWatched, A!EveryChildIsWatched
<1>2. WatchInv /\ [A!Next]_A!vars => WatchInv'
  BY WatchStep
<1>3. WatchInv => EveryChildIsWatched
  BY DEF WatchInv
<1> QED
  BY <1>1, <1>2, <1>3, PTL DEF A!Spec
-----------------------------------------------------------------------------
\* ValidatedModels.

\* What the constants are.
ModelTypes == Order \in Seq(Models) /\ Ttl \in Nat \ {0} /\ Probed \in [Probes -> Models]

Results == [Models -> {"passed", "failed", None}]

\* A result in the file is new, one in the server's copy as old as the copy at most.
FreshInv ==
    /\ copy \in [Probes -> Results] /\ store \in Results
    /\ cache \in [results : Results, age : 0..Ttl]
    /\ notPassed \in [Models -> 0..Ttl]
    /\ chain \in [Turns -> Seq(Models) \cup {None}]
    /\ \A m \in Models : V!ReadStore[m] = "passed" => notPassed[m] = 0
    /\ \A m \in Models : cache.results[m] = "passed" => notPassed[m] <= cache.age

\* What the chain is filtered to: its models that are passed, all, or none.
LEMMA FilteredChain ==
    ASSUME ModelTypes, NEW results
    PROVE  /\ V!Filter(results) \in Seq(Models)
           /\ \/ \A i \in DOMAIN V!Filter(results) : results[V!Filter(results)[i]] = "passed"
              \/ allowOne /\ V!Filter(results) = Order
<1> DEFINE passed == {m \in Models : results[m] = "passed"}
           validated == SelectIn(Order, passed)
<1>1. Order \in Seq(Models)
  BY DEF ModelTypes
<1>2. validated \in Seq(Models)
  BY <1>1, SelectInElements
<1>3. \A x : (\E i \in 1..Len(validated) : validated[i] = x) => x \in passed
  BY <1>1, SelectInElements
<1>4. \A i \in DOMAIN validated : validated[i] \in passed
  <2> HIDE DEF validated
  <2> QED
    BY <1>2, <1>3
<1>5. V!SelectIn(Order, passed) = validated
  BY DEF V!SelectIn, SelectIn
<1>6. V!Filter(results) = IF validated # <<>> THEN validated
                           ELSE IF allowOne THEN Order ELSE <<>>
  BY <1>5, Zenon DEF V!Filter
<1>7. \A m \in passed : results[m] = "passed"
  OBVIOUS
<1> HIDE DEF validated, passed
<1>8. CASE validated # <<>>
  BY <1>2, <1>4, <1>6, <1>7, <1>8
<1>9. CASE validated = <<>> /\ ~allowOne
  <2>1. V!Filter(results) = <<>>
    BY <1>6, <1>9
  <2> QED
    BY <2>1
<1>10. CASE validated = <<>> /\ allowOne
  BY <1>1, <1>6, <1>10
<1> QED
  BY <1>8, <1>9, <1>10

\* Nothing but time, a run that has written, and a turn changes what was validated.
LEMMA FreshStep ==
    ASSUME ModelTypes, None \notin {"passed", "failed"}, FreshInv, [V!Next]_V!validatedVars
    PROVE  FreshInv'
<1> USE DEF ModelTypes, Results
<1>0. V!NoResults \in Results /\ \A m \in Models : V!NoResults[m] # "passed"
  BY DEF V!NoResults
<1>1. CASE V!Tick
  <2>1. UNCHANGED <<copy, store, writers, broken, chain>>
    BY <1>1 DEF V!Tick, V!probeVars, V!fileVars
  <2>2. V!ReadStore' = V!ReadStore
    BY <2>1 DEF V!ReadStore, V!NoResults
  <2>3. cache' \in [results : Results, age : 0..Ttl] /\ cache'.results = cache.results
        /\ cache'.age = V!Later(cache.age)
    <3>1. cache.age \in 0..Ttl /\ cache \in [results : Results, age : 0..Ttl]
      BY DEF FreshInv
    <3>2. V!Later(cache.age) \in 0..Ttl
      BY <3>1 DEF V!Later
    <3>3. cache' = [cache EXCEPT !.age = V!Later(cache.age)]
      BY <1>1 DEF V!Tick
    <3> HIDE DEF Results
    <3> QED
      BY <3>1, <3>2, <3>3
  <2>4. notPassed' \in [Models -> 0..Ttl]
    BY <1>1 DEF V!Tick, V!Later, FreshInv
  <2>5. \A m \in Models : notPassed'[m] = IF V!ReadStore[m] = "passed" THEN 0
                                           ELSE V!Later(notPassed[m])
    BY <1>1 DEF V!Tick
  <2>6. ASSUME NEW m \in Models, cache'.results[m] = "passed" PROVE notPassed'[m] <= cache'.age
    <3>1. notPassed[m] <= cache.age /\ notPassed[m] \in 0..Ttl /\ cache.age \in 0..Ttl
      BY <2>3, <2>6 DEF FreshInv
    <3>2. 0 <= V!Later(cache.age) /\ V!Later(notPassed[m]) <= V!Later(cache.age)
      BY <3>1 DEF V!Later
    <3> QED
      BY <2>3, <2>5, <3>2
  <2>7. \A m \in Models : V!ReadStore'[m] = "passed" => notPassed'[m] = 0
    BY <2>2, <2>5
  <2> QED
    BY <2>1, <2>3, <2>4, <2>6, <2>7 DEF FreshInv
<1>2. ASSUME NEW t \in Turns, V!SendTurn(t) PROVE FreshInv'
  <2>1. UNCHANGED <<copy, store, writers, broken, notPassed>>
    BY <1>2 DEF V!SendTurn, V!probeVars, V!fileVars
  <2>2. V!ReadStore' = V!ReadStore
    BY <2>1 DEF V!ReadStore, V!NoResults
  <2>3. V!ReadStore \in Results
    BY <1>0 DEF V!ReadStore, FreshInv
  <2> DEFINE results == IF V!Fresh THEN cache.results ELSE V!ReadStore
  <2>4. V!Filter(results) \in Seq(Models)
    BY FilteredChain
  <2>5. chain' \in [Turns -> Seq(Models) \cup {None}]
    BY <1>2, <2>4 DEF V!SendTurn, FreshInv
  <2>6. CASE V!Fresh
    BY <1>2, <2>1, <2>2, <2>5, <2>6 DEF V!SendTurn, FreshInv
  <2>7. CASE ~V!Fresh
    <3>1. cache' = [results |-> V!ReadStore, age |-> 0]
      BY <1>2, <2>7 DEF V!SendTurn
    <3>2. cache' \in [results : Results, age : 0..Ttl]
      BY <2>3, <3>1
    <3>3. \A m \in Models : cache'.results[m] = "passed" => notPassed'[m] <= cache'.age
      BY <2>1, <3>1 DEF FreshInv
    <3> QED
      BY <2>1, <2>2, <2>5, <3>2, <3>3 DEF FreshInv
  <2> QED
    BY <2>6, <2>7
<1>3. ASSUME NEW p \in Probes, V!Read(p) PROVE FreshInv'
  <2>1. UNCHANGED <<store, writers, broken, notPassed, cache, chain>>
    BY <1>3 DEF V!Read, V!fileVars
  <2>2. V!ReadStore' = V!ReadStore
    BY <2>1 DEF V!ReadStore, V!NoResults
  <2>3. V!ReadStore \in Results
    BY <1>0 DEF V!ReadStore, FreshInv
  <2>4. copy' \in [Probes -> Results]
    BY <1>3, <2>3 DEF V!Read, FreshInv
  <2> QED
    BY <2>1, <2>2, <2>4 DEF FreshInv
<1>4. ASSUME NEW p \in Probes, V!Write(p) PROVE FreshInv'
  <2>1. UNCHANGED <<copy, store, notPassed, cache, chain>> /\ writers' # {}
    BY <1>4 DEF V!Write
  <2>2. V!ReadStore' = V!NoResults
    BY <2>1 DEF V!ReadStore, V!NoResults
  <2> QED
    BY <1>0, <2>1, <2>2 DEF FreshInv
<1>5. ASSUME NEW p \in Probes, V!Written(p) PROVE FreshInv'
  <2>1. UNCHANGED <<copy, cache, chain>> /\ store' = copy[p] /\ store' \in Results
    BY <1>5 DEF V!Written, FreshInv
  <2>2. notPassed' = [m \in Models |-> IF (~broken' /\ writers' = {}) /\ copy[p][m] = "passed"
                                        THEN 0 ELSE notPassed[m]]
    BY <1>5 DEF V!Written, V!SinceValid
  <2>3. notPassed' \in [Models -> 0..Ttl] /\ \A m \in Models : notPassed'[m] <= notPassed[m]
    BY <2>2 DEF FreshInv
  <2>4. ASSUME NEW m \in Models, V!ReadStore'[m] = "passed" PROVE notPassed'[m] = 0
    <3>1. V!ReadStore' = IF writers' # {} \/ broken' THEN V!NoResults ELSE store'
      BY DEF V!ReadStore, V!NoResults
    <3> QED
      BY <1>0, <2>1, <2>2, <2>4, <3>1
  <2>5. \A m \in Models : cache'.results[m] = "passed" => notPassed'[m] <= cache'.age
    BY <2>1, <2>3 DEF FreshInv
  <2> QED
    BY <2>1, <2>3, <2>4, <2>5 DEF FreshInv
<1>6. ASSUME UNCHANGED <<copy, store, writers, broken, cache, chain, notPassed>> PROVE FreshInv'
  <2>1. V!ReadStore' = V!ReadStore
    BY <1>6 DEF V!ReadStore, V!NoResults
  <2> QED
    BY <1>6, <2>1 DEF FreshInv
<1>7. ASSUME NEW p \in Probes, \/ V!Begin(p) \/ V!ToolCall(p) \/ V!Done(p) \/ V!Breaks(p)
                               \/ \E right \in BOOLEAN : V!Reasons(p, right)
      PROVE FreshInv'
  BY <1>6, <1>7 DEF V!Begin, V!ToolCall, V!Done, V!Breaks, V!Reasons, V!fileVars
<1>8. CASE UNCHANGED V!validatedVars
  BY <1>6, <1>8 DEF V!validatedVars, V!probeVars, V!fileVars
<1> QED
  BY <1>1, <1>2, <1>3, <1>4, <1>5, <1>7, <1>8 DEF V!Next

\* A turn is given the models that are passed in what it reads, or all where that is
\* allowed and none is.
LEMMA TriedAreValidated ==
    ASSUME ModelTypes, None \notin {"passed", "failed"}, FreshInv, V!Next,
           NEW t \in Turns, chain'[t] # chain[t]
    PROVE  \/ \A i \in DOMAIN chain'[t] : notPassed[chain'[t][i]] < Ttl
           \/ allowOne /\ chain'[t] = Order
<1> USE DEF ModelTypes, Results
<1>1. PICK u \in Turns : V!SendTurn(u)
  BY DEF V!Next, V!Tick, V!Begin, V!ToolCall, V!Done, V!Breaks, V!Read, V!Write, V!Written,
         V!Reasons
<1> DEFINE results == IF V!Fresh THEN cache.results ELSE V!ReadStore
<1>2. u = t /\ chain'[t] = V!Filter(results)
  BY <1>1 DEF V!SendTurn, FreshInv
<1>3. \A m \in Models : results[m] = "passed" => notPassed[m] < Ttl
  <2> SUFFICES ASSUME NEW m \in Models, results[m] = "passed" PROVE notPassed[m] < Ttl
    OBVIOUS
  <2>1. CASE V!Fresh
    BY <2>1 DEF FreshInv, V!Fresh
  <2>2. CASE ~V!Fresh
    BY <2>2 DEF FreshInv
  <2> QED
    BY <2>1, <2>2
<1> HIDE DEF results
<1>4. V!Filter(results) \in Seq(Models)
  BY FilteredChain
<1>5. \/ \A i \in DOMAIN V!Filter(results) : results[V!Filter(results)[i]] = "passed"
      \/ allowOne /\ V!Filter(results) = Order
  BY FilteredChain
<1>6. \A i \in DOMAIN V!Filter(results) : V!Filter(results)[i] \in Models
  BY <1>4
<1> QED
  BY <1>2, <1>3, <1>5, <1>6

\* No turn tries a model whose validation is older than the server may keep its copy,
\* for every number of probes and turns and whatever they write over each other.
THEOREM TriedModelsArePassed ==
    ModelTypes /\ None \notin {"passed", "failed"} => (V!Spec => OnlyValidatedAreTried)
<1> SUFFICES ASSUME ModelTypes, None \notin {"passed", "failed"}
             PROVE  V!Spec => OnlyValidatedAreTried
  OBVIOUS
<1>1. V!Init => FreshInv
  <2> SUFFICES ASSUME V!Init PROVE FreshInv
    OBVIOUS
  <2>1. V!NoResults \in Results /\ \A m \in Models : V!NoResults[m] # "passed"
    BY DEF V!NoResults, Results
  <2>2. V!ReadStore = V!NoResults
    BY DEF V!Init, V!ReadStore
  <2> QED
    BY <2>1, <2>2 DEF V!Init, FreshInv, ModelTypes
<1>2. FreshInv /\ [V!Next]_V!validatedVars => FreshInv'
  BY FreshStep
<1>3. FreshInv /\ [V!Next]_V!validatedVars =>
          [\A t \in Turns : chain'[t] # chain[t] =>
              \/ \A m \in V!ToSet(chain'[t]) : notPassed[m] < Ttl
              \/ allowOne /\ chain'[t] = Order]_V!validatedVars
  <2> SUFFICES ASSUME FreshInv, V!Next, NEW t \in Turns, chain'[t] # chain[t]
               PROVE  \/ \A m \in V!ToSet(chain'[t]) : notPassed[m] < Ttl
                      \/ allowOne /\ chain'[t] = Order
    OBVIOUS
  <2> QED
    BY TriedAreValidated DEF V!ToSet
<1> QED
  BY <1>1, <1>2, <1>3, PTL DEF V!Spec, OnlyValidatedAreTried, V!OnlyValidatedAreTried
-----------------------------------------------------------------------------
\* ToolCalls.

CONSTANTS CommandSet, EditSet

\* A command has at least one part; edits and parts may be any.
RequestTypes ==
    \A r \in Requests :
        /\ r.tool = "exec" => r.segments \in Seq(CommandSet) /\ r.segments # <<>>
        /\ r.tool = "apply_edits" => r.edits \in Seq(EditSet)

\* Whatever order edits name files in, each file is in the list once.
LEMMA PathsAreDistinct ==
    ASSUME NEW c \in Calls, call[c].edits \in Seq(EditSet)
    PROVE  /\ T!Paths(c) \in Seq({call[c].edits[i].path : i \in DOMAIN call[c].edits})
           /\ \A i, j \in DOMAIN T!Paths(c) : T!Paths(c)[i] = T!Paths(c)[j] => i = j
<1> DEFINE edits == call[c].edits
           n == Len(edits)
           P == {edits[i].path : i \in DOMAIN edits}
           Lists == Seq(P)
           Step(i, v) == IF T!Contains(v, edits[i].path) THEN v ELSE Append(v, edits[i].path)
           F == [p \in (1..n) \X Lists |-> Step(p[1], p[2])]
           Is(g) == g = [i \in 0..n |-> IF i = 0 THEN <<>> ELSE Step(i, g[i - 1])]
           f == CHOOSE g : Is(g)
<1>1. n \in Nat /\ <<>> \in Lists /\ DOMAIN edits = 1..n
  OBVIOUS
<1>2. ASSUME NEW i \in 1..n, NEW v \in Lists PROVE Step(i, v) \in Lists
  <2>1. edits[i].path \in P
    OBVIOUS
  <2> HIDE DEF P, edits
  <2> QED
    BY <2>1
<1>3. T!Paths(c) = f[n]
  BY DEF T!Paths
<1> HIDE DEF n, Lists
<1>4. F \in [(1..n) \X Lists -> Lists]
  <2> HIDE DEF Step
  <2>1. ASSUME NEW p \in (1..n) \X Lists PROVE Step(p[1], p[2]) \in Lists
    BY <1>2
  <2> QED
    BY <2>1
<1>5. PICK g \in [0..n -> Lists] : g[0] = <<>> /\ \A i \in 1..n : g[i] = F[<<i, g[i - 1]>>]
  <2> HIDE DEF F
  <2>1. \E g \in [0..n -> Lists] : Recurs(g, n, <<>>, F)
    BY <1>1, <1>4, Recursion
  <2> QED
    BY <2>1 DEF Recurs
<1>6. ASSUME NEW i \in 1..n PROVE g[i] = Step(i, g[i - 1])
  <2> HIDE DEF Step
  <2>1. g[i - 1] \in Lists
    BY <1>1, <1>5
  <2> QED
    BY <1>5, <2>1
<1>7. Is(g)
  <2> HIDE DEF Step
  <2>1. ASSUME NEW i \in 0..n PROVE g[i] = IF i = 0 THEN <<>> ELSE Step(i, g[i - 1])
    <3>1. CASE i = 0
      BY <1>5, <3>1
    <3>2. CASE i \in 1..n
      BY <1>6, <3>2
    <3> QED
      BY <1>1, <3>1, <3>2
  <2> QED
    BY <1>5, <2>1
<1>8. Is(f)
  <2> HIDE DEF Is
  <2> QED
    BY <1>7
<1> HIDE DEF f
<1>9. f[0] = <<>> /\ \A i \in 1..n : f[i] = Step(i, f[i - 1])
  <2> HIDE DEF Step
  <2> QED
    BY <1>1, <1>8
<1> DEFINE Fine(v) == v \in Lists /\ \A i, j \in 1..Len(v) : v[i] = v[j] => i = j
           S == {i \in 0..n : Fine(f[i])}
<1>10. 0 \in S
  BY <1>1, <1>9
<1>11. ASSUME NEW i \in 1..n, i - 1 \in S PROVE i \in S
  <2> DEFINE v == f[i - 1]
  <2>1. Fine(v)
    BY <1>11
  <2> HIDE DEF v
  <2>2. f[i] = Step(i, v) /\ Step(i, v) \in Lists
    BY <1>2, <1>9, <2>1 DEF v
  <2>3. Fine(Step(i, v))
    <3>1. CASE T!Contains(v, edits[i].path)
      BY <2>1, <3>1
    <3>2. CASE ~T!Contains(v, edits[i].path)
      <4> DEFINE p == edits[i].path
                 w == Append(v, p)
      <4>1. v \in Seq(P) /\ p \in P
        BY <1>1, <2>1 DEF Lists
      <4>2. \A k \in 1..Len(v) : v[k] # p
        BY <3>2 DEF T!Contains
      <4>3. Len(w) = Len(v) + 1 /\ w[Len(v) + 1] = p /\ \A k \in 1..Len(v) : w[k] = v[k]
        <5> HIDE DEF P, p
        <5> QED
          BY <4>1
      <4>4. Len(v) \in Nat
        BY <4>1
      <4> HIDE DEF p, w
      <4>5. \A k, l \in 1..Len(w) : w[k] = w[l] => k = l
        BY <2>1, <4>2, <4>3, <4>4
      <4>6. Step(i, v) = w
        BY <3>2 DEF w, p
      <4> HIDE DEF Step
      <4> QED
        BY <2>2, <4>5, <4>6
    <3> QED
      BY <3>1, <3>2
  <2> HIDE DEF Fine, Step
  <2> QED
    BY <2>2, <2>3
<1>12. n \in S
  <2> HIDE DEF S
  <2>1. \A i \in 0..n : i \in S
    BY <1>1, <1>10, <1>11, UpTo
  <2> QED
    BY <1>1, <2>1
<1>13. Fine(f[n])
  BY <1>12
<1>14. DOMAIN f[n] = 1..Len(f[n])
  <2> HIDE DEF P
  <2> QED
    BY <1>13 DEF Lists
<1> QED
  BY <1>3, <1>13, <1>14 DEF Lists

\* Edits that could all be made are what the call makes of the file alone.
LEMMA AppliedIsWhole ==
    ASSUME NEW content, NEW edits \in Seq(EditSet), T!Edited(content, edits).applied
    PROVE  T!Edited(content, edits).lines = T!Wholly(content, edits)
<1> DEFINE n == Len(edits)
           L == content \cup {edits[i].new : i \in 1..n}
           Lists == [lines : SUBSET L, applied : BOOLEAN]
           Made(i, lns) == (lns \ {edits[i].old}) \cup {edits[i].new}
           Step(i, v) == IF v.applied /\ edits[i].old \in v.lines
                         THEN [lines |-> Made(i, v.lines), applied |-> TRUE]
                         ELSE [lines |-> v.lines, applied |-> FALSE]
           first == [lines |-> content, applied |-> TRUE]
           F == [p \in (1..n) \X Lists |-> Step(p[1], p[2])]
           Is(g) == g = [i \in 0..n |-> IF i = 0 THEN first ELSE Step(i, g[i - 1])]
           H == [p \in (1..n) \X SUBSET L |-> Made(p[1], p[2])]
           Are(g) == g = [i \in 0..n |-> IF i = 0 THEN content ELSE Made(i, g[i - 1])]
           e == CHOOSE g : Is(g)
           w == CHOOSE g : Are(g)
<1>1. n \in Nat /\ first \in Lists /\ content \in SUBSET L
  OBVIOUS
<1>2. ASSUME NEW i \in 1..n, NEW lns \in SUBSET L PROVE Made(i, lns) \in SUBSET L
  OBVIOUS
<1>3. T!Edited(content, edits) = e[n]
  BY DEF T!Edited
<1>4. T!Wholly(content, edits) =
          IF \A i \in 1..n : edits[i].old \in w[i - 1] THEN w[n] ELSE content
  BY DEF T!Wholly
<1> HIDE DEF n, L, Made
<1>5. Is(e)
  <2>1. F \in [(1..n) \X Lists -> Lists]
    <3>1. ASSUME NEW i \in 1..n, NEW v \in Lists PROVE Step(i, v) \in Lists
      BY <1>2
    <3> HIDE DEF Step, Lists
    <3>2. ASSUME NEW p \in (1..n) \X Lists PROVE Step(p[1], p[2]) \in Lists
      BY <3>1
    <3> QED
      BY <3>2
  <2> HIDE DEF Step, Lists, first
  <2>2. PICK g \in [0..n -> Lists] : g[0] = first /\ \A i \in 1..n : g[i] = F[<<i, g[i - 1]>>]
    <3> HIDE DEF F
    <3>1. \E g \in [0..n -> Lists] : Recurs(g, n, first, F)
      BY <1>1, <2>1, Recursion
    <3> QED
      BY <3>1 DEF Recurs
  <2>3. ASSUME NEW i \in 1..n PROVE g[i] = Step(i, g[i - 1])
    <3>1. g[i - 1] \in Lists
      BY <1>1, <2>2
    <3> QED
      BY <2>2, <3>1
  <2>4. Is(g)
    BY <1>1, <2>2, <2>3
  <2> HIDE DEF Is
  <2> QED
    BY <2>4
<1>6. Are(w)
  <2>1. H \in [(1..n) \X SUBSET L -> SUBSET L]
    <3>1. ASSUME NEW p \in (1..n) \X SUBSET L PROVE Made(p[1], p[2]) \in SUBSET L
      BY <1>2
    <3> QED
      BY <3>1
  <2>2. PICK g \in [0..n -> SUBSET L] :
            g[0] = content /\ \A i \in 1..n : g[i] = H[<<i, g[i - 1]>>]
    <3> HIDE DEF H
    <3>1. \E g \in [0..n -> SUBSET L] : Recurs(g, n, content, H)
      BY <1>1, <2>1, Recursion
    <3> QED
      BY <3>1 DEF Recurs
  <2>3. ASSUME NEW i \in 1..n PROVE g[i] = Made(i, g[i - 1])
    <3>1. g[i - 1] \in SUBSET L
      BY <1>1, <2>2
    <3> QED
      BY <2>2, <3>1
  <2>4. Are(g)
    BY <1>1, <2>2, <2>3
  <2> HIDE DEF Are
  <2> QED
    BY <2>4
<1> HIDE DEF e, w
<1>7. e[0] = first /\ \A i \in 1..n : e[i] = Step(i, e[i - 1])
  <2> HIDE DEF Step, first
  <2> QED
    BY <1>1, <1>5
<1>8. w[0] = content /\ \A i \in 1..n : w[i] = Made(i, w[i - 1])
  BY <1>1, <1>6
<1> DEFINE S == {i \in 0..n : e[i].applied => /\ e[i].lines = w[i]
                                              /\ \A j \in 1..i : edits[j].old \in w[j - 1]}
<1>9. 0 \in S
  BY <1>1, <1>7, <1>8
<1>10. ASSUME NEW i \in 1..n, i - 1 \in S PROVE i \in S
  <2> SUFFICES ASSUME e[i].applied
               PROVE  e[i].lines = w[i] /\ \A j \in 1..i : edits[j].old \in w[j - 1]
    OBVIOUS
  <2>1. e[i] = Step(i, e[i - 1])
    BY <1>7
  <2>2. e[i - 1].applied /\ edits[i].old \in e[i - 1].lines
        /\ e[i].lines = Made(i, e[i - 1].lines)
    <3>1. CASE e[i - 1].applied /\ edits[i].old \in e[i - 1].lines
      BY <2>1, <3>1
    <3>2. CASE ~(e[i - 1].applied /\ edits[i].old \in e[i - 1].lines)
      BY <2>1, <3>2
    <3> QED
      BY <3>1, <3>2
  <2>3. e[i - 1].lines = w[i - 1] /\ \A j \in 1..(i - 1) : edits[j].old \in w[j - 1]
    BY <1>10, <2>2
  <2>4. w[i] = Made(i, w[i - 1])
    BY <1>8
  <2>5. \A j \in 1..i : j \in 1..(i - 1) \/ j = i
    BY <1>1
  <2> QED
    BY <2>2, <2>3, <2>4, <2>5
<1>11. n \in S
  <2> HIDE DEF S
  <2>1. \A i \in 0..n : i \in S
    BY <1>1, <1>9, <1>10, UpTo
  <2> QED
    BY <1>1, <2>1
<1> QED
  BY <1>3, <1>4, <1>11

\* What a command makes of two states of the files agrees where they agreed, except
\* where it takes a file to from one on which they did not.
LEMMA EffectAgrees ==
    ASSUME NEW command, command.path \in Files, command.to \in Files,
           command.form \in T!InOneStep,
           NEW one, NEW two, DOMAIN one = Files, DOMAIN two = Files,
           NEW apart, \A f \in Files \ apart : one[f] = two[f]
    PROVE  /\ DOMAIN T!Effect(command, one) = Files
           /\ DOMAIN T!Effect(command, two) = Files
           /\ \A f \in Files \ (apart \cup IF command.path \in apart THEN {command.to} ELSE {}) :
                  T!Effect(command, one)[f] = T!Effect(command, two)[f]
<1>1. CASE command.form \in {"write", "empty", "remove"}
  BY <1>1 DEF T!Effect
<1>2. CASE command.form = "copy"
  <2>1. T!Effect(command, one) = IF one[command.path] # NoFile
                                 THEN [one EXCEPT ![command.to] = one[command.path]] ELSE one
    BY <1>2 DEF T!Effect
  <2>2. T!Effect(command, two) = IF two[command.path] # NoFile
                                 THEN [two EXCEPT ![command.to] = two[command.path]] ELSE two
    BY <1>2 DEF T!Effect
  <2> QED
    BY <2>1, <2>2
<1>3. CASE command.form = "move"
  <2>1. T!Effect(command, one) = IF one[command.path] # NoFile
                                 THEN [one EXCEPT ![command.to] = one[command.path],
                                                  ![command.path] = NoFile] ELSE one
    BY <1>3 DEF T!Effect
  <2>2. T!Effect(command, two) = IF two[command.path] # NoFile
                                 THEN [two EXCEPT ![command.to] = two[command.path],
                                                  ![command.path] = NoFile] ELSE two
    BY <1>3 DEF T!Effect
  <2> QED
    BY <2>1, <2>2
<1> QED
  BY <1>1, <1>2, <1>3 DEF T!InOneStep

ExecSteps == {"enter", "questions", "askBin", "command", "write"}
EditSteps == {"edit", "writeEdits", "reload", "set"}
ToolSteps == {"new", "done", "toolQuestion", "writeQuestion", "check", "post", "paths"}
                 \cup ExecSteps \cup EditSteps

ToolTypes ==
    /\ call \in [Calls -> Requests]
    /\ callStep \in [Calls -> ToolSteps]
    /\ segment \in [Calls -> Nat \ {0}]
    /\ questions \in [Calls -> Seq({"destructive", "bin", "intent"})]
    /\ DOMAIN granted = Calls /\ DOMAIN failed = Calls /\ DOMAIN read = Calls
    /\ DOMAIN file = Files /\ DOMAIN serial = Files /\ DOMAIN editor = Files

\* What the gate must have granted before a command may change anything.
Needed(c) ==
    (IF call[c].destructive THEN {"destructive"} ELSE {})
    \cup (IF T!ReadOnly(c) THEN {} ELSE {"intent"})

\* What it is asked before a command starts, and what it must have said of a part.
Asked(c) ==
    Needed(c) \cup (IF Head(call[c].segments).bin \in AllowedBins THEN {} ELSE {"bin"})
PartGranted(c) == T!Command(c).bin \in AllowedBins \/ "bin" \in granted[c]

\* Where a call is says which tool it is, what it was granted and what it knows.
ExecPlaced(c) ==
    /\ callStep[c] \in ExecSteps => call[c].tool = "exec"
    /\ callStep[c] \in {"enter", "questions"} => segment[c] = 1
    /\ callStep[c] \in {"command", "write"} => segment[c] <= Len(call[c].segments)
    /\ callStep[c] = "questions" =>
          Asked(c) \subseteq granted[c] \cup {questions[c][i] : i \in 1..Len(questions[c])}
    /\ callStep[c] \in {"askBin", "command", "write"} => Needed(c) \subseteq granted[c]
    /\ callStep[c] \in {"command", "write"} => PartGranted(c)
    /\ callStep[c] = "write" =>
          /\ T!Command(c).path \in Files
          /\ T!Command(c).form \in T!InTwoSteps
          /\ T!Command(c).form = "touch" => read[c] = NoFile

EditsPlaced(c) ==
    /\ callStep[c] \in {"paths"} \cup EditSteps =>
          call[c].tool = "apply_edits" /\ "toolQuestion" \in granted[c]
    /\ callStep[c] \in EditSteps =>
          /\ T!ToSet(T!Paths(c)) \subseteq Files
          /\ segment[c] <= Len(T!Paths(c)) + 1
          /\ \A p \in failed[c] : \E i \in 1..(segment[c] - 1) : T!Paths(c)[i] = p
    /\ callStep[c] = "writeEdits" =>
          /\ segment[c] <= Len(T!Paths(c))
          /\ T!Edited(read[c], T!EditsOf(c, T!Path(c))).applied
    /\ callStep[c] \in {"reload", "set"} => failed[c] = {}

CallPlaced(c) ==
    /\ callStep[c] \in {"new", "toolQuestion", "paths"} => segment[c] = 1 /\ failed[c] = {}
    /\ callStep[c] = "toolQuestion" => call[c].tool \in {"apply_edits", "gh_pr_write"}
    /\ callStep[c] \in {"writeQuestion", "check", "post"} => call[c].tool = "gh_pr_write"
    /\ ExecPlaced(c) /\ EditsPlaced(c)

CallsInv == ToolTypes /\ \A c \in Calls : CallPlaced(c)

\* What a call will put into the substrate is what its own edits have made.
SubstrateInv ==
    /\ DOMAIN answer = Calls
    /\ \A c \in Calls : callStep[c] = "set" =>
           \A f \in Files : editor[f] = {c} => read[c][f] = file[f]

\* Nothing of a call has changed.
Same(d) ==
    /\ callStep'[d] = callStep[d] /\ segment'[d] = segment[d] /\ failed'[d] = failed[d]
    /\ read'[d] = read[d] /\ questions'[d] = questions[d] /\ granted'[d] = granted[d]

\* What a call asks for does not change.
LEMMA RequestStays ==
    ASSUME NEW c \in Calls, call' = call
    PROVE  /\ T!Paths(c)' = T!Paths(c) /\ Needed(c)' = Needed(c) /\ Asked(c)' = Asked(c)
           /\ \A p : T!EditsOf(c, p)' = T!EditsOf(c, p)
           /\ segment'[c] = segment[c] =>
                  T!Command(c)' = T!Command(c) /\ T!Path(c)' = T!Path(c)
<1>1. T!Paths(c)' = T!Paths(c)
  BY DEF T!Paths
<1>2. Needed(c)' = Needed(c) /\ Asked(c)' = Asked(c)
  BY DEF Asked, Needed, T!ReadOnly
<1>3. \A p : T!EditsOf(c, p)' = T!EditsOf(c, p)
  BY DEF T!EditsOf
<1>4. segment'[c] = segment[c] => T!Command(c)' = T!Command(c) /\ T!Path(c)' = T!Path(c)
  BY <1>1 DEF T!Command, T!Path
<1> QED
  BY <1>1, <1>2, <1>3, <1>4

\* A call stays where it was placed while others move.
LEMMA OthersStay ==
    ASSUME NEW d \in Calls, call' = call, Same(d)
    PROVE  CallPlaced(d) => CallPlaced(d)'
<1>1. /\ T!Paths(d)' = T!Paths(d) /\ Needed(d)' = Needed(d) /\ Asked(d)' = Asked(d)
      /\ T!Command(d)' = T!Command(d) /\ T!Path(d)' = T!Path(d)
      /\ \A p : T!EditsOf(d, p)' = T!EditsOf(d, p)
  BY RequestStays DEF Same
<1>2. PartGranted(d)' = PartGranted(d)
  BY <1>1 DEF PartGranted, Same
<1>3. ExecPlaced(d) => ExecPlaced(d)'
  BY <1>1, <1>2 DEF ExecPlaced, Same
<1>4. EditsPlaced(d) => EditsPlaced(d)'
  BY <1>1 DEF EditsPlaced, Same
<1> QED
  BY <1>3, <1>4 DEF CallPlaced, Same

\* One call moves, the others stay.
LEMMA OneMoves ==
    ASSUME CallsInv, ToolTypes', call' = call, NEW c \in Calls,
           \A d \in Calls \ {c} : Same(d), CallPlaced(c)'
    PROVE  CallsInv'
<1>1. ASSUME NEW d \in Calls PROVE CallPlaced(d)'
  BY OthersStay DEF CallsInv
<1> QED
  BY <1>1 DEF CallsInv

\* Nothing is known of a call that is over, or of one that writes to GitHub.
LEMMA Unplaced ==
    ASSUME NEW c \in Calls, callStep'[c] \in {"done", "check", "post", "writeQuestion"},
           callStep'[c] = "done" \/ call'[c].tool = "gh_pr_write"
    PROVE  CallPlaced(c)'
BY DEF CallPlaced, ExecPlaced, EditsPlaced, ExecSteps, EditSteps

\* The router and what is asked before a tool runs.
LEMMA RouterMoves ==
    ASSUME RequestTypes, CallsInv, NEW c \in Calls,
           \/ T!Route(c) \/ T!CheckLimit(c)
           \/ \E yes \in BOOLEAN : T!AskForTool(c, yes) \/ T!Post(c, yes)
    PROVE  CallsInv'
<1> USE DEF T!Goes, T!Ends, T!diskVars, T!askVars, T!limiterVars
<1>0. ToolTypes /\ CallPlaced(c) /\ call[c] \in Requests
  BY DEF CallsInv, ToolTypes
<1>1. CASE T!Route(c)
  <2>1. /\ call' = call /\ segment' = segment /\ failed' = failed /\ read' = read
        /\ questions' = questions /\ granted' = granted /\ UNCHANGED <<file, serial, editor>>
        /\ callStep[c] = "new"
    BY <1>1 DEF T!Route
  <2>2. PICK s \in {"done", "enter", "toolQuestion"} :
           /\ callStep' = [callStep EXCEPT ![c] = s]
           /\ s = "enter" => call[c].tool = "exec"
           /\ s = "toolQuestion" => call[c].tool \in {"apply_edits", "gh_pr_write"}
    BY <1>1 DEF T!Route, T!HighRisk
  <2>3. ToolTypes' /\ \A d \in Calls \ {c} : Same(d)
    BY <1>0, <2>1, <2>2 DEF ToolTypes, ToolSteps, ExecSteps, Same
  <2>4. callStep'[c] = s
    BY <1>0, <2>2 DEF ToolTypes
  <2>5. CallPlaced(c)'
    BY <1>0, <2>1, <2>2, <2>4 DEF CallPlaced, ExecPlaced, EditsPlaced, ExecSteps, EditSteps
  <2> QED
    BY <2>1, <2>3, <2>5, OneMoves
<1>2. CASE T!CheckLimit(c) \/ \E yes \in BOOLEAN : T!Post(c, yes)
  <2>1. /\ call' = call /\ segment' = segment /\ failed' = failed /\ read' = read
        /\ questions' = questions /\ granted' = granted /\ UNCHANGED <<file, serial, editor>>
    BY <1>2 DEF T!CheckLimit, T!Post
  <2>2. PICK s \in {"done", "post"} : callStep' = [callStep EXCEPT ![c] = s]
    BY <1>2 DEF T!CheckLimit, T!Post
  <2>5. call[c].tool = "gh_pr_write"
    BY <1>0, <1>2 DEF T!CheckLimit, T!Post, CallPlaced
  <2>3. ToolTypes' /\ \A d \in Calls \ {c} : Same(d)
    BY <1>0, <2>1, <2>2 DEF ToolTypes, ToolSteps, Same
  <2>4. callStep'[c] = s
    BY <1>0, <2>2 DEF ToolTypes
  <2> QED
    BY <2>1, <2>3, <2>4, <2>5, Unplaced, OneMoves
<1>3. ASSUME NEW yes \in BOOLEAN, T!AskForTool(c, yes) PROVE CallsInv'
  <2>1. /\ call' = call /\ segment' = segment /\ failed' = failed /\ read' = read
        /\ questions' = questions /\ UNCHANGED <<file, serial, editor>>
        /\ callStep[c] \in {"toolQuestion", "writeQuestion"}
    BY <1>3 DEF T!AskForTool
  <2>2. PICK s \in {"done", "paths", "writeQuestion", "check"} :
           /\ callStep' = [callStep EXCEPT ![c] = s]
           /\ s = "paths" => /\ callStep[c] = "toolQuestion"
                             /\ call[c].tool # "gh_pr_write"
                             /\ granted' = [granted EXCEPT ![c] = @ \cup {"toolQuestion"}]
           /\ s \in {"writeQuestion", "check"} =>
                  call[c].tool = "gh_pr_write" \/ callStep[c] = "writeQuestion"
           /\ granted' = granted \/ granted' = [granted EXCEPT ![c] = @ \cup {callStep[c]}]
    BY <1>3 DEF T!AskForTool, T!Begins
  <2>3. DOMAIN granted' = Calls /\ \A d \in Calls \ {c} : granted'[d] = granted[d]
    BY <1>0, <2>2 DEF ToolTypes
  <2>4. ToolTypes' /\ \A d \in Calls \ {c} : Same(d)
    BY <1>0, <2>1, <2>2, <2>3 DEF ToolTypes, ToolSteps, Same
  <2>5. callStep'[c] = s
    BY <1>0, <2>2 DEF ToolTypes
  <2>6. CASE s = "paths"
    <3>1. call[c].tool = "apply_edits" /\ segment[c] = 1 /\ failed[c] = {}
      BY <1>0, <2>2, <2>6 DEF CallPlaced
    <3>2. "toolQuestion" \in granted'[c]
      BY <1>0, <2>2, <2>6 DEF ToolTypes
    <3>3. CallPlaced(c)'
      BY <2>1, <2>5, <2>6, <3>1, <3>2
         DEF CallPlaced, ExecPlaced, EditsPlaced, ExecSteps, EditSteps
    <3> QED
      BY <2>1, <2>4, <3>3, OneMoves
  <2>7. CASE s # "paths"
    <3>1. s = "done" \/ call[c].tool = "gh_pr_write"
      BY <1>0, <2>2, <2>7 DEF CallPlaced
    <3> QED
      BY <2>1, <2>2, <2>4, <2>5, <2>7, <3>1, Unplaced, OneMoves
  <2> QED
    BY <2>6, <2>7
<1> QED
  BY <1>1, <1>2, <1>3

\* What is asked of exec before it runs, as a set.
LEMMA QuestionsAreNeeded ==
    ASSUME NEW c \in Calls
    PROVE  /\ T!QuestionsOf(c) \in Seq({"destructive", "bin", "intent"})
           /\ Asked(c) \subseteq {T!QuestionsOf(c)[i] : i \in 1..Len(T!QuestionsOf(c))}
<1> DEFINE s1 == IF call[c].destructive THEN <<"destructive">> ELSE <<>>
           s2 == IF Head(call[c].segments).bin \notin AllowedBins THEN <<"bin">> ELSE <<>>
           s3 == IF ~T!ReadOnly(c) THEN <<"intent">> ELSE <<>>
           s == s1 \o s2 \o s3
           Q == {"destructive", "bin", "intent"}
<1>1. s1 \in Seq(Q) /\ s2 \in Seq(Q) /\ s3 \in Seq(Q)
  <2>1. <<>> \in Seq(Q) /\ <<"destructive">> \in Seq(Q) /\ <<"bin">> \in Seq(Q)
        /\ <<"intent">> \in Seq(Q)
    OBVIOUS
  <2> HIDE DEF Q
  <2> QED
    BY <2>1, Zenon
<1>2. T!QuestionsOf(c) = s
  BY DEF T!QuestionsOf
<1>3. call[c].destructive => Len(s1) = 1 /\ s1[1] = "destructive"
  OBVIOUS
<1>4. ~T!ReadOnly(c) => Len(s3) = 1 /\ s3[1] = "intent"
  OBVIOUS
<1>5. Asked(c) = ((IF call[c].destructive THEN {"destructive"} ELSE {})
                      \cup (IF T!ReadOnly(c) THEN {} ELSE {"intent"}))
                  \cup (IF Head(call[c].segments).bin \in AllowedBins THEN {} ELSE {"bin"})
  BY DEF Asked, Needed
<1>10. Head(call[c].segments).bin \notin AllowedBins => Len(s2) = 1 /\ s2[1] = "bin"
  OBVIOUS
<1> HIDE DEF s1, s2, s3, Q
<1>6. /\ s \in Seq(Q) /\ Len(s) = Len(s1) + Len(s2) + Len(s3)
      /\ \A i \in 1..Len(s1) : s[i] = s1[i]
      /\ \A i \in 1..Len(s2) : s[Len(s1) + i] = s2[i]
      /\ \A i \in 1..Len(s3) : s[Len(s1) + Len(s2) + i] = s3[i]
  BY <1>1
<1>7. Len(s1) \in Nat /\ Len(s2) \in Nat /\ Len(s3) \in Nat
  BY <1>1
<1> HIDE DEF s
<1>8. call[c].destructive => \E i \in 1..Len(s) : s[i] = "destructive"
  <2> SUFFICES ASSUME call[c].destructive PROVE \E i \in 1..Len(s) : s[i] = "destructive"
    OBVIOUS
  <2>1. Len(s1) = 1 /\ s1[1] = "destructive"
    BY <1>3
  <2>2. 1 \in 1..Len(s) /\ 1 \in 1..Len(s1)
    BY <1>6, <1>7, <2>1
  <2>3. s[1] = s1[1]
    BY <1>6, <2>2
  <2> QED
    BY <2>1, <2>2, <2>3
<1>9. ~T!ReadOnly(c) => \E i \in 1..Len(s) : s[i] = "intent"
  <2> SUFFICES ASSUME ~T!ReadOnly(c) PROVE \E i \in 1..Len(s) : s[i] = "intent"
    OBVIOUS
  <2>1. Len(s3) = 1 /\ s3[1] = "intent"
    BY <1>4
  <2>2. 1 \in 1..Len(s3)
    BY <2>1
  <2>3. s[Len(s1) + Len(s2) + 1] = s3[1]
    BY <1>6, <2>2
  <2>4. Len(s) = Len(s1) + Len(s2) + Len(s3)
    BY <1>6
  <2>5. Len(s1) + Len(s2) + 1 \in 1..Len(s)
    BY <1>7, <2>1, <2>4
  <2> QED
    BY <2>1, <2>3, <2>5
<1>11. Head(call[c].segments).bin \notin AllowedBins => \E i \in 1..Len(s) : s[i] = "bin"
  <2> SUFFICES ASSUME Head(call[c].segments).bin \notin AllowedBins
               PROVE  \E i \in 1..Len(s) : s[i] = "bin"
    OBVIOUS
  <2>1. Len(s2) = 1 /\ s2[1] = "bin"
    BY <1>10
  <2>2. 1 \in 1..Len(s2)
    BY <2>1
  <2>3. s[Len(s1) + 1] = s2[1]
    BY <1>6, <2>2
  <2>4. Len(s) = Len(s1) + Len(s2) + Len(s3)
    BY <1>6
  <2>5. Len(s1) + 1 \in 1..Len(s)
    BY <1>7, <2>1, <2>4
  <2> QED
    BY <2>1, <2>3, <2>5
<1> QED
  BY <1>2, <1>5, <1>6, <1>8, <1>9, <1>11 DEF Q

\* On to the next part, or over.
LEMMA FollowingMoves ==
    ASSUME RequestTypes, CallsInv, NEW c \in Calls, callStep[c] \in {"command", "write"},
           T!Following(c), call' = call, failed' = failed, DOMAIN read' = Calls,
           \A d \in Calls \ {c} : read'[d] = read[d],
           granted' = granted, questions' = questions,
           DOMAIN file' = Files, DOMAIN serial' = Files, DOMAIN editor' = Files
    PROVE  CallsInv'
<1> USE DEF T!Goes, T!Ends, T!Leaves
<1>0. ToolTypes /\ CallPlaced(c) /\ call[c] \in Requests
  BY DEF CallsInv, ToolTypes
<1>1. call[c].tool = "exec" /\ Needed(c) \subseteq granted[c]
  BY <1>0 DEF CallPlaced, ExecPlaced, ExecSteps
<1>2. CASE callStep' = [callStep EXCEPT ![c] = "done"] /\ segment' = segment
  <2>1. ToolTypes' /\ \A d \in Calls \ {c} : Same(d)
    BY <1>0, <1>2 DEF ToolTypes, ToolSteps, Same
  <2>2. callStep'[c] = "done"
    BY <1>0, <1>2 DEF ToolTypes
  <2> QED
    BY <2>1, <2>2, Unplaced, OneMoves
<1>3. CASE callStep' = [callStep EXCEPT ![c] = "askBin"] /\ segment' = [segment EXCEPT ![c] = @ + 1]
  <2>1. ToolTypes' /\ \A d \in Calls \ {c} : Same(d)
    BY <1>0, <1>3 DEF ToolTypes, ToolSteps, ExecSteps, Same
  <2>2. callStep'[c] = "askBin"
    BY <1>0, <1>3 DEF ToolTypes
  <2>3. Needed(c)' = Needed(c)
    BY RequestStays
  <2>4. CallPlaced(c)'
    BY <1>1, <2>2, <2>3 DEF CallPlaced, ExecPlaced, EditsPlaced, EditSteps
  <2> QED
    BY <2>1, <2>4, OneMoves
<1> QED
  BY <1>2, <1>3 DEF T!Following

\* A command in its questions and between its parts.
LEMMA ExecMoves ==
    ASSUME RequestTypes, CallsInv, NEW c \in Calls,
           \/ T!Enter(c) \/ T!StartCommand(c) \/ T!Fail(c) \/ T!Look(c)
           \/ \E yes \in BOOLEAN : T!Answer(c, yes) \/ T!AskForBin(c, yes)
    PROVE  CallsInv'
<1> USE DEF T!Goes, T!Ends, T!Leaves, T!diskVars, T!askVars
<1>0. ToolTypes /\ CallPlaced(c) /\ call[c] \in Requests
  BY DEF CallsInv, ToolTypes
<1>1. CASE T!Enter(c)
  <2>1. /\ call' = call /\ segment' = segment /\ failed' = failed /\ read' = read
        /\ granted' = granted /\ UNCHANGED <<file, serial, editor>> /\ callStep[c] = "enter"
    BY <1>1 DEF T!Enter
  <2>2. CASE callStep' = [callStep EXCEPT ![c] = "done"] /\ questions' = questions
    <3>1. ToolTypes' /\ \A d \in Calls \ {c} : Same(d)
      BY <1>0, <2>1, <2>2 DEF ToolTypes, ToolSteps, Same
    <3>2. callStep'[c] = "done"
      BY <1>0, <2>2 DEF ToolTypes
    <3> QED
      BY <2>1, <3>1, <3>2, Unplaced, OneMoves
  <2>3. CASE /\ callStep' = [callStep EXCEPT ![c] = "questions"]
             /\ questions' = [questions EXCEPT ![c] = T!QuestionsOf(c)]
    <3>1. ToolTypes' /\ \A d \in Calls \ {c} : Same(d)
      BY <1>0, <2>1, <2>3, QuestionsAreNeeded DEF ToolTypes, ToolSteps, ExecSteps, Same
    <3>2. callStep'[c] = "questions" /\ questions'[c] = T!QuestionsOf(c)
      BY <1>0, <2>3 DEF ToolTypes
    <3>3. call[c].tool = "exec" /\ segment[c] = 1
      BY <1>0, <2>1 DEF CallPlaced, ExecPlaced, ExecSteps
    <3>4. Asked(c)' = Asked(c)
      BY <2>1, RequestStays
    <3>5. Asked(c) \subseteq {T!QuestionsOf(c)[i] : i \in 1..Len(T!QuestionsOf(c))}
      BY QuestionsAreNeeded
    <3>6. CallPlaced(c)'
      BY <2>1, <3>2, <3>3, <3>4, <3>5 DEF CallPlaced, ExecPlaced, EditsPlaced, EditSteps
    <3> QED
      BY <2>1, <3>1, <3>6, OneMoves
  <2> QED
    BY <1>1, <2>2, <2>3 DEF T!Enter
<1>2. CASE T!StartCommand(c)
  <2>1. /\ call' = call /\ segment' = segment /\ failed' = failed /\ read' = read
        /\ granted' = granted /\ UNCHANGED <<file, serial, editor>> /\ questions' = questions
        /\ callStep[c] = "questions" /\ questions[c] = <<>>
    BY <1>2 DEF T!StartCommand
  <2>2. PICK s \in {"askBin", "command"} : callStep' = [callStep EXCEPT ![c] = s]
    BY <1>2 DEF T!StartCommand
  <2>3. ToolTypes' /\ \A d \in Calls \ {c} : Same(d)
    BY <1>0, <2>1, <2>2 DEF ToolTypes, ToolSteps, ExecSteps, Same
  <2>4. callStep'[c] = s
    BY <1>0, <2>2 DEF ToolTypes
  <2>5. call[c].tool = "exec" /\ segment[c] = 1 /\ Asked(c) \subseteq granted[c]
    BY <1>0, <2>1 DEF CallPlaced, ExecPlaced, ExecSteps
  <2>6. call[c].segments \in Seq(CommandSet) /\ call[c].segments # <<>>
    BY <1>0, <2>5 DEF RequestTypes
  <2>7. 1 <= Len(call[c].segments) /\ Head(call[c].segments) = call[c].segments[1]
    BY <2>6
  <2>8. Needed(c)' = Needed(c) /\ T!Command(c)' = T!Command(c)
    BY <2>1, RequestStays
  <2>9. Needed(c) \subseteq granted[c] /\ PartGranted(c)
    BY <2>5, <2>7 DEF Asked, PartGranted, T!Command
  <2>10. PartGranted(c)'
    BY <2>1, <2>8, <2>9 DEF PartGranted
  <2>11. CallPlaced(c)'
    BY <2>1, <2>4, <2>5, <2>7, <2>8, <2>9, <2>10
       DEF CallPlaced, ExecPlaced, EditsPlaced, EditSteps
  <2> QED
    BY <2>1, <2>3, <2>11, OneMoves
<1>3. CASE T!Fail(c)
  <2>1. /\ call' = call /\ segment' = segment /\ failed' = failed /\ read' = read
        /\ granted' = granted /\ UNCHANGED <<file, serial, editor>> /\ questions' = questions
        /\ callStep' = [callStep EXCEPT ![c] = "done"]
    BY <1>3 DEF T!Fail
  <2>2. ToolTypes' /\ \A d \in Calls \ {c} : Same(d)
    BY <1>0, <2>1 DEF ToolTypes, ToolSteps, Same
  <2>3. callStep'[c] = "done"
    BY <1>0, <2>1 DEF ToolTypes
  <2> QED
    BY <2>1, <2>2, <2>3, Unplaced, OneMoves
<1>5. ASSUME NEW yes \in BOOLEAN, T!Answer(c, yes) PROVE CallsInv'
  <2>1. /\ call' = call /\ segment' = segment /\ failed' = failed /\ read' = read
        /\ UNCHANGED <<file, serial, editor>>
        /\ callStep[c] = "questions" /\ questions[c] # <<>>
    BY <1>5 DEF T!Answer
  <2>2. CASE yes
    <3>1. /\ granted' = [granted EXCEPT ![c] = @ \cup {Head(questions[c])}]
          /\ questions' = [questions EXCEPT ![c] = Tail(@)] /\ callStep' = callStep
      BY <1>5, <2>2 DEF T!Answer
    <3>2. questions[c] \in Seq({"destructive", "bin", "intent"})
      BY <1>0 DEF ToolTypes
    <3>3. Tail(questions[c]) \in Seq({"destructive", "bin", "intent"})
      BY <2>1, <3>2
    <3>4. ToolTypes' /\ \A d \in Calls \ {c} : Same(d)
      BY <1>0, <2>1, <3>1, <3>3 DEF ToolTypes, Same
    <3>5. granted'[c] = granted[c] \cup {Head(questions[c])}
          /\ questions'[c] = Tail(questions[c])
      BY <1>0, <3>1 DEF ToolTypes
    <3>6. {questions[c][i] : i \in 1..Len(questions[c])}
              \subseteq {Head(questions[c])} \cup {Tail(questions[c])[i] :
                                                      i \in 1..Len(Tail(questions[c]))}
      <4>1. Len(questions[c]) \in Nat /\ Len(Tail(questions[c])) = Len(questions[c]) - 1
            /\ Head(questions[c]) = questions[c][1]
        BY <2>1, <3>2
      <4>2. \A i \in 2..Len(questions[c]) : questions[c][i] = Tail(questions[c])[i - 1]
        BY <2>1, <3>2
      <4>3. \A i \in 2..Len(questions[c]) : i - 1 \in 1..Len(Tail(questions[c]))
        BY <4>1
      <4>4. \A i \in 1..Len(questions[c]) : i = 1 \/ i \in 2..Len(questions[c])
        BY <4>1
      <4> QED
        BY <4>1, <4>2, <4>3, <4>4
    <3>7. call[c].tool = "exec" /\ segment[c] = 1
          /\ Asked(c) \subseteq granted[c] \cup {questions[c][i] : i \in 1..Len(questions[c])}
      BY <1>0, <2>1 DEF CallPlaced, ExecPlaced, ExecSteps
    <3>8. Asked(c)' = Asked(c)
      BY <2>1, RequestStays
    <3>9. CallPlaced(c)'
      BY <2>1, <3>1, <3>5, <3>6, <3>7, <3>8 DEF CallPlaced, ExecPlaced, EditsPlaced, EditSteps
    <3> QED
      BY <2>1, <3>4, <3>9, OneMoves
  <2>3. CASE ~yes
    <3>1. /\ granted' = granted /\ questions' = questions
          /\ callStep' = [callStep EXCEPT ![c] = "done"]
      BY <1>5, <2>3 DEF T!Answer
    <3>2. ToolTypes' /\ \A d \in Calls \ {c} : Same(d)
      BY <1>0, <2>1, <3>1 DEF ToolTypes, ToolSteps, Same
    <3>3. callStep'[c] = "done"
      BY <1>0, <3>1 DEF ToolTypes
    <3> QED
      BY <2>1, <3>2, <3>3, Unplaced, OneMoves
  <2> QED
    BY <2>2, <2>3
<1>6. ASSUME NEW yes \in BOOLEAN, T!AskForBin(c, yes) PROVE CallsInv'
  <2>1. /\ call' = call /\ segment' = segment /\ failed' = failed /\ read' = read
        /\ UNCHANGED <<file, serial, editor>> /\ questions' = questions
        /\ callStep[c] = "askBin"
    BY <1>6 DEF T!AskForBin
  <2>5. call[c].tool = "exec" /\ Needed(c) \subseteq granted[c]
    BY <1>0, <2>1 DEF CallPlaced, ExecPlaced, ExecSteps
  <2>6. Needed(c)' = Needed(c) /\ T!Command(c)' = T!Command(c)
    BY <2>1, RequestStays
  <2>7. CASE callStep' = [callStep EXCEPT ![c] = "done"] /\ granted' = granted
    <3>1. ToolTypes' /\ \A d \in Calls \ {c} : Same(d)
      BY <1>0, <2>1, <2>7 DEF ToolTypes, ToolSteps, Same
    <3>2. callStep'[c] = "done"
      BY <1>0, <2>7 DEF ToolTypes
    <3> QED
      BY <2>1, <3>1, <3>2, Unplaced, OneMoves
  <2>8. CASE /\ callStep' = [callStep EXCEPT ![c] = "command"]
             /\ ~(segment[c] > Len(call[c].segments))
             /\ \/ /\ T!Command(c).bin \in AllowedBins
                   /\ granted' = [granted EXCEPT ![c] = @ \ {"bin"}]
                \/ granted' = [granted EXCEPT ![c] = @ \cup {"bin"}]
    <3>1. DOMAIN granted' = Calls /\ \A d \in Calls \ {c} : granted'[d] = granted[d]
      BY <1>0, <2>8 DEF ToolTypes
    <3>2. ToolTypes' /\ \A d \in Calls \ {c} : Same(d)
      BY <1>0, <2>1, <2>8, <3>1 DEF ToolTypes, ToolSteps, ExecSteps, Same
    <3>3. callStep'[c] = "command"
      BY <1>0, <2>8 DEF ToolTypes
    <3>4. \/ T!Command(c).bin \in AllowedBins /\ granted'[c] = granted[c] \ {"bin"}
          \/ granted'[c] = granted[c] \cup {"bin"}
      BY <1>0, <2>8 DEF ToolTypes
    <3>5. PartGranted(c)'
      BY <2>6, <3>4 DEF PartGranted
    <3>6. Needed(c) \subseteq granted'[c]
      <4>1. "bin" \notin Needed(c)
        BY DEF Needed
      <4> QED
        BY <2>5, <3>4, <4>1
    <3>7. segment[c] <= Len(call[c].segments)
      <4>1. Len(call[c].segments) \in Nat /\ segment[c] \in Nat
        BY <1>0, <2>5 DEF RequestTypes, ToolTypes
      <4> QED
        BY <2>8, <4>1
    <3>8. CallPlaced(c)'
      BY <2>1, <2>5, <2>6, <3>3, <3>5, <3>6, <3>7
         DEF CallPlaced, ExecPlaced, EditsPlaced, EditSteps
    <3> QED
      BY <2>1, <3>2, <3>8, OneMoves
  <2> QED
    BY <1>6, <2>7, <2>8 DEF T!AskForBin
<1>7. CASE T!Look(c) /\ callStep' = [callStep EXCEPT ![c] = "write"]
  <2> DEFINE content == file[T!Command(c).path]
  <2>1. /\ call' = call /\ segment' = segment /\ failed' = failed
        /\ UNCHANGED <<file, serial, editor>> /\ granted' = granted /\ questions' = questions
        /\ callStep[c] = "command"
    BY <1>0, <1>7 DEF T!Look, T!Following, ToolTypes
  <2>2. /\ T!Command(c).form \in T!InTwoSteps /\ ~T!OutsideProfile(T!Command(c))
        /\ read' = [read EXCEPT ![c] = content]
        /\ T!Command(c).form = "touch" => content = NoFile
    <3>1. callStep'[c] = "write"
      BY <1>0, <1>7 DEF ToolTypes
    <3>2. ~T!Following(c)
      BY <1>0, <3>1 DEF T!Following, ToolTypes
    <3> QED
      BY <1>7, <3>2 DEF T!Look
  <2>3. ToolTypes' /\ \A d \in Calls \ {c} : Same(d)
    BY <1>0, <1>7, <2>1, <2>2 DEF ToolTypes, ToolSteps, ExecSteps, Same
  <2>4. callStep'[c] = "write" /\ read'[c] = content
    BY <1>0, <1>7, <2>2 DEF ToolTypes
  <2>5. /\ call[c].tool = "exec" /\ Needed(c) \subseteq granted[c] /\ PartGranted(c)
        /\ segment[c] <= Len(call[c].segments)
    BY <1>0, <2>1 DEF CallPlaced, ExecPlaced, ExecSteps
  <2>6. Needed(c)' = Needed(c) /\ T!Command(c)' = T!Command(c)
    BY <2>1, RequestStays
  <2>9. PartGranted(c)'
    BY <2>1, <2>5, <2>6 DEF PartGranted
  <2>7. T!Command(c).path \in Files
    BY <2>2 DEF T!OutsideProfile
  <2>8. CallPlaced(c)'
    BY <2>1, <2>2, <2>4, <2>5, <2>6, <2>7, <2>9
       DEF CallPlaced, ExecPlaced, EditsPlaced, EditSteps
  <2> QED
    BY <2>1, <2>3, <2>8, OneMoves
<1>8. CASE T!Look(c) /\ callStep' # [callStep EXCEPT ![c] = "write"]
  <2>1. T!Following(c) /\ call' = call /\ read' = read /\ failed' = failed
        /\ UNCHANGED <<file, serial, editor>> /\ granted' = granted /\ questions' = questions
        /\ callStep[c] = "command"
    BY <1>8 DEF T!Look
  <2>2. DOMAIN read' = Calls /\ DOMAIN file' = Files /\ DOMAIN serial' = Files
        /\ DOMAIN editor' = Files
    BY <1>0, <2>1 DEF ToolTypes
  <2> QED
    BY <2>1, <2>2, FollowingMoves
<1> QED
  BY <1>1, <1>2, <1>3, <1>5, <1>6, <1>7, <1>8

\* A command that has done a part.
LEMMA PartMoves ==
    ASSUME RequestTypes, CallsInv, NEW c \in Calls,
           T!ReadFiles(c) \/ T!Run(c) \/ T!Overwrite(c) \/ T!Write(c)
    PROVE  CallsInv'
<1> USE DEF T!askVars, T!diskVars
<1>0. ToolTypes /\ CallPlaced(c)
  BY DEF CallsInv
<1>1. /\ callStep[c] \in {"command", "write"} /\ call' = call
      /\ failed' = failed /\ read' = read /\ granted' = granted /\ questions' = questions
      /\ T!Following(c) \/ (T!Leaves(c, "error") /\ segment' = segment)
  BY DEF T!ReadFiles, T!Run, T!Overwrite, T!Write
<1>2. DOMAIN file' = Files /\ DOMAIN serial' = Files /\ DOMAIN editor' = Files
  <2>1. CASE T!ReadFiles(c)
    BY <1>0, <2>1 DEF T!ReadFiles, ToolTypes
  <2>2. CASE T!Run(c)
    BY <2>2 DEF T!Run, T!ByCommand
  <2>3. CASE T!Overwrite(c)
    <3>1. T!Command(c).path \in Files /\ T!Command(c).to \in Files
          /\ T!Command(c).form \in T!InOneStep
      BY <2>3 DEF T!Overwrite, T!OutsideProfile
    <3>2. DOMAIN T!Effect(T!Command(c), file) = Files
      BY <1>0, <3>1, EffectAgrees DEF ToolTypes
    <3>3. DOMAIN T!Effect(T!Command(c), serial) = Files
      BY <1>0, <3>1, EffectAgrees DEF ToolTypes
    <3> QED
      BY <2>3, <3>2, <3>3 DEF T!Overwrite, T!ByCommand
  <2>4. CASE T!Write(c)
    <3>1. DOMAIN file' = Files /\ DOMAIN editor' = Files
      BY <1>0, <2>4 DEF T!Write, T!ByCommand, ToolTypes
    <3>2. DOMAIN serial' = Files
      BY <1>0, <2>4 DEF T!Write, T!Races, ToolTypes
    <3> QED
      BY <3>1, <3>2
  <2> QED
    BY <2>1, <2>2, <2>3, <2>4
<1>3. DOMAIN read' = Calls /\ \A d \in Calls \ {c} : read'[d] = read[d]
  BY <1>0, <1>1 DEF ToolTypes
<1>4. CASE T!Following(c)
  BY <1>1, <1>2, <1>3, <1>4, FollowingMoves
<1>5. CASE T!Leaves(c, "error") /\ segment' = segment
  <2>1. callStep' = [callStep EXCEPT ![c] = "done"]
    BY <1>5 DEF T!Leaves, T!Ends, T!Goes
  <2>2. ToolTypes' /\ \A d \in Calls \ {c} : Same(d)
    BY <1>0, <1>1, <1>2, <1>5, <2>1 DEF ToolTypes, ToolSteps, Same
  <2>3. callStep'[c] = "done"
    BY <1>0, <2>1 DEF ToolTypes
  <2> QED
    BY <1>1, <2>2, <2>3, Unplaced, OneMoves
<1> QED
  BY <1>1, <1>4, <1>5

\* The files and the edits of a call, and what the call loads when it is done.
LEMMA EditsMove ==
    ASSUME RequestTypes, CallsInv, NEW c \in Calls,
           \/ T!CheckPaths(c) \/ T!FinishEdits(c) \/ T!LoadSubstrate(c) \/ T!SetSubstrate(c)
           \/ \E ok \in BOOLEAN : T!ReadForEdits(c, ok) \/ T!WriteEdits(c, ok)
    PROVE  CallsInv'
<1> USE DEF T!Goes, T!Ends, T!diskVars, T!askVars, T!limiterVars
<1>0. ToolTypes /\ CallPlaced(c) /\ call[c] \in Requests
  BY DEF CallsInv, ToolTypes
<1>1. call' = call /\ questions' = questions /\ granted' = granted
      /\ callStep[c] \in {"paths"} \cup EditSteps
  BY DEF T!CheckPaths, T!ReadForEdits, T!FinishEdits, T!LoadSubstrate, T!SetSubstrate,
         T!WriteEdits, EditSteps
<1>2. call[c].tool = "apply_edits" /\ "toolQuestion" \in granted[c]
      /\ call[c].edits \in Seq(EditSet)
  BY <1>0, <1>1 DEF CallPlaced, EditsPlaced, RequestTypes
<1>3. T!Paths(c)' = T!Paths(c)
      /\ T!Paths(c) \in Seq({call[c].edits[i].path : i \in DOMAIN call[c].edits})
  BY <1>1, <1>2, RequestStays, PathsAreDistinct
<1>4. Len(T!Paths(c)) \in Nat /\ DOMAIN T!Paths(c) = 1..Len(T!Paths(c))
  BY <1>3
<1>5. ASSUME callStep' = [callStep EXCEPT ![c] = "done"], ToolTypes',
             segment' = segment, failed' = failed, read' = read
      PROVE  CallsInv'
  <2>1. callStep'[c] = "done" /\ \A d \in Calls \ {c} : Same(d)
    BY <1>0, <1>1, <1>5 DEF ToolTypes, Same
  <2> QED
    BY <1>1, <1>5, <2>1, Unplaced, OneMoves
<1>6. CASE T!CheckPaths(c)
  <2>1. /\ callStep[c] = "paths" /\ segment' = segment /\ failed' = failed /\ read' = read
        /\ UNCHANGED <<file, serial, editor>>
    BY <1>6 DEF T!CheckPaths
  <2>2. CASE callStep' = [callStep EXCEPT ![c] = "done"]
    <3>1. ToolTypes'
      BY <1>0, <1>1, <2>1, <2>2 DEF ToolTypes, ToolSteps
    <3> QED
      BY <1>5, <2>1, <2>2, <3>1
  <2>3. CASE callStep' = [callStep EXCEPT ![c] = "edit"] /\ T!ToSet(T!Paths(c)) \subseteq Files
    <3>1. ToolTypes' /\ \A d \in Calls \ {c} : Same(d)
      BY <1>0, <1>1, <2>1, <2>3 DEF ToolTypes, ToolSteps, EditSteps, Same
    <3>2. callStep'[c] = "edit"
      BY <1>0, <2>3 DEF ToolTypes
    <3>3. segment[c] = 1 /\ failed[c] = {}
      BY <1>0, <2>1 DEF CallPlaced
    <3>4. T!ToSet(T!Paths(c))' = T!ToSet(T!Paths(c))
      BY <1>3 DEF T!ToSet
    <3>5. /\ T!ToSet(T!Paths(c))' \subseteq Files /\ segment'[c] = 1 /\ failed'[c] = {}
          /\ segment'[c] <= Len(T!Paths(c)') + 1
      BY <1>3, <1>4, <2>1, <2>3, <3>3, <3>4
    <3>6. EditsPlaced(c)'
      BY <1>1, <1>2, <3>2, <3>5 DEF EditsPlaced
    <3>7. CallPlaced(c)'
      BY <3>2, <3>5, <3>6 DEF CallPlaced, ExecPlaced, ExecSteps
    <3> QED
      BY <1>1, <3>1, <3>7, OneMoves
  <2> QED
    BY <1>6, <2>2, <2>3 DEF T!CheckPaths
<1>7. ASSUME callStep[c] \in EditSteps
      PROVE  /\ T!ToSet(T!Paths(c)) \subseteq Files /\ T!ToSet(T!Paths(c))' \subseteq Files
             /\ segment[c] <= Len(T!Paths(c)) + 1 /\ segment[c] \in Nat \ {0}
             /\ \A p \in failed[c] : \E i \in 1..(segment[c] - 1) : T!Paths(c)[i] = p
  <2>1. T!ToSet(T!Paths(c)) \subseteq Files
    BY <1>0, <1>7 DEF CallPlaced, EditsPlaced
  <2>2. T!ToSet(T!Paths(c))' = T!ToSet(T!Paths(c))
    BY <1>3 DEF T!ToSet
  <2> QED
    BY <1>0, <1>7, <2>1, <2>2 DEF CallPlaced, EditsPlaced, ToolTypes
<1>8. ASSUME NEW ok \in BOOLEAN, T!ReadForEdits(c, ok) PROVE CallsInv'
  <2>1. /\ callStep[c] = "edit" /\ segment[c] <= Len(T!Paths(c))
        /\ UNCHANGED <<file, serial, editor>>
    BY <1>8 DEF T!ReadForEdits, T!MorePaths
  <2>2. CASE /\ callStep' = [callStep EXCEPT ![c] = "writeEdits"]
             /\ read' = [read EXCEPT ![c] = file[T!Path(c)]]
             /\ segment' = segment /\ failed' = failed
             /\ T!Edited(file[T!Path(c)], T!EditsOf(c, T!Path(c))).applied
    <3>1. ToolTypes' /\ \A d \in Calls \ {c} : Same(d)
      BY <1>0, <1>1, <2>1, <2>2 DEF ToolTypes, ToolSteps, EditSteps, Same
    <3>2. callStep'[c] = "writeEdits" /\ read'[c] = file[T!Path(c)]
      BY <1>0, <2>2 DEF ToolTypes
    <3>3. T!EditsOf(c, T!Path(c))' = T!EditsOf(c, T!Path(c))
      BY <1>1, <2>2, RequestStays
    <3>4. T!Edited(read'[c], T!EditsOf(c, T!Path(c))').applied
      BY <2>2, <3>2, <3>3
    <3>5. CallPlaced(c)'
      BY <1>1, <1>2, <1>3, <1>7, <2>1, <2>2, <3>2, <3>4
         DEF CallPlaced, ExecPlaced, EditsPlaced, ExecSteps, EditSteps
    <3> QED
      BY <1>1, <3>1, <3>5, OneMoves
  <2>3. CASE /\ failed' = [failed EXCEPT ![c] = @ \cup {T!Path(c)}]
             /\ segment' = [segment EXCEPT ![c] = @ + 1]
             /\ callStep' = callStep /\ read' = read
    <3>1. ToolTypes' /\ \A d \in Calls \ {c} : Same(d)
      BY <1>0, <1>1, <2>1, <2>3 DEF ToolTypes, Same
    <3>2. failed'[c] = failed[c] \cup {T!Paths(c)[segment[c]]} /\ segment'[c] = segment[c] + 1
      BY <1>0, <2>3 DEF ToolTypes, T!Path
    <3>3. callStep[c] \in EditSteps
      BY <2>1 DEF EditSteps
    <3>4. \A p \in failed'[c] : \E i \in 1..(segment'[c] - 1) : T!Paths(c)[i] = p
      <4>1. 1..(segment'[c] - 1) = 1..(segment[c] - 1) \cup {segment[c]}
        BY <1>7, <3>2, <3>3
      <4> QED
        BY <1>7, <3>2, <3>3, <4>1
    <3>5. segment'[c] <= Len(T!Paths(c)) + 1
      BY <1>4, <1>7, <2>1, <3>2, <3>3
    <3>6. CallPlaced(c)'
      BY <1>1, <1>2, <1>3, <1>7, <2>1, <2>3, <3>3, <3>4, <3>5
         DEF CallPlaced, ExecPlaced, EditsPlaced, ExecSteps
    <3> QED
      BY <1>1, <3>1, <3>6, OneMoves
  <2>4. CASE /\ callStep' = [callStep EXCEPT ![c] = "done"]
             /\ segment' = segment /\ failed' = failed /\ read' = read
    <3>1. ToolTypes'
      BY <1>0, <1>1, <2>1, <2>4 DEF ToolTypes, ToolSteps
    <3> QED
      BY <1>5, <2>4, <3>1
  <2> QED
    BY <1>8, <2>2, <2>3, <2>4 DEF T!ReadForEdits, T!NextPath
<1>9. ASSUME NEW ok \in BOOLEAN, T!WriteEdits(c, ok) PROVE CallsInv'
  <2>1. /\ callStep[c] = "writeEdits" /\ read' = read
        /\ callStep' = [callStep EXCEPT ![c] = "edit"]
        /\ segment' = [segment EXCEPT ![c] = @ + 1]
    BY <1>9 DEF T!WriteEdits, T!NextPath
  <2>2. failed' = failed \/ failed' = [failed EXCEPT ![c] = @ \cup {T!Path(c)}]
    BY <1>9 DEF T!WriteEdits
  <2>3. DOMAIN file' = Files /\ DOMAIN serial' = Files /\ DOMAIN editor' = Files
    <3>1. CASE ok
      <4>1. DOMAIN file' = Files /\ DOMAIN editor' = Files
        BY <1>0, <1>9, <3>1 DEF T!WriteEdits, ToolTypes
      <4>2. DOMAIN serial' = Files
        BY <1>0, <1>9, <3>1 DEF T!WriteEdits, T!Races, ToolTypes
      <4> QED
        BY <4>1, <4>2
    <3>2. CASE ~ok
      BY <1>0, <1>9, <3>2 DEF T!WriteEdits, ToolTypes
    <3> QED
      BY <3>1, <3>2
  <2>4. ToolTypes' /\ \A d \in Calls \ {c} : Same(d)
    <3>1. DOMAIN failed' = Calls /\ \A d \in Calls \ {c} : failed'[d] = failed[d]
      BY <1>0, <2>2 DEF ToolTypes
    <3>2. callStep' \in [Calls -> ToolSteps] /\ segment' \in [Calls -> Nat \ {0}]
      <4>1. callStep \in [Calls -> ToolSteps] /\ segment \in [Calls -> Nat \ {0}]
        BY <1>0 DEF ToolTypes
      <4>2. segment[c] \in Nat \ {0}
        BY <4>1
      <4>3. segment[c] + 1 \in Nat \ {0}
        BY <4>2
      <4>4. "edit" \in ToolSteps
        BY DEF ToolSteps, EditSteps
      <4> QED
        BY <2>1, <4>1, <4>3, <4>4
    <3>3. ToolTypes'
      BY <1>0, <1>1, <2>1, <2>3, <3>1, <3>2 DEF ToolTypes
    <3>4. \A d \in Calls \ {c} : callStep'[d] = callStep[d] /\ segment'[d] = segment[d]
      BY <1>0, <2>1 DEF ToolTypes
    <3> QED
      BY <1>1, <2>1, <3>1, <3>3, <3>4 DEF Same
  <2>5. failed'[c] \subseteq failed[c] \cup {T!Paths(c)[segment[c]]}
        /\ segment'[c] = segment[c] + 1 /\ callStep'[c] = "edit"
    BY <1>0, <2>1, <2>2 DEF ToolTypes, T!Path
  <2>6. callStep[c] \in EditSteps /\ segment[c] <= Len(T!Paths(c))
    BY <1>0, <2>1 DEF EditSteps, CallPlaced, EditsPlaced
  <2>7. \A p \in failed'[c] : \E i \in 1..(segment'[c] - 1) : T!Paths(c)[i] = p
    <3>1. 1..(segment'[c] - 1) = 1..(segment[c] - 1) \cup {segment[c]}
      BY <1>7, <2>5, <2>6
    <3> QED
      BY <1>7, <2>5, <2>6, <3>1
  <2>8. segment'[c] <= Len(T!Paths(c)) + 1
    BY <1>4, <1>7, <2>5, <2>6
  <2>9. CallPlaced(c)'
    BY <1>1, <1>2, <1>3, <1>7, <2>5, <2>6, <2>7, <2>8
       DEF CallPlaced, ExecPlaced, EditsPlaced, ExecSteps
  <2> QED
    BY <1>1, <2>4, <2>9, OneMoves
<1>10. CASE T!FinishEdits(c)
  <2>1. /\ callStep[c] = "edit" /\ segment' = segment /\ failed' = failed /\ read' = read
        /\ UNCHANGED <<file, serial, editor>>
    BY <1>10 DEF T!FinishEdits
  <2>2. CASE failed[c] = {}
    <3>1. callStep' = [callStep EXCEPT ![c] = "reload"]
      BY <1>10, <2>2 DEF T!FinishEdits
    <3>2. ToolTypes' /\ \A d \in Calls \ {c} : Same(d)
      BY <1>0, <1>1, <2>1, <3>1 DEF ToolTypes, ToolSteps, EditSteps, Same
    <3>3. callStep'[c] = "reload" /\ callStep[c] \in EditSteps
      BY <1>0, <2>1, <3>1 DEF ToolTypes, EditSteps
    <3>4. CallPlaced(c)'
      BY <1>1, <1>2, <1>3, <1>7, <2>1, <2>2, <3>3
         DEF CallPlaced, ExecPlaced, EditsPlaced, ExecSteps
    <3> QED
      BY <1>1, <3>2, <3>4, OneMoves
  <2>3. CASE failed[c] # {}
    <3>1. callStep' = [callStep EXCEPT ![c] = "done"]
      BY <1>10, <2>3 DEF T!FinishEdits
    <3>2. ToolTypes'
      BY <1>0, <1>1, <2>1, <3>1 DEF ToolTypes, ToolSteps
    <3> QED
      BY <1>5, <2>1, <3>1, <3>2
  <2> QED
    BY <2>2, <2>3
<1>11. CASE T!LoadSubstrate(c)
  <2>1. /\ callStep[c] = "reload" /\ segment' = segment /\ failed' = failed
        /\ UNCHANGED <<file, serial, editor>> /\ read' = [read EXCEPT ![c] = file]
        /\ callStep' = [callStep EXCEPT ![c] = "set"]
    BY <1>11 DEF T!LoadSubstrate
  <2>2. ToolTypes' /\ \A d \in Calls \ {c} : Same(d)
    BY <1>0, <1>1, <2>1 DEF ToolTypes, ToolSteps, EditSteps, Same
  <2>3. callStep'[c] = "set" /\ callStep[c] \in EditSteps
    BY <1>0, <2>1 DEF ToolTypes, EditSteps
  <2>4. failed[c] = {}
    BY <1>0, <2>1 DEF CallPlaced, EditsPlaced
  <2>5. CallPlaced(c)'
    BY <1>1, <1>2, <1>3, <1>7, <2>1, <2>3, <2>4
       DEF CallPlaced, ExecPlaced, EditsPlaced, ExecSteps
  <2> QED
    BY <1>1, <2>2, <2>5, OneMoves
<1>12. CASE T!SetSubstrate(c)
  <2>1. /\ segment' = segment /\ failed' = failed /\ read' = read
        /\ UNCHANGED <<file, serial, editor>> /\ callStep' = [callStep EXCEPT ![c] = "done"]
    BY <1>12 DEF T!SetSubstrate
  <2>2. ToolTypes'
    BY <1>0, <1>1, <2>1 DEF ToolTypes, ToolSteps
  <2> QED
    BY <1>5, <2>1, <2>2
<1> QED
  BY <1>6, <1>8, <1>9, <1>10, <1>11, <1>12

\* Every step leaves the calls in their places.
LEMMA CallsStep ==
    ASSUME RequestTypes, CallsInv, [T!Next]_T!toolVars
    PROVE  CallsInv'
<1>1. CASE T!Isolate \/ T!MinutePasses \/ UNCHANGED T!toolVars
  <2>1. /\ call' = call /\ callStep' = callStep /\ segment' = segment /\ failed' = failed
        /\ read' = read /\ questions' = questions /\ granted' = granted
        /\ UNCHANGED <<file, serial, editor>>
    BY <1>1 DEF T!Isolate, T!MinutePasses, T!toolVars, T!askVars, T!diskVars
  <2>2. \A d \in Calls : Same(d)
    BY <2>1 DEF Same
  <2>3. ToolTypes'
    BY <2>1 DEF CallsInv, ToolTypes
  <2> QED
    BY <2>1, <2>2, <2>3, OthersStay DEF CallsInv
<1>2. ASSUME NEW c \in Calls,
             \/ T!Route(c) \/ T!CheckLimit(c)
             \/ \E yes \in BOOLEAN : T!AskForTool(c, yes) \/ T!Post(c, yes)
      PROVE  CallsInv'
  BY <1>2, RouterMoves
<1>3. ASSUME NEW c \in Calls,
             \/ T!Enter(c) \/ T!StartCommand(c) \/ T!Fail(c) \/ T!Look(c)
             \/ \E yes \in BOOLEAN : T!Answer(c, yes) \/ T!AskForBin(c, yes)
      PROVE  CallsInv'
  BY <1>3, ExecMoves
<1>4. ASSUME NEW c \in Calls, T!ReadFiles(c) \/ T!Run(c) \/ T!Overwrite(c) \/ T!Write(c)
      PROVE  CallsInv'
  BY <1>4, PartMoves
<1>5. ASSUME NEW c \in Calls,
             \/ T!CheckPaths(c) \/ T!FinishEdits(c) \/ T!LoadSubstrate(c) \/ T!SetSubstrate(c)
             \/ \E ok \in BOOLEAN : T!ReadForEdits(c, ok) \/ T!WriteEdits(c, ok)
      PROVE  CallsInv'
  BY <1>5, EditsMove
<1> QED
  BY <1>1, <1>2, <1>3, <1>4, <1>5 DEF T!Next

\* A step of a call is about nothing of another one, and reports no edits as made.
Frame(c) ==
    /\ call' = call
    /\ \/ callStep' = callStep /\ callStep[c] # "set" /\ answer' = answer
       \/ \E x : /\ x \notin {"set", "done"}
                 /\ callStep' = [callStep EXCEPT ![c] = x] /\ answer' = answer
       \/ \E how : /\ how = "ok" => call[c].tool # "apply_edits"
                   /\ callStep' = [callStep EXCEPT ![c] = "done"]
                   /\ answer' = [answer EXCEPT ![c] = how]
    /\ segment' = segment \/ \E x : segment' = [segment EXCEPT ![c] = x]
    /\ failed' = failed \/ \E x : failed' = [failed EXCEPT ![c] = x]
    /\ read' = read \/ \E x : read' = [read EXCEPT ![c] = x]
    /\ questions' = questions \/ \E x : questions' = [questions EXCEPT ![c] = x]
    /\ granted' = granted \/ \E x : granted' = [granted EXCEPT ![c] = x]

\* What a step leaves alone of the other calls.
LEMMA FrameIsSame ==
    ASSUME ToolTypes, NEW c \in Calls, Frame(c)
    PROVE  \A d \in Calls \ {c} : Same(d)
<1> SUFFICES ASSUME NEW d \in Calls \ {c} PROVE Same(d)
  OBVIOUS
<1>1. callStep'[d] = callStep[d]
  BY DEF Frame, ToolTypes
<1>2. segment'[d] = segment[d]
  BY DEF Frame, ToolTypes
<1>3. failed'[d] = failed[d]
  BY DEF Frame, ToolTypes
<1>4. read'[d] = read[d]
  BY DEF Frame, ToolTypes
<1>5. questions'[d] = questions[d]
  BY DEF Frame, ToolTypes
<1>6. granted'[d] = granted[d]
  BY DEF Frame, ToolTypes
<1> QED
  BY <1>1, <1>2, <1>3, <1>4, <1>5, <1>6 DEF Same

\* The steps of the router and of gh_pr_write are of one call, and leave the files.
LEMMA RouterFrames ==
    ASSUME CallsInv, NEW c \in Calls,
           \/ T!Route(c) \/ T!CheckLimit(c)
           \/ \E yes \in BOOLEAN : T!AskForTool(c, yes) \/ T!Post(c, yes)
    PROVE  Frame(c) /\ UNCHANGED T!diskVars
<1> USE DEF T!Goes, T!Ends, T!askVars
<1>0. CallPlaced(c)
  BY DEF CallsInv
<1>1. CASE T!Route(c)
  <2>1. /\ call' = call /\ segment' = segment /\ failed' = failed /\ read' = read
        /\ questions' = questions /\ granted' = granted /\ UNCHANGED T!diskVars
    BY <1>1, Zenon DEF T!Route
  <2>2. \/ \E x \in {"enter", "toolQuestion"} :
               callStep' = [callStep EXCEPT ![c] = x] /\ answer' = answer
        \/ \E how : /\ how = "ok" => call[c].tool # "apply_edits"
                    /\ callStep' = [callStep EXCEPT ![c] = "done"]
                    /\ answer' = [answer EXCEPT ![c] = how]
    BY <1>1 DEF T!Route, T!HighRisk
  <2> QED
    BY <2>1, <2>2 DEF Frame
<1>2. CASE T!CheckLimit(c)
  BY <1>2 DEF T!CheckLimit, Frame
<1>3. ASSUME NEW yes \in BOOLEAN, T!AskForTool(c, yes) PROVE Frame(c) /\ UNCHANGED T!diskVars
  <2>1. /\ call' = call /\ segment' = segment /\ failed' = failed /\ read' = read
        /\ questions' = questions /\ UNCHANGED T!diskVars
    BY <1>3, Zenon DEF T!AskForTool
  <2>2. \E x \in {"paths", "writeQuestion", "check"} :
            (IF callStep[c] = "toolQuestion" THEN T!Begins(c) ELSE "check") = x
    BY DEF T!Begins
  <2>3. CASE yes = TRUE
    <3>1. /\ callStep' = [callStep EXCEPT ![c] =
                             IF callStep[c] = "toolQuestion" THEN T!Begins(c) ELSE "check"]
          /\ answer' = answer /\ \E x : granted' = [granted EXCEPT ![c] = x]
      BY <1>3, <2>3, Zenon DEF T!AskForTool
    <3> QED
      BY <2>1, <2>2, <3>1 DEF Frame
  <2>4. CASE yes = FALSE
    <3>1. /\ callStep' = [callStep EXCEPT ![c] = "done"]
          /\ answer' = [answer EXCEPT ![c] = "denied"] /\ granted' = granted
      BY <1>3, <2>4, Zenon DEF T!AskForTool
    <3> QED
      BY <2>1, <3>1 DEF Frame
  <2> QED
    BY <2>3, <2>4
<1>4. ASSUME NEW yes \in BOOLEAN, T!Post(c, yes) PROVE Frame(c) /\ UNCHANGED T!diskVars
  <2>1. call[c].tool = "gh_pr_write"
    BY <1>0, <1>4 DEF T!Post, CallPlaced
  <2> QED
    BY <1>4, <2>1 DEF T!Post, Frame
<1> QED
  BY <1>1, <1>2, <1>3, <1>4

\* So is what a command does, at whatever part it ends.
LEMMA FollowingFrames ==
    ASSUME NEW c \in Calls, call[c].tool = "exec", callStep[c] # "set", call' = call,
           T!Following(c) \/ (T!Leaves(c, "error") /\ segment' = segment),
           failed' = failed, read' = read, questions' = questions, granted' = granted
    PROVE  Frame(c)
<1>1. CASE T!Leaves(c, "error") /\ segment' = segment
  BY <1>1 DEF T!Leaves, T!Ends, T!Goes, Frame
<1>2. CASE T!Following(c)
  <2>1. \/ /\ callStep' = [callStep EXCEPT ![c] = "askBin"] /\ answer' = answer
           /\ \E x : segment' = [segment EXCEPT ![c] = x]
        \/ /\ callStep' = [callStep EXCEPT ![c] = "done"] /\ segment' = segment
           /\ answer' = [answer EXCEPT ![c] = "ok"]
    BY <1>2 DEF T!Following, T!Leaves, T!Ends, T!Goes
  <2> QED
    BY <2>1 DEF Frame
<1> QED
  BY <1>1, <1>2

\* The steps of exec are of one call.
LEMMA ExecFrames ==
    ASSUME CallsInv, NEW c \in Calls,
           \/ T!Enter(c) \/ T!StartCommand(c) \/ T!Fail(c) \/ T!ReadFiles(c) \/ T!Run(c)
           \/ T!Overwrite(c) \/ T!Look(c) \/ T!Write(c)
           \/ \E yes \in BOOLEAN : T!Answer(c, yes) \/ T!AskForBin(c, yes)
    PROVE  /\ Frame(c)
           /\ UNCHANGED T!diskVars \/ T!Run(c) \/ T!Overwrite(c) \/ T!Write(c)
<1> USE DEF T!Goes, T!Ends, T!Leaves, T!askVars
<1>0. CallPlaced(c) /\ call[c].tool = "exec" /\ callStep[c] # "set"
  <2>1. callStep[c] \in ExecSteps
    BY DEF T!Enter, T!StartCommand, T!Fail, T!ReadFiles, T!Run, T!Overwrite, T!Look, T!Write,
           T!Answer, T!AskForBin, ExecSteps
  <2> QED
    BY <2>1 DEF CallsInv, CallPlaced, ExecPlaced, ExecSteps
<1>1. CASE T!Enter(c)
  <2>1. /\ call' = call /\ segment' = segment /\ failed' = failed /\ read' = read
        /\ granted' = granted /\ UNCHANGED T!diskVars
    BY <1>1, Zenon DEF T!Enter
  <2>2. \/ /\ callStep' = [callStep EXCEPT ![c] = "questions"] /\ answer' = answer
           /\ \E x : questions' = [questions EXCEPT ![c] = x]
        \/ /\ callStep' = [callStep EXCEPT ![c] = "done"] /\ questions' = questions
           /\ answer' = [answer EXCEPT ![c] = "overCap"]
    BY <1>1, Zenon DEF T!Enter
  <2> QED
    BY <1>0, <2>1, <2>2 DEF Frame
<1>2. CASE T!StartCommand(c)
  <2>1. \E x \in {"askBin", "command"} : callStep' = [callStep EXCEPT ![c] = x]
    BY <1>2 DEF T!StartCommand
  <2> QED
    BY <1>2, <2>1 DEF T!StartCommand, Frame
<1>3. CASE T!Fail(c)
  <2>1. /\ call' = call /\ segment' = segment /\ failed' = failed /\ read' = read
        /\ granted' = granted /\ questions' = questions /\ UNCHANGED T!diskVars
        /\ callStep' = [callStep EXCEPT ![c] = "done"]
        /\ answer' = [answer EXCEPT ![c] = "error"]
    BY <1>3 DEF T!Fail
  <2> QED
    BY <1>0, <2>1 DEF Frame
<1>4. CASE T!ReadFiles(c)
  <2>1. T!Following(c) /\ call' = call /\ failed' = failed /\ read' = read
        /\ granted' = granted /\ questions' = questions /\ UNCHANGED T!diskVars
    BY <1>4, Zenon DEF T!ReadFiles
  <2> QED
    BY <1>0, <2>1, FollowingFrames
<1>5. CASE T!Run(c) \/ T!Overwrite(c) \/ T!Write(c)
  <2>1. /\ T!Following(c) \/ (T!Leaves(c, "error") /\ segment' = segment)
        /\ call' = call /\ failed' = failed /\ read' = read /\ granted' = granted
        /\ questions' = questions
    <3>1. CASE T!Run(c)
      BY <3>1, Zenon DEF T!Run
    <3>2. CASE T!Overwrite(c)
      BY <3>2, Zenon DEF T!Overwrite
    <3>3. CASE T!Write(c)
      BY <3>3, Zenon DEF T!Write
    <3> QED
      BY <1>5, <3>1, <3>2, <3>3
  <2> QED
    BY <1>0, <1>5, <2>1, FollowingFrames
<1>6. CASE T!Look(c)
  <2>1. /\ call' = call /\ failed' = failed /\ granted' = granted /\ questions' = questions
        /\ UNCHANGED T!diskVars
    BY <1>6, Zenon DEF T!Look
  <2>2. \/ T!Following(c) /\ read' = read
        \/ /\ callStep' = [callStep EXCEPT ![c] = "write"] /\ answer' = answer
           /\ segment' = segment /\ \E x : read' = [read EXCEPT ![c] = x]
    BY <1>6, Zenon DEF T!Look
  <2>3. CASE T!Following(c) /\ read' = read
    BY <1>0, <2>1, <2>3, FollowingFrames
  <2>4. CASE /\ callStep' = [callStep EXCEPT ![c] = "write"] /\ answer' = answer
             /\ segment' = segment /\ \E x : read' = [read EXCEPT ![c] = x]
    BY <2>1, <2>4 DEF Frame
  <2> QED
    BY <2>1, <2>2, <2>3, <2>4
<1>7. ASSUME NEW yes \in BOOLEAN, T!Answer(c, yes)
      PROVE  Frame(c) /\ UNCHANGED T!diskVars
  <2>1. /\ call' = call /\ segment' = segment /\ failed' = failed /\ read' = read
        /\ UNCHANGED T!diskVars
    BY <1>7, Zenon DEF T!Answer
  <2>2. CASE yes = TRUE
    <3>1. /\ callStep' = callStep /\ answer' = answer
          /\ \E x : granted' = [granted EXCEPT ![c] = x]
          /\ \E x : questions' = [questions EXCEPT ![c] = x]
      BY <1>7, <2>2, Zenon DEF T!Answer
    <3> QED
      BY <1>0, <2>1, <3>1 DEF Frame
  <2>3. CASE yes = FALSE
    <3>1. /\ callStep' = [callStep EXCEPT ![c] = "done"]
          /\ \E x : answer' = [answer EXCEPT ![c] = x]
          /\ granted' = granted /\ questions' = questions
      BY <1>7, <2>3, Zenon DEF T!Answer
    <3> QED
      BY <1>0, <2>1, <3>1 DEF Frame
  <2> QED
    BY <2>2, <2>3
<1>8. ASSUME NEW yes \in BOOLEAN, T!AskForBin(c, yes)
      PROVE  Frame(c) /\ UNCHANGED T!diskVars
  <2>1. /\ call' = call /\ segment' = segment /\ failed' = failed /\ read' = read
        /\ questions' = questions /\ UNCHANGED T!diskVars
    BY <1>8, Zenon DEF T!AskForBin
  <2>2. \/ /\ callStep' = [callStep EXCEPT ![c] = "command"] /\ answer' = answer
           /\ \E x : granted' = [granted EXCEPT ![c] = x]
        \/ /\ callStep' = [callStep EXCEPT ![c] = "done"] /\ granted' = granted
           /\ \E x : answer' = [answer EXCEPT ![c] = x]
    BY <1>8, Zenon DEF T!AskForBin
  <2> QED
    BY <1>0, <2>1, <2>2 DEF Frame
<1> QED
  BY <1>1, <1>2, <1>3, <1>4, <1>5, <1>6, <1>7, <1>8

\* So are those of apply_edits before it loads the substrate.
LEMMA EditFrames ==
    ASSUME NEW c \in Calls,
           \/ T!CheckPaths(c) \/ T!FinishEdits(c)
           \/ \E ok \in BOOLEAN : T!ReadForEdits(c, ok) \/ T!WriteEdits(c, ok)
    PROVE  Frame(c) /\ (UNCHANGED T!diskVars \/ T!WriteEdits(c, TRUE))
<1> USE DEF T!Goes, T!Ends, T!askVars, T!NextPath
<1>1. CASE T!CheckPaths(c)
  BY <1>1 DEF T!CheckPaths, Frame
<1>2. CASE T!FinishEdits(c)
  BY <1>2 DEF T!FinishEdits, Frame
<1>3. ASSUME NEW ok \in BOOLEAN, T!ReadForEdits(c, ok)
      PROVE  Frame(c) /\ UNCHANGED T!diskVars
  <2>1. /\ call' = call /\ granted' = granted /\ questions' = questions
        /\ UNCHANGED T!diskVars /\ callStep[c] = "edit"
    BY <1>3, Zenon DEF T!ReadForEdits
  <2>2. \/ /\ callStep' = [callStep EXCEPT ![c] = "done"]
           /\ answer' = [answer EXCEPT ![c] = "error"]
           /\ segment' = segment /\ read' = read /\ failed' = failed
        \/ /\ callStep' = [callStep EXCEPT ![c] = "writeEdits"] /\ answer' = answer
           /\ \E x : read' = [read EXCEPT ![c] = x]
           /\ segment' = segment /\ failed' = failed
        \/ /\ \E x : failed' = [failed EXCEPT ![c] = x]
           /\ \E x : segment' = [segment EXCEPT ![c] = x]
           /\ callStep' = callStep /\ read' = read /\ answer' = answer
    BY <1>3, Zenon DEF T!ReadForEdits
  <2> QED
    BY <2>1, <2>2 DEF Frame
<1>4. ASSUME NEW ok \in BOOLEAN, T!WriteEdits(c, ok)
      PROVE  Frame(c) /\ (UNCHANGED T!diskVars \/ T!WriteEdits(c, TRUE))
  <2>1. /\ call' = call /\ granted' = granted /\ questions' = questions /\ read' = read
        /\ answer' = answer /\ callStep' = [callStep EXCEPT ![c] = "edit"]
        /\ \E x : segment' = [segment EXCEPT ![c] = x]
    BY <1>4, Zenon DEF T!WriteEdits
  <2>2. \/ ok = TRUE /\ failed' = failed
        \/ UNCHANGED T!diskVars /\ \E x : failed' = [failed EXCEPT ![c] = x]
    <3>1. CASE ok = TRUE
      BY <1>4, <3>1, Zenon DEF T!WriteEdits
    <3>2. CASE ok = FALSE
      BY <1>4, <3>2, Zenon DEF T!WriteEdits
    <3> QED
      BY <3>1, <3>2
  <2> QED
    BY <1>4, <2>1, <2>2 DEF Frame
<1> QED
  BY <1>1, <1>2, <1>3, <1>4

\* Every step is one of the incident commander, the clock or one call; four actions
\* change the files.
LEMMA StepsAre ==
    ASSUME CallsInv, T!Next
    PROVE  \/ T!Isolate \/ T!MinutePasses
           \/ \E c \in Calls :
                 \/ T!LoadSubstrate(c) \/ T!SetSubstrate(c)
                 \/ /\ Frame(c)
                    /\ \/ UNCHANGED T!diskVars
                       \/ T!Run(c) \/ T!Overwrite(c) \/ T!Write(c) \/ T!WriteEdits(c, TRUE)
<1>1. ASSUME NEW c \in Calls,
             \/ T!Route(c) \/ T!CheckLimit(c)
             \/ \E yes \in BOOLEAN : T!AskForTool(c, yes) \/ T!Post(c, yes)
      PROVE  Frame(c) /\ UNCHANGED T!diskVars
  BY <1>1, RouterFrames
<1>2. ASSUME NEW c \in Calls,
             \/ T!Enter(c) \/ T!StartCommand(c) \/ T!Fail(c) \/ T!ReadFiles(c) \/ T!Run(c)
             \/ T!Overwrite(c) \/ T!Look(c) \/ T!Write(c)
             \/ \E yes \in BOOLEAN : T!Answer(c, yes) \/ T!AskForBin(c, yes)
      PROVE  Frame(c) /\ (UNCHANGED T!diskVars \/ T!Run(c) \/ T!Overwrite(c) \/ T!Write(c))
  BY <1>2, ExecFrames
<1>3. ASSUME NEW c \in Calls,
             \/ T!CheckPaths(c) \/ T!FinishEdits(c)
             \/ \E ok \in BOOLEAN : T!ReadForEdits(c, ok) \/ T!WriteEdits(c, ok)
      PROVE  Frame(c) /\ (UNCHANGED T!diskVars \/ T!WriteEdits(c, TRUE))
  BY <1>3, EditFrames
<1> HIDE DEF Frame
<1> QED
  BY <1>1, <1>2, <1>3, Zenon DEF T!Next

\* Who changes the files, and what the others do to the rest.
LEMMA WhoChangesFiles ==
    ASSUME CallsInv, T!Next, ~UNCHANGED T!diskVars
    PROVE  \E c \in Calls :
              /\ T!Run(c) \/ T!Overwrite(c) \/ T!Write(c) \/ T!WriteEdits(c, TRUE)
              /\ \A d \in Calls \ {c} : Same(d)
<1>1. ~(T!Isolate \/ T!MinutePasses)
  BY DEF T!Isolate, T!MinutePasses
<1>2. ASSUME NEW c \in Calls PROVE ~(T!LoadSubstrate(c) \/ T!SetSubstrate(c))
  BY Zenon DEF T!LoadSubstrate, T!SetSubstrate
<1>3. PICK c \in Calls :
          /\ Frame(c)
          /\ T!Run(c) \/ T!Overwrite(c) \/ T!Write(c) \/ T!WriteEdits(c, TRUE)
  BY <1>1, <1>2, StepsAre, Zenon
<1> QED
  BY <1>3, FrameIsSame, Zenon DEF CallsInv

\* A write over what was read is what the call makes of the file alone.
LEMMA WritesAreAlone ==
    ASSUME ToolTypes, FilesAreSerial, NEW c \in Calls, NEW path \in Files, NEW new, NEW alone,
           file' = [file EXCEPT ![path] = new], T!Races(c, path, alone),
           serial[path] = read[c] => new = alone
    PROVE  FilesAreSerial'
<1> SUFFICES ASSUME NEW f \in Files, f \notin raced' PROVE file'[f] = serial'[f]
  BY DEF FilesAreSerial, T!FilesAreSerial
<1>1. raced \subseteq raced'
  BY DEF T!Races
<1>2. file[f] = serial[f]
  BY <1>1 DEF FilesAreSerial, T!FilesAreSerial
<1>3. CASE f # path
  <2>1. file'[f] = file[f]
    BY <1>3 DEF ToolTypes
  <2>2. serial'[f] = serial[f]
    BY <1>3 DEF ToolTypes, T!Races
  <2> QED
    BY <1>2, <2>1, <2>2
<1>4. CASE f = path
  <2>1. file[path] = read[c]
    BY <1>4 DEF T!Races
  <2>2. serial' = [serial EXCEPT ![path] = alone]
    BY <1>4 DEF T!Races
  <2> QED
    BY <1>2, <1>4, <2>1, <2>2 DEF ToolTypes
<1> QED
  BY <1>3, <1>4

\* Every step keeps the files serial.
LEMMA SerialStep ==
    ASSUME RequestTypes, CallsInv, FilesAreSerial, [T!Next]_T!toolVars
    PROVE  FilesAreSerial'
<1>0. ToolTypes
  BY DEF CallsInv
<1>1. CASE UNCHANGED <<file, serial, raced>>
  BY <1>1 DEF FilesAreSerial, T!FilesAreSerial
<1>6. ASSUME NEW c \in Calls, T!Run(c) PROVE FilesAreSerial'
  <2>1. PICK touched \in SUBSET Files : \E left \in [touched -> Contents] :
            /\ file' = [f \in Files |-> IF f \in touched THEN left[f] ELSE file[f]]
            /\ serial' = [f \in Files |-> IF f \in touched THEN left[f] ELSE serial[f]]
    BY <1>6, Zenon DEF T!Run
  <2>2. raced' = raced
    BY <1>6, Zenon DEF T!Run
  <2> QED
    BY <2>1, <2>2 DEF FilesAreSerial, T!FilesAreSerial
<1>2. ASSUME NEW c \in Calls, T!Overwrite(c) PROVE FilesAreSerial'
  <2> DEFINE command == T!Command(c)
             lost == IF command.path \in raced THEN {command.to} ELSE {}
  <2>1. /\ command.path \in Files /\ command.to \in Files /\ command.form \in T!InOneStep
        /\ file' = T!Effect(command, file) /\ serial' = T!Effect(command, serial)
        /\ raced' = raced \cup lost
    BY <1>2 DEF T!Overwrite, T!OutsideProfile
  <2>2. DOMAIN file = Files /\ DOMAIN serial = Files
        /\ \A f \in Files \ raced : file[f] = serial[f]
    BY <1>0 DEF ToolTypes, FilesAreSerial, T!FilesAreSerial
  <2> HIDE DEF command
  <2>3. \A f \in Files \ (raced \cup lost) : T!Effect(command, file)[f] = T!Effect(command, serial)[f]
    BY <2>1, <2>2, EffectAgrees
  <2> QED
    BY <2>1, <2>3 DEF FilesAreSerial, T!FilesAreSerial
<1>3. ASSUME NEW c \in Calls, T!Write(c) PROVE FilesAreSerial'
  <2> DEFINE command == T!Command(c)
  <2>1. /\ file' = [file EXCEPT ![command.path] = T!Changed(command, read[c])]
        /\ T!Races(c, command.path, T!Alone(command, serial[command.path]))
        /\ callStep[c] = "write"
    BY <1>3 DEF T!Write
  <2>2. command.path \in Files /\ (command.form = "touch" => read[c] = NoFile)
    BY <2>1 DEF CallsInv, CallPlaced, ExecPlaced
  <2> HIDE DEF command
  <2>3. serial[command.path] = read[c] =>
            T!Changed(command, read[c]) = T!Alone(command, serial[command.path])
    BY <2>2 DEF T!Alone
  <2> QED
    BY <1>0, <2>1, <2>2, <2>3, WritesAreAlone
<1>4. ASSUME NEW c \in Calls, T!WriteEdits(c, TRUE) PROVE FilesAreSerial'
  <2> DEFINE path == T!Path(c)
             edits == T!EditsOf(c, path)
  <2>1. /\ file' = [file EXCEPT ![path] = T!Edited(read[c], edits).lines]
        /\ T!Races(c, path, T!Wholly(serial[path], edits))
        /\ callStep[c] = "writeEdits"
    BY <1>4, Zenon DEF T!WriteEdits
  <2>2. CallPlaced(c) /\ callStep[c] \in EditSteps /\ call[c] \in Requests
    BY <2>1 DEF CallsInv, EditSteps, ToolTypes
  <2>3. /\ call[c].tool = "apply_edits" /\ T!ToSet(T!Paths(c)) \subseteq Files
        /\ segment[c] <= Len(T!Paths(c)) /\ segment[c] \in Nat \ {0}
        /\ T!Edited(read[c], edits).applied
    BY <1>0, <2>1, <2>2 DEF CallPlaced, EditsPlaced, ToolTypes
  <2>4. call[c].edits \in Seq(EditSet)
    BY <2>2, <2>3 DEF RequestTypes
  <2>5. T!Paths(c) \in Seq({call[c].edits[i].path : i \in DOMAIN call[c].edits})
    BY <2>4, PathsAreDistinct
  <2>6. path \in Files
    <3>1. segment[c] \in DOMAIN T!Paths(c)
      BY <2>3, <2>5
    <3> QED
      BY <2>3, <3>1 DEF T!Path, T!ToSet
  <2>7. edits \in Seq(EditSet)
    <3> DEFINE mine == {e \in T!ToSet(call[c].edits) : e.path = path}
    <3>1. edits = SelectIn(call[c].edits, mine)
      BY DEF T!EditsOf, T!SelectIn, SelectIn
    <3> HIDE DEF mine, edits
    <3> QED
      BY <2>4, <3>1, SelectInElements
  <2> HIDE DEF path, edits
  <2>8. serial[path] = read[c] => T!Edited(read[c], edits).lines = T!Wholly(serial[path], edits)
    BY <2>3, <2>7, AppliedIsWhole
  <2> QED
    BY <1>0, <2>1, <2>6, <2>8, WritesAreAlone
<1>5. CASE T!Next
  <2>1. CASE UNCHANGED T!diskVars
    BY <1>1, <2>1 DEF T!diskVars
  <2>2. CASE ~UNCHANGED T!diskVars
    BY <1>2, <1>3, <1>4, <1>5, <1>6, <2>2, WhoChangesFiles
  <2> QED
    BY <2>1, <2>2
<1> QED
  BY <1>1, <1>5 DEF T!toolVars, T!diskVars

\* Whatever another call does, an edit of which a call is the last author stays.
LEMMA AuthorsStay ==
    ASSUME CallsInv, NEW c \in Calls, NEW d \in Calls \ {c}, NEW f \in Files, editor'[f] = {d},
           \/ UNCHANGED T!diskVars
           \/ T!Run(c) \/ T!Overwrite(c) \/ T!Write(c) \/ T!WriteEdits(c, TRUE)
    PROVE  editor[f] = {d} /\ file'[f] = file[f]
<1>1. CASE UNCHANGED T!diskVars
  BY <1>1 DEF T!diskVars
<1>2. CASE T!Run(c) \/ T!Overwrite(c) \/ T!Write(c)
  <2>1. T!ByCommand
    BY <1>2, Zenon DEF T!Run, T!Overwrite, T!Write
  <2> QED
    BY <2>1 DEF T!ByCommand
<1>3. CASE T!WriteEdits(c, TRUE)
  <2>1. /\ \E x : file' = [file EXCEPT ![T!Path(c)] = x]
        /\ editor' = [editor EXCEPT ![T!Path(c)] = {c}]
    BY <1>3, Zenon DEF T!WriteEdits
  <2>2. DOMAIN editor = Files /\ DOMAIN file = Files
    BY DEF CallsInv, ToolTypes
  <2>3. T!Path(c) # f
    BY <2>1, <2>2
  <2> QED
    BY <2>1, <2>2, <2>3
<1> QED
  BY <1>1, <1>2, <1>3

\* What a call is about to put into the substrate stays what its own edits have made.
LEMMA EditorStep ==
    ASSUME CallsInv, SubstrateInv, [T!Next]_T!toolVars
    PROVE  SubstrateInv'
<1>0. ToolTypes
  BY DEF CallsInv
<1>1. CASE T!Isolate \/ T!MinutePasses \/ UNCHANGED T!toolVars
  <2>1. UNCHANGED <<callStep, answer, read, file, editor>>
    BY <1>1 DEF T!Isolate, T!MinutePasses, T!toolVars, T!diskVars
  <2> QED
    BY <2>1 DEF SubstrateInv
<1>2. ASSUME NEW c \in Calls, Frame(c),
             \/ UNCHANGED T!diskVars
             \/ T!Run(c) \/ T!Overwrite(c) \/ T!Write(c) \/ T!WriteEdits(c, TRUE)
      PROVE  SubstrateInv'
  <2>1. DOMAIN answer' = Calls
    BY <1>2 DEF Frame, SubstrateInv
  <2>2. callStep'[c] # "set"
    BY <1>0, <1>2 DEF Frame, ToolTypes
  <2>3. ASSUME NEW d \in Calls, callStep'[d] = "set", NEW f \in Files, editor'[f] = {d}
        PROVE  read'[d][f] = file'[f]
    <3>1. d \in Calls \ {c}
      BY <2>2, <2>3
    <3>2. callStep[d] = "set" /\ read'[d] = read[d]
      BY <1>0, <1>2, <2>3, <3>1, FrameIsSame DEF Same
    <3>3. editor[f] = {d} /\ file'[f] = file[f]
      BY <1>2, <2>3, <3>1, AuthorsStay
    <3> QED
      BY <3>2, <3>3 DEF SubstrateInv
  <2> QED
    BY <2>1, <2>3 DEF SubstrateInv
<1>3. ASSUME NEW c \in Calls, T!LoadSubstrate(c) PROVE SubstrateInv'
  <2>1. /\ read' = [read EXCEPT ![c] = file] /\ callStep' = [callStep EXCEPT ![c] = "set"]
        /\ answer' = answer /\ file' = file /\ editor' = editor
    BY <1>3 DEF T!LoadSubstrate, T!Goes, T!diskVars
  <2>2. read'[c] = file /\ \A d \in Calls \ {c} : read'[d] = read[d] /\ callStep'[d] = callStep[d]
    BY <1>0, <2>1 DEF ToolTypes
  <2> QED
    BY <2>1, <2>2 DEF SubstrateInv
<1>4. ASSUME NEW c \in Calls, T!SetSubstrate(c) PROVE SubstrateInv'
  <2>1. /\ read' = read /\ callStep' = [callStep EXCEPT ![c] = "done"]
        /\ answer' = [answer EXCEPT ![c] = "ok"] /\ file' = file /\ editor' = editor
    BY <1>4 DEF T!SetSubstrate, T!Goes, T!Ends, T!diskVars
  <2>2. callStep'[c] = "done" /\ \A d \in Calls \ {c} : callStep'[d] = callStep[d]
    BY <1>0, <2>1 DEF ToolTypes
  <2> QED
    BY <2>1, <2>2 DEF SubstrateInv
<1>5. CASE T!Next
  BY <1>1, <1>2, <1>3, <1>4, <1>5, StepsAre, Zenon
<1> QED
  BY <1>1, <1>5

\* An edit call reports success by putting its edits into the substrate.
LEMMA LoadedStep ==
    ASSUME CallsInv, SubstrateInv, T!Next, NEW c \in Calls, T!EndsEdits(c), answer'[c] = "ok"
    PROVE  T!Loaded(c)'
<1>0. ToolTypes /\ callStep[c] # "done" /\ callStep'[c] = "done" /\ call[c].tool = "apply_edits"
  BY DEF CallsInv, T!EndsEdits
<1>1. ~(T!Isolate \/ T!MinutePasses)
  BY <1>0 DEF T!Isolate, T!MinutePasses
<1>2. ASSUME NEW d \in Calls, Frame(d) PROVE FALSE
  <2>1. d = c
    BY <1>0, <1>2, FrameIsSame DEF Same
  <2>2. PICK how : /\ how = "ok" => call[c].tool # "apply_edits"
                   /\ answer' = [answer EXCEPT ![c] = how]
    BY <1>0, <1>2, <2>1 DEF Frame, ToolTypes
  <2> QED
    BY <1>0, <2>2 DEF SubstrateInv
<1>3. ASSUME NEW d \in Calls, T!LoadSubstrate(d) PROVE FALSE
  <2>1. callStep' = [callStep EXCEPT ![d] = "set"]
    BY <1>3 DEF T!LoadSubstrate, T!Goes
  <2> QED
    BY <1>0, <2>1 DEF ToolTypes
<1>4. PICK d \in Calls : T!SetSubstrate(d)
  BY <1>1, <1>2, <1>3, StepsAre, Zenon
<1>5. /\ callStep[d] = "set" /\ callStep' = [callStep EXCEPT ![d] = "done"]
      /\ substrate' = read[d] /\ file' = file /\ editor' = editor
  BY <1>4 DEF T!SetSubstrate, T!Goes, T!Ends, T!diskVars
<1>6. d = c
  BY <1>0, <1>5 DEF ToolTypes
<1> QED
  BY <1>5, <1>6 DEF T!Loaded, SubstrateInv

\* Only a call that was let through changes a file.
LEMMA ApprovedStep ==
    ASSUME RequestTypes, CallsInv, T!Next, NEW c \in Calls, T!ChangesFiles(c)
    PROVE  IF call[c].tool = "exec"
           THEN /\ call[c].destructive => "destructive" \in granted[c]
                /\ \/ "intent" \in granted[c]
                   \/ /\ T!ReadOnly(c) /\ T!Command(c).form = "run"
                      /\ T!Command(c).bin \in AllowedBins \/ "bin" \in granted[c]
           ELSE "toolQuestion" \in granted[c]
<1>1. PICK d \in Calls : /\ T!Run(d) \/ T!Overwrite(d) \/ T!Write(d) \/ T!WriteEdits(d, TRUE)
                         /\ \A e \in Calls \ {d} : Same(e)
  BY WhoChangesFiles DEF T!ChangesFiles, T!diskVars
<1>2. c = d
  BY <1>1 DEF Same, T!ChangesFiles
<1>3. CallPlaced(c) /\ segment[c] \in Nat \ {0}
  BY DEF CallsInv, ToolTypes
<1>4. CASE T!Run(c) \/ T!Overwrite(c) \/ T!Write(c)
  <2>1. callStep[c] \in {"command", "write"}
    BY <1>4 DEF T!Run, T!Overwrite, T!Write
  <2>2. /\ call[c].tool = "exec" /\ segment[c] <= Len(call[c].segments)
        /\ Needed(c) \subseteq granted[c] /\ PartGranted(c)
    BY <1>3, <2>1 DEF CallPlaced, ExecPlaced, ExecSteps
  <2>3. T!Command(c).form \in T!InTwoSteps \cup T!InOneStep \/ T!Command(c).form = "run"
    <3>1. CASE T!Overwrite(c) \/ T!Run(c)
      BY <3>1 DEF T!Overwrite, T!Run
    <3>2. CASE T!Write(c)
      <4>1. callStep[c] = "write"
        BY <3>2 DEF T!Write
      <4> QED
        BY <1>3, <4>1 DEF CallPlaced, ExecPlaced
    <3> QED
      BY <1>4, <3>1, <3>2
  <2>4. segment[c] \in 1..Len(call[c].segments)
    <3>1. call[c].segments \in Seq(CommandSet)
      BY <2>2 DEF RequestTypes, CallsInv, ToolTypes
    <3>2. Len(call[c].segments) \in Nat
      BY <3>1
    <3> QED
      BY <1>3, <2>2, <3>2
  <2>5. T!ReadOnly(c) => T!Command(c).form = "run"
    BY <2>3, <2>4 DEF T!ReadOnly, T!Intent, T!Command
  <2>6. (call[c].destructive => "destructive" \in granted[c])
        /\ (T!ReadOnly(c) \/ "intent" \in granted[c])
    BY <2>2 DEF Needed
  <2> QED
    BY <2>2, <2>5, <2>6 DEF PartGranted
<1>5. CASE T!WriteEdits(c, TRUE)
  <2>1. callStep[c] = "writeEdits"
    BY <1>5 DEF T!WriteEdits
  <2>2. call[c].tool = "apply_edits" /\ "toolQuestion" \in granted[c]
    BY <1>3, <2>1 DEF CallPlaced, EditsPlaced, EditSteps
  <2> QED
    BY <2>2
<1> QED
  BY <1>1, <1>2, <1>4, <1>5

\* At first every call is where it starts, and all copies of the files are alike.
LEMMA CallsFirst ==
    ASSUME DOMAIN FirstFiles = Files, T!Init
    PROVE  CallsInv /\ FilesAreSerial /\ SubstrateInv
<1>1. ToolTypes
  <2>1. <<>> \in Seq({"destructive", "bin", "intent"}) /\ "new" \in ToolSteps /\ 1 \in Nat \ {0}
    BY DEF ToolSteps
  <2> QED
    BY <2>1 DEF T!Init, ToolTypes
<1>2. ASSUME NEW c \in Calls PROVE CallPlaced(c)
  <2>1. callStep[c] = "new" /\ segment[c] = 1 /\ failed[c] = {}
    BY DEF T!Init
  <2> QED
    BY <2>1 DEF CallPlaced, ExecPlaced, EditsPlaced, ExecSteps, EditSteps
<1>3. FilesAreSerial /\ SubstrateInv
  BY DEF T!Init, FilesAreSerial, T!FilesAreSerial, SubstrateInv
<1> QED
  BY <1>1, <1>2, <1>3 DEF CallsInv

\* Whatever the calls and however they interleave, a file that nobody wrote over a
\* change it had not read holds what the calls leave of it when each runs alone.  The
\* requests are any with a command of one part or more; a store has every path.
THEOREM FilesStaySerial ==
    RequestTypes /\ DOMAIN FirstFiles = Files => (T!Spec => []FilesAreSerial)
<1> SUFFICES ASSUME RequestTypes, DOMAIN FirstFiles = Files
             PROVE  T!Spec => []FilesAreSerial
  OBVIOUS
<1>1. T!Init => CallsInv /\ FilesAreSerial
  BY CallsFirst
<1>2. CallsInv /\ FilesAreSerial /\ [T!Next]_T!toolVars => CallsInv' /\ FilesAreSerial'
  BY CallsStep, SerialStep
<1> QED
  BY <1>1, <1>2, PTL DEF T!Spec

\* An edit call that reports success has its edits in the substrate of the next prompt,
\* except where another call has changed the file since: whatever calls interleave.
THEOREM EditsAreLoaded ==
    RequestTypes /\ DOMAIN FirstFiles = Files => (T!Spec => EditsReachTheSubstrate)
<1> SUFFICES ASSUME RequestTypes, DOMAIN FirstFiles = Files
             PROVE  T!Spec => EditsReachTheSubstrate
  OBVIOUS
<1> DEFINE Reaches ==
        \A c \in Calls : T!EndsEdits(c) /\ answer'[c] = "ok" => T!Loaded(c)'
<1>1. T!Init => CallsInv /\ SubstrateInv
  BY CallsFirst
<1>2. CallsInv /\ SubstrateInv /\ [T!Next]_T!toolVars => CallsInv' /\ SubstrateInv'
  BY CallsStep, EditorStep
<1>3. CallsInv /\ SubstrateInv /\ [T!Next]_T!toolVars => [Reaches]_T!toolVars
  BY LoadedStep
<1> QED
  BY <1>1, <1>2, <1>3, PTL DEF T!Spec, EditsReachTheSubstrate, T!EditsReachTheSubstrate

\* Every step that changes a file is one of a call for which the gate has granted the
\* tool, or the intent of the whole command and its destructive signature; but for a
\* program, in the allowlist or granted, in a command that passes for reading.
THEOREM OnlyApprovedChange ==
    RequestTypes /\ DOMAIN FirstFiles = Files => (T!Spec => ChangesAreApproved)
<1> SUFFICES ASSUME RequestTypes, DOMAIN FirstFiles = Files
             PROVE  T!Spec => ChangesAreApproved
  OBVIOUS
<1> DEFINE Approved ==
        \A c \in Calls : T!ChangesFiles(c) =>
            IF call[c].tool = "exec"
            THEN /\ call[c].destructive => "destructive" \in granted[c]
                 /\ \/ "intent" \in granted[c]
                    \/ /\ T!ReadOnly(c) /\ T!Command(c).form = "run"
                       /\ T!Command(c).bin \in AllowedBins \/ "bin" \in granted[c]
            ELSE "toolQuestion" \in granted[c]
<1>1. T!Init => CallsInv
  BY CallsFirst
<1>2. CallsInv /\ [T!Next]_T!toolVars => CallsInv'
  BY CallsStep
<1>3. CallsInv /\ [T!Next]_T!toolVars => [Approved]_T!toolVars
  BY ApprovedStep
<1> QED
  BY <1>1, <1>2, <1>3, PTL DEF T!Spec, ChangesAreApproved, T!ChangesAreApproved

-----------------------------------------------------------------------------
\* ApprovalGate.

RequestSet == [gate : G!AllGates, made : Nat, status : {"pending", "expired", "approved", "denied"}]

\* A request that is pending is the one its plan is looked up under.
LooksUp(of, all) ==
    \A i \in DOMAIN all : all[i].status = "pending" => of[all[i].gate] = i

\* The file has the requests as they are: a restart changes what is looked up by
\* nothing but what it finds there.
PendingInv ==
    /\ clock \in Nat
    /\ asked \in [Askers -> Nat] /\ \A c \in Askers : asked[c] <= Len(G!Gates(c))
    /\ requests \in Seq(RequestSet)
    /\ DOMAIN pendingOf = G!AllGates
    /\ saved = [grants |-> saved.grants, requests |-> requests]
    /\ LooksUp(pendingOf, requests)

\* A call has a list of gates, each of them one of all.
LEMMA GatesAreGates ==
    ASSUME NEW c \in Askers
    PROVE  Len(G!Gates(c)) \in Nat /\ \A i \in 1..Len(G!Gates(c)) : G!Gates(c)[i] \in G!AllGates
<1> DEFINE t == Tool[c]
           g1 == G!Gate("exec", "privilege-impacting", "destructive")
           g2 == G!Gate("exec", t.intent, "not in allowlist")
           g3 == G!Gate("exec", t.intent, "non-read intent")
           h1 == G!Gate(t.name, "high-risk-tool", "router")
           h2 == G!Gate(t.name, "mutating", "write")
           h3 == G!Gate(t.name, "network-impacting", "fetch")
           all == {g1, g2, g3, h1, h2, h3}
<1>1. G!Gates(c) \in Seq(all)
  <2>1. ASSUME NEW g \in all, NEW b PROVE G!If(b, g) \in Seq(all)
    <3> HIDE DEF all
    <3> QED
      BY DEF G!If
  <2>2. CASE t.name = "exec"
    <3> DEFINE a1 == G!If(t.destructive, g1)
               a2 == G!If(~t.listed /\ t.intent # "read-only", g2)
               a3 == G!If(t.intent # "read-only", g3)
    <3>1. G!Gates(c) = a1 \o a2 \o a3
      BY <2>2 DEF G!Gates
    <3>2. a1 \in Seq(all) /\ a2 \in Seq(all) /\ a3 \in Seq(all)
      <4>1. g1 \in all /\ g2 \in all /\ g3 \in all
        OBVIOUS
      <4> HIDE DEF all, g1, g2, g3
      <4> QED
        BY <2>1, <4>1
    <3> HIDE DEF all, a1, a2, a3
    <3> QED
      BY <3>1, <3>2
  <2>3. CASE t.name # "exec" /\ t.name = "gh_pr_write"
    <3>1. G!Gates(c) = <<h1, h2>> /\ h1 \in all /\ h2 \in all
      BY <2>3 DEF G!Gates
    <3> HIDE DEF all, h1, h2
    <3> QED
      BY <3>1
  <2>4. CASE t.name # "exec" /\ t.name # "gh_pr_write"
    <3>1. G!Gates(c) = <<h3>> /\ h3 \in all
      BY <2>4 DEF G!Gates
    <3> HIDE DEF all, h3
    <3> QED
      BY <3>1
  <2> QED
    BY <2>2, <2>3, <2>4
<1> HIDE DEF all
<1>2. Len(G!Gates(c)) \in Nat /\ DOMAIN G!Gates(c) = 1..Len(G!Gates(c))
  BY <1>1
<1>3. G!Range(G!Gates(c)) \subseteq G!AllGates
  BY DEF G!AllGates
<1> QED
  BY <1>2, <1>3 DEF G!Range

\* What expires stays under its plan, and is the only thing that changes.
LEMMA ExpiredLooksUp ==
    ASSUME PendingInv
    PROVE  /\ G!Expired \in Seq(RequestSet) /\ Len(G!Expired) = Len(requests)
           /\ DOMAIN G!Expired = DOMAIN requests
           /\ LooksUp(pendingOf, G!Expired)
           /\ \A i \in DOMAIN requests : G!Expired[i].gate = requests[i].gate
<1>1. requests \in Seq(RequestSet)
  BY DEF PendingInv
<1>2. ASSUME NEW i \in DOMAIN requests
      PROVE  /\ G!Expired[i] \in RequestSet /\ G!Expired[i].gate = requests[i].gate
             /\ G!Expired[i].status = "pending" => requests[i].status = "pending"
  <2>1. requests[i] \in RequestSet
    BY <1>1
  <2>2. G!Expired[i] = requests[i] \/ G!Expired[i] = [requests[i] EXCEPT !.status = "expired"]
    BY DEF G!Expired
  <2> QED
    BY <2>1, <2>2 DEF RequestSet
<1>3. G!Expired = [i \in 1..Len(requests) |-> G!Expired[i]] /\ DOMAIN requests = 1..Len(requests)
  BY <1>1 DEF G!Expired
<1>4. G!Expired \in Seq(RequestSet) /\ Len(G!Expired) = Len(requests)
      /\ DOMAIN G!Expired = DOMAIN requests
  <2> DEFINE e == G!Expired
             n == Len(requests)
  <2>1. \A i \in 1..n : e[i] \in RequestSet
    BY <1>2, <1>3
  <2>2. e = [i \in 1..n |-> e[i]] /\ n \in Nat
    BY <1>1, <1>3
  <2> HIDE DEF e, n
  <2>3. e \in Seq(RequestSet) /\ Len(e) = n /\ DOMAIN e = 1..n
    BY <2>1, <2>2
  <2> QED
    BY <1>3, <2>3 DEF e, n
<1>5. LooksUp(pendingOf, G!Expired)
  BY <1>2, <1>4 DEF PendingInv, LooksUp
<1> QED
  BY <1>2, <1>4, <1>5

\* What is loaded is looked up under what it is loaded as.
LEMMA ReloadLooksUp ==
    ASSUME NEW all \in Seq(RequestSet), NEW of, LooksUp(of, all), G!Reload(all)
    PROVE  DOMAIN pendingOf' = G!AllGates /\ LooksUp(pendingOf', all)
<1>1. SUFFICES ASSUME NEW i \in DOMAIN all, all[i].status = "pending"
               PROVE  pendingOf'[all[i].gate] = i
  BY DEF LooksUp, G!Reload
<1> DEFINE g == all[i].gate
           open == {j \in DOMAIN all : all[j].gate = g /\ all[j].status = "pending"}
<1>2. g \in G!AllGates
  <2>1. all[i] \in RequestSet
    BY <1>1
  <2> QED
    BY <2>1 DEF RequestSet
<1>3. open = {i}
  BY <1>1 DEF LooksUp
<1>4. i \in Nat
  BY <1>1
<1>5. pendingOf'[g] = G!Max(open)
  BY <1>2, <1>3 DEF G!Reload
<1>6. G!Max({i}) = i
  BY <1>4 DEF G!Max
<1> QED
  BY <1>3, <1>5, <1>6

\* A request for the gate a call stands at is made once, or is there.
LEMMA RequestLooksUp ==
    ASSUME PendingInv, NEW gate \in G!AllGates, G!Request(gate), clock' = clock
    PROVE  /\ requests' \in Seq(RequestSet) /\ DOMAIN pendingOf' = G!AllGates
           /\ saved' = [grants |-> saved'.grants, requests |-> requests']
           /\ LooksUp(pendingOf', requests')
<1> DEFINE e == G!Expired
<1>1. /\ e \in Seq(RequestSet) /\ LooksUp(pendingOf, e) /\ DOMAIN pendingOf = G!AllGates
      /\ saved = [grants |-> saved.grants, requests |-> requests] /\ clock \in Nat
      /\ Len(e) = Len(requests)
  BY ExpiredLooksUp DEF PendingInv
<1> HIDE DEF e
<1>2. CASE G!Pending(e, pendingOf[gate])
  <2>1. requests' = e /\ pendingOf' = pendingOf
    BY <1>2 DEF G!Request, e
  <2>2. saved' = [saved EXCEPT !.requests = e] \/ (e = requests /\ saved' = saved)
    BY <1>2 DEF G!Request, G!PersistRequests, e
  <2>3. saved' = [grants |-> saved'.grants, requests |-> requests']
    BY <1>1, <2>1, <2>2
  <2> QED
    BY <1>1, <2>1, <2>3
<1>3. CASE ~G!Pending(e, pendingOf[gate])
  <2> DEFINE new == [gate |-> gate, made |-> clock, status |-> "pending"]
             n == Len(e)
  <2>1. /\ requests' = Append(e, new) /\ pendingOf' = [pendingOf EXCEPT ![gate] = Len(requests')]
        /\ saved' = [saved EXCEPT !.requests = requests']
    BY <1>3 DEF G!Request, G!PersistRequests, e
  <2>2. new \in RequestSet
    BY <1>1 DEF RequestSet
  <2>3. new.gate = gate /\ new.status = "pending"
    OBVIOUS
  <2> HIDE DEF new, n
  <2>4. /\ requests' \in Seq(RequestSet) /\ Len(requests') = n + 1 /\ n \in Nat
        /\ requests'[n + 1] = new /\ \A i \in 1..n : requests'[i] = e[i]
        /\ DOMAIN requests' = 1..(n + 1) /\ DOMAIN e = 1..n
    BY <1>1, <2>1, <2>2 DEF n
  <2>5. ASSUME NEW i \in 1..n, e[i].status = "pending" PROVE pendingOf'[e[i].gate] = i
    <3>1. pendingOf[e[i].gate] = i
      BY <1>1, <2>4, <2>5 DEF LooksUp
    <3>2. e[i].gate # gate
      <4>1. i # 0
        BY <2>4
      <4> QED
        BY <1>3, <2>5, <3>1, <4>1 DEF G!Pending
    <3>3. e[i] \in RequestSet
      BY <1>1, <2>4
    <3>4. e[i].gate \in G!AllGates
      BY <3>3 DEF RequestSet
    <3> QED
      BY <1>1, <2>1, <3>1, <3>2, <3>4
  <2>6. pendingOf'[gate] = n + 1 /\ DOMAIN pendingOf' = G!AllGates
    BY <1>1, <2>1, <2>4
  <2>7. LooksUp(pendingOf', requests')
    <3> SUFFICES ASSUME NEW i \in DOMAIN requests', requests'[i].status = "pending"
                 PROVE  pendingOf'[requests'[i].gate] = i
      BY DEF LooksUp
    <3>1. CASE i \in 1..n
      BY <2>4, <2>5, <3>1
    <3>2. CASE i = n + 1
      BY <2>3, <2>4, <2>6, <3>2
    <3> QED
      BY <2>4, <3>1, <3>2
  <2>8. saved' = [grants |-> saved'.grants, requests |-> requests']
    BY <1>1, <2>1
  <2> QED
    BY <2>4, <2>6, <2>7, <2>8
<1> QED
  BY <1>2, <1>3

\* An answer takes a request from those that are pending.
LEMMA AnswerLooksUp ==
    ASSUME PendingInv, NEW i \in DOMAIN requests, NEW status \in {"approved", "denied"}
    PROVE  G!Answered(i, status) \in Seq(RequestSet) /\ LooksUp(pendingOf, G!Answered(i, status))
<1> DEFINE e == G!Expired
           a == G!Answered(i, status)
<1>1. e \in Seq(RequestSet) /\ LooksUp(pendingOf, e) /\ i \in DOMAIN e
  BY ExpiredLooksUp
<1>2. a = [e EXCEPT ![i].status = status]
  BY DEF G!Answered
<1> HIDE DEF e, a
<1>3. e[i] \in RequestSet /\ [e[i] EXCEPT !.status = status] \in RequestSet
  <2>1. e \in Seq(RequestSet) /\ i \in DOMAIN e
    BY <1>1
  <2>2. e[i] \in RequestSet
    BY <2>1
  <2> QED
    BY <2>2 DEF RequestSet
<1>4. [e[i] EXCEPT !.status = status].status = status
  BY <1>3 DEF RequestSet
<1>5. a = [e EXCEPT ![i] = [e[i] EXCEPT !.status = status]]
  BY <1>2
<1>6. a \in Seq(RequestSet) /\ DOMAIN a = DOMAIN e
      /\ \A j \in DOMAIN e : a[j] = IF j = i THEN [e[i] EXCEPT !.status = status] ELSE e[j]
  BY <1>1, <1>3, <1>5
<1>7. ASSUME NEW j \in DOMAIN a, a[j].status = "pending" PROVE pendingOf[a[j].gate] = j
  <2>1. j # i
    BY <1>4, <1>6, <1>7
  <2> QED
    BY <1>1, <1>6, <1>7, <2>1 DEF LooksUp
<1> QED
  BY <1>6, <1>7 DEF LooksUp, a

\* A restart finds in the file what it then looks up.
LEMMA RestoredLooksUp ==
    ASSUME PendingInv, NEW some, NEW all \in Seq(RequestSet), LooksUp(pendingOf, all),
           G!Restored([grants |-> some, requests |-> all])
    PROVE  PendingInv'
<1>1. /\ asked' = [c \in Askers |-> 0] /\ requests' = all /\ clock' = clock
      /\ saved' = [grants |-> some, requests |-> all]
      /\ G!Reload(all)
  BY DEF G!Restored
<1>2. DOMAIN pendingOf' = G!AllGates /\ LooksUp(pendingOf', all)
  BY <1>1, ReloadLooksUp
<1>3. \A c \in Askers : asked'[c] = 0 /\ Len(G!Gates(c)) \in Nat
  BY <1>1, GatesAreGates
<1>4. \A c \in Askers : 0 <= Len(G!Gates(c))
  BY <1>3
<1> QED
  BY <1>1, <1>2, <1>3, <1>4 DEF PendingInv

\* Every step leaves each pending request where its plan is looked up.
LEMMA PendingStep ==
    ASSUME PendingInv, [G!Next]_G!gateVars
    PROVE  PendingInv'
<1>0. /\ clock \in Nat /\ asked \in [Askers -> Nat] /\ requests \in Seq(RequestSet)
      /\ \A c \in Askers : asked[c] <= Len(G!Gates(c)) /\ Len(G!Gates(c)) \in Nat
      /\ DOMAIN pendingOf = G!AllGates /\ LooksUp(pendingOf, requests)
      /\ saved = [grants |-> saved.grants, requests |-> requests]
  BY GatesAreGates DEF PendingInv
<1>1. ASSUME NEW c \in Askers, G!Pass(c) PROVE PendingInv'
  <2>1. /\ requests' = requests /\ pendingOf' = pendingOf /\ clock' = clock
        /\ asked' = [asked EXCEPT ![c] = @ + 1] /\ ~G!Cleared(c)
        /\ \E all : saved' = [saved EXCEPT !.grants = all]
    BY <1>1 DEF G!Pass, G!PersistGrants
  <2>2. saved' = [grants |-> saved'.grants, requests |-> requests']
    BY <1>0, <2>1
  <2>3. asked[c] + 1 <= Len(G!Gates(c))
    BY <1>0, <2>1 DEF G!Cleared
  <2>4. asked' \in [Askers -> Nat] /\ \A d \in Askers : asked'[d] <= Len(G!Gates(d))
    BY <1>0, <2>1, <2>3
  <2> QED
    BY <1>0, <2>1, <2>2, <2>4 DEF PendingInv
<1>2. ASSUME NEW c \in Askers, G!Deny(c) PROVE PendingInv'
  <2>1. /\ G!Request(G!Standing(c)) /\ clock' = clock /\ asked' = [asked EXCEPT ![c] = 0]
        /\ ~G!Cleared(c)
    BY <1>2 DEF G!Deny
  <2>2. asked[c] + 1 \in 1..Len(G!Gates(c))
    BY <1>0, <2>1 DEF G!Cleared
  <2>3. G!Standing(c) \in G!AllGates
    BY <2>2, GatesAreGates DEF G!Standing
  <2>4. asked' \in [Askers -> Nat] /\ \A d \in Askers : asked'[d] <= Len(G!Gates(d))
    BY <1>0, <2>1
  <2> QED
    BY <1>0, <2>1, <2>3, <2>4, RequestLooksUp DEF PendingInv
<1>3. ASSUME NEW c \in Askers, G!Run(c) PROVE PendingInv'
  <2>1. /\ requests' = requests /\ pendingOf' = pendingOf /\ clock' = clock /\ saved' = saved
        /\ asked' = [asked EXCEPT ![c] = 0]
    BY <1>3 DEF G!Run
  <2>2. asked' \in [Askers -> Nat] /\ \A d \in Askers : asked'[d] <= Len(G!Gates(d))
    BY <1>0, <2>1
  <2> QED
    BY <1>0, <2>1, <2>2 DEF PendingInv
<1>4. ASSUME NEW i \in DOMAIN requests, G!Approve(i) PROVE PendingInv'
  <2>1. /\ requests' = G!Answered(i, "approved") /\ pendingOf' = pendingOf /\ clock' = clock
        /\ asked' = asked /\ saved' = [grants |-> grants', requests |-> requests']
    BY <1>4 DEF G!Approve
  <2>2. requests' \in Seq(RequestSet) /\ LooksUp(pendingOf, requests')
    BY <2>1, AnswerLooksUp
  <2> QED
    BY <1>0, <2>1, <2>2 DEF PendingInv
<1>5. ASSUME NEW i \in DOMAIN requests, G!DenyRequest(i) PROVE PendingInv'
  <2>1. /\ requests' = G!Answered(i, "denied") /\ pendingOf' = pendingOf /\ clock' = clock
        /\ asked' = asked /\ saved' = [saved EXCEPT !.requests = requests']
    BY <1>5 DEF G!DenyRequest, G!PersistRequests
  <2>2. requests' \in Seq(RequestSet) /\ LooksUp(pendingOf, requests')
    BY <2>1, AnswerLooksUp
  <2>3. saved' = [grants |-> saved'.grants, requests |-> requests']
    BY <1>0, <2>1
  <2> QED
    BY <1>0, <2>1, <2>2, <2>3 DEF PendingInv
<1>6. ASSUME NEW i \in DOMAIN requests, G!DieApproving(i) PROVE PendingInv'
  <2>1. PICK n : G!Restored([grants |-> G!Live(grants)
                                            \o SubSeq(G!Granted(requests[i].gate.scope), 1, n),
                             requests |-> IF G!Expired # requests THEN G!Expired
                                          ELSE saved.requests])
    BY <1>6 DEF G!DieApproving
  <2>2. saved.requests = requests
    BY <1>0
  <2>3. (IF G!Expired # requests THEN G!Expired ELSE saved.requests) = G!Expired
    BY <2>2
  <2>4. G!Expired \in Seq(RequestSet) /\ LooksUp(pendingOf, G!Expired)
    BY ExpiredLooksUp
  <2> QED
    BY <2>1, <2>3, <2>4, RestoredLooksUp
<1>7. CASE G!List
  <2>1. requests' = G!Expired /\ pendingOf' = pendingOf /\ clock' = clock /\ asked' = asked
    BY <1>7 DEF G!List
  <2>2. requests' \in Seq(RequestSet) /\ LooksUp(pendingOf, requests')
    BY <2>1, ExpiredLooksUp
  <2>3. saved' = [grants |-> saved'.grants, requests |-> requests']
    <3>1. CASE G!Expired # requests
      <4>1. saved' = [saved EXCEPT !.requests = G!Expired]
        BY <1>7, <3>1 DEF G!List, G!PersistRequests
      <4> QED
        BY <1>0, <2>1, <4>1
    <3>2. CASE G!Expired = requests
      <4>1. saved' = saved
        BY <1>7, <3>2 DEF G!List
      <4> QED
        BY <1>0, <2>1, <3>2, <4>1
    <3> QED
      BY <3>1, <3>2
  <2> QED
    BY <1>0, <2>1, <2>2, <2>3 DEF PendingInv
<1>8. CASE G!Elapse
  <2>1. clock' \in Nat /\ UNCHANGED <<asked, requests, pendingOf, saved>>
    BY <1>0, <1>8 DEF G!Elapse
  <2> QED
    BY <1>0, <2>1 DEF PendingInv
<1>9. CASE G!Restart
  <2>1. saved = [grants |-> saved.grants, requests |-> requests] /\ G!Restored(saved)
    BY <1>0, <1>9 DEF G!Restart
  <2>2. G!Restored([grants |-> saved.grants, requests |-> requests])
    BY <2>1
  <2> QED
    BY <1>0, <2>2, RestoredLooksUp
<1>10. CASE UNCHANGED G!gateVars
  BY <1>0, <1>10 DEF G!gateVars, PendingInv
<1> QED
  BY <1>1, <1>2, <1>3, <1>4, <1>5, <1>6, <1>7, <1>8, <1>9, <1>10
     DEF G!Next, G!Ask, G!Operate

\* At first nothing is pending.
LEMMA PendingAtFirst == ASSUME G!Init PROVE PendingInv
<1>1. requests = <<>> /\ <<>> \in Seq(RequestSet) /\ 0 \in Nat
  BY DEF G!Init
<1>2. \A c \in Askers : Len(G!Gates(c)) \in Nat
  BY GatesAreGates
<1>3. \A c \in Askers : 0 <= Len(G!Gates(c))
  BY <1>2
<1>4. LooksUp(pendingOf, requests)
  BY <1>1 DEF LooksUp
<1> QED
  BY <1>1, <1>3, <1>4 DEF G!Init, G!Nobody, PendingInv

\* However calls, answers, expiry and restarts follow each other, also one in the middle
\* of an approval, the operator never has two pending requests for one plan.
THEOREM PlansAreAskedOnce == G!Spec => []OnePendingPerPlan
<1>1. G!Init => PendingInv
  BY PendingAtFirst
<1>2. PendingInv /\ [G!Next]_G!gateVars => PendingInv'
  BY PendingStep
<1>3. PendingInv => OnePendingPerPlan
  BY DEF PendingInv, LooksUp, OnePendingPerPlan, G!OnePendingPerPlan
<1> QED
  BY <1>1, <1>2, <1>3, PTL DEF G!Spec

-----------------------------------------------------------------------------
\* Passes.

GrantSet == [cap : UNION {G!Capabilities(s) : s \in G!Scopes}, scope : G!Scopes,
             until : Nat, uses : Nat]

\* The uses that a grant has left for one capability in one scope.
UsesOf(cap, scope) ==
    [g \in GrantSet |-> IF g.cap = cap /\ g.scope = scope THEN g.uses ELSE 0]

\* Every grant goes back to an approval, and of every capability there are never more
\* uses left than the approvals gave and the passes took.
Backed(all, approved, passed) ==
    /\ all \in Seq(GrantSet)
    /\ \A i \in 1..Len(all) : \E k \in 1..Len(approved[all[i].scope]) :
           all[i].until = approved[all[i].scope][k] + GrantTtl
    /\ \A s \in G!Scopes : \A cap \in G!Capabilities(s) :
           Weight(all, UsesOf(cap, s)) + passed[s] <= GrantUses * Len(approved[s])

\* It holds of the grants in memory and of those of the file, which may be older.
BackedInv ==
    /\ PendingInv
    /\ passes \in [G!Scopes -> Nat] /\ approvals \in [G!Scopes -> Seq(Nat)]
    /\ Backed(grants, approvals, passes) /\ Backed(saved.grants, approvals, passes)

\* Grants of one approval: one for each of some capabilities.
Fresh(q, scope, now) ==
    /\ q \in Seq(GrantSet)
    /\ \A i \in 1..Len(q) :
           q[i].scope = scope /\ q[i].until = now + GrantTtl /\ q[i].uses = GrantUses
    /\ \A i, j \in 1..Len(q) : q[i].cap = q[j].cap => i = j

\* Every scope has capabilities, finitely many.
LEMMA ScopeNeeds ==
    ASSUME NEW s
    PROVE  IsFiniteSet(G!Capabilities(s)) /\ G!Capabilities(s) # {}
<1>1. ASSUME NEW a, NEW b, NEW c
      PROVE  IsFiniteSet({a}) /\ IsFiniteSet({a, b}) /\ IsFiniteSet({a, b, c})
  <2>1. IsFiniteSet({a})
    BY FS_Singleton
  <2>2. IsFiniteSet({a} \cup {b}) /\ {a} \cup {b} = {a, b}
    BY <2>1, FS_AddElement
  <2>3. IsFiniteSet({a, b} \cup {c}) /\ {a, b} \cup {c} = {a, b, c}
    BY <2>2, FS_AddElement
  <2> QED
    BY <2>1, <2>2, <2>3
<1>2. /\ IsFiniteSet({"tool.high-risk"}) /\ IsFiniteSet({"net.fetch"})
      /\ IsFiniteSet({"process.exec", "fs.write", "process.exec.mutate"})
      /\ IsFiniteSet({"process.exec", "net.fetch"})
      /\ IsFiniteSet({"process.exec", "process.exec.privileged"})
  BY <1>1
<1>4. \/ G!Capabilities(s) = {"tool.high-risk"}
      \/ G!Capabilities(s) = {"net.fetch"}
      \/ G!Capabilities(s) = {"process.exec", "fs.write", "process.exec.mutate"}
      \/ G!Capabilities(s) = {"process.exec", "net.fetch"}
      \/ G!Capabilities(s) = {"process.exec", "process.exec.privileged"}
  BY DEF G!Capabilities
<1>5. G!Capabilities(s) # {}
  BY <1>4
<1>6. IsFiniteSet(G!Capabilities(s))
  BY <1>2, <1>4
<1> QED
  BY <1>5, <1>6

\* What is counted is a number.
LEMMA UsesAreNumbers ==
    ASSUME NEW cap, NEW s
    PROVE  /\ UsesOf(cap, s) \in [GrantSet -> Nat]
           /\ \A g \in GrantSet : UsesOf(cap, s)[g] =
                  IF g.cap = cap /\ g.scope = s THEN g.uses ELSE 0
BY DEF UsesOf, GrantSet

\* The filter of ApprovalGate is the one of Filters.
LEMMA GateSelects == \A q, S : G!SelectIn(q, S) = SelectIn(q, S)
BY DEF G!SelectIn, SelectIn

\* Sets are counted there as here.
LEMMA GateCounts == \A S : G!Cardinality(S) = Cardinality(S)
BY DEF G!Cardinality, Cardinality

\* An approval grants each capability of its scope once, and so does a part of it.
LEMMA GrantedOnce ==
    ASSUME NEW s \in G!Scopes, clock \in Nat
    PROVE  /\ Fresh(G!Granted(s), s, clock)
           /\ \A n \in 1..Cardinality(G!Capabilities(s)) :
                  Fresh(SubSeq(G!Granted(s), 1, n), s, clock)
<1> DEFINE C == G!Capabilities(s)
           G1(cap) == [cap |-> cap, scope |-> s, until |-> clock + GrantTtl, uses |-> GrantUses]
           All == {G1(cap) : cap \in C}
           f == [cap \in C |-> G1(cap)]
           q == G!Granted(s)
<1>1. IsFiniteSet(All) /\ Cardinality(All) = Cardinality(C)
  <2>1. f \in Bijection(C, All)
    BY DEF Bijection, Injection, Surjection, IsInjective
  <2>2. ExistsBijection(C, All)
    BY <2>1 DEF ExistsBijection
  <2>3. IsFiniteSet(C)
    BY ScopeNeeds
  <2> HIDE DEF C, All
  <2> QED
    BY <2>2, <2>3, FS_Bijection
<1>2. All \subseteq GrantSet
  BY GrantsAssumption DEF GrantSet
<1>3. q = CHOOSE h \in [1..Cardinality(All) -> All] : G!IsInjective(h)
  BY GateCounts DEF G!Granted, G!SetToSeq
<1> HIDE DEF q, All
<1>4. q \in [1..Cardinality(All) -> All] /\ G!IsInjective(q) /\ Cardinality(All) \in Nat
  <2>1. ExistsBijection(1..Cardinality(All), All) /\ Cardinality(All) \in Nat
    BY <1>1, FS_CardinalityType
  <2>2. PICK h \in [1..Cardinality(All) -> All] : G!IsInjective(h)
    BY <2>1 DEF ExistsBijection, Bijection, Injection, IsInjective, G!IsInjective
  <2>3. \E k \in [1..Cardinality(All) -> All] : G!IsInjective(k)
    BY <2>2
  <2> QED
    BY <1>3, <2>1, <2>3
<1>5. /\ q \in Seq(All) /\ q \in Seq(GrantSet) /\ Len(q) = Cardinality(C)
      /\ \A i \in 1..Len(q) : q[i] \in All
      /\ \A i, j \in 1..Len(q) : q[i] = q[j] => i = j
  BY <1>1, <1>2, <1>4 DEF G!IsInjective
<1>6. ASSUME NEW n \in 0..Len(q)
      PROVE  /\ SubSeq(q, 1, n) \in Seq(GrantSet) /\ Len(SubSeq(q, 1, n)) = n
             /\ \A i \in 1..n : SubSeq(q, 1, n)[i] = q[i]
  BY <1>5
<1>7. \A g \in All : g.scope = s /\ g.until = clock + GrantTtl /\ g.uses = GrantUses
  BY DEF All
<1>8. \A g, h \in All : g.cap = h.cap => g = h
  BY DEF All
<1>9. \A i, j \in 1..Len(q) : q[i].cap = q[j].cap => i = j
  BY <1>5, <1>8
<1>10. ASSUME NEW n \in 0..Len(q) PROVE Fresh(SubSeq(q, 1, n), s, clock)
  <2>1. \A i \in 1..n : i \in 1..Len(q)
    BY <1>5
  <2> DEFINE p == SubSeq(q, 1, n)
  <2>2. p \in Seq(GrantSet) /\ Len(p) = n /\ \A i \in 1..n : p[i] = q[i]
    BY <1>6
  <2> HIDE DEF p
  <2>3. Fresh(p, s, clock)
    BY <1>5, <1>7, <1>9, <2>1, <2>2 DEF Fresh
  <2> QED
    BY <2>3 DEF p
<1>11. Fresh(q, s, clock)
  BY <1>5, <1>7, <1>9 DEF Fresh
<1>12. \A n \in 1..Cardinality(C) : n \in 0..Len(q)
  BY <1>5
<1> QED
  BY <1>10, <1>11, <1>12 DEF q

\* What is selected of backed grants is backed.
LEMMA SelectedIsBacked ==
    ASSUME NEW all, NEW approved, NEW passed \in [G!Scopes -> Nat],
           approved \in [G!Scopes -> Seq(Nat)], Backed(all, approved, passed), NEW S
    PROVE  Backed(SelectIn(all, S), approved, passed)
<1>0. all \in Seq(GrantSet)
  BY DEF Backed
<1> DEFINE q == SelectIn(all, S)
<1>1. q \in Seq(GrantSet) /\ \A i \in 1..Len(q) : \E j \in 1..Len(all) : all[j] = q[i]
  <2>1. q \in Seq(GrantSet)
    BY <1>0, SelectInElements
  <2>2. \A i \in 1..Len(q) : \E j \in 1..Len(all) : all[j] = q[i]
    BY <1>0, SelectInFrom
  <2> QED
    BY <2>1, <2>2
<1>2. \A cap, s : /\ Weight(q, UsesOf(cap, s)) <= Weight(all, UsesOf(cap, s))
                  /\ Weight(q, UsesOf(cap, s)) \in Nat /\ Weight(all, UsesOf(cap, s)) \in Nat
  <2> TAKE cap, s
  <2>1. UsesOf(cap, s) \in [GrantSet -> Nat]
    BY UsesAreNumbers
  <2>2. Weight(q, UsesOf(cap, s)) <= Weight(all, UsesOf(cap, s))
    BY <1>0, <2>1, WeightSelected
  <2> HIDE DEF q
  <2>3. Weight(q, UsesOf(cap, s)) \in Nat /\ Weight(all, UsesOf(cap, s)) \in Nat
    BY <1>0, <1>1, <2>1, WeightType
  <2> QED
    BY <2>2, <2>3
<1> HIDE DEF q
<1>3. ASSUME NEW i \in 1..Len(q)
      PROVE  \E k \in 1..Len(approved[q[i].scope]) :
                 q[i].until = approved[q[i].scope][k] + GrantTtl
  <2>1. PICK j \in 1..Len(all) : all[j] = q[i]
    BY <1>1
  <2> QED
    BY <2>1 DEF Backed
<1>4. ASSUME NEW s \in G!Scopes, NEW cap \in G!Capabilities(s)
      PROVE  Weight(q, UsesOf(cap, s)) + passed[s] <= GrantUses * Len(approved[s])
  <2>1. Weight(all, UsesOf(cap, s)) + passed[s] <= GrantUses * Len(approved[s])
    BY DEF Backed
  <2>2. passed[s] \in Nat /\ GrantUses * Len(approved[s]) \in Nat
    BY GrantsAssumption
  <2> HIDE DEF Backed
  <2> QED
    BY <1>2, <2>1, <2>2
<1>5. Backed(q, approved, passed)
  BY <1>1, <1>3, <1>4 DEF Backed
<1> QED
  BY <1>5 DEF q

\* What an approval grants is backed by it.
LEMMA GrantedIsBacked ==
    ASSUME NEW all, NEW approved \in [G!Scopes -> Seq(Nat)], NEW passed \in [G!Scopes -> Nat],
           Backed(all, approved, passed), NEW s \in G!Scopes, NEW q, NEW now \in Nat,
           Fresh(q, s, now)
    PROVE  Backed(all \o q, [approved EXCEPT ![s] = Append(@, now)], passed)
<1> DEFINE more == [approved EXCEPT ![s] = Append(@, now)]
           a == all \o q
<1>0. all \in Seq(GrantSet) /\ q \in Seq(GrantSet) /\ a \in Seq(GrantSet)
  BY DEF Backed, Fresh
<1>1. /\ Len(all) \in Nat /\ Len(q) \in Nat /\ Len(a) = Len(all) + Len(q)
      /\ \A i \in 1..Len(all) : a[i] = all[i]
      /\ \A i \in 1..Len(a) : i > Len(all) => i - Len(all) \in 1..Len(q) /\ a[i] = q[i - Len(all)]
  BY <1>0
<1> HIDE DEF a
<1>2. /\ more \in [G!Scopes -> Seq(Nat)]
      /\ Len(more[s]) = Len(approved[s]) + 1 /\ more[s][Len(more[s])] = now
      /\ \A t \in G!Scopes : t # s => more[t] = approved[t]
      /\ \A t \in G!Scopes : \A k \in 1..Len(approved[t]) :
             k \in 1..Len(more[t]) /\ more[t][k] = approved[t][k]
  OBVIOUS
<1> HIDE DEF more
<1>3. ASSUME NEW i \in 1..Len(a)
      PROVE  \E k \in 1..Len(more[a[i].scope]) :
                 a[i].until = more[a[i].scope][k] + GrantTtl
  <2>1. CASE i \in 1..Len(all)
    <3>1. a[i] = all[i] /\ all[i] \in GrantSet
      BY <1>0, <1>1, <2>1
    <3>2. all[i].scope \in G!Scopes
      BY <3>1 DEF GrantSet
    <3>3. PICK k \in 1..Len(approved[all[i].scope]) :
                   all[i].until = approved[all[i].scope][k] + GrantTtl
      BY <2>1 DEF Backed
    <3> QED
      BY <1>2, <3>1, <3>2, <3>3
  <2>2. CASE i > Len(all)
    <3>1. a[i].scope = s /\ a[i].until = now + GrantTtl
      <4>1. PICK j \in 1..Len(q) : a[i] = q[j]
        BY <1>1, <2>2
      <4> QED
        BY <4>1 DEF Fresh
    <3>2. Len(more[s]) \in 1..Len(more[s])
      BY <1>2
    <3> QED
      BY <1>2, <3>1, <3>2
  <2> QED
    BY <1>1, <2>1, <2>2
<1>4. ASSUME NEW t \in G!Scopes, NEW cap \in G!Capabilities(t)
      PROVE  Weight(a, UsesOf(cap, t)) + passed[t] <= GrantUses * Len(more[t])
  <2> DEFINE W == UsesOf(cap, t)
             w == Weight(all, W)
             x == Weight(q, W)
  <2>1. W \in [GrantSet -> Nat]
        /\ \A g \in GrantSet : W[g] = IF g.cap = cap /\ g.scope = t THEN g.uses ELSE 0
    BY UsesAreNumbers
  <2> HIDE DEF W
  <2>2. Weight(a, W) = w + x /\ w \in Nat /\ x \in Nat
    BY <1>0, <2>1, WeightConcat, WeightType DEF a
  <2>3. w + passed[t] <= GrantUses * Len(approved[t])
    BY DEF Backed, W
  <2>4. GrantUses \in Nat /\ passed[t] \in Nat /\ Len(approved[t]) \in Nat
    BY GrantsAssumption
  <2>5. \A i \in 1..Len(q) : q[i] \in GrantSet
    BY <1>0
  <2>6. CASE t # s
    <3>1. \A i \in 1..Len(q) : W[q[i]] = 0
      BY <2>1, <2>5, <2>6 DEF Fresh
    <3>2. x <= 0
      <4>1. /\ 0 \in Nat /\ \A i \in 1..Len(q) : W[q[i]] <= 0
            /\ \A i, j \in 1..Len(q) : W[q[i]] # 0 /\ W[q[j]] # 0 => i = j
        BY <3>1
      <4> QED
        BY <1>0, <2>1, <4>1, WeightOne
    <3>3. more[t] = approved[t]
      BY <1>2, <2>6
    <3> HIDE DEF w, x
    <3>4. w + x + passed[t] <= GrantUses * Len(more[t])
      BY <2>2, <2>3, <2>4, <3>2, <3>3
    <3> QED
      BY <2>2, <3>4 DEF W
  <2>7. CASE t = s
    <3>1. ASSUME NEW i \in 1..Len(q) PROVE W[q[i]] <= GrantUses
      <4>1. q[i] \in GrantSet /\ q[i].uses = GrantUses
        BY <2>5 DEF Fresh
      <4>2. W[q[i]] = 0 \/ W[q[i]] = GrantUses
        BY <2>1, <4>1
      <4> QED
        BY <2>4, <4>2
    <3>2. \A i, j \in 1..Len(q) : W[q[i]] # 0 /\ W[q[j]] # 0 => i = j
      <4>1. ASSUME NEW i \in 1..Len(q), NEW j \in 1..Len(q), W[q[i]] # 0, W[q[j]] # 0
            PROVE  i = j
        <5>1. q[i].cap = cap /\ q[j].cap = cap
          BY <2>1, <2>5, <4>1
        <5> QED
          BY <5>1 DEF Fresh
      <4> QED
        BY <4>1
    <3>3. x <= GrantUses
      <4>1. \A i \in 1..Len(q) : W[q[i]] <= GrantUses
        BY <3>1
      <4>2. q \in Seq(GrantSet) /\ W \in [GrantSet -> Nat] /\ GrantUses \in Nat
        BY <1>0, <2>1, <2>4
      <4>3. Weight(q, W) <= GrantUses
        BY <3>2, <4>1, <4>2, WeightOne, Zenon
      <4> QED
        BY <4>3
    <3>4. Len(more[t]) = Len(approved[t]) + 1
      BY <1>2, <2>7
    <3>5. GrantUses * Len(more[t]) = GrantUses * Len(approved[t]) + GrantUses
      BY <2>4, <3>4
    <3> DEFINE y == GrantUses * Len(approved[t])
    <3>6. y \in Nat
      BY <2>4
    <3> HIDE DEF w, x, y
    <3>7. w + x + passed[t] <= y + GrantUses
      <4>1. w + passed[t] <= y
        BY <2>3 DEF y
      <4> QED
        BY <2>2, <2>4, <3>3, <3>6, <4>1
    <3> QED
      BY <2>2, <3>5, <3>7 DEF W, y
  <2> QED
    BY <2>6, <2>7
<1>5. Backed(a, more, passed)
  BY <1>0, <1>3, <1>4 DEF Backed
<1> QED
  BY <1>5 DEF a, more

\* Looking at grants leaves those that can be used.
LEMMA LiveIsBacked ==
    ASSUME BackedInv, NEW all, Backed(all, approvals, passes)
    PROVE  /\ Backed(G!Live(all), approvals, passes)
           /\ \A i \in 1..Len(G!Live(all)) :
                  G!Live(all)[i].until > clock /\ G!Live(all)[i].uses > 0
<1> DEFINE S == {g \in G!Range(all) : g.until > clock /\ g.uses > 0}
<1>1. G!Live(all) = SelectIn(all, S)
  BY GateSelects DEF G!Live
<1>2. passes \in [G!Scopes -> Nat] /\ approvals \in [G!Scopes -> Seq(Nat)]
  BY DEF BackedInv
<1>3. all \in Seq(GrantSet)
  BY DEF Backed
<1> HIDE DEF S
<1>4. Backed(SelectIn(all, S), approvals, passes)
  BY <1>2, SelectedIsBacked
<1>5. \A i \in 1..Len(SelectIn(all, S)) : SelectIn(all, S)[i] \in S
  BY <1>3, SelectInFrom
<1> QED
  BY <1>1, <1>4, <1>5 DEF S

\* The oldest grant of a capability is one.
LEMMA OldestHolds ==
    ASSUME NEW all \in Seq(GrantSet), NEW cap, NEW s, G!Holding(all, cap, s) # {}
    PROVE  /\ G!Min(G!Holding(all, cap, s)) \in 1..Len(all)
           /\ all[G!Min(G!Holding(all, cap, s))].cap = cap
           /\ all[G!Min(G!Holding(all, cap, s))].scope = s
<1> DEFINE H0 == G!Holding(all, cap, s)
<1>1. H0 \subseteq 1..Len(all) /\ H0 \subseteq Nat
      /\ \A i \in H0 : all[i].cap = cap /\ all[i].scope = s
  BY DEF G!Holding
<1> HIDE DEF H0
<1>2. \E n \in H0 : \A m \in H0 : n <= m
  BY <1>1, LeastElement DEF H0
<1>3. G!Min(H0) \in H0
  BY <1>2 DEF G!Min
<1> QED
  BY <1>1, <1>3 DEF H0

\* A pass takes a use of every capability it needs, and none of what is left is without one.
LEMMA ConsumedIsBacked ==
    ASSUME NEW all, NEW approved \in [G!Scopes -> Seq(Nat)], NEW passed \in [G!Scopes -> Nat],
           Backed(all, approved, passed), NEW s \in G!Scopes, G!Allowed(all, s),
           \A i \in 1..Len(all) : all[i].uses > 0
    PROVE  Backed(G!Consumed(all, s), approved, [passed EXCEPT ![s] = @ + 1])
<1> DEFINE C == G!Capabilities(s)
           oldest(cap) == G!Min(G!Holding(all, cap, s))
           used == {oldest(cap) : cap \in C}
           low == [i \in DOMAIN all |->
                      IF i \in used THEN [all[i] EXCEPT !.uses = @ - 1] ELSE all[i]]
           S == {g \in G!Range(low) : g.uses > 0}
           more == [passed EXCEPT ![s] = @ + 1]
<1>0. all \in Seq(GrantSet) /\ Len(all) \in Nat /\ DOMAIN all = 1..Len(all)
  BY DEF Backed
<1>1. G!Consumed(all, s) = SelectIn(low, S)
  BY GateSelects DEF G!Consumed
<1>2. ASSUME NEW cap \in C
      PROVE  oldest(cap) \in 1..Len(all) /\ all[oldest(cap)].cap = cap
             /\ all[oldest(cap)].scope = s /\ oldest(cap) \in used
  <2>1. G!Holding(all, cap, s) # {}
    BY DEF G!Allowed
  <2> QED
    BY <1>0, <2>1, OldestHolds
<1> HIDE DEF S, C, oldest, used
<1>3. ASSUME NEW i \in 1..Len(all)
      PROVE  /\ all[i] \in GrantSet /\ low[i] \in GrantSet
             /\ low[i].cap = all[i].cap /\ low[i].scope = all[i].scope
             /\ low[i].until = all[i].until
             /\ low[i].uses = IF i \in used THEN all[i].uses - 1 ELSE all[i].uses
             /\ all[i].uses \in Nat /\ all[i].uses > 0
  <2>1. all[i] \in GrantSet
    BY <1>0
  <2>2. low[i] = IF i \in used THEN [all[i] EXCEPT !.uses = @ - 1] ELSE all[i]
    BY <1>0
  <2>3. all[i].uses > 0 /\ all[i].uses \in Nat /\ all[i].uses - 1 \in Nat
    BY <2>1 DEF GrantSet
  <2> HIDE DEF low
  <2> QED
    BY <2>1, <2>2, <2>3 DEF GrantSet
<1>4. low \in Seq(GrantSet) /\ Len(low) = Len(all)
  <2>1. low = [i \in 1..Len(all) |-> low[i]] /\ \A i \in 1..Len(all) : low[i] \in GrantSet
    BY <1>0, <1>3
  <2> HIDE DEF low
  <2> QED
    BY <1>0, <2>1
<1> HIDE DEF low
<1>5. /\ more \in [G!Scopes -> Nat] /\ more[s] = passed[s] + 1
      /\ \A t \in G!Scopes : t # s => more[t] = passed[t]
  OBVIOUS
<1> HIDE DEF more
<1>6. ASSUME NEW i \in 1..Len(low)
      PROVE  \E k \in 1..Len(approved[low[i].scope]) :
                 low[i].until = approved[low[i].scope][k] + GrantTtl
  <2>1. i \in 1..Len(all) /\ low[i].scope = all[i].scope /\ low[i].until = all[i].until
    BY <1>3, <1>4
  <2>2. \E k \in 1..Len(approved[all[i].scope]) :
            all[i].until = approved[all[i].scope][k] + GrantTtl
    BY <2>1 DEF Backed
  <2> QED
    BY <2>1, <2>2
<1>7. ASSUME NEW t \in G!Scopes, NEW cap \in G!Capabilities(t)
      PROVE  Weight(low, UsesOf(cap, t)) + more[t] <= GrantUses * Len(approved[t])
  <2> DEFINE W == UsesOf(cap, t)
             w == Weight(all, W)
             x == Weight(low, W)
             y == GrantUses * Len(approved[t])
  <2>1. W \in [GrantSet -> Nat]
        /\ \A g \in GrantSet : W[g] = IF g.cap = cap /\ g.scope = t THEN g.uses ELSE 0
    BY UsesAreNumbers
  <2> HIDE DEF W
  <2>2. w \in Nat /\ x \in Nat
    BY <1>0, <1>4, <2>1, WeightType
  <2>3. w + passed[t] <= y
    BY DEF Backed, W
  <2>4. y \in Nat /\ passed[t] \in Nat
    BY GrantsAssumption
  <2>5. ASSUME NEW i \in 1..Len(all) PROVE W[low[i]] <= W[all[i]]
    <3>0. /\ all[i] \in GrantSet /\ low[i] \in GrantSet
          /\ low[i].cap = all[i].cap /\ low[i].scope = all[i].scope
      BY <1>3
    <3>1. W[all[i]] = IF all[i].cap = cap /\ all[i].scope = t THEN all[i].uses ELSE 0
      BY <2>1, <3>0
    <3>2. W[low[i]] = IF all[i].cap = cap /\ all[i].scope = t THEN low[i].uses ELSE 0
      <4>1. W[low[i]] = IF low[i].cap = cap /\ low[i].scope = t THEN low[i].uses ELSE 0
        BY <2>1, <3>0
      <4> QED
        BY <3>0, <4>1
    <3>3. low[i].uses <= all[i].uses
      BY <1>3
    <3> QED
      BY <3>1, <3>2, <3>3
  <2>6. x <= w
    <3>1. \A i \in 1..Len(all) : W[low[i]] <= W[all[i]]
      BY <2>5
    <3> QED
      BY <1>0, <1>4, <2>1, <3>1, WeightLowered
  <2>7. CASE t # s
    <3>1. more[t] = passed[t]
      BY <1>5, <2>7
    <3> HIDE DEF w, x, y
    <3>2. x + more[t] <= y
      BY <2>2, <2>3, <2>4, <2>6, <3>1
    <3> QED
      BY <3>2 DEF W, x, y
  <2>8. CASE t = s
    <3> DEFINE k == oldest(cap)
    <3>1. k \in 1..Len(all) /\ all[k].cap = cap /\ all[k].scope = s /\ k \in used
      BY <1>2, <2>8 DEF C
    <3> HIDE DEF k
    <3>2. W[low[k]] < W[all[k]]
      <4>1. W[all[k]] = all[k].uses /\ W[low[k]] = low[k].uses
        BY <1>3, <2>1, <2>8, <3>1
      <4>2. low[k].uses = all[k].uses - 1 /\ all[k].uses \in Nat
        BY <1>3, <3>1
      <4> QED
        BY <4>1, <4>2
    <3>3. x < w
      <4>1. \A i \in 1..Len(all) : W[low[i]] <= W[all[i]]
        BY <2>5
      <4> QED
        BY <1>0, <1>4, <2>1, <3>1, <3>2, <4>1, WeightLowered
    <3>4. more[t] = passed[t] + 1
      BY <1>5, <2>8
    <3> HIDE DEF w, x, y
    <3>5. x + more[t] <= y
      BY <2>2, <2>3, <2>4, <3>3, <3>4
    <3> QED
      BY <3>5 DEF W, x, y
  <2> QED
    BY <2>7, <2>8
<1>8. Backed(low, approved, more)
  BY <1>4, <1>6, <1>7 DEF Backed
<1>9. Backed(SelectIn(low, S), approved, more)
  BY <1>5, <1>8, SelectedIsBacked
<1> QED
  BY <1>1, <1>9 DEF more

\* The scopes that are asked for are scopes.
LEMMA AskedScopes ==
    ASSUME PendingInv
    PROVE  /\ \A c \in Askers : ~G!Cleared(c) => G!Standing(c).scope \in G!Scopes
           /\ \A i \in DOMAIN requests : requests[i].gate.scope \in G!Scopes
<1>1. ASSUME NEW c \in Askers, ~G!Cleared(c) PROVE G!Standing(c).scope \in G!Scopes
  <2>1. asked[c] \in Nat /\ asked[c] <= Len(G!Gates(c)) /\ Len(G!Gates(c)) \in Nat
    BY GatesAreGates DEF PendingInv
  <2>2. asked[c] + 1 \in 1..Len(G!Gates(c))
    BY <1>1, <2>1 DEF G!Cleared
  <2>3. G!Standing(c) \in G!AllGates
    BY <2>2, GatesAreGates DEF G!Standing
  <2> QED
    BY <2>3 DEF G!Scopes
<1>2. ASSUME NEW i \in DOMAIN requests PROVE requests[i].gate.scope \in G!Scopes
  <2>1. requests[i] \in RequestSet
    BY DEF PendingInv
  <2>2. requests[i].gate \in G!AllGates
    BY <2>1 DEF RequestSet
  <2> QED
    BY <2>2 DEF G!Scopes
<1> QED
  BY <1>1, <1>2

\* A pass is backed: one of the grants it uses goes back to an approval whose time has
\* not run out, and the uses that the approvals gave are not all taken.
LEMMA PassIsCovered ==
    ASSUME BackedInv, NEW c \in Askers, G!Pass(c)
    PROVE  LET s == G!Standing(c).scope
           IN  /\ s \in G!Scopes
               /\ \E i \in DOMAIN approvals[s] : clock - approvals[s][i] < GrantTtl
               /\ passes[s] + 1 <= GrantUses * Len(approvals[s])
               /\ Backed(grants', approvals, [passes EXCEPT ![s] = @ + 1])
<1> DEFINE s == G!Standing(c).scope
           all == G!Live(grants)
           left == G!Consumed(all, s)
           more == [passes EXCEPT ![s] = @ + 1]
<1>1. ~G!Cleared(c) /\ G!Allowed(all, s) /\ grants' = left
  BY DEF G!Pass
<1>2. /\ s \in G!Scopes /\ clock \in Nat
      /\ passes \in [G!Scopes -> Nat] /\ approvals \in [G!Scopes -> Seq(Nat)]
  BY <1>1, AskedScopes DEF BackedInv, PendingInv
<1>3. /\ Backed(all, approvals, passes)
      /\ \A i \in 1..Len(all) : all[i].until > clock /\ all[i].uses > 0
  BY LiveIsBacked DEF BackedInv
<1> HIDE DEF s, all
<1>4. PICK cap \in G!Capabilities(s) : TRUE
  BY ScopeNeeds
<1>5. Backed(left, approvals, more)
  BY <1>1, <1>2, <1>3, ConsumedIsBacked
<1>6. more[s] = passes[s] + 1 /\ passes[s] \in Nat
  BY <1>2
<1> HIDE DEF left, more
<1>7. passes[s] + 1 <= GrantUses * Len(approvals[s])
  <2> DEFINE x == Weight(left, UsesOf(cap, s))
             y == GrantUses * Len(approvals[s])
  <2>1. x + more[s] <= y
    BY <1>2, <1>5 DEF Backed
  <2>2. x \in Nat
    <3>1. left \in Seq(GrantSet)
      BY <1>5 DEF Backed
    <3> QED
      BY <3>1, UsesAreNumbers, WeightType
  <2>3. y \in Nat
    BY <1>2, GrantsAssumption
  <2> HIDE DEF x, y
  <2>4. passes[s] + 1 <= y
    BY <1>6, <2>1, <2>2, <2>3
  <2> QED
    BY <2>4 DEF y
<1>8. \E i \in DOMAIN approvals[s] : clock - approvals[s][i] < GrantTtl
  <2> DEFINE k == G!Min(G!Holding(all, cap, s))
  <2>1. k \in 1..Len(all) /\ all[k].scope = s
    <3>1. G!Holding(all, cap, s) # {} /\ all \in Seq(GrantSet)
      BY <1>1, <1>3 DEF G!Allowed, Backed
    <3> QED
      BY <3>1, OldestHolds
  <2> HIDE DEF k
  <2>2. PICK i \in 1..Len(approvals[s]) : all[k].until = approvals[s][i] + GrantTtl
    BY <1>3, <2>1 DEF Backed
  <2>3. all[k].until > clock
    BY <1>3, <2>1
  <2>4. approvals[s][i] \in Nat /\ GrantTtl \in Nat /\ i \in DOMAIN approvals[s]
    BY <1>2, GrantsAssumption
  <2>5. clock - approvals[s][i] < GrantTtl
    BY <1>2, <2>2, <2>3, <2>4
  <2> QED
    BY <2>4, <2>5
<1>9. /\ s \in G!Scopes
      /\ \E i \in DOMAIN approvals[s] : clock - approvals[s][i] < GrantTtl
      /\ passes[s] + 1 <= GrantUses * Len(approvals[s])
      /\ Backed(grants', approvals, more)
  BY <1>1, <1>2, <1>5, <1>7, <1>8
<1> QED
  BY <1>9 DEF s, more

\* Every step leaves the grants backed, those of the file also.
LEMMA BackedStep ==
    ASSUME BackedInv, [G!Next]_G!gateVars
    PROVE  BackedInv'
<1>0. /\ passes \in [G!Scopes -> Nat] /\ approvals \in [G!Scopes -> Seq(Nat)] /\ clock \in Nat
      /\ Backed(grants, approvals, passes) /\ Backed(saved.grants, approvals, passes)
      /\ Backed(G!Live(grants), approvals, passes)
      /\ saved = [grants |-> saved.grants, requests |-> requests]
  BY LiveIsBacked DEF BackedInv, PendingInv
<1>1. PendingInv'
  BY PendingStep DEF BackedInv
<1> DEFINE Goal == /\ passes' \in [G!Scopes -> Nat] /\ approvals' \in [G!Scopes -> Seq(Nat)]
                   /\ Backed(grants', approvals', passes')
                   /\ Backed(saved'.grants, approvals', passes')
<1>2. ASSUME NEW c \in Askers, G!Pass(c) PROVE Goal
  <2> DEFINE s == G!Standing(c).scope
  <2>1. /\ passes' = [passes EXCEPT ![s] = @ + 1] /\ approvals' = approvals
        /\ saved' = [saved EXCEPT !.grants = grants']
    BY <1>2 DEF G!Pass, G!PersistGrants
  <2>2. s \in G!Scopes /\ Backed(grants', approvals, [passes EXCEPT ![s] = @ + 1])
    BY <1>2, PassIsCovered
  <2>3. saved'.grants = grants'
    BY <1>0, <2>1
  <2>4. passes' \in [G!Scopes -> Nat]
    BY <1>0, <2>1, <2>2
  <2> QED
    BY <1>0, <2>1, <2>2, <2>3, <2>4
<1>3. ASSUME passes' = passes, approvals' = approvals,
             grants' \in {grants, G!Live(grants), saved.grants}, saved'.grants = saved.grants
      PROVE  Goal
  BY <1>0, <1>3
<1>4. ASSUME NEW s \in G!Scopes, NEW q, Fresh(q, s, clock), grants' = G!Live(grants) \o q,
             saved'.grants = grants', passes' = passes,
             approvals' = [approvals EXCEPT ![s] = Append(@, clock)]
      PROVE  Goal
  <2>1. Backed(grants', approvals', passes')
    BY <1>0, <1>4, GrantedIsBacked
  <2>2. approvals' \in [G!Scopes -> Seq(Nat)]
    BY <1>0, <1>4
  <2> QED
    BY <1>0, <1>4, <2>1, <2>2
<1> HIDE DEF Goal
<1>5. ASSUME NEW c \in Askers, G!Deny(c) \/ G!Run(c) PROVE Goal
  <2>1. passes' = passes /\ approvals' = approvals /\ grants' \in {grants, G!Live(grants)}
    BY <1>5 DEF G!Deny, G!Run
  <2>2. saved' = saved \/ \E all : saved' = [saved EXCEPT !.requests = all]
    BY <1>5 DEF G!Deny, G!Run, G!Request, G!PersistRequests
  <2>3. saved'.grants = saved.grants
    BY <1>0, <2>2
  <2> QED
    BY <1>3, <2>1, <2>3
<1>6. ASSUME NEW i \in DOMAIN requests, G!Approve(i) PROVE Goal
  <2> DEFINE s == requests[i].gate.scope
  <2>1. s \in G!Scopes
    BY AskedScopes DEF BackedInv
  <2>2. /\ grants' = G!Live(grants) \o G!Granted(s) /\ passes' = passes
        /\ saved' = [grants |-> grants', requests |-> requests']
        /\ approvals' = [approvals EXCEPT ![s] = Append(@, clock)]
    BY <1>6 DEF G!Approve
  <2>3. Fresh(G!Granted(s), s, clock) /\ saved'.grants = grants'
    BY <1>0, <2>1, <2>2, GrantedOnce
  <2> HIDE DEF s
  <2> QED
    BY <1>4, <2>1, <2>2, <2>3
<1>7. ASSUME NEW i \in DOMAIN requests, G!DieApproving(i) PROVE Goal
  <2> DEFINE s == requests[i].gate.scope
  <2>1. s \in G!Scopes
    BY AskedScopes DEF BackedInv
  <2>2. PICK n \in 1..G!Cardinality(G!Capabilities(s)) :
            G!Restored([grants |-> G!Live(grants) \o SubSeq(G!Granted(s), 1, n),
                        requests |-> IF G!Expired # requests THEN G!Expired
                                     ELSE saved.requests])
    BY <1>7 DEF G!DieApproving
  <2> DEFINE q == SubSeq(G!Granted(s), 1, n)
  <2>3. /\ grants' = G!Live(grants) \o q /\ saved'.grants = grants' /\ passes' = passes
    BY <2>2 DEF G!Restored
  <2>4. approvals' = [approvals EXCEPT ![s] = Append(@, clock)]
    BY <1>7 DEF G!DieApproving
  <2>5. Fresh(q, s, clock)
    <3>1. n \in 1..Cardinality(G!Capabilities(s))
      BY <2>2, GateCounts
    <3> QED
      BY <1>0, <2>1, <3>1, GrantedOnce
  <2> HIDE DEF s, q
  <2> QED
    BY <1>4, <2>1, <2>3, <2>4, <2>5
<1>8. ASSUME NEW i \in DOMAIN requests, G!DenyRequest(i) PROVE Goal
  <2>1. /\ passes' = passes /\ approvals' = approvals /\ grants' = grants
        /\ saved' = [saved EXCEPT !.requests = requests']
    BY <1>8 DEF G!DenyRequest, G!PersistRequests
  <2>2. saved'.grants = saved.grants
    BY <1>0, <2>1
  <2> QED
    BY <1>3, <2>1, <2>2
<1>9. ASSUME G!List PROVE Goal
  <2>1. passes' = passes /\ approvals' = approvals /\ grants' = G!Live(grants)
    BY <1>9 DEF G!List
  <2>2. saved' = saved \/ saved' = [saved EXCEPT !.requests = G!Expired]
    BY <1>9 DEF G!List, G!PersistRequests
  <2>3. saved'.grants = saved.grants
    BY <1>0, <2>2
  <2> QED
    BY <1>3, <2>1, <2>3
<1>10. ASSUME G!Elapse \/ UNCHANGED G!gateVars PROVE Goal
  <2>1. UNCHANGED <<passes, approvals, grants, saved>>
    BY <1>10 DEF G!Elapse, G!gateVars
  <2> QED
    BY <1>3, <2>1
<1>11. ASSUME G!Restart PROVE Goal
  <2>1. passes' = passes /\ approvals' = approvals /\ grants' = saved.grants /\ saved' = saved
    BY <1>11 DEF G!Restart, G!Restored
  <2> QED
    BY <1>3, <2>1
<1>12. Goal
  BY <1>2, <1>5, <1>6, <1>7, <1>8, <1>9, <1>10, <1>11 DEF G!Next, G!Ask, G!Operate
<1> QED
  BY <1>1, <1>12 DEF Goal, BackedInv

\* What PassesAreCovered says of a step.
Covered ==
    \A s \in G!Scopes : passes'[s] # passes[s] =>
        /\ \E i \in DOMAIN approvals[s] : clock - approvals[s][i] < GrantTtl
        /\ passes'[s] <= GrantUses * Len(approvals[s])

\* Only a pass is counted as one, and that is covered.
LEMMA CoveredStep ==
    ASSUME BackedInv, [G!Next]_G!gateVars
    PROVE  [Covered]_G!gateVars
<1> SUFFICES ASSUME NEW s \in G!Scopes, passes'[s] # passes[s]
             PROVE  /\ \E i \in DOMAIN approvals[s] : clock - approvals[s][i] < GrantTtl
                    /\ passes'[s] <= GrantUses * Len(approvals[s])
  BY DEF Covered
<1>1. PICK c \in Askers : G!Pass(c)
  BY DEF G!Next, G!Ask, G!Operate, G!Deny, G!Run, G!Approve, G!DenyRequest, G!DieApproving,
         G!Restored, G!List, G!Elapse, G!Restart, G!gateVars
<1>2. passes' = [passes EXCEPT ![G!Standing(c).scope] = @ + 1] /\ passes \in [G!Scopes -> Nat]
  BY <1>1 DEF G!Pass, BackedInv
<1>3. G!Standing(c).scope = s
  BY <1>2
<1>4. passes'[s] = passes[s] + 1
  BY <1>2, <1>3
<1> QED
  BY <1>1, <1>3, <1>4, PassIsCovered

\* However calls take grants from each other, and whenever grants run out, requests are
\* answered and the process starts again, also between the grants of one approval: a
\* gate is passed only with an approval of its scope that is not older than a grant
\* lives, and never more often than the approvals of that scope granted uses
\* (CapabilityApprovalGate.approve, CapabilityStore.consumeRequired).
THEOREM NoPassWithoutApproval == G!Spec => PassesAreCovered
<1>1. G!Init => BackedInv
  <2> SUFFICES ASSUME G!Init PROVE BackedInv
    OBVIOUS
  <2>1. PendingInv
    BY PendingAtFirst
  <2>2. /\ grants = <<>> /\ saved.grants = <<>> /\ passes = [s \in G!Scopes |-> 0]
        /\ approvals = [s \in G!Scopes |-> <<>>]
    BY DEF G!Init, G!Nobody
  <2>3. /\ <<>> \in Seq(GrantSet) /\ Len(<<>>) = 0 /\ <<>> \in Seq(Nat)
        /\ passes \in [G!Scopes -> Nat] /\ approvals \in [G!Scopes -> Seq(Nat)]
    BY <2>2
  <2>4. ASSUME NEW s \in G!Scopes, NEW cap
        PROVE  Weight(<<>>, UsesOf(cap, s)) + passes[s] <= GrantUses * Len(approvals[s])
    <3>1. Weight(<<>>, UsesOf(cap, s)) = 0
      BY <2>3, UsesAreNumbers, WeightType
    <3>2. passes[s] = 0 /\ Len(approvals[s]) = 0 /\ GrantUses \in Nat
      BY <2>2, GrantsAssumption
    <3> QED
      BY <3>1, <3>2
  <2>5. Backed(<<>>, approvals, passes)
    BY <2>3, <2>4 DEF Backed
  <2> QED
    BY <2>1, <2>2, <2>3, <2>5 DEF BackedInv
<1>2. BackedInv /\ [G!Next]_G!gateVars => BackedInv'
  BY BackedStep
<1>3. BackedInv /\ [G!Next]_G!gateVars => [Covered]_G!gateVars
  BY CoveredStep
<1>4. [Covered]_G!gateVars =>
          [\A s \in G!Scopes : passes'[s] # passes[s] =>
              /\ \E i \in DOMAIN approvals[s] : clock - approvals[s][i] < GrantTtl
              /\ passes'[s] <= GrantUses * Len(approvals[s])]_G!gateVars
  BY DEF Covered
<1> QED
  BY <1>1, <1>2, <1>3, PTL DEF G!Spec, PassesAreCovered, G!PassesAreCovered, Covered

-----------------------------------------------------------------------------
\* MemoryFiles.

\* Records are numbered from 1, what summaries are numbered after them.
MemoryTypes ==
    /\ Cardinality(Records) \in Nat /\ Records = 1..Cardinality(Records)
    /\ Compactable \subseteq Records /\ Window \in Nat

\* The record is in one of the places, or a summary with it is (s: the summaries).
Held(places, s, r) ==
    r \in places \/ \E k \in DOMAIN s : M!SummaryNo(k) \in places /\ r \in s[k]

\* Where a record is that MEMORY.md need not have.
Safe == archive \cup M!Unarchived \cup gone

MemoryVarTypes ==
    /\ DOMAIN adding = Records
    /\ memory \in Seq(Nat) /\ snapshot \in Seq(Nat) /\ beforeTrim \in [Records -> Seq(Nat)]
    /\ summary \in Seq(SUBSET Records)

\* The record is in every version of MEMORY.md that is or may yet be written back, or safe.
Tracked(r) ==
    /\ Held(M!Range(memory) \cup Safe, summary, r)
    /\ \A q \in Records :
           adding[q] = "rewrite" => Held(M!Range(beforeTrim[q]) \cup Safe, summary, r)
    /\ work \in {"lock", "rewrite"} => Held(M!Range(snapshot) \cup Safe, summary, r)

KeptInv ==
    /\ MemoryVarTypes
    /\ \A r \in Records \ exposed : adding[r] # "new" => Tracked(r)

\* What is on its way to the archive.
LEMMA UnarchivedIs ==
    /\ \A x : x \in M!Unarchived <=>
               \/ \E q \in Records : adding[q] = "archive" /\ x \in M!Range(M!Dropped(q))
               \/ work = "archive" /\ x \in M!Unmerged
    /\ \A x : x \in M!Unarchived' <=>
               \/ \E q \in Records : adding'[q] = "archive" /\ x \in M!Range(M!Dropped(q))'
               \/ work' = "archive" /\ x \in M!Unmerged'
<1>1. \A x : x \in M!Unarchived <=>
               \/ \E q \in Records : adding[q] = "archive" /\ x \in M!Range(M!Dropped(q))
               \/ work = "archive" /\ x \in M!Unmerged
  <2> DEFINE U == UNION {M!Range(M!Dropped(r)) : r \in {q \in Records : adding[q] = "archive"}}
  <2>1. M!Unarchived = U \cup (IF work = "archive" THEN M!Unmerged ELSE {})
    BY DEF M!Unarchived
  <2>2. \A x : x \in U <=> \E q \in Records : adding[q] = "archive" /\ x \in M!Range(M!Dropped(q))
    OBVIOUS
  <2> HIDE DEF U
  <2>3. CASE work = "archive"
    <3>1. M!Unarchived = U \cup M!Unmerged
      BY <2>1, <2>3
    <3> QED
      BY <2>2, <2>3, <3>1
  <2>4. CASE work # "archive"
    <3>1. M!Unarchived = U
      BY <2>1, <2>4
    <3> QED
      BY <2>2, <2>4, <3>1
  <2> QED
    BY <2>3, <2>4
<1>2. \A x : x \in M!Unarchived' <=>
               \/ \E q \in Records : adding'[q] = "archive" /\ x \in M!Range(M!Dropped(q))'
               \/ work' = "archive" /\ x \in M!Unmerged'
  <2> DEFINE U == UNION {M!Range(M!Dropped(r))' : r \in {q \in Records : adding'[q] = "archive"}}
  <2>1. M!Unarchived' = U \cup (IF work' = "archive" THEN M!Unmerged' ELSE {})
    BY DEF M!Unarchived
  <2>2. \A x : x \in U <=> \E q \in Records : adding'[q] = "archive" /\ x \in M!Range(M!Dropped(q))'
    OBVIOUS
  <2> HIDE DEF U
  <2>3. CASE work' = "archive"
    <3>1. M!Unarchived' = U \cup M!Unmerged'
      BY <2>1, <2>3
    <3> QED
      BY <2>2, <2>3, <3>1
  <2>4. CASE work' # "archive"
    <3>1. M!Unarchived' = U
      BY <2>1, <2>4
    <3> QED
      BY <2>2, <2>4, <3>1
  <2> QED
    BY <2>3, <2>4
<1> QED
  BY <1>1, <1>2

\* Held in some places, held in more; and summaries are only added.
LEMMA HeldInMore ==
    ASSUME NEW P, NEW Q, P \subseteq Q, NEW s, NEW t, NEW r, Held(P, s, r),
           \A k \in DOMAIN s : k \in DOMAIN t /\ t[k] = s[k]
    PROVE  Held(Q, t, r)
BY DEF Held

\* A step that makes no summary keeps a record tracked, when what is safe stays safe, the
\* file keeps all it has or is written from what a trim has read, and what is read is the file.
LEMMA CarriesOn ==
    ASSUME NEW r \in Records, Tracked(r), summary' = summary, Safe \subseteq Safe',
           \/ M!Range(memory) \subseteq M!Range(memory') \cup Safe'
           \/ \E q \in Records : /\ adding[q] = "rewrite"
                                 /\ M!Range(beforeTrim[q]) \subseteq M!Range(memory') \cup Safe',
           \A q \in Records : adding'[q] = "rewrite" =>
               \/ adding[q] = "rewrite" /\ beforeTrim'[q] = beforeTrim[q]
               \/ beforeTrim'[q] = memory,
           work' \in {"lock", "rewrite"} =>
               (work \in {"lock", "rewrite"} /\ snapshot' = snapshot) \/ snapshot' = memory
    PROVE  Tracked(r)'
<1>1. ASSUME NEW P, NEW Q, P \subseteq Q \cup Safe', Held(P \cup Safe, summary, r)
      PROVE  Held(Q \cup Safe', summary', r)
  <2>1. P \cup Safe \subseteq Q \cup Safe'
    BY <1>1
  <2> HIDE DEF Safe
  <2> QED
    BY <1>1, <2>1, HeldInMore
<1> HIDE DEF Safe
<1>2. Held(M!Range(memory') \cup Safe', summary', r)
  <2>1. CASE M!Range(memory) \subseteq M!Range(memory') \cup Safe'
    BY <1>1, <2>1 DEF Tracked
  <2>2. CASE \E q \in Records : /\ adding[q] = "rewrite"
                                /\ M!Range(beforeTrim[q]) \subseteq M!Range(memory') \cup Safe'
    BY <1>1, <2>2 DEF Tracked
  <2> QED
    BY <2>1, <2>2
<1>3. ASSUME NEW q \in Records, adding'[q] = "rewrite"
      PROVE  Held(M!Range(beforeTrim'[q]) \cup Safe', summary', r)
  <2>1. M!Range(memory) \subseteq M!Range(memory) \cup Safe'
    OBVIOUS
  <2>2. M!Range(beforeTrim[q]) \subseteq M!Range(beforeTrim[q]) \cup Safe'
    OBVIOUS
  <2> QED
    BY <1>1, <1>3, <2>1, <2>2 DEF Tracked
<1>4. ASSUME work' \in {"lock", "rewrite"}
      PROVE  Held(M!Range(snapshot') \cup Safe', summary', r)
  <2>1. M!Range(memory) \subseteq M!Range(memory) \cup Safe'
    OBVIOUS
  <2>2. M!Range(snapshot) \subseteq M!Range(snapshot) \cup Safe'
    OBVIOUS
  <2> QED
    BY <1>1, <1>4, <2>1, <2>2 DEF Tracked
<1> QED
  BY <1>2, <1>3, <1>4 DEF Tracked

\* A trim takes a file apart in two.
LEMMA TrimIsWhole ==
    ASSUME Window \in Nat, beforeTrim \in [Records -> Seq(Nat)], NEW r \in Records
    PROVE  /\ M!Range(beforeTrim[r]) \subseteq M!Range(M!Kept(r)) \cup M!Range(M!Dropped(r))
           /\ M!Kept(r) \in Seq(Nat)
<1> DEFINE s == beforeTrim[r]
           n == Len(s)
<1>1. s \in Seq(Nat) /\ n \in Nat /\ DOMAIN s = 1..n
  OBVIOUS
<1>2. M!Kept(r) = (IF n > Window THEN SubSeq(s, n - Window + 1, n) ELSE s)
      /\ M!Dropped(r) = SubSeq(s, 1, n - Window)
  BY DEF M!Kept, M!Lasts, M!Dropped
<1> HIDE DEF s, n
<1>3. CASE n > Window
  <2> DEFINE d == n - Window
             a == SubSeq(s, 1, d)
             b == SubSeq(s, d + 1, n)
  <2>1. d \in 1..n
    BY <1>1, <1>3
  <2>2. b \in Seq(Nat) /\ Len(b) = n - d /\ \A i \in 1..(n - d) : b[i] = s[d + i]
    <3>1. s \in Seq(Nat) /\ d \in 0..Len(s)
      BY <1>1, <2>1 DEF n
    <3> HIDE DEF d
    <3> QED
      BY <3>1, DropFirst DEF n
  <2>3. DOMAIN a = 1..d /\ \A i \in 1..d : a[i] = s[i]
    BY <1>1, <2>1
  <2>4. M!Kept(r) = b /\ M!Dropped(r) = a
    BY <1>2, <1>3
  <2> HIDE DEF a, b, d
  <2>5. ASSUME NEW i \in 1..n PROVE s[i] \in M!Range(a) \cup M!Range(b)
    <3>1. CASE i <= d
      <4>1. i \in 1..d
        BY <1>1, <2>1, <3>1
      <4> QED
        BY <2>3, <4>1 DEF M!Range
    <3>2. CASE i > d
      <4>1. i - d \in 1..(n - d) /\ d + (i - d) = i /\ DOMAIN b = 1..(n - d)
        BY <1>1, <2>1, <2>2, <3>2
      <4> QED
        BY <2>2, <4>1 DEF M!Range
    <3> QED
      BY <2>1, <3>1, <3>2
  <2>6. M!Range(s) \subseteq M!Range(a) \cup M!Range(b)
    BY <1>1, <2>5 DEF M!Range
  <2> QED
    BY <2>2, <2>4, <2>6 DEF s
<1>4. CASE ~(n > Window)
  BY <1>1, <1>2, <1>4 DEF s
<1> QED
  BY <1>3, <1>4

\* An append puts its record into the file: nobody who will replace it has read it before,
\* unless the record is counted as exposed.
LEMMA AppendKeeps ==
    ASSUME MemoryTypes, KeptInv, NEW r \in Records, M!AppendPrimary(r)
    PROVE  KeptInv'
<1>0. MemoryVarTypes
  BY DEF KeptInv
<1>1. /\ memory' = Append(memory, r) /\ adding' = [adding EXCEPT ![r] = "daily"]
      /\ adding[r] = "new"
      /\ exposed' = IF M!Replacing THEN exposed \cup {r} ELSE exposed
      /\ UNCHANGED <<beforeTrim, archive, work, snapshot, summary, gone>>
  BY Zenon DEF M!AppendPrimary, M!Steps, M!compactVars
<1>2. r \in Nat
  BY DEF MemoryTypes
<1>3. MemoryVarTypes'
  BY <1>0, <1>1, <1>2 DEF MemoryVarTypes
<1>4. M!Range(memory) \subseteq M!Range(memory') /\ r \in M!Range(memory')
  <2>1. /\ DOMAIN memory = 1..Len(memory) /\ DOMAIN memory' = 1..(Len(memory) + 1)
        /\ Len(memory) \in Nat /\ memory'[Len(memory) + 1] = r
        /\ \A i \in 1..Len(memory) : memory'[i] = memory[i]
    <3>1. memory \in Seq(Nat) /\ memory' = Append(memory, r)
      BY <1>0, <1>1 DEF MemoryVarTypes
    <3> QED
      BY <1>2, <3>1
  <2> QED
    BY <2>1 DEF M!Range
<1>5. M!Unarchived \subseteq M!Unarchived'
  <2>1. \A q \in Records : adding[q] = "archive" => adding'[q] = "archive"
    BY <1>0, <1>1 DEF MemoryVarTypes
  <2>2. M!Unmerged' = M!Unmerged /\ \A q \in Records : M!Dropped(q)' = M!Dropped(q)
    BY <1>1 DEF M!Unmerged, M!ToCompact, M!Dropped
  <2> QED
    BY <1>1, <2>1, <2>2, UnarchivedIs
<1>6. Safe \subseteq Safe'
  BY <1>1, <1>5 DEF Safe
<1>7. \A q \in Records : adding'[q] = "rewrite" => adding[q] = "rewrite"
  BY <1>0, <1>1 DEF MemoryVarTypes
<1>8. ASSUME NEW q \in Records \ exposed', adding'[q] # "new" PROVE Tracked(q)'
  <2>1. CASE q = r
    <3>1. ~M!Replacing
      BY <1>1, <1>8, <2>1
    <3>2. /\ \A z \in Records : adding'[z] # "rewrite"
          /\ work' \notin {"lock", "rewrite"}
      BY <1>1, <1>7, <3>1 DEF M!Replacing
    <3> QED
      BY <1>4, <2>1, <3>2 DEF Tracked, Held
  <2>2. CASE q # r
    <3>1. adding[q] # "new" /\ q \notin exposed
      BY <1>0, <1>1, <1>8, <2>2 DEF MemoryVarTypes
    <3>2. Tracked(q)
      BY <3>1 DEF KeptInv
    <3> QED
      BY <1>1, <1>4, <1>6, <1>7, <3>2, CarriesOn
  <2> QED
    BY <2>1, <2>2
<1> QED
  BY <1>3, <1>8 DEF KeptInv

\* A step that appends and summarizes nothing keeps every record, as CarriesOn has it.
LEMMA CarryAll ==
    ASSUME KeptInv, MemoryVarTypes', summary' = summary, exposed' = exposed,
           \A q \in Records : adding'[q] # "new" => adding[q] # "new",
           Safe \subseteq Safe',
           \/ M!Range(memory) \subseteq M!Range(memory') \cup Safe'
           \/ \E q \in Records : /\ adding[q] = "rewrite"
                                 /\ M!Range(beforeTrim[q]) \subseteq M!Range(memory') \cup Safe',
           \A q \in Records : adding'[q] = "rewrite" =>
               \/ adding[q] = "rewrite" /\ beforeTrim'[q] = beforeTrim[q]
               \/ beforeTrim'[q] = memory,
           work' \in {"lock", "rewrite"} =>
               (work \in {"lock", "rewrite"} /\ snapshot' = snapshot) \/ snapshot' = memory
    PROVE  KeptInv'
<1>1. ASSUME NEW r \in Records \ exposed', adding'[r] # "new" PROVE Tracked(r)'
  <2>1. Tracked(r)
    BY <1>1 DEF KeptInv
  <2> QED
    BY <2>1, CarriesOn
<1> QED
  BY <1>1 DEF KeptInv

\* The rest of an append takes apart what it has read, and archives what it drops.
LEMMA TrimKeeps ==
    ASSUME MemoryTypes, KeptInv, NEW r \in Records, M!Add(r), ~M!AppendPrimary(r)
    PROVE  KeptInv'
<1> USE DEF M!Steps
<1>0. /\ DOMAIN adding = Records /\ memory \in Seq(Nat) /\ snapshot \in Seq(Nat)
      /\ beforeTrim \in [Records -> Seq(Nat)] /\ summary \in Seq(SUBSET Records)
  BY DEF KeptInv, MemoryVarTypes
<1>1. CASE M!AppendDaily(r) \/ M!ReadForTrim(r) \/ M!SyncAfterTrim(r)
  <2>1. /\ UNCHANGED <<memory, archive, work, snapshot, summary, gone, exposed>>
        /\ \/ beforeTrim' = beforeTrim /\ \E s \in {"done", "trim"} : adding' = [adding EXCEPT ![r] = s]
           \/ /\ beforeTrim' = [beforeTrim EXCEPT ![r] = memory]
              /\ \E s : adding' = [adding EXCEPT ![r] = s]
        /\ adding[r] \notin {"archive", "new"}
    BY <1>1 DEF M!AppendDaily, M!ReadForTrim, M!SyncAfterTrim, M!compactVars, M!fileVars, M!lossVars
  <2>2. MemoryVarTypes'
    BY <1>0, <2>1 DEF MemoryVarTypes
  <2>3. \A q \in Records : /\ q # r => adding'[q] = adding[q] /\ beforeTrim'[q] = beforeTrim[q]
                           /\ adding'[q] # "new" => adding[q] # "new"
    BY <1>0, <2>1
  <2>4. M!Unarchived \subseteq M!Unarchived'
    <3>1. \A q \in Records : adding[q] = "archive" => adding'[q] = "archive" /\ M!Dropped(q)' = M!Dropped(q)
      BY <2>1, <2>3 DEF M!Dropped
    <3>2. M!Unmerged' = M!Unmerged
      BY <2>1 DEF M!Unmerged, M!ToCompact
    <3> QED
      BY <2>1, <3>1, <3>2, UnarchivedIs
  <2>5. Safe \subseteq Safe'
    BY <2>1, <2>4 DEF Safe
  <2>6. ASSUME NEW q \in Records, adding'[q] = "rewrite"
        PROVE  (adding[q] = "rewrite" /\ beforeTrim'[q] = beforeTrim[q]) \/ beforeTrim'[q] = memory
    BY <1>0, <2>1, <2>3, <2>6
  <2> QED
    BY <2>1, <2>2, <2>3, <2>5, <2>6, CarryAll
<1>2. CASE M!Trim(r)
  <2>1. /\ memory' = M!Kept(r) /\ adding' = [adding EXCEPT ![r] = "archive"]
        /\ UNCHANGED <<beforeTrim, archive, work, snapshot, summary, gone, exposed>>
        /\ adding[r] = "rewrite"
    BY <1>2, Zenon DEF M!Trim, M!compactVars, M!lossVars
  <2>2. /\ M!Range(beforeTrim[r]) \subseteq M!Range(memory') \cup M!Range(M!Dropped(r))
        /\ memory' \in Seq(Nat)
    BY <1>0, <2>1, TrimIsWhole DEF MemoryTypes
  <2>3. MemoryVarTypes'
    BY <1>0, <2>1, <2>2 DEF MemoryVarTypes
  <2>4. M!Unarchived \cup M!Range(M!Dropped(r)) \subseteq M!Unarchived'
    <3>1. /\ adding'[r] = "archive"
          /\ \A q \in Records : adding[q] = "archive" => adding'[q] = "archive"
      BY <1>0, <2>1
    <3>2. M!Unmerged' = M!Unmerged /\ \A q \in Records : M!Dropped(q)' = M!Dropped(q)
      BY <2>1 DEF M!Unmerged, M!ToCompact, M!Dropped
    <3> QED
      BY <2>1, <3>1, <3>2, UnarchivedIs
  <2>5. Safe \cup M!Range(M!Dropped(r)) \subseteq Safe'
    BY <2>1, <2>4 DEF Safe
  <2>6. M!Range(beforeTrim[r]) \subseteq M!Range(memory') \cup Safe' /\ Safe \subseteq Safe'
    BY <2>2, <2>5
  <2>7. \A q \in Records : /\ adding'[q] = "rewrite" => adding[q] = "rewrite"
                           /\ adding'[q] # "new" => adding[q] # "new"
    BY <1>0, <2>1
  <2> QED
    BY <2>1, <2>3, <2>6, <2>7, CarryAll
<1>3. CASE M!ArchiveTrimmed(r)
  <2>1. /\ M!Range(M!Dropped(r)) \subseteq archive' \cup gone'
        /\ archive \subseteq archive' /\ gone \subseteq gone'
        /\ adding' = [adding EXCEPT ![r] = "sync"] /\ adding[r] = "archive"
        /\ UNCHANGED <<beforeTrim, memory, work, snapshot, summary, exposed>>
    BY <1>3 DEF M!ArchiveTrimmed, M!ToArchive, M!compactVars
  <2>2. MemoryVarTypes'
    BY <1>0, <2>1 DEF MemoryVarTypes
  <2>3. M!Unarchived \subseteq M!Unarchived' \cup archive' \cup gone'
    <3>1. \A q \in Records : adding[q] = "archive" => q = r \/ adding'[q] = "archive"
      BY <1>0, <2>1
    <3>2. M!Unmerged' = M!Unmerged /\ \A q \in Records : M!Dropped(q)' = M!Dropped(q)
      BY <2>1 DEF M!Unmerged, M!ToCompact, M!Dropped
    <3> QED
      BY <2>1, <3>1, <3>2, UnarchivedIs
  <2>4. Safe \subseteq Safe'
    BY <2>1, <2>3 DEF Safe
  <2>5. \A q \in Records : /\ adding'[q] = "rewrite" => adding[q] = "rewrite"
                           /\ adding'[q] # "new" => adding[q] # "new"
    BY <1>0, <2>1
  <2> QED
    BY <2>1, <2>2, <2>4, <2>5, CarryAll
<1> QED
  BY <1>1, <1>2, <1>3 DEF M!Add

\* What compaction takes from what it has read: the summary has no number of a record, what
\* is kept is what is not compactable, and what is merged is what is.
LEMMA RewriteParts ==
    ASSUME MemoryTypes, MemoryVarTypes
    PROVE  /\ \A k \in Nat \ {0} : M!SummaryNo(k) \in Nat /\ M!SummaryNo(k) \notin Compactable
           /\ M!ToKeep \in Seq(Nat)
           /\ \A x \in M!Range(snapshot) : x \notin Compactable => x \in M!Range(M!ToKeep)
           /\ \A fit \in 0..Len(M!SelectIn(snapshot, Compactable)) : M!Merged(fit) \in SUBSET Records
<1>1. \A k \in Nat \ {0} : M!SummaryNo(k) \in Nat /\ M!SummaryNo(k) \notin Compactable
  <2>1. M!Cardinality(Records) = Cardinality(Records)
    BY DEF M!Cardinality, Cardinality
  <2>2. \A k : M!SummaryNo(k) = k + Cardinality(Records)
    BY <2>1 DEF M!SummaryNo
  <2> DEFINE m == Cardinality(Records)
  <2>3. m \in Nat /\ Compactable \subseteq 1..m
    BY DEF MemoryTypes
  <2> HIDE DEF m
  <2>4. \A k \in Nat \ {0} : k + m \in Nat /\ k + m \notin Compactable
    BY <2>3
  <2> QED
    BY <2>2, <2>4 DEF m
<1>0. snapshot \in Seq(Nat) /\ DOMAIN snapshot = 1..Len(snapshot)
  BY DEF MemoryVarTypes
<1>2. /\ M!ToKeep \in Seq(Nat)
      /\ \A x \in M!Range(snapshot) : x \notin Compactable => x \in M!Range(M!ToKeep)
  <2> DEFINE S == M!Range(snapshot) \ Compactable
             kept == SelectIn(snapshot, S)
  <2>1. M!ToKeep = kept
    BY DEF M!ToKeep, M!SelectIn, SelectIn
  <2> HIDE DEF S
  <2>3. kept \in Seq(Nat)
    BY <1>0, SelectInElements
  <2>5. ASSUME NEW i \in 1..Len(snapshot), snapshot[i] \in S
        PROVE  \E j \in 1..Len(kept) : kept[j] = snapshot[i]
    BY <1>0, <2>5, SelectInHas, Zenon
  <2> HIDE DEF kept
  <2>4. DOMAIN kept = 1..Len(kept)
    BY <2>3
  <2> QED
    BY <2>1, <1>0, <2>3, <2>4, <2>5 DEF M!Range, S
<1>3. ASSUME NEW fit \in 0..Len(M!SelectIn(snapshot, Compactable))
      PROVE  M!Merged(fit) \in SUBSET Records
  <2> DEFINE old == SelectIn(snapshot, Compactable)
  <2>1. M!SelectIn(snapshot, Compactable) = old
    BY DEF M!SelectIn, SelectIn
  <2>2. ASSUME NEW i \in 1..Len(old) PROVE old[i] \in Compactable
    BY <1>0, <2>2, SelectInFrom
  <2>3. Len(old) \in Nat
    <3>1. old \in Seq(Nat)
      BY <1>0, SelectInElements
    <3> HIDE DEF old
    <3> QED
      BY <3>1
  <2>4. M!Merged(fit) = {old[i] : i \in 1..fit}
    BY <2>1 DEF M!Merged
  <2>5. fit \in 0..Len(old)
    BY <1>3, <2>1
  <2> HIDE DEF old
  <2>6. Compactable \subseteq Records
    BY DEF MemoryTypes
  <2> QED
    BY <2>2, <2>3, <2>4, <2>5, <2>6
<1> QED
  BY <1>1, <1>2, <1>3

\* What is put before something else is in the whole, and so is that.
LEMMA PutBefore ==
    ASSUME NEW no \in Nat, NEW keep \in Seq(Nat)
    PROVE  /\ <<no>> \o keep \in Seq(Nat) /\ no \in M!Range(<<no>> \o keep)
           /\ M!Range(keep) \subseteq M!Range(<<no>> \o keep)
<1> DEFINE joined == <<no>> \o keep
<1>1. /\ joined \in Seq(Nat) /\ DOMAIN joined = 1..(1 + Len(keep)) /\ Len(keep) \in Nat
      /\ joined[1] = no /\ \A i \in 1..Len(keep) : joined[1 + i] = keep[i]
      /\ DOMAIN keep = 1..Len(keep)
  OBVIOUS
<1> HIDE DEF joined
<1>2. \A i \in DOMAIN keep : 1 + i \in DOMAIN joined /\ joined[1 + i] = keep[i]
  BY <1>1
<1>3. 1 \in DOMAIN joined
  BY <1>1
<1>4. no \in M!Range(joined) /\ M!Range(keep) \subseteq M!Range(joined)
  BY <1>1, <1>2, <1>3 DEF M!Range
<1> QED
  BY <1>1, <1>4 DEF joined

\* Compaction puts the records it takes away into a summary, as far as they fit, and that
\* into the file; the others go to the archive next.
LEMMA RewriteKeeps ==
    ASSUME MemoryTypes, KeptInv, M!Rewrite
    PROVE  KeptInv'
<1>0. MemoryVarTypes
  BY DEF KeptInv
<1>1. PICK fit \in 0..Len(M!SelectIn(snapshot, Compactable)) : summary' = Append(summary, M!Merged(fit))
  BY DEF M!Rewrite
<1>2. /\ memory' = <<M!SummaryNo(Len(summary'))>> \o M!ToKeep
      /\ work = "rewrite" /\ work' = "archive"
      /\ UNCHANGED <<adding, beforeTrim, archive, snapshot, gone, exposed>>
  BY DEF M!Rewrite, M!lossVars
<1> DEFINE n == Len(summary) + 1
           no == M!SummaryNo(n)
<1>3. /\ summary' \in Seq(SUBSET Records) /\ Len(summary') = n /\ n \in Nat \ {0}
      /\ summary'[n] = M!Merged(fit)
      /\ \A k \in DOMAIN summary : k \in DOMAIN summary' /\ summary'[k] = summary[k] /\ k \in Nat \ {0}
      /\ n \in DOMAIN summary'
  <2>1. M!Merged(fit) \in SUBSET Records /\ summary \in Seq(SUBSET Records)
    BY <1>0, RewriteParts DEF MemoryVarTypes
  <2> HIDE DEF M!Merged
  <2> QED
    BY <1>1, <2>1
<1> HIDE DEF n
<1>4. /\ memory' \in Seq(Nat) /\ no \in M!Range(memory')
      /\ \A x \in M!Range(snapshot) : x \notin Compactable => x \in M!Range(memory')
  <2>1. no \in Nat /\ M!ToKeep \in Seq(Nat)
    BY <1>0, <1>3, RewriteParts
  <2>2. memory' = <<no>> \o M!ToKeep
    BY <1>2, <1>3
  <2>3. \A x \in M!Range(snapshot) : x \notin Compactable => x \in M!Range(M!ToKeep)
    BY <1>0, RewriteParts
  <2> HIDE DEF no
  <2> QED
    BY <2>1, <2>2, <2>3, PutBefore
<1>5. MemoryVarTypes'
  BY <1>0, <1>2, <1>3, <1>4 DEF MemoryVarTypes
<1>6. \A x \in M!Unmerged' : x \in M!Unarchived'
  BY <1>2, UnarchivedIs
<1>7. M!Unarchived \subseteq M!Unarchived'
  <2>1. \A q \in Records : M!Dropped(q)' = M!Dropped(q)
    BY <1>2 DEF M!Dropped
  <2> QED
    BY <1>2, <2>1, UnarchivedIs
<1>8. Safe \subseteq Safe' /\ M!Unmerged' \subseteq Safe'
  BY <1>2, <1>6, <1>7 DEF Safe
<1>9a. M!ToCompact' = M!Range(snapshot) \cap Compactable
  BY <1>2 DEF M!ToCompact
<1>9b. \A x \in M!Range(snapshot) \cap Compactable : x \notin M!Merged(fit) => x \in M!Unmerged'
  BY <1>3, <1>9a DEF M!Unmerged
<1> HIDE DEF no, Safe
<1>9. ASSUME NEW r \in Records, Tracked(r) PROVE Tracked(r)'
  <2>1. Held(M!Range(snapshot) \cup Safe, summary, r)
    BY <1>2, <1>9 DEF Tracked
  <2>2. ASSUME NEW x \in M!Range(snapshot) \cup Safe, x \notin Compactable
        PROVE  x \in M!Range(memory') \cup Safe'
    BY <1>4, <1>8, <2>2
  <2>3. ASSUME r \in M!Range(snapshot), r \in Compactable
        PROVE  Held(M!Range(memory') \cup Safe', summary', r)
    <3>1. r \in M!Merged(fit) => Held(M!Range(memory') \cup Safe', summary', r)
      BY <1>3, <1>4 DEF Held, no
    <3>2. r \notin M!Merged(fit) => r \in Safe'
      BY <1>8, <1>9b, <2>3
    <3>3. r \in Safe' => Held(M!Range(memory') \cup Safe', summary', r)
      BY DEF Held
    <3> QED
      BY <3>1, <3>2, <3>3
  <2>4. ASSUME r \in M!Range(snapshot) \cup Safe,
               ~(r \in M!Range(snapshot) /\ r \in Compactable)
        PROVE  Held(M!Range(memory') \cup Safe', summary', r)
    <3>1. r \in M!Range(memory') \cup Safe'
      BY <1>4, <1>8, <2>4
    <3> QED
      BY <3>1 DEF Held
  <2>5. ASSUME r \notin M!Range(snapshot) \cup Safe
        PROVE  Held(M!Range(memory') \cup Safe', summary', r)
    <3>1. PICK k \in DOMAIN summary : M!SummaryNo(k) \in M!Range(snapshot) \cup Safe /\ r \in summary[k]
      BY <2>1, <2>5 DEF Held
    <3>2. M!SummaryNo(k) \in M!Range(memory') \cup Safe'
      BY <1>0, <1>3, <2>2, <3>1, RewriteParts
    <3> QED
      BY <1>3, <3>1, <3>2 DEF Held
  <2>6. Held(M!Range(memory') \cup Safe', summary', r)
    BY <2>3, <2>4, <2>5, Zenon
  <2>7. ASSUME NEW q \in Records, adding'[q] = "rewrite"
        PROVE  Held(M!Range(beforeTrim'[q]) \cup Safe', summary', r)
    <3>1. Held(M!Range(beforeTrim[q]) \cup Safe, summary, r)
      BY <1>2, <1>9, <2>7 DEF Tracked
    <3>2. M!Range(beforeTrim[q]) \cup Safe \subseteq M!Range(beforeTrim'[q]) \cup Safe'
      BY <1>2, <1>8
    <3> HIDE DEF Safe
    <3> QED
      BY <1>3, <3>1, <3>2, HeldInMore
  <2> QED
    BY <1>2, <2>6, <2>7 DEF Tracked
<1> QED
  BY <1>2, <1>5, <1>9 DEF KeptInv

\* The other steps of compaction, and of the index, move nothing or copy it.
LEMMA CompactKeeps ==
    ASSUME MemoryTypes, KeptInv, (M!Compact /\ ~M!Rewrite) \/ M!Recall \/ UNCHANGED M!memoryVars
    PROVE  KeptInv'
<1> USE DEF M!fileVars, M!compactVars, M!lossVars
<1>0. MemoryVarTypes
  BY DEF KeptInv
<1>1. CASE M!ReadForCompaction
  <2>1. /\ UNCHANGED <<adding, beforeTrim, archive, memory, gone, summary, exposed>>
        /\ snapshot' = memory /\ work = "idle" /\ work' = "lock"
    BY <1>1 DEF M!ReadForCompaction
  <2>2. MemoryVarTypes'
    BY <1>0, <2>1 DEF MemoryVarTypes
  <2>3. \A q \in Records : M!Dropped(q)' = M!Dropped(q)
    BY <2>1 DEF M!Dropped
  <2>4. Safe \subseteq Safe'
    BY <2>1, <2>3, UnarchivedIs DEF Safe
  <2> QED
    BY <2>1, <2>2, <2>4, CarryAll
<1>2. CASE M!ArchiveCompacted
  <2>1. /\ UNCHANGED <<adding, beforeTrim, memory, snapshot, summary, exposed>>
        /\ work = "archive" /\ work' = "summarize"
        /\ M!Unmerged \subseteq archive' \cup gone'
        /\ archive \subseteq archive' /\ gone \subseteq gone'
    BY <1>2 DEF M!ArchiveCompacted, M!ToArchive, M!Unmerged
  <2>2. MemoryVarTypes'
    BY <1>0, <2>1 DEF MemoryVarTypes
  <2>3. \A q \in Records : M!Dropped(q)' = M!Dropped(q)
    BY <2>1 DEF M!Dropped
  <2>4. M!Unarchived \subseteq M!Unarchived' \cup archive' \cup gone'
    BY <2>1, <2>3, UnarchivedIs
  <2>5. Safe \subseteq Safe'
    BY <2>1, <2>4 DEF Safe
  <2> QED
    BY <2>1, <2>2, <2>5, CarryAll
<1>3. CASE \/ M!AcquireLock \/ M!NothingToCompact \/ M!WriteLongMemory \/ M!SyncAfterCompaction
           \/ M!Unlock \/ M!Recall \/ UNCHANGED M!memoryVars
  <2>1. /\ UNCHANGED <<adding, beforeTrim, archive, memory, gone, summary, exposed, snapshot>>
        /\ work' = work \/ (work # "archive" /\ work' # "archive")
        /\ work' \in {"lock", "rewrite"} => work \in {"lock", "rewrite"}
    BY <1>3 DEF M!AcquireLock, M!NothingToCompact, M!WriteLongMemory, M!SyncAfterCompaction,
                M!Unlock, M!Recall, M!memoryVars
  <2>2. MemoryVarTypes'
    BY <1>0, <2>1 DEF MemoryVarTypes
  <2>3. M!Unmerged' = M!Unmerged /\ \A q \in Records : M!Dropped(q)' = M!Dropped(q)
    BY <2>1 DEF M!Unmerged, M!ToCompact, M!Dropped
  <2>4. Safe \subseteq Safe'
    BY <2>1, <2>3, UnarchivedIs DEF Safe
  <2> QED
    BY <2>1, <2>2, <2>4, CarryAll
<1> QED
  BY <1>1, <1>2, <1>3 DEF M!Compact

\* A death costs what was not archived yet, and the file if it is being written.
LEMMA DieKeeps ==
    ASSUME MemoryTypes, KeptInv, M!Die
    PROVE  KeptInv'
<1>0. MemoryVarTypes
  BY DEF KeptInv
<1>1. /\ UNCHANGED <<beforeTrim, archive, snapshot, summary, exposed>>
      /\ adding' = [r \in Records |-> IF r \in M!Interrupted THEN "done" ELSE adding[r]]
      /\ M!Unarchived \cup gone \subseteq gone'
      /\ memory' = memory \/ (memory' = <<>> /\ M!Range(memory) \subseteq gone')
      /\ work' = "idle"
  BY DEF M!Die
<1>2. Safe \subseteq Safe' /\ gone' \subseteq Safe'
  BY <1>1 DEF Safe
<1>3. MemoryVarTypes'
  <2>1. memory' \in Seq(Nat)
    <3>1. memory \in Seq(Nat) /\ <<>> \in Seq(Nat)
      BY <1>0 DEF MemoryVarTypes
    <3> QED
      BY <1>1, <3>1
  <2> QED
    BY <1>0, <1>1, <2>1 DEF MemoryVarTypes
<1>4. \A q \in Records : /\ adding'[q] # "rewrite"
                         /\ adding'[q] # "new" => adding[q] # "new"
  BY <1>1 DEF M!Interrupted
<1>5. M!Range(memory) \subseteq M!Range(memory') \cup Safe'
  BY <1>1, <1>2
<1> QED
  BY <1>1, <1>2, <1>3, <1>4, <1>5, CarryAll

\* Whether there is an archive or not, and however appends, trims, compactions and deaths
\* follow and overlap each other: a record whose append did not fall between a rewriter's
\* reading and its writing is in a file or on its way to one, itself or in a summary, or was
\* given up for want of an archive or by a death.  Records are numbered from 1.
THEOREM RecordsAreKept == MemoryTypes => (M!Spec => []EveryRecordIsKept)
<1> SUFFICES ASSUME MemoryTypes PROVE M!Spec => []EveryRecordIsKept
  OBVIOUS
<1>1. M!Init => KeptInv
  <2> SUFFICES ASSUME M!Init PROVE KeptInv
    OBVIOUS
  <2>1. <<>> \in Seq(Nat) /\ <<>> \in Seq(SUBSET Records)
    OBVIOUS
  <2>2. adding = [r \in Records |-> "new"] /\ beforeTrim = [r \in Records |-> <<>>]
        /\ memory = <<>> /\ snapshot = <<>> /\ summary = <<>>
    BY DEF M!Init
  <2>3. DOMAIN adding = Records /\ \A r \in Records : adding[r] = "new"
    BY <2>2
  <2>4. beforeTrim \in [Records -> Seq(Nat)]
    BY <2>1, <2>2
  <2> QED
    BY <2>1, <2>2, <2>3, <2>4 DEF KeptInv, MemoryVarTypes
<1>2. KeptInv /\ [M!Next]_M!memoryVars => KeptInv'
  <2> SUFFICES ASSUME KeptInv, [M!Next]_M!memoryVars PROVE KeptInv'
    OBVIOUS
  <2>1. ASSUME NEW r \in Records, M!Add(r) PROVE KeptInv'
    BY <2>1, AppendKeeps, TrimKeeps
  <2>2. CASE M!Rewrite
    BY <2>2, RewriteKeeps
  <2>3. CASE (M!Compact /\ ~M!Rewrite) \/ M!Recall \/ UNCHANGED M!memoryVars
    BY <2>3, CompactKeeps
  <2>4. CASE M!Die
    BY <2>4, DieKeeps
  <2> QED
    BY <2>1, <2>2, <2>3, <2>4 DEF M!Next
<1>3. KeptInv => EveryRecordIsKept
  BY DEF KeptInv, Tracked, Held, Safe, EveryRecordIsKept, M!EveryRecordIsKept, M!Holds
<1> QED
  BY <1>1, <1>2, <1>3, PTL DEF M!Spec
-----------------------------------------------------------------------------
\* PromptAssembly.

\* What a message costs a model.
Cost == [m \in Prompt!Message |-> Prompt!Tokens(m)]

\* The total of a prompt is what its messages cost.
LEMMA TotalIsCost == Cost \in [Prompt!Message -> Nat] /\ \A q : Prompt!Total(q) = Weight(q, Cost)
<1>1. ASSUME NEW m \in Prompt!Message PROVE Prompt!Tokens(m) \in Nat
  <2>1. m.size \in Nat
    BY DEF Prompt!Message
  <2> QED
    BY <2>1 DEF Prompt!Tokens
<1>2. \A q : Prompt!Total(q) = Weight(q, Cost)
  BY DEF Prompt!Total, Prompt!Weight, Weight, Cost
<1> QED
  BY <1>1, <1>2 DEF Cost

\* The filter of PromptAssembly is the one of Filters.
LEMMA PromptSelects == \A q, S : Prompt!SelectIn(q, S) = SelectIn(q, S)
BY DEF Prompt!SelectIn, SelectIn

\* The cost of two sequences, and of one more message.
LEMMA CostOfBoth ==
    ASSUME NEW q \in Seq(Prompt!Message), NEW r \in Seq(Prompt!Message)
    PROVE  /\ Prompt!Total(q) \in Nat
           /\ Prompt!Total(q \o r) = Prompt!Total(q) + Prompt!Total(r)
BY TotalIsCost, WeightType, WeightConcat

\* No two messages are about the same.
Apart(q) == \A i, j \in 1..Len(q) : q[i].what = q[j].what => i = j

\* What r is about, q is about also.
About(r, q) == \A i \in 1..Len(r) : \E j \in 1..Len(q) : r[i].what = q[j].what

Portion == [out : Seq(Prompt!Message), left : Nat]

\* A portion stays one, and gets nothing but the message that it takes.
LEMMA TakesPortion ==
    ASSUME PromptConstants, NEW acc \in Portion, NEW m \in Prompt!Message
    PROVE  /\ Prompt!Take(acc, m) \in Portion
           /\ \/ Prompt!Take(acc, m).out = acc.out
              \/ \E x \in Prompt!Message : x.what = m.what /\ x.role = m.role /\ x.no = m.no
                                           /\ Prompt!Take(acc, m).out = Append(acc.out, x)
<1> DEFINE n == Prompt!Least(m.size, Prompt!Least(PerMessageMax, acc.left))
<1>1. m.size \in Nat /\ acc.left \in Nat /\ PerMessageMax \in Nat /\ acc.out \in Seq(Prompt!Message)
  BY DEF Prompt!Message, Portion, PromptConstants
<1>2. n \in Nat /\ n <= acc.left
  BY <1>1 DEF Prompt!Least
<1>3. Prompt!Take(acc, m) = IF n = 0 THEN acc
                            ELSE [out |-> Append(acc.out, [m EXCEPT !.size = n]),
                                  left |-> acc.left - n]
  BY DEF Prompt!Take
<1>4. /\ [m EXCEPT !.size = n] \in Prompt!Message
      /\ [m EXCEPT !.size = n].what = m.what
      /\ [m EXCEPT !.size = n].role = m.role
      /\ [m EXCEPT !.size = n].no = m.no
  BY <1>2 DEF Prompt!Message
<1> HIDE DEF n
<1>5. CASE n = 0
  BY <1>3, <1>5
<1>6. CASE n # 0
  <2> DEFINE x == [m EXCEPT !.size = n]
  <2>1. Append(acc.out, x) \in Seq(Prompt!Message) /\ acc.left - n \in Nat
    BY <1>1, <1>2, <1>4
  <2>2. Prompt!Take(acc, m) = [out |-> Append(acc.out, x), left |-> acc.left - n]
    BY <1>3, <1>6
  <2> HIDE DEF x
  <2>3. Prompt!Take(acc, m) \in Portion /\ Prompt!Take(acc, m).out = Append(acc.out, x)
    BY <2>1, <2>2 DEF Portion
  <2> QED
    BY <1>4, <2>3 DEF x
<1> QED
  BY <1>5, <1>6

\* The budget leaves messages about what they were about, and none of them twice.
LEMMA BoundedKeeps ==
    ASSUME PromptConstants, NEW q \in Seq(Prompt!Message)
    PROVE  /\ Prompt!Bounded(q) \in Seq(Prompt!Message)
           /\ About(Prompt!Bounded(q), q)
           /\ Apart(q) => Apart(Prompt!Bounded(q))
<1> DEFINE n == Len(q)
           a == [out |-> <<>>, left |-> Prompt!TotalBudget]
           Step(i, v) == Prompt!Take(v, q[i])
           F == [p \in (1..n) \X Portion |-> Step(p[1], p[2])]
           Is(g) == g = [i \in 0..n |-> IF i = 0 THEN a ELSE Step(i, g[i - 1])]
           f == CHOOSE g : Is(g)
<1>1. n \in Nat /\ \A i \in 1..n : q[i] \in Prompt!Message
  OBVIOUS
<1>2. Prompt!Bounded(q) = f[n].out
  BY DEF Prompt!Bounded
<1>3. a \in Portion
  BY DEF Prompt!TotalBudget, Portion, PromptConstants
<1> HIDE DEF n, a
<1>4. ASSUME NEW i \in 1..n, NEW v \in Portion PROVE Step(i, v) \in Portion
  BY <1>1, TakesPortion
<1>5. F \in [(1..n) \X Portion -> Portion]
  <2> HIDE DEF Step
  <2>1. ASSUME NEW p \in (1..n) \X Portion PROVE Step(p[1], p[2]) \in Portion
    BY <1>4
  <2> QED
    BY <2>1
<1>6. PICK g \in [0..n -> Portion] : g[0] = a /\ \A i \in 1..n : g[i] = F[<<i, g[i - 1]>>]
  <2> HIDE DEF F
  <2>1. \E g \in [0..n -> Portion] : Recurs(g, n, a, F)
    BY <1>1, <1>3, <1>5, Recursion
  <2> QED
    BY <2>1 DEF Recurs
<1> HIDE DEF Step
<1>7. ASSUME NEW i \in 0..n PROVE g[i] = IF i = 0 THEN a ELSE Step(i, g[i - 1])
  <2>1. CASE i = 0
    BY <1>6, <2>1
  <2>2. CASE i # 0
    <3>1. i \in 1..n /\ g[i - 1] \in Portion
      BY <1>1, <1>6, <2>2
    <3>2. F[<<i, g[i - 1]>>] = Step(i, g[i - 1])
      BY <3>1
    <3> QED
      BY <1>6, <2>2, <3>1, <3>2
  <2> QED
    BY <2>1, <2>2
<1>8. Is(g)
  BY <1>6, <1>7
<1>9. Is(f)
  <2>1. \E h : Is(h)
    BY <1>8
  <2> HIDE DEF Is
  <2> QED
    BY <2>1
<1> HIDE DEF f
<1>10. f[0] = a /\ \A i \in 1..n : f[i] = Step(i, f[i - 1])
  BY <1>1, <1>9
<1> DEFINE Fine(v, k) ==
               /\ v \in Portion
               /\ \A i \in 1..Len(v.out) : \E j \in 1..k : v.out[i].what = q[j].what
               /\ Apart(q) => Apart(v.out)
           E == {i \in 0..n : Fine(f[i], i)}
<1>11. 0 \in E
  <2>1. a.out = <<>> /\ Len(a.out) = 0
    BY DEF a
  <2>2. Fine(a, 0)
    BY <1>3, <2>1 DEF Apart
  <2> QED
    BY <1>1, <1>10, <2>2
<1>12. ASSUME NEW i \in 1..n, i - 1 \in E PROVE i \in E
  <2> DEFINE u == f[i - 1]
             v == f[i]
  <2>1. Fine(u, i - 1)
    BY <1>12
  <2>2. v = Prompt!Take(u, q[i])
    BY <1>10 DEF Step
  <2>3. q[i] \in Prompt!Message /\ i \in Nat /\ i - 1 \in Nat
    BY <1>1
  <2> HIDE DEF u, v
  <2>4. v \in Portion /\ u \in Portion
    BY <2>1, <2>2, <2>3, TakesPortion
  <2>5. u.out \in Seq(Prompt!Message) /\ Len(u.out) \in Nat
    BY <2>4 DEF Portion
  <2>6. ASSUME v.out = u.out PROVE Fine(v, i)
    BY <2>1, <2>3, <2>4, <2>6
  <2>7. ASSUME v.out # u.out PROVE Fine(v, i)
    <3>1. PICK x \in Prompt!Message : x.what = q[i].what /\ v.out = Append(u.out, x)
      BY <2>2, <2>3, <2>4, <2>7, TakesPortion
    <3>2. /\ Len(v.out) = Len(u.out) + 1 /\ v.out[Len(u.out) + 1] = x
          /\ \A j \in 1..Len(u.out) : v.out[j] = u.out[j]
      BY <2>5, <3>1
    <3>3. ASSUME NEW j \in 1..Len(v.out)
          PROVE  \E k \in 1..i : v.out[j].what = q[k].what
      <4>1. CASE j = Len(u.out) + 1
        BY <2>3, <3>1, <3>2, <4>1
      <4>2. CASE j # Len(u.out) + 1
        <5>1. j \in 1..Len(u.out) /\ v.out[j] = u.out[j]
          BY <2>5, <3>2, <4>2
        <5>2. PICK k \in 1..(i - 1) : u.out[j].what = q[k].what
          BY <2>1, <5>1
        <5> QED
          BY <2>3, <5>1, <5>2
      <4> QED
        BY <4>1, <4>2
    <3>4. ASSUME Apart(q) PROVE Apart(v.out)
      <4>1. \A j \in 1..Len(u.out) : u.out[j].what # x.what
        <5> SUFFICES ASSUME NEW j \in 1..Len(u.out), u.out[j].what = x.what PROVE FALSE
          OBVIOUS
        <5>1. PICK k \in 1..(i - 1) : u.out[j].what = q[k].what
          BY <2>1
        <5>2. k \in 1..n /\ k # i /\ q[k].what = q[i].what
          BY <1>1, <2>3, <3>1, <5>1
        <5> QED
          BY <3>4, <5>2 DEF Apart, n
      <4>2. Apart(u.out)
        BY <2>1, <3>4
      <4>3. ASSUME NEW j \in 1..Len(v.out), NEW k \in 1..Len(v.out),
                   v.out[j].what = v.out[k].what
            PROVE  j = k
        <5> DEFINE m == Len(u.out) + 1
        <5>1. \A l \in 1..Len(v.out) : l = m \/ l \in 1..Len(u.out)
          BY <2>5, <3>2
        <5>2. \A l \in 1..Len(u.out) : v.out[l] = u.out[l] /\ v.out[l].what # v.out[m].what
          BY <3>2, <4>1
        <5> HIDE DEF m
        <5>3. CASE j \in 1..Len(u.out) /\ k \in 1..Len(u.out)
          BY <4>2, <4>3, <5>2, <5>3 DEF Apart
        <5> QED
          BY <4>3, <5>1, <5>2, <5>3
      <4> QED
        BY <4>3 DEF Apart
    <3> QED
      BY <2>4, <3>3, <3>4
  <2>8. Fine(v, i)
    BY <2>6, <2>7
  <2> HIDE DEF Fine
  <2> QED
    BY <1>1, <2>8 DEF v
<1>13. n \in E
  <2> HIDE DEF E
  <2>1. \A i \in 0..n : i \in E
    BY <1>1, <1>11, <1>12, UpTo
  <2> QED
    BY <1>1, <2>1
<1>14. Fine(f[n], n)
  BY <1>13
<1> QED
  BY <1>2, <1>14 DEF Portion, About, n

\* The parts of a prompt are about what they are named for, and each is there once.
LEMMA PartsAreNamed ==
    ASSUME PromptConstants, NEW names \in Seq(Prompt!PartNames),
           \A i, j \in 1..Len(names) : names[i] = names[j] => i = j
    PROVE  /\ Prompt!Parts(names) \in Seq(Prompt!Message)
           /\ Apart(Prompt!Parts(names))
           /\ \A i \in 1..Len(Prompt!Parts(names)) :
                  \E j \in 1..Len(names) : Prompt!Parts(names)[i].what = names[j]
<1> DEFINE S == {what \in Prompt!PartNames : PartSize[what] > 0}
           q == SelectIn(names, S)
           parts == [i \in 1..Len(q) |-> Prompt!Part(q[i])]
<1>1. Prompt!Parts(names) = parts
  BY PromptSelects DEF Prompt!Parts
<1>2. q \in Seq(Prompt!PartNames) /\ \A i, j \in 1..Len(q) : q[i] = q[j] => i = j
  <2> HIDE DEF S
  <2>1. q \in Seq(Prompt!PartNames)
    BY SelectInElements
  <2>2. \A i, j \in 1..Len(q) : q[i] = q[j] => i = j
    BY SelectInDistinct
  <2> QED
    BY <2>1, <2>2
<1>3. ASSUME NEW i \in 1..Len(q) PROVE \E j \in 1..Len(names) : names[j] = q[i]
  <2> HIDE DEF S
  <2> QED
    BY SelectInFrom
<1> HIDE DEF q, S
<1>4. Len(q) \in Nat /\ \A i \in 1..Len(q) : q[i] \in Prompt!PartNames
  BY <1>2
<1>5. ASSUME NEW what \in Prompt!PartNames
      PROVE  Prompt!Part(what) \in Prompt!Message /\ Prompt!Part(what).what = what
  <2>1. PartSize[what] \in Nat
    BY DEF PromptConstants
  <2> QED
    BY <2>1 DEF Prompt!Part, Prompt!Message, Prompt!Roles
<1>6. parts \in Seq(Prompt!Message) /\ Len(parts) = Len(q)
      /\ \A i \in 1..Len(parts) : parts[i].what = q[i]
  <2>1. \A i \in 1..Len(q) : Prompt!Part(q[i]) \in Prompt!Message /\ Prompt!Part(q[i]).what = q[i]
    BY <1>4, <1>5
  <2>2. parts \in [1..Len(q) -> Prompt!Message]
    BY <2>1
  <2>3. \A i \in 1..Len(q) : parts[i].what = q[i]
    BY <2>1
  <2> DEFINE n == Len(q)
  <2>4. n \in Nat /\ parts \in [1..n -> Prompt!Message]
    BY <1>4, <2>2
  <2> HIDE DEF parts, n
  <2>5. parts \in Seq(Prompt!Message) /\ Len(parts) = n
    BY <2>4
  <2> QED
    BY <2>3, <2>5 DEF n
<1> HIDE DEF parts
<1> QED
  BY <1>1, <1>2, <1>3, <1>6 DEF Apart

\* Two sequences of messages about different things make one.
LEMMA ApartTogether ==
    ASSUME NEW q \in Seq(Prompt!Message), NEW r \in Seq(Prompt!Message), Apart(q), Apart(r),
           \A i \in 1..Len(q), j \in 1..Len(r) : q[i].what # r[j].what
    PROVE  /\ q \o r \in Seq(Prompt!Message) /\ Apart(q \o r)
           /\ \A i \in 1..Len(q \o r) : \/ \E j \in 1..Len(q) : (q \o r)[i] = q[j]
                                        \/ \E j \in 1..Len(r) : (q \o r)[i] = r[j]
<1> DEFINE n == Len(q)
           k == Len(r)
           a == q \o r
<1>1. /\ n \in Nat /\ k \in Nat /\ a \in Seq(Prompt!Message) /\ Len(a) = n + k
      /\ \A i \in 1..n : a[i] = q[i]
      /\ \A i \in 1..k : a[n + i] = r[i]
  OBVIOUS
<1> HIDE DEF a, n, k
<1>2. ASSUME NEW i \in 1..Len(a)
      PROVE  \/ i \in 1..n /\ a[i] = q[i]
             \/ i - n \in 1..k /\ a[i] = r[i - n]
  <2>1. CASE i <= n
    BY <1>1, <2>1
  <2>2. CASE ~(i <= n)
    <3>1. i - n \in 1..k /\ n + (i - n) = i
      BY <1>1, <2>2
    <3> QED
      BY <1>1, <3>1
  <2> QED
    BY <2>1, <2>2
<1>3. ASSUME NEW i \in 1..Len(a), NEW j \in 1..Len(a), a[i].what = a[j].what PROVE i = j
  <2>1. CASE i \in 1..n /\ j \in 1..n
    BY <1>1, <1>3, <2>1 DEF Apart, n
  <2>2. CASE i - n \in 1..k /\ a[i] = r[i - n] /\ j - n \in 1..k /\ a[j] = r[j - n]
    <3>1. i - n = j - n
      BY <1>3, <2>2 DEF Apart, k
    <3> QED
      BY <1>1, <3>1
  <2>3. CASE i \in 1..n /\ a[i] = q[i] /\ j - n \in 1..k /\ a[j] = r[j - n]
    BY <1>3, <2>3 DEF n, k
  <2>4. CASE j \in 1..n /\ a[j] = q[j] /\ i - n \in 1..k /\ a[i] = r[i - n]
    BY <1>3, <2>4 DEF n, k
  <2> QED
    BY <1>2, <2>1, <2>2, <2>3, <2>4
<1> QED
  BY <1>1, <1>2, <1>3 DEF Apart, a, n, k

\* The messages of the conversation that a prompt has, the last of them whatever it leaves out.
LEMMA UserMessagesAre ==
    ASSUME PromptConstants, NEW r \in PromptRequests
    PROVE  /\ Prompt!UserMessages(r) \in Seq(Prompt!Message)
           /\ r.messages # 0 => Len(Prompt!UserMessages(r)) # 0
           /\ \A i \in 1..Len(Prompt!UserMessages(r)) : Prompt!UserMessages(r)[i].what = "message"
           /\ \A i, j \in 1..Len(Prompt!UserMessages(r)) :
                  Prompt!UserMessages(r)[i] = Prompt!UserMessages(r)[j] => i = j
<1> DEFINE n == IF Prompt!MinimalContext(r) THEN 1 ELSE Prompt!Least(MaxRetained, r.messages)
           first == r.messages - n
           Role(i) == IF (r.messages - first - i) % 2 = 0 THEN "user" ELSE "assistant"
           Chars(i) == UserSize + IF i = n /\ Prompt!MinimalSystem(r) THEN PartSize.instead ELSE 0
           M1(i) == [role |-> Role(i), what |-> "message", no |-> first + i, size |-> Chars(i)]
           u == [i \in 1..n |-> M1(i)]
<1>1. Prompt!UserMessages(r) = u
  BY DEF Prompt!UserMessages
<1>2. /\ r.messages \in Nat /\ MaxRetained \in Nat \ {0} /\ UserSize \in Nat
      /\ PartSize.instead \in Nat
  BY DEF PromptConstants, Prompt!PartNames
<1>3. n \in Nat /\ n <= r.messages /\ (r.messages # 0 => n # 0)
  <2>1. Prompt!MinimalContext(r) => r.messages > 0
    BY DEF Prompt!MinimalContext
  <2> QED
    BY <1>2, <2>1 DEF Prompt!Least
<1> HIDE DEF n
<1>4. ASSUME NEW i \in 1..n PROVE M1(i) \in Prompt!Message
  <2>1. first + i \in Nat
    BY <1>2, <1>3
  <2>2. Chars(i) \in Nat
    BY <1>2
  <2>3. Role(i) \in Prompt!Roles
    BY DEF Prompt!Roles
  <2> HIDE DEF Role, Chars, first
  <2> QED
    BY <2>1, <2>2, <2>3 DEF Prompt!Message
<1>5. u \in Seq(Prompt!Message) /\ Len(u) = n
  <2> HIDE DEF M1
  <2>1. u \in [1..n -> Prompt!Message]
    BY <1>4
  <2> HIDE DEF u
  <2> QED
    BY <1>3, <2>1
<1>6. \A i \in 1..n : u[i].what = "message" /\ u[i].no = first + i
  <2> HIDE DEF Role, Chars, first
  <2> QED
    OBVIOUS
<1>7. ASSUME NEW i \in 1..n, NEW j \in 1..n, u[i] = u[j] PROVE i = j
  <2>1. first + i = first + j /\ first \in Int /\ i \in Int /\ j \in Int
    <3>1. u[i].no = first + i /\ u[j].no = first + j
      BY <1>6
    <3>2. first \in Int
      BY <1>2, <1>3
    <3> HIDE DEF first, u
    <3> QED
      BY <1>3, <1>7, <3>1, <3>2
  <2> HIDE DEF first
  <2> QED
    BY <2>1
<1> HIDE DEF u
<1> QED
  BY <1>1, <1>3, <1>5, <1>6, <1>7

\* The cost of what is left of a prompt and of the message before it.
LEMMA CostOfRest ==
    ASSUME NEW q \in Seq(Prompt!Message), NEW m \in 1..Len(q)
    PROVE  /\ Prompt!From(q, m) \in Seq(Prompt!Message)
           /\ Len(Prompt!From(q, m)) = Len(q) - m + 1
           /\ \A i \in m..Len(q) : Prompt!From(q, m)[i - m + 1] = q[i]
           /\ m > 1 => Prompt!Total(Prompt!From(q, m - 1)) =
                           Prompt!Total(Prompt!From(q, m)) + Prompt!Tokens(q[m - 1])
<1> DEFINE n == Len(q)
           r == Prompt!From(q, m)
<1>1. n \in Nat /\ m - 1 \in 0..n /\ m \in Int
  OBVIOUS
<1>2. r = SubSeq(q, (m - 1) + 1, Len(q))
  BY <1>1 DEF Prompt!From
<1>3. r \in Seq(Prompt!Message) /\ Len(r) = n - (m - 1)
      /\ \A i \in 1..(n - (m - 1)) : r[i] = q[(m - 1) + i]
  BY <1>1, <1>2, DropFirst
<1> HIDE DEF r
<1>4. Len(r) = n - m + 1 /\ \A i \in m..n : r[i - m + 1] = q[i]
  <2>1. ASSUME NEW i \in m..n PROVE r[i - m + 1] = q[i]
    <3>1. i - m + 1 \in 1..(n - (m - 1)) /\ (m - 1) + (i - m + 1) = i
      BY <1>1
    <3>2. r[i - m + 1] = q[(m - 1) + (i - m + 1)]
      BY <1>3, <3>1
    <3> QED
      BY <3>1, <3>2
  <2>2. Len(r) = n - m + 1
    BY <1>1, <1>3
  <2> HIDE DEF n
  <2> QED
    BY <2>1, <2>2
<1>5. ASSUME m > 1
      PROVE  Prompt!Total(Prompt!From(q, m - 1)) = Prompt!Total(r) + Prompt!Tokens(q[m - 1])
  <2> DEFINE b == Prompt!From(q, m - 1)
             x == q[m - 1]
             one == Append(<<>>, x)
  <2>1. m - 2 \in 0..n /\ m - 1 \in 1..n /\ x \in Prompt!Message
    BY <1>1, <1>5
  <2>2. b = SubSeq(q, (m - 2) + 1, Len(q))
    BY <1>1 DEF Prompt!From
  <2>3. b \in Seq(Prompt!Message) /\ Len(b) = n - (m - 2)
        /\ \A i \in 1..(n - (m - 2)) : b[i] = q[(m - 2) + i]
    <3> DEFINE k == m - 2
    <3>1. k \in 0..Len(q) /\ b = SubSeq(q, k + 1, Len(q))
      BY <2>1, <2>2
    <3> HIDE DEF k, b
    <3>2. b \in Seq(Prompt!Message) /\ Len(b) = n - k /\ \A i \in 1..(n - k) : b[i] = q[k + i]
      BY <3>1, DropFirst
    <3> QED
      BY <3>2 DEF k
  <2>4. one \in Seq(Prompt!Message) /\ Len(one) = 1 /\ one[1] = x
    BY <2>1
  <2> HIDE DEF b, n, x, one
  <2>5. /\ one \o r \in Seq(Prompt!Message) /\ Len(one \o r) = 1 + Len(r)
        /\ (one \o r)[1] = x /\ \A i \in 1..Len(r) : (one \o r)[1 + i] = r[i]
    <3>0. one \in Seq(Prompt!Message) /\ r \in Seq(Prompt!Message)
      BY <1>3, <2>4
    <3>1. /\ one \o r \in Seq(Prompt!Message) /\ Len(one \o r) = Len(one) + Len(r)
          /\ \A i \in 1..Len(one) : (one \o r)[i] = one[i]
          /\ \A i \in 1..Len(r) : (one \o r)[Len(one) + i] = r[i]
      BY <3>0, JoinedElements
    <3> QED
      BY <2>4, <3>1
  <2>6. ASSUME NEW i \in 1..Len(b) PROVE b[i] = (one \o r)[i]
    <3>1. CASE i = 1
      <4>1. (m - 2) + 1 = m - 1
        BY <1>1
      <4> QED
        BY <2>3, <2>5, <3>1, <4>1 DEF x
    <3>2. CASE i # 1
      <4>1. i - 1 \in 1..Len(r) /\ 1 + (i - 1) = i /\ (m - 1) + (i - 1) = (m - 2) + i
        BY <1>1, <1>3, <2>3, <3>2
      <4>2. b[i] = q[(m - 2) + i]
        BY <2>3
      <4>3. r[i - 1] = q[(m - 1) + (i - 1)]
        BY <1>3, <4>1
      <4>4. (one \o r)[1 + (i - 1)] = r[i - 1]
        BY <2>5, <4>1
      <4> QED
        BY <4>1, <4>2, <4>3, <4>4
    <3> QED
      BY <3>1, <3>2
  <2>7. b = one \o r
    <3>1. Len(b) = Len(one \o r)
      BY <1>1, <1>3, <2>3, <2>5
    <3> QED
      BY <2>3, <2>5, <2>6, <3>1, SameSequence
  <2>8. Prompt!Total(b) = Prompt!Total(one) + Prompt!Total(r)
    BY <1>3, <2>4, <2>7, CostOfBoth
  <2>9. Prompt!Total(one) = Prompt!Tokens(x)
    <3>1. Len(<<>>) = 0 /\ <<>> \in Seq(Prompt!Message)
      OBVIOUS
    <3>2. Weight(<<>>, Cost) = 0
      BY <3>1, TotalIsCost, WeightType
    <3>3. Weight(one, Cost) = Weight(<<>>, Cost) + Cost[x]
      BY <2>1, <3>1, TotalIsCost, WeightAppend DEF one
    <3>4. Cost[x] = Prompt!Tokens(x) /\ Cost[x] \in Nat
      BY <2>1, TotalIsCost DEF Cost
    <3> QED
      BY <3>2, <3>3, <3>4, TotalIsCost
  <2>10. Prompt!Total(r) \in Nat /\ Prompt!Total(one) \in Nat
    BY <1>3, <2>4, CostOfBoth
  <2> QED
    BY <2>8, <2>9, <2>10 DEF b, x
<1> QED
  BY <1>3, <1>4, <1>5 DEF r

\* The oldest messages go, as many as must, and never the last one.
LEMMA OldestGo ==
    ASSUME NEW q \in Seq(Prompt!Message), Len(q) # 0, NEW cap \in Nat
    PROVE  \E m \in 1..Len(q) :
               /\ Prompt!OldestFirst(q, cap) = Prompt!From(q, m)
               /\ Prompt!Total(Prompt!From(q, m)) <= cap \/ m = Len(q)
               /\ \A i \in 1..(m - 1) : Prompt!Total(Prompt!From(q, i)) > cap
<1> DEFINE places == {i \in 1..Len(q) : Prompt!Total(Prompt!From(q, i)) <= cap} \cup {Len(q)}
           m == Prompt!Min(places)
<1>1. Len(q) \in Nat /\ places \subseteq 1..Len(q) /\ places \subseteq Nat /\ places # {}
  OBVIOUS
<1>2. Prompt!OldestFirst(q, cap) = Prompt!From(q, m)
  BY DEF Prompt!OldestFirst
<1> HIDE DEF places
<1>3. \E i \in places : \A j \in places : i <= j
  BY <1>1, LeastElement
<1>4. m \in places /\ \A j \in places : m <= j
  BY <1>3 DEF Prompt!Min
<1> HIDE DEF m
<1>5. ASSUME NEW i \in 1..(m - 1) PROVE Prompt!Total(Prompt!From(q, i)) > cap
  <2>1. i \in 1..Len(q) /\ ~(m <= i)
    BY <1>1, <1>4
  <2>2. i \notin places
    BY <1>4, <2>1
  <2>3. ~(Prompt!Total(Prompt!From(q, i)) <= cap)
    BY <2>1, <2>2 DEF places
  <2>4. Prompt!Total(Prompt!From(q, i)) \in Nat
    BY <2>1, CostOfRest, CostOfBoth
  <2> QED
    BY <2>3, <2>4
<1>6. m \in 1..Len(q) /\ (Prompt!Total(Prompt!From(q, m)) <= cap \/ m = Len(q))
  BY <1>1, <1>4 DEF places
<1> QED
  BY <1>2, <1>5, <1>6

-----------------------------------------------------------------------------
\* What is kept where roles have a priority.

\* Of what is left one is the next.
LEMMA NextIsLeft ==
    ASSUME NEW q, NEW priority \in Seq(Prompt!Roles), NEW n \in Nat, NEW left,
           left \subseteq 1..n, left # {}
    PROVE  Prompt!NextEntry(q, priority, left) \in left
<1> DEFINE Rank(i) == Prompt!DropRank(q[i].role, priority)
           most == Len(priority) + 1
           ranks == {Rank(i) : i \in left}
<1>1. most \in Nat
  OBVIOUS
<1>2. ASSUME NEW i \in left PROVE Rank(i) \in 0..most
  <2> DEFINE places == {j \in 1..Len(priority) : priority[j] = q[i].role} \cup {Len(priority) + 1}
  <2>1. places \subseteq 0..most /\ places \subseteq Nat /\ places # {}
    OBVIOUS
  <2>2. Rank(i) = Prompt!Min(places)
    BY DEF Prompt!DropRank
  <2> HIDE DEF places
  <2>3. \E a \in places : \A b \in places : a <= b
    BY <2>1, LeastElement
  <2>4. Prompt!Min(places) \in places
    BY <2>3 DEF Prompt!Min
  <2> QED
    BY <2>1, <2>2, <2>4
<1> HIDE DEF most
<1>3. PICK top \in ranks : \A r \in ranks : r <= top
  <2>1. ranks \subseteq 0..most /\ ranks # {}
    BY <1>2
  <2> HIDE DEF ranks
  <2> QED
    BY <1>1, <2>1, GreatestElement
<1> DEFINE highest == {i \in left : Rank(i) = top}
<1>4. PICK i \in highest : \A j \in highest : j <= i
  <2>1. highest \subseteq 0..n /\ highest # {}
    BY <1>3
  <2> HIDE DEF highest
  <2> QED
    BY <2>1, GreatestElement
<1>5. ASSUME NEW j \in left \ {i} PROVE Prompt!KeptBefore(q, priority, i, j)
  <2>1. Rank(i) = top /\ Rank(j) <= top /\ i \in 1..n /\ j \in 1..n /\ i # j
        /\ Rank(j) \in 0..most /\ Rank(i) \in 0..most
    BY <1>2, <1>3, <1>4
  <2>2. CASE Rank(j) = top
    <3>1. j <= i
      BY <1>4, <2>2
    <3>2. i > j
      BY <2>1, <3>1
    <3> QED
      BY <2>1, <2>2, <3>2 DEF Prompt!KeptBefore
  <2>3. CASE Rank(j) # top
    <3>1. Rank(i) > Rank(j)
      <4> HIDE DEF Rank
      <4> QED
        BY <1>1, <2>1, <2>3
    <3> QED
      BY <3>1 DEF Prompt!KeptBefore
  <2> QED
    BY <2>2, <2>3
<1>6. i \in left
  BY <1>4
<1>7. \E k \in left : \A j \in left \ {k} : Prompt!KeptBefore(q, priority, k, j)
  BY <1>5, <1>6
<1> QED
  BY <1>7 DEF Prompt!NextEntry

\* The places of a prompt, and what is at some of them.
PlacesOf(q) == [i \in 1..Len(q) |-> i]
Priced(q, kept) == [i \in 1..Len(q) |-> IF i \in kept THEN Prompt!Tokens(q[i]) ELSE 0]
CostAt(q, kept) == Weight(PlacesOf(q), Priced(q, kept))

\* What is at some places costs nothing where there are none, and more by one more place.
LEMMA CostAtPlaces ==
    ASSUME NEW q \in Seq(Prompt!Message)
    PROVE  /\ PlacesOf(q) \in Seq(1..Len(q)) /\ Len(PlacesOf(q)) = Len(q)
           /\ \A i \in 1..Len(q) : PlacesOf(q)[i] = i
           /\ \A kept : Priced(q, kept) \in [1..Len(q) -> Nat] /\ CostAt(q, kept) \in Nat
           /\ CostAt(q, {}) = 0
           /\ \A kept : \A i \in 1..Len(q) : i \notin kept =>
                  CostAt(q, kept \cup {i}) = CostAt(q, kept) + Prompt!Tokens(q[i])
<1> DEFINE n == Len(q)
           p == PlacesOf(q)
<1>1. n \in Nat /\ \A i \in 1..n : Prompt!Tokens(q[i]) \in Nat
  <2>1. \A i \in 1..n : q[i] \in Prompt!Message
    OBVIOUS
  <2>2. \A m \in Prompt!Message : Prompt!Tokens(m) \in Nat
    <3> SUFFICES ASSUME NEW m \in Prompt!Message PROVE Prompt!Tokens(m) \in Nat
      OBVIOUS
    <3>1. Cost[m] \in Nat /\ Cost[m] = Prompt!Tokens(m)
      BY TotalIsCost DEF Cost
    <3> QED
      BY <3>1
  <2> QED
    BY <2>1, <2>2
<1>2. p \in Seq(1..n) /\ Len(p) = n /\ \A i \in 1..n : p[i] = i
  BY <1>1 DEF PlacesOf
<1>3. ASSUME NEW kept
      PROVE  /\ Priced(q, kept) \in [1..n -> Nat]
             /\ \A i \in 1..n : Priced(q, kept)[i] =
                                    IF i \in kept THEN Prompt!Tokens(q[i]) ELSE 0
  <2>1. \A i \in 1..n : (IF i \in kept THEN Prompt!Tokens(q[i]) ELSE 0) \in Nat
    BY <1>1
  <2> QED
    BY <2>1 DEF Priced
<1> HIDE DEF n, p
<1>4. ASSUME NEW kept PROVE CostAt(q, kept) \in Nat
  BY <1>2, <1>3, WeightType DEF CostAt, p
<1>5. CostAt(q, {}) = 0
  <2> DEFINE W == Priced(q, {})
  <2>1. W \in [1..n -> Nat] /\ \A i \in 1..n : W[i] = 0
    BY <1>3
  <2> HIDE DEF W
  <2>2. /\ \A i \in 1..Len(p) : W[p[i]] <= 0
        /\ \A i, j \in 1..Len(p) : W[p[i]] # 0 /\ W[p[j]] # 0 => i = j
    BY <1>1, <1>2, <2>1
  <2>3. Weight(p, W) <= 0
    BY <1>2, <2>1, <2>2, WeightOne
  <2>4. CostAt(q, {}) <= 0
    BY <2>3 DEF CostAt, p, W
  <2> QED
    BY <1>4, <2>4
<1>6. ASSUME NEW kept, NEW i \in 1..n, i \notin kept
      PROVE  CostAt(q, kept \cup {i}) = CostAt(q, kept) + Prompt!Tokens(q[i])
  <2> DEFINE W == Priced(q, kept)
             V0 == Priced(q, kept \cup {i})
             d == Prompt!Tokens(q[i])
  <2>1. W \in [1..n -> Nat] /\ V0 \in [1..n -> Nat] /\ d \in Nat
    BY <1>1, <1>3
  <2>2. W[i] = 0 /\ V0[i] = d /\ \A j \in 1..n : j # i => V0[j] = W[j]
    BY <1>3, <1>6
  <2> HIDE DEF W, V0, d
  <2>3. W[i] + d = d
    BY <2>1, <2>2
  <2>4. Weight(p, V0) = Weight(p, W) + d
    <3>1. p \in Seq(1..n) /\ i \in 1..Len(p)
      BY <1>2, <1>6
    <3>2. Raises(p, W, V0, i, d)
      BY <1>2, <2>2, <2>3 DEF Raises
    <3>3. Heavier(p, W, V0, d)
      BY <2>1, <3>1, <3>2, PlacesRaised
    <3> QED
      BY <3>3 DEF Heavier
  <2> QED
    BY <2>4 DEF CostAt, p, W, V0, d
<1> QED
  BY <1>2, <1>3, <1>4, <1>5, <1>6 DEF n, p

\* After k of the other messages: those that are kept, with what they cost, fit if there is
\* more than the last one, and what was passed over would not.
Keeping(q, cap, v, k) ==
    /\ v \in [left : SUBSET (1..(Len(q) - 1)), kept : SUBSET (1..Len(q)), total : Nat]
    /\ Cardinality(v.left) = Len(q) - 1 - k
    /\ Len(q) \in v.kept /\ v.kept \cap v.left = {}
    /\ v.total = CostAt(q, v.kept)
    /\ v.total <= cap \/ v.kept = {Len(q)}
    /\ \A i \in 1..Len(q) : i \notin v.left /\ i \notin v.kept =>
           v.total + Prompt!Tokens(q[i]) > cap

\* One more message is kept or passed over.
LEMMA KeepingStep ==
    ASSUME NEW q \in Seq(Prompt!Message), Len(q) # 0, NEW cap \in Nat, NEW k \in 1..(Len(q) - 1),
           NEW v, Keeping(q, cap, v, k - 1), NEW i \in v.left
    PROVE  Keeping(q, cap, Prompt!Keep(q, cap, v, i), k)
<1> DEFINE n == Len(q)
           c == Prompt!Tokens(q[i])
           u == Prompt!Keep(q, cap, v, i)
<1>1. n \in Nat /\ k \in Int
  OBVIOUS
<1>2. ASSUME NEW j \in 1..n PROVE Prompt!Tokens(q[j]) \in Nat
  <2>1. q[j] \in Prompt!Message
    OBVIOUS
  <2>2. Cost[q[j]] = Prompt!Tokens(q[j]) /\ Cost[q[j]] \in Nat
    BY <2>1, TotalIsCost DEF Cost
  <2> QED
    BY <2>2
<1>3. /\ v \in [left : SUBSET (1..(n - 1)), kept : SUBSET (1..n), total : Nat]
      /\ v.left \subseteq 1..(n - 1) /\ v.kept \subseteq 1..n /\ v.total \in Nat
      /\ Cardinality(v.left) = n - 1 - (k - 1)
      /\ n \in v.kept /\ v.kept \cap v.left = {} /\ v.total = CostAt(q, v.kept)
      /\ v.total <= cap \/ v.kept = {n}
      /\ \A j \in 1..n : j \notin v.left /\ j \notin v.kept =>
             v.total + Prompt!Tokens(q[j]) > cap
  BY DEF Keeping
<1>4. i \in 1..n /\ i \notin v.kept /\ c \in Nat
  BY <1>1, <1>2, <1>3
<1>5. Cardinality(v.left \ {i}) = n - 1 - k
  <2>1. IsFiniteSet(1..(n - 1))
    BY <1>1, FS_Interval
  <2>2. IsFiniteSet(v.left)
    BY <1>3, <2>1, FS_Subset
  <2>3. Cardinality(v.left \ {i}) = Cardinality(v.left) - 1
    BY <2>2, FS_RemoveElement
  <2> QED
    BY <1>1, <1>3, <2>3
<1>6. CostAt(q, v.kept \cup {i}) = v.total + c
  BY <1>3, <1>4, CostAtPlaces
<1>7. ASSUME v.total + c <= cap PROVE Keeping(q, cap, u, k)
  <2>1. u = [left |-> v.left \ {i}, kept |-> v.kept \cup {i}, total |-> v.total + c]
    BY <1>7 DEF Prompt!Keep
  <2> HIDE DEF c, u, n
  <2>2. /\ u.left = v.left \ {i} /\ u.kept = v.kept \cup {i} /\ u.total = v.total + c
        /\ u \in [left : SUBSET (1..(n - 1)), kept : SUBSET (1..n), total : Nat]
    BY <1>3, <1>4, <2>1
  <2>3. ASSUME NEW j \in 1..n, j \notin u.left, j \notin u.kept
        PROVE  u.total + Prompt!Tokens(q[j]) > cap
    <3>1. v.total + Prompt!Tokens(q[j]) > cap /\ Prompt!Tokens(q[j]) \in Nat
      BY <1>2, <1>3, <2>2, <2>3 DEF n
    <3> DEFINE t == Prompt!Tokens(q[j])
               before == v.total
    <3>2. before \in Nat /\ c \in Nat /\ t \in Nat /\ before + t > cap
          /\ u.total = before + c
      BY <1>3, <1>4, <2>2, <3>1
    <3> HIDE DEF t, before
    <3>3. (before + c) + t > cap
      BY <3>2
    <3> QED
      BY <3>2, <3>3 DEF t
  <2> QED
    BY <1>3, <1>5, <1>6, <1>7, <2>2, <2>3 DEF Keeping, n, c
<1>8. ASSUME ~(v.total + c <= cap) PROVE Keeping(q, cap, u, k)
  <2>1. u = [v EXCEPT !.left = v.left \ {i}]
    BY <1>8 DEF Prompt!Keep
  <2> HIDE DEF u, n
  <2>2. /\ u.left = v.left \ {i} /\ u.kept = v.kept /\ u.total = v.total
        /\ u \in [left : SUBSET (1..(n - 1)), kept : SUBSET (1..n), total : Nat]
    BY <1>3, <2>1
  <2>3. ASSUME NEW j \in 1..n, j \notin u.left, j \notin u.kept
        PROVE  u.total + Prompt!Tokens(q[j]) > cap
    <3>1. CASE j = i
      BY <1>3, <1>4, <1>8, <2>2, <3>1
    <3>2. CASE j # i
      BY <1>3, <2>2, <2>3, <3>2
    <3> QED
      BY <3>1, <3>2
  <2> QED
    BY <1>3, <1>5, <2>2, <2>3 DEF Keeping, n
<1> QED
  BY <1>7, <1>8

\* The choices up to the k-th of the other messages, each of one that is left.
Choices(q, cap, priority, h) ==
    /\ h[0] = [left |-> 1..(Len(q) - 1), kept |-> {Len(q)},
               total |-> Prompt!Tokens(q[Len(q)])]
    /\ \A k \in 1..(Len(q) - 1) :
           h[k - 1].left # {} =>
               h[k] = Prompt!Keep(q, cap, h[k - 1], Prompt!NextEntry(q, priority, h[k - 1].left))

\* They keep what they should, and choose of what is left while there is something.
LEMMA ChoicesKeep ==
    ASSUME NEW q \in Seq(Prompt!Message), Len(q) # 0, NEW cap \in Nat,
           NEW priority \in Seq(Prompt!Roles), NEW h, Choices(q, cap, priority, h)
    PROVE  /\ \A k \in 0..(Len(q) - 1) : Keeping(q, cap, h[k], k)
           /\ \A k \in 1..(Len(q) - 1) : h[k - 1].left # {}
<1> DEFINE n == Len(q)
           E == {k \in 0..(n - 1) : Keeping(q, cap, h[k], k)}
<1>1. n \in Nat /\ n - 1 \in Nat /\ n \in 1..n
  OBVIOUS
<1>2. 0 \in E
  <2> DEFINE a == h[0]
             c == Prompt!Tokens(q[n])
  <2>1. a = [left |-> 1..(n - 1), kept |-> {n}, total |-> c]
    BY DEF Choices
  <2>2. CostAt(q, {} \cup {n}) = CostAt(q, {}) + c
    BY <1>1, CostAtPlaces
  <2>3. CostAt(q, {n}) = c /\ c \in Nat
    <3>1. CostAt(q, {}) = 0 /\ CostAt(q, {n}) \in Nat
      BY CostAtPlaces
    <3>2. {} \cup {n} = {n}
      OBVIOUS
    <3>3. c \in Nat
      <4>1. q[n] \in Prompt!Message
        BY <1>1
      <4>2. Cost[q[n]] \in Nat /\ Cost[q[n]] = Prompt!Tokens(q[n])
        BY <4>1, TotalIsCost DEF Cost
      <4> QED
        BY <4>2
    <3> HIDE DEF c, n
    <3> QED
      BY <2>2, <3>1, <3>2, <3>3
  <2>4. Cardinality(1..(n - 1)) = n - 1 - 0
    <3> DEFINE b == n - 1
    <3>1. b \in Int /\ 1 \in Int /\ b >= 0
      BY <1>1
    <3> HIDE DEF b
    <3>2. Cardinality(1..b) = IF 1 > b THEN 0 ELSE b - 1 + 1
      BY <3>1, FS_Interval
    <3>3. Cardinality(1..b) = b
      BY <3>1, <3>2
    <3>4. Cardinality(1..(n - 1)) = n - 1
      BY <3>3 DEF b
    <3> HIDE DEF n
    <3> QED
      BY <1>1, <3>4
  <2> HIDE DEF a, c
  <2>5. Keeping(q, cap, a, 0)
    BY <1>1, <2>1, <2>3, <2>4 DEF Keeping
  <2> QED
    BY <1>1, <2>5 DEF a
<1>3. ASSUME NEW k \in 1..(n - 1), k - 1 \in E PROVE k \in E /\ h[k - 1].left # {}
  <2> DEFINE v == h[k - 1]
             i == Prompt!NextEntry(q, priority, v.left)
  <2>1. Keeping(q, cap, v, k - 1)
    BY <1>3
  <2>2. v.left \subseteq 1..(n - 1) /\ Cardinality(v.left) = n - 1 - (k - 1)
    BY <2>1 DEF Keeping
  <2>3. v.left # {}
    <3>1. Cardinality({}) = 0
      BY FS_EmptySet
    <3>2. n - 1 - (k - 1) # 0
      BY <1>1
    <3> HIDE DEF v
    <3> QED
      BY <2>2, <3>1, <3>2
  <2>4. i \in v.left
    <3> HIDE DEF v
    <3> QED
      BY <1>1, <2>2, <2>3, NextIsLeft
  <2>5. h[k] = Prompt!Keep(q, cap, v, i)
    BY <2>3 DEF Choices
  <2> HIDE DEF v, i
  <2>6. Keeping(q, cap, h[k], k)
    BY <2>1, <2>4, <2>5, KeepingStep
  <2>7. k \in 0..(n - 1)
    BY <1>1
  <2> QED
    BY <2>3, <2>6, <2>7 DEF v
<1> HIDE DEF n
<1>4. \A k \in 0..(n - 1) : k \in E
  <2> DEFINE m == n - 1
  <2>1. m \in Nat /\ 0 \in E /\ \A k \in 1..m : k - 1 \in E => k \in E
    BY <1>1, <1>2, <1>3
  <2> HIDE DEF m, E
  <2>2. \A k \in 0..m : k \in E
    BY <2>1, UpTo
  <2> QED
    BY <2>2 DEF m
<1>5. \A k \in 1..(n - 1) : k - 1 \in 0..(n - 1)
  BY <1>1
<1> QED
  BY <1>3, <1>4, <1>5 DEF n

\* What is kept is the last message and what fits besides, of the rest nothing would.
LEMMA KeptFits ==
    ASSUME NEW q \in Seq(Prompt!Message), Len(q) # 0, NEW cap \in Nat,
           NEW priority \in Seq(Prompt!Roles), NEW kept, kept = Prompt!Kept(q, cap, priority)
    PROVE  /\ kept \subseteq 1..Len(q) /\ Len(q) \in kept
           /\ CostAt(q, kept) <= cap \/ kept = {Len(q)}
           /\ \A i \in 1..Len(q) : i \notin kept => CostAt(q, kept) + Prompt!Tokens(q[i]) > cap
<1> DEFINE n == Len(q)
           last == n - 1
           a == [left |-> 1..last, kept |-> {n}, total |-> Prompt!Tokens(q[n])]
           Step(v) == Prompt!Keep(q, cap, v, Prompt!NextEntry(q, priority, v.left))
           Is(g) == g = [k \in 0..last |-> IF k = 0 THEN a ELSE Step(g[k - 1])]
           f == CHOOSE g : Is(g)
           C == [left : SUBSET (1..last), kept : SUBSET (1..n), total : Nat]
           F == [p \in (1..last) \X C |-> IF p[2].left = {} THEN p[2] ELSE Step(p[2])]
<1>1. n \in Nat /\ last \in Nat /\ n = last + 1
  OBVIOUS
<1>2. Prompt!Kept(q, cap, priority) = f[last].kept
  BY DEF Prompt!Kept
<1>3. \A i \in 1..n : Prompt!Tokens(q[i]) \in Nat
  <2> SUFFICES ASSUME NEW i \in 1..n PROVE Prompt!Tokens(q[i]) \in Nat
    OBVIOUS
  <2>1. q[i] \in Prompt!Message
    OBVIOUS
  <2>2. Cost[q[i]] \in Nat /\ Cost[q[i]] = Prompt!Tokens(q[i])
    BY <2>1, TotalIsCost DEF Cost
  <2> QED
    BY <2>2
<1>4. ASSUME NEW h, DOMAIN h = 0..last, h[0] = a,
             \A k \in 1..last : h[k - 1].left # {} => h[k] = Step(h[k - 1])
      PROVE  /\ \A k \in 0..last : Keeping(q, cap, h[k], k)
             /\ \A k \in 1..last : h[k - 1].left # {}
  <2>1. Choices(q, cap, priority, h)
    BY <1>4 DEF Choices
  <2> QED
    BY <2>1, ChoicesKeep
<1> HIDE DEF n, f
<1>5. a \in C
  <2>1. n \in 1..n
    BY <1>1
  <2> QED
    BY <1>3, <2>1
<1>6. ASSUME NEW v \in C, v.left # {} PROVE Step(v) \in C
  <2> DEFINE i == Prompt!NextEntry(q, priority, v.left)
             c == Prompt!Tokens(q[i])
  <2>1. i \in v.left
    <3>1. v.left \subseteq 1..last
      OBVIOUS
    <3> QED
      BY <1>1, <1>6, <3>1, NextIsLeft
  <2>2. i \in 1..n
    <3> HIDE DEF i
    <3>1. v.left \subseteq 1..last
      OBVIOUS
    <3> QED
      BY <1>1, <2>1, <3>1
  <2>3. c \in Nat
    BY <1>3, <2>2
  <2>4. Step(v) = IF v.total + c <= cap
                  THEN [left |-> v.left \ {i}, kept |-> v.kept \cup {i}, total |-> v.total + c]
                  ELSE [v EXCEPT !.left = v.left \ {i}]
    BY DEF Prompt!Keep
  <2> HIDE DEF i, c, Step, last
  <2> QED
    BY <2>2, <2>3, <2>4
<1>7. F \in [(1..last) \X C -> C]
  <2> HIDE DEF Step, C, last
  <2>1. ASSUME NEW p \in (1..last) \X C
        PROVE  (IF p[2].left = {} THEN p[2] ELSE Step(p[2])) \in C
    BY <1>6
  <2> QED
    BY <2>1
<1> HIDE DEF last, a, C, Step
<1>8. PICK g \in [0..last -> C] : g[0] = a /\ \A k \in 1..last : g[k] = F[<<k, g[k - 1]>>]
  <2> HIDE DEF F
  <2>1. \E g \in [0..last -> C] : Recurs(g, last, a, F)
    BY <1>1, <1>5, <1>7, Recursion
  <2> QED
    BY <2>1 DEF Recurs
<1>9. \A k \in 1..last : g[k - 1].left # {} => g[k] = Step(g[k - 1])
  <2> SUFFICES ASSUME NEW k \in 1..last, g[k - 1].left # {} PROVE g[k] = Step(g[k - 1])
    OBVIOUS
  <2>1. g[k - 1] \in C
    BY <1>1, <1>8
  <2>2. F[<<k, g[k - 1]>>] = Step(g[k - 1])
    BY <2>1
  <2> QED
    BY <1>8, <2>2
<1>10. \A k \in 1..last : g[k - 1].left # {}
  <2>1. DOMAIN g = 0..last /\ g[0] = a
    BY <1>8
  <2> QED
    BY <1>4, <1>9, <2>1
<1>11. Is(g)
  <2>1. ASSUME NEW k \in 0..last PROVE g[k] = IF k = 0 THEN a ELSE Step(g[k - 1])
    <3>1. CASE k = 0
      BY <1>8, <3>1
    <3>2. CASE k # 0
      <4>1. k \in 1..last
        BY <1>1, <3>2
      <4> QED
        BY <1>9, <1>10, <3>2, <4>1
    <3> QED
      BY <3>1, <3>2
  <2> QED
    BY <1>8, <2>1
<1>12. Is(f)
  <2>1. \E g0 : Is(g0)
    BY <1>11
  <2> HIDE DEF Is
  <2> QED
    BY <2>1 DEF f
<1>13. Keeping(q, cap, f[last], last)
  <2>1. DOMAIN f = 0..last /\ f[0] = a
    BY <1>1, <1>12
  <2>2. \A k \in 1..last : f[k] = Step(f[k - 1])
    BY <1>1, <1>12
  <2>3. \A k \in 0..last : Keeping(q, cap, f[k], k)
    BY <1>4, <2>1, <2>2
  <2> QED
    BY <1>1, <2>3
<1> DEFINE u == f[last]
<1>14. /\ u.left \subseteq 1..last /\ Cardinality(u.left) = n - 1 - last
       /\ u.kept \subseteq 1..n /\ n \in u.kept /\ u.total = CostAt(q, u.kept)
       /\ u.total <= cap \/ u.kept = {n}
       /\ \A i \in 1..n : i \notin u.left /\ i \notin u.kept => u.total + Prompt!Tokens(q[i]) > cap
  <2> HIDE DEF u
  <2>1. Keeping(q, cap, u, last)
    BY <1>13 DEF u
  <2> QED
    BY <2>1 DEF Keeping, n, last
<1> HIDE DEF u
<1>15. u.left = {}
  <2>1. Cardinality(u.left) = 0
    BY <1>1, <1>14
  <2>2. IsFiniteSet(u.left)
    <3>1. IsFiniteSet(1..last)
      BY <1>1, FS_Interval
    <3> QED
      BY <1>14, <3>1, FS_Subset
  <2> QED
    BY <2>1, <2>2, FS_EmptySet
<1>16. kept = u.kept
  BY <1>2 DEF u
<1> QED
  BY <1>14, <1>15, <1>16 DEF n

\* r ends with the last message of q, fits unless it is that alone, and lacks nothing that would.
KeepsOf(q, r, cap) ==
    /\ r \in Seq(Prompt!Message) /\ Len(r) # 0 /\ r[Len(r)] = q[Len(q)]
    /\ Prompt!Total(r) <= cap \/ Len(r) = 1
    /\ \A i \in 1..Len(q) : \/ \E j \in 1..Len(r) : r[j] = q[i]
                            \/ Prompt!Total(r) + Prompt!Tokens(q[i]) > cap

\* That is what is at the kept places, in order, where roles have a priority.
LEMMA PriorityKeeps ==
    ASSUME NEW q \in Seq(Prompt!Message), Len(q) # 0, NEW cap \in Nat,
           NEW priority \in Seq(Prompt!Roles),
           NEW r, r = Prompt!WithPriority(q, cap, priority)
    PROVE  KeepsOf(q, r, cap)
<1> DEFINE n == Len(q)
           kept == Prompt!Kept(q, cap, priority)
           p == PlacesOf(q)
           s == SelectIn(p, kept)
           W == [i \in 1..n |-> Prompt!Tokens(q[i])]
           masked == [i \in 1..n |-> IF i \in kept THEN W[i] ELSE 0]
<1>1. /\ kept \subseteq 1..n /\ n \in kept
      /\ CostAt(q, kept) <= cap \/ kept = {n}
      /\ \A i \in 1..n : i \notin kept => CostAt(q, kept) + Prompt!Tokens(q[i]) > cap
  <2> DEFINE k == kept
  <2>1. k = Prompt!Kept(q, cap, priority)
    OBVIOUS
  <2> HIDE DEF k
  <2>2. /\ k \subseteq 1..Len(q) /\ Len(q) \in k
        /\ CostAt(q, k) <= cap \/ k = {Len(q)}
        /\ \A i \in 1..Len(q) : i \notin k => CostAt(q, k) + Prompt!Tokens(q[i]) > cap
    BY <2>1, KeptFits
  <2> QED
    BY <2>2 DEF k
<1> HIDE DEF kept
<1>2. n \in Nat /\ n \in 1..n
  OBVIOUS
<1>3. p \in Seq(1..n) /\ p \in Seq(Nat) /\ Len(p) = n /\ \A i \in 1..n : p[i] = i
  <2>1. p \in Seq(1..n) /\ Len(p) = n /\ \A i \in 1..n : p[i] = i
    BY CostAtPlaces
  <2> HIDE DEF p
  <2>2. p \in Seq(Nat)
    BY <1>2, <2>1
  <2> QED
    BY <2>1, <2>2
<1>4. W \in [1..n -> Nat] /\ \A i \in 1..n : W[i] = Prompt!Tokens(q[i])
  <2>1. ASSUME NEW i \in 1..n PROVE Prompt!Tokens(q[i]) \in Nat
    <3>1. q[i] \in Prompt!Message
      OBVIOUS
    <3>2. Cost[q[i]] \in Nat /\ Cost[q[i]] = Prompt!Tokens(q[i])
      BY <3>1, TotalIsCost DEF Cost
    <3> QED
      BY <3>2
  <2> QED
    BY <2>1
<1>5. r = [j \in 1..Len(s) |-> q[s[j]]]
  <2>1. Prompt!SelectIn(p, kept) = s
    BY PromptSelects
  <2>2. p = [i \in 1..Len(q) |-> i]
    BY DEF PlacesOf
  <2> HIDE DEF s, p
  <2> QED
    BY <2>1, <2>2 DEF Prompt!WithPriority, kept
<1> HIDE DEF p, W
<1>6. /\ s \in Seq(1..n) /\ \A j \in 1..Len(s) : s[j] \in kept
      /\ \A i \in kept : \E j \in 1..Len(s) : s[j] = i
  <2>1. DOMAIN p = 1..n
    BY <1>3
  <2>2. s \in Seq(1..n) /\ \A j \in 1..Len(s) : s[j] \in kept
    <3> HIDE DEF s
    <3>1. s = SelectIn(p, kept)
      BY DEF s
    <3> QED
      BY <1>2, <1>3, <2>1, <3>1, SelectIndices
  <2>3. ASSUME NEW i \in kept PROVE \E j \in 1..Len(s) : s[j] = i
    <3>1. i \in 1..Len(p) /\ p[i] = i
      BY <1>1, <1>3
    <3>2. p \in Seq(Nat)
      BY <1>3
    <3>3. Selects(p, kept, i)
      BY <3>1, <3>2, PlaceIsTaken
    <3> QED
      BY <3>3 DEF Selects
  <2> QED
    BY <2>2, <2>3
<1>7. \A i, j \in 1..Len(s) : i < j => s[i] < s[j]
  <2>1. \A i, j \in 1..Len(p) : i < j => p[i] < p[j]
    BY <1>3
  <2> QED
    BY <1>3, <2>1, SelectInIncreasing
<1> HIDE DEF s
<1>8. Len(s) \in Nat /\ \A j \in 1..Len(s) : s[j] \in 1..n /\ s[j] \in kept
  BY <1>6
<1>9. \A i \in kept : \E j \in 1..Len(s) : s[j] = i
  BY <1>6
<1>10. Len(s) # 0 /\ s[Len(s)] = n
  <2>1. PICK j \in 1..Len(s) : s[j] = n
    BY <1>1, <1>9
  <2>2. Len(s) \in 1..Len(s)
    BY <1>8, <2>1
  <2>3. ~(j < Len(s))
    BY <1>2, <1>7, <1>8, <2>1, <2>2
  <2>4. j = Len(s)
    BY <1>8, <2>1, <2>3
  <2> QED
    BY <2>1, <2>2, <2>4
<1>11. kept = {n} => Len(s) = 1
  <2> SUFFICES ASSUME kept = {n}, Len(s) # 1 PROVE FALSE
    OBVIOUS
  <2>1. 1 \in 1..Len(s) /\ 2 \in 1..Len(s)
    <3> DEFINE k == Len(s)
    <3>1. k \in Nat /\ k # 0 /\ k # 1
      BY <1>8, <1>10
    <3> HIDE DEF k
    <3>2. 1 \in 1..k /\ 2 \in 1..k
      BY <3>1
    <3> QED
      BY <3>2 DEF k
  <2>2. s[1] = n /\ s[2] = n /\ s[1] < s[2]
    BY <1>7, <1>8, <2>1
  <2> QED
    BY <1>2, <2>2
<1>12. /\ r \in Seq(Prompt!Message) /\ Len(r) = Len(s)
       /\ \A j \in 1..Len(s) : r[j] = q[s[j]]
  <2>1. \A j \in 1..Len(s) : q[s[j]] \in Prompt!Message
    BY <1>8
  <2>2. r \in [1..Len(s) -> Prompt!Message]
    BY <1>5, <2>1
  <2>3. \A j \in 1..Len(s) : r[j] = q[s[j]]
    BY <1>5
  <2> DEFINE k == Len(s)
  <2>4. k \in Nat /\ r \in [1..k -> Prompt!Message]
    BY <1>8, <2>2
  <2> HIDE DEF k
  <2>5. r \in Seq(Prompt!Message) /\ Len(r) = k
    BY <2>4
  <2> QED
    BY <2>3, <2>5 DEF k
<1>13. Prompt!Total(r) = CostAt(q, kept)
  <2>1. ASSUME NEW j \in 1..Len(r) PROVE Cost[r[j]] = W[s[j]]
    <3>1. s[j] \in 1..n /\ r[j] = q[s[j]] /\ q[s[j]] \in Prompt!Message
      BY <1>2, <1>8, <1>12
    <3> QED
      BY <1>4, <3>1 DEF Cost
  <2>2. Alike(r, Cost, s, W)
    BY <1>12, <2>1 DEF Alike
  <2>3. Prompt!Total(r) = Weight(s, W)
    <3> DEFINE T0 == 1..n
               C == Cost
    <3>1. s \in Seq(T0) /\ W \in [T0 -> Nat] /\ C \in [Prompt!Message -> Nat]
      BY <1>4, <1>6, TotalIsCost
    <3> HIDE DEF T0, C
    <3>2. SameWeight(r, C, s, W)
      BY <1>12, <2>2, <3>1, WeightSame DEF C
    <3> QED
      BY <3>2, TotalIsCost DEF SameWeight, C
  <2>4. Weight(s, W) = Weight(p, masked)
    <3>1. p \in Seq(1..n) /\ W \in [1..n -> Nat]
      BY <1>3, <1>4
    <3>2. Weight(SelectIn(p, kept), W) = Weight(p, [x \in 1..n |-> IF x \in kept THEN W[x] ELSE 0])
      <4> DEFINE T0 == 1..n
      <4>1. p \in Seq(T0) /\ W \in [T0 -> Nat]
        BY <3>1
      <4> HIDE DEF T0
      <4>2. Weight(SelectIn(p, kept), W) = Weight(p, [x \in T0 |-> IF x \in kept THEN W[x] ELSE 0])
        BY <4>1, WeightMasked
      <4> QED
        BY <4>2 DEF T0
    <3> QED
      BY <3>2 DEF s
  <2>5. masked = Priced(q, kept)
    BY <1>4 DEF Priced, n
  <2> QED
    BY <2>3, <2>4, <2>5 DEF CostAt, p
<1>14. ASSUME NEW i \in 1..n
       PROVE  \/ \E j \in 1..Len(r) : r[j] = q[i]
              \/ Prompt!Total(r) + Prompt!Tokens(q[i]) > cap
  <2>1. CASE i \in kept
    BY <1>9, <1>12, <2>1
  <2>2. CASE i \notin kept
    BY <1>1, <1>13, <2>2
  <2> QED
    BY <2>1, <2>2
<1> QED
  BY <1>1, <1>2, <1>8, <1>10, <1>11, <1>12, <1>13, <1>14 DEF KeepsOf

\* The summary is one message before the last.
LEMMA SummaryAndLast ==
    ASSUME PromptConstants, NEW r \in PromptRequests, NEW q \in Seq(Prompt!Message), Len(q) > 1
    PROVE  /\ Prompt!Summarized(q, r) \in Seq(Prompt!Message)
           /\ Len(Prompt!Summarized(q, r)) = 2
           /\ Prompt!Summarized(q, r)[2] = q[Len(q)]
<1> DEFINE W == [m \in Prompt!Message |-> m.size + PartSize.label]
           prefix == SubSeq(q, 1, Len(q) - 1)
           text == Weight(prefix, W)
           chars == PartSize.summary + Prompt!Least(text, 4 * r.summaryTokens)
           a == [role |-> "system", what |-> "summary", no |-> 0, size |-> chars]
           b == q[Len(q)]
<1>1. PartSize.label \in Nat /\ PartSize.summary \in Nat /\ r.summaryTokens \in Nat
  BY DEF PromptConstants, Prompt!PartNames
<1>2. W \in [Prompt!Message -> Nat]
  <2>1. \A m \in Prompt!Message : m.size \in Nat
    BY DEF Prompt!Message
  <2> QED
    BY <1>1, <2>1
<1>3. prefix \in Seq(Prompt!Message) /\ b \in Prompt!Message
  OBVIOUS
<1>4. Prompt!Summarized(q, r) = <<a, b>>
  <2>1. Prompt!Weight(prefix, W) = text
    BY DEF Prompt!Weight, Weight
  <2>2. Prompt!Last(q) = b
    BY DEF Prompt!Last
  <2> HIDE DEF text, b
  <2> QED
    BY <2>1, <2>2 DEF Prompt!Summarized
<1>5. chars \in Nat
  <2>1. text \in Nat
    <3> HIDE DEF W, prefix
    <3> QED
      BY <1>2, <1>3, WeightType
  <2> HIDE DEF text
  <2> QED
    BY <1>1, <2>1 DEF Prompt!Least
<1>6. a \in Prompt!Message
  <2> HIDE DEF chars
  <2> QED
    BY <1>5 DEF Prompt!Message, Prompt!Roles, Prompt!PartNames
<1> HIDE DEF a, b
<1> QED
  BY <1>3, <1>4, <1>6 DEF b

\* A prompt ends with the last message of q, and fits unless it is that alone.
Ends(s, q) == s \in Seq(Prompt!Message) /\ Len(s) # 0 /\ s[Len(s)] = q[Len(q)]
FitsIn(s, cap) == cap # 0 => Prompt!Total(s) <= cap \/ Len(s) = 1

\* What is left of the oldest messages fits, and ends with the last.
LEMMA OldestFits ==
    ASSUME NEW q \in Seq(Prompt!Message), Len(q) # 0, NEW cap \in Nat,
           NEW s, s = Prompt!OldestFirst(q, cap)
    PROVE  Ends(s, q) /\ FitsIn(s, cap)
<1>1. PICK m \in 1..Len(q) : /\ s = Prompt!From(q, m)
                             /\ Prompt!Total(Prompt!From(q, m)) <= cap \/ m = Len(q)
  BY OldestGo
<1>2. /\ s \in Seq(Prompt!Message) /\ Len(s) = Len(q) - m + 1
      /\ \A i \in m..Len(q) : s[i - m + 1] = q[i]
  BY <1>1, CostOfRest
<1>3. Len(q) \in Nat /\ Len(q) \in m..Len(q) /\ m \in Nat
  OBVIOUS
<1>4. Len(s) # 0 /\ s[Len(s)] = q[Len(q)]
  BY <1>2, <1>3
<1>5. Prompt!Total(s) <= cap \/ Len(s) = 1
  BY <1>1, <1>2, <1>3
<1> QED
  BY <1>2, <1>4, <1>5 DEF Ends, FitsIn

\* Trimming keeps the last message, and what it leaves fits.
LEMMA TrimmedFits ==
    ASSUME PromptConstants, NEW r \in PromptRequests, NEW q \in Seq(Prompt!Message),
           NEW s, s = Prompt!Trimmed(q, r)
    PROVE  s \in Seq(Prompt!Message) /\ (Len(q) # 0 => Ends(s, q)) /\ FitsIn(s, r.cap)
<1>1. r.cap \in Nat /\ r.priority \in Seq(Prompt!Roles)
  BY DEF PromptConstants
<1>2. Prompt!Total(q) \in Nat /\ (Len(q) = 0 => Prompt!Total(q) = 0)
  BY TotalIsCost, WeightType
<1>3. CASE r.cap = 0 \/ Prompt!Total(q) <= r.cap
  <2>1. s = q
    BY <1>3 DEF Prompt!Trimmed
  <2> QED
    BY <1>3, <2>1 DEF Ends, FitsIn
<1>4. CASE ~(r.cap = 0 \/ Prompt!Total(q) <= r.cap)
  <2>1. Len(q) # 0
    BY <1>1, <1>2, <1>4
  <2>2. CASE r.priority = <<>>
    <3>1. s = Prompt!OldestFirst(q, r.cap)
      BY <1>4, <2>2 DEF Prompt!Trimmed
    <3>2. Ends(s, q) /\ FitsIn(s, r.cap)
      BY <1>1, <2>1, <3>1, OldestFits
    <3> QED
      BY <3>2 DEF Ends
  <2>3. CASE r.priority # <<>>
    <3>1. s = Prompt!WithPriority(q, r.cap, r.priority)
      BY <1>4, <2>3 DEF Prompt!Trimmed
    <3>2. KeepsOf(q, s, r.cap)
      BY <1>1, <2>1, <3>1, PriorityKeeps
    <3> QED
      BY <3>2 DEF KeepsOf, Ends, FitsIn
  <2> QED
    BY <2>2, <2>3
<1> QED
  BY <1>3, <1>4

\* So does the prompt, whether or not the rest was summarized before.
LEMMA PromptIsFitted ==
    ASSUME PromptConstants, NEW r \in PromptRequests, NEW q \in Seq(Prompt!Message),
           NEW s, s = Prompt!Fitted(q, r)
    PROVE  s \in Seq(Prompt!Message) /\ (Len(q) # 0 => Ends(s, q)) /\ FitsIn(s, r.cap)
<1>1. CASE ~Prompt!Summarizes(q, r)
  <2>1. s = Prompt!Trimmed(q, r)
    BY <1>1 DEF Prompt!Fitted
  <2> QED
    BY <2>1, TrimmedFits
<1>2. CASE Prompt!Summarizes(q, r)
  <2> DEFINE both == Prompt!Summarized(q, r)
  <2>1. s = Prompt!Trimmed(both, r)
    BY <1>2 DEF Prompt!Fitted
  <2>2. Len(q) > 1
    BY <1>2 DEF Prompt!Summarizes
  <2>3. both \in Seq(Prompt!Message) /\ Len(both) = 2 /\ both[2] = q[Len(q)]
    BY <2>2, SummaryAndLast
  <2> HIDE DEF both
  <2>4. s \in Seq(Prompt!Message) /\ (Len(both) # 0 => Ends(s, both)) /\ FitsIn(s, r.cap)
    BY <2>1, <2>3, TrimmedFits
  <2> QED
    BY <2>3, <2>4 DEF Ends
<1> QED
  BY <1>1, <1>2

\* What a prompt without its dropped messages would have no room for.
Dropped(q, s) == {i \in 1..Len(q) : q[i] \notin Prompt!ToSet(s)}
NotInVain(q, s, r) ==
    \A i \in Dropped(q, s) : (r.priority # <<>> \/ i = Prompt!Max(Dropped(q, s))) =>
        Prompt!Total(s) + Prompt!Tokens(q[i]) > r.cap

\* Of the oldest messages the newest that is dropped would not fit.
LEMMA OldestNotInVain ==
    ASSUME NEW q \in Seq(Prompt!Message), Len(q) # 0, NEW cap \in Nat,
           \A i, j \in 1..Len(q) : q[i] = q[j] => i = j,
           NEW s, s = Prompt!OldestFirst(q, cap)
    PROVE  \A i \in Dropped(q, s) : i = Prompt!Max(Dropped(q, s)) =>
               Prompt!Total(s) + Prompt!Tokens(q[i]) > cap
<1> DEFINE n == Len(q)
           D == Dropped(q, s)
<1>1. PICK m \in 1..n : /\ s = Prompt!From(q, m)
                        /\ \A i \in 1..(m - 1) : Prompt!Total(Prompt!From(q, i)) > cap
  BY OldestGo
<1>2. /\ s \in Seq(Prompt!Message) /\ Len(s) = n - m + 1
      /\ \A i \in m..n : s[i - m + 1] = q[i]
      /\ m > 1 => Prompt!Total(Prompt!From(q, m - 1)) = Prompt!Total(s) + Prompt!Tokens(q[m - 1])
  <2> DEFINE rest == Prompt!From(q, m)
  <2>1. m \in 1..Len(q)
    OBVIOUS
  <2>2. /\ Prompt!From(q, m) \in Seq(Prompt!Message)
        /\ Len(Prompt!From(q, m)) = Len(q) - m + 1
        /\ \A i \in m..Len(q) : Prompt!From(q, m)[i - m + 1] = q[i]
        /\ m > 1 => Prompt!Total(Prompt!From(q, m - 1)) =
                        Prompt!Total(Prompt!From(q, m)) + Prompt!Tokens(q[m - 1])
    BY <2>1, CostOfRest
  <2>3. s = rest
    BY <1>1
  <2> QED
    BY <2>2, <2>3
<1>3. n \in Nat /\ m \in 1..n /\ m \in Nat
  OBVIOUS
<1>4. Prompt!ToSet(s) = {s[j] : j \in 1..Len(s)}
  BY <1>2 DEF Prompt!ToSet
<1>5. D \subseteq 1..(m - 1)
  <2> SUFFICES ASSUME NEW i \in m..n PROVE i \notin D
    BY <1>3 DEF Dropped
  <2>1. i - m + 1 \in 1..Len(s)
    BY <1>2, <1>3
  <2>2. q[i] \in Prompt!ToSet(s)
    BY <1>2, <1>4, <2>1
  <2> QED
    BY <2>2 DEF Dropped
<1>6. m > 1 => m - 1 \in D
  <2> SUFFICES ASSUME m > 1, q[m - 1] \in Prompt!ToSet(s) PROVE FALSE
    BY <1>3 DEF Dropped
  <2>1. PICK j \in 1..Len(s) : q[m - 1] = s[j]
    BY <1>4
  <2>2. j + m - 1 \in m..n /\ (j + m - 1) - m + 1 = j
    BY <1>2, <1>3
  <2>3. s[j] = q[j + m - 1]
    BY <1>2, <2>2
  <2>4. m - 1 \in 1..n /\ j + m - 1 \in 1..n
    BY <1>3, <2>2
  <2>5. m - 1 = j + m - 1
    BY <2>1, <2>3, <2>4
  <2> QED
    BY <1>3, <2>2, <2>5
<1> HIDE DEF D
<1>7. SUFFICES ASSUME NEW i \in D, i = Prompt!Max(D)
               PROVE  Prompt!Total(s) + Prompt!Tokens(q[i]) > cap
  BY DEF D
<1>8. m > 1 /\ m - 1 \in 1..(m - 1)
  BY <1>3, <1>5
<1>9. i = m - 1
  <2>1. m - 1 \in D /\ \A j \in D : m - 1 >= j
    BY <1>3, <1>5, <1>6, <1>8
  <2>2. \E x \in D : \A y \in D : x >= y
    BY <2>1
  <2>3. i \in D /\ \A y \in D : i >= y
    BY <1>7, <2>2 DEF Prompt!Max
  <2>4. i >= m - 1 /\ m - 1 >= i /\ i \in 1..(m - 1)
    BY <1>5, <2>1, <2>3
  <2> QED
    BY <1>3, <2>4
<1> QED
  BY <1>1, <1>2, <1>8, <1>9

\* What trimming drops of different messages would not fit.
LEMMA TrimmedNotInVain ==
    ASSUME PromptConstants, NEW r \in PromptRequests, NEW q \in Seq(Prompt!Message),
           \A i, j \in 1..Len(q) : q[i] = q[j] => i = j, r.cap # 0,
           NEW s, s = Prompt!Trimmed(q, r)
    PROVE  NotInVain(q, s, r)
<1>1. r.cap \in Nat /\ r.priority \in Seq(Prompt!Roles)
  BY DEF PromptConstants
<1>2. Prompt!Total(q) \in Nat /\ (Len(q) = 0 => Prompt!Total(q) = 0)
  BY TotalIsCost, WeightType
<1>3. CASE Prompt!Total(q) <= r.cap
  <2>1. s = q
    BY <1>3 DEF Prompt!Trimmed
  <2>2. \A i \in 1..Len(q) : q[i] \in Prompt!ToSet(s)
    BY <2>1 DEF Prompt!ToSet
  <2> QED
    BY <2>2 DEF NotInVain, Dropped
<1>4. CASE ~(Prompt!Total(q) <= r.cap)
  <2>1. Len(q) # 0
    BY <1>1, <1>2, <1>4
  <2>2. CASE r.priority = <<>>
    <3>1. s = Prompt!OldestFirst(q, r.cap)
      BY <1>4, <2>2 DEF Prompt!Trimmed
    <3>2. \A i \in Dropped(q, s) : i = Prompt!Max(Dropped(q, s)) =>
              Prompt!Total(s) + Prompt!Tokens(q[i]) > r.cap
      BY <1>1, <2>1, <3>1, OldestNotInVain
    <3> QED
      BY <2>2, <3>2 DEF NotInVain
  <2>3. CASE r.priority # <<>>
    <3>1. s = Prompt!WithPriority(q, r.cap, r.priority)
      BY <1>4, <2>3 DEF Prompt!Trimmed
    <3>2. /\ s \in Seq(Prompt!Message)
          /\ \A i \in 1..Len(q) : \/ \E j \in 1..Len(s) : s[j] = q[i]
                                  \/ Prompt!Total(s) + Prompt!Tokens(q[i]) > r.cap
      <4>1. KeepsOf(q, s, r.cap)
        BY <1>1, <2>1, <3>1, PriorityKeeps
      <4> QED
        BY <4>1 DEF KeepsOf
    <3>3. \A i \in Dropped(q, s) : ~\E j \in 1..Len(s) : s[j] = q[i]
      BY <3>2 DEF Dropped, Prompt!ToSet
    <3>4. \A i \in Dropped(q, s) : i \in 1..Len(q)
      BY DEF Dropped
    <3> QED
      BY <3>2, <3>3, <3>4 DEF NotInVain
  <2> QED
    BY <2>2, <2>3
<1> QED
  BY <1>1, <1>3, <1>4

-----------------------------------------------------------------------------
\* Where a turn waits, and what its system messages may be about by then.

Steps == {"new", "memory", "experience", "notice", "runs", "birth", "journal", "collect",
          "analyze", "built", "sent", "done"}

Opened == {"continuity", "agents", "tools", "identity", "soul", "chat", "user"}
Recalled == Opened \cup {"memory"}
Experienced == Recalled \cup {"experience"}
Warned == Experienced \cup {"interrupted"}
Informed == Warned \cup {"birth", "roadmap", "freshness", "hypotheses"}
Journaled == Informed \cup {"journal"}
Complete == Journaled \cup {"plugins"}

Said(where) ==
    CASE where = "new" -> {}
      [] where = "memory" -> Opened
      [] where = "experience" -> Recalled
      [] where \in {"notice", "runs"} -> Experienced
      [] where = "birth" -> Warned
      [] where = "journal" -> Informed
      [] where \in {"collect", "analyze"} -> Journaled
      [] OTHER -> Complete

NamedIn(q, N) == \A i \in 1..Len(q) : q[i].what \in N

\* The system messages of a turn are about different things, those of the parts it has
\* been through; and its prompt was made of them as they are now.
PromptInv ==
    /\ step \in [PromptTurns -> Steps] /\ request \in [PromptTurns -> PromptRequests]
    /\ system \in [PromptTurns -> Seq(Prompt!Message)] /\ DOMAIN prompt = PromptTurns
    /\ \A t \in PromptTurns : Apart(system[t]) /\ NamedIn(system[t], Said(step[t]))
    /\ \A t \in PromptTurns : step[t] \in {"sent", "done"} =>
           prompt[t] = Prompt!Fitted(Prompt!Bounded(system[t]) \o Prompt!UserMessages(request[t]),
                                 request[t])

\* Names of parts, each once, and all in N.
FreshNames(names, N) ==
    /\ names \in Seq(Prompt!PartNames) /\ \A i \in 1..Len(names) : names[i] \in N
    /\ \A i, j \in 1..Len(names) : names[i] = names[j] => i = j

\* Names of different sets are different.
LEMMA FreshTogether ==
    ASSUME NEW a, NEW b, NEW N, NEW L, FreshNames(a, N), FreshNames(b, L), N \cap L = {}
    PROVE  FreshNames(a \o b, N \cup L)
<1> DEFINE n == Len(a)
           k == Len(b)
           c == a \o b
<1>1. /\ a \in Seq(Prompt!PartNames) /\ b \in Seq(Prompt!PartNames)
      /\ \A i \in 1..n : a[i] \in N
      /\ \A i \in 1..k : b[i] \in L
      /\ \A i, j \in 1..n : a[i] = a[j] => i = j
      /\ \A i, j \in 1..k : b[i] = b[j] => i = j
  BY DEF FreshNames
<1>2. /\ n \in Nat /\ k \in Nat /\ c \in Seq(Prompt!PartNames) /\ Len(c) = n + k
      /\ \A i \in 1..n : c[i] = a[i]
      /\ \A i \in 1..k : c[n + i] = b[i]
  BY <1>1
<1> HIDE DEF n, k, c
<1>3. ASSUME NEW i \in 1..Len(c)
      PROVE  \/ i \in 1..n /\ c[i] = a[i]
             \/ i - n \in 1..k /\ c[i] = b[i - n]
  <2>1. CASE i <= n
    BY <1>2, <2>1
  <2>2. CASE ~(i <= n)
    <3>1. i - n \in 1..k /\ n + (i - n) = i
      BY <1>2, <2>2
    <3> QED
      BY <1>2, <3>1
  <2> QED
    BY <2>1, <2>2
<1>4. \A i \in 1..Len(c) : c[i] \in N \cup L
  BY <1>1, <1>3
<1>5. ASSUME NEW i \in 1..Len(c), NEW j \in 1..Len(c), c[i] = c[j] PROVE i = j
  <2>1. CASE i \in 1..n /\ c[i] = a[i] /\ j \in 1..n /\ c[j] = a[j]
    BY <1>1, <1>5, <2>1
  <2>2. CASE i - n \in 1..k /\ c[i] = b[i - n] /\ j - n \in 1..k /\ c[j] = b[j - n]
    <3>1. i - n = j - n
      BY <1>1, <1>5, <2>2
    <3> QED
      BY <1>2, <3>1
  <2>3. CASE i \in 1..n /\ c[i] = a[i] /\ j - n \in 1..k /\ c[j] = b[j - n]
    BY <1>1, <1>5, <2>3
  <2>4. CASE j \in 1..n /\ c[j] = a[j] /\ i - n \in 1..k /\ c[i] = b[i - n]
    BY <1>1, <1>5, <2>4
  <2> QED
    BY <1>3, <2>1, <2>2, <2>3, <2>4
<1> QED
  BY <1>2, <1>4, <1>5 DEF FreshNames, c

\* A name, or none.
LEMMA FreshOne ==
    ASSUME NEW x \in Prompt!PartNames
    PROVE  /\ FreshNames(<<x>>, {x}) /\ FreshNames(<<>>, {x})

<1>1. /\ <<x>> \in Seq(Prompt!PartNames) /\ Len(<<x>>) = 1 /\ <<x>>[1] = x
      /\ <<>> \in Seq(Prompt!PartNames) /\ Len(<<>>) = 0
  OBVIOUS
<1> QED
  BY <1>1 DEF FreshNames

\* Pushed parts are about things of their own when their names are.
LEMMA PushedPartsAreApart ==
    ASSUME PromptConstants, NEW q \in Seq(Prompt!Message), Apart(q), NEW S, NamedIn(q, S),
           NEW names, NEW N, FreshNames(names, N), S \cap N = {}
    PROVE  /\ q \o Prompt!Parts(names) \in Seq(Prompt!Message) /\ Apart(q \o Prompt!Parts(names))
           /\ NamedIn(q \o Prompt!Parts(names), S \cup N)
<1> DEFINE r == Prompt!Parts(names)
<1>1. /\ r \in Seq(Prompt!Message) /\ Apart(r)
      /\ \A i \in 1..Len(r) : \E j \in 1..Len(names) : r[i].what = names[j]
  <2>1. names \in Seq(Prompt!PartNames) /\ \A i, j \in 1..Len(names) : names[i] = names[j] => i = j
    BY DEF FreshNames
  <2> QED
    BY <2>1, PartsAreNamed
<1> HIDE DEF r
<1>2. NamedIn(r, N)
  BY <1>1 DEF FreshNames, NamedIn
<1>3. \A i \in 1..Len(q), j \in 1..Len(r) : q[i].what # r[j].what
  BY <1>2 DEF NamedIn
<1>4. /\ q \o r \in Seq(Prompt!Message) /\ Apart(q \o r)
      /\ \A i \in 1..Len(q \o r) : \/ \E j \in 1..Len(q) : (q \o r)[i] = q[j]
                                   \/ \E j \in 1..Len(r) : (q \o r)[i] = r[j]
  BY <1>1, <1>3, ApartTogether
<1>5. NamedIn(q \o r, S \cup N)
  BY <1>2, <1>4 DEF NamedIn
<1> QED
  BY <1>4, <1>5 DEF r

\* A turn that waits somewhere else, its prompt and request being as they were, with its system
\* messages about what they may be about there.
TurnGoes(t, where, q) ==
    /\ step' = [step EXCEPT ![t] = where] /\ system' = [system EXCEPT ![t] = q]
    /\ request' = request /\ prompt' = prompt

\* It keeps the invariant unless it says that it has sent.
LEMMA GoingKeeps ==
    ASSUME PromptInv, NEW t \in PromptTurns, NEW where \in Steps \ {"sent", "done"},
           NEW q \in Seq(Prompt!Message), Apart(q), NamedIn(q, Said(where)),
           TurnGoes(t, where, q)
    PROVE  PromptInv'
<1>1. /\ step \in [PromptTurns -> Steps] /\ request \in [PromptTurns -> PromptRequests]
      /\ system \in [PromptTurns -> Seq(Prompt!Message)] /\ DOMAIN prompt = PromptTurns
  BY DEF PromptInv
<1>2. /\ step' = [step EXCEPT ![t] = where] /\ system' = [system EXCEPT ![t] = q]
      /\ request' = request /\ prompt' = prompt
  BY DEF TurnGoes
<1>3. /\ step' \in [PromptTurns -> Steps] /\ request' \in [PromptTurns -> PromptRequests]
      /\ system' \in [PromptTurns -> Seq(Prompt!Message)] /\ DOMAIN prompt' = PromptTurns
  BY <1>1, <1>2
<1>4. ASSUME NEW u \in PromptTurns, u # t PROVE step'[u] = step[u] /\ system'[u] = system[u]
  BY <1>1, <1>2, <1>4
<1>5. step'[t] = where /\ system'[t] = q
  BY <1>1, <1>2
<1>6. ASSUME NEW u \in PromptTurns
      PROVE  Apart(system'[u]) /\ NamedIn(system'[u], Said(step'[u]))
  <2>1. CASE u = t
    BY <1>5, <2>1
  <2>2. CASE u # t
    BY <1>4, <2>2 DEF PromptInv
  <2> QED
    BY <2>1, <2>2
<1>7. ASSUME NEW u \in PromptTurns, step'[u] \in {"sent", "done"}
      PROVE  prompt'[u] = Prompt!Fitted(Prompt!Bounded(system'[u]) \o Prompt!UserMessages(request'[u]),
                                    request'[u])
  <2>1. u # t
    BY <1>5, <1>7
  <2> QED
    BY <1>2, <1>4, <1>7, <2>1 DEF PromptInv
<1> QED
  BY <1>3, <1>6, <1>7 DEF PromptInv

\* What a turn pushes keeps it when its names are not among those it has said, and when what it
\* has then said is what it may have said where it goes.
LEMMA PushingKeeps ==
    ASSUME PromptConstants, PromptInv, NEW t \in PromptTurns, NEW names, NEW N, FreshNames(names, N),
           Said(step[t]) \cap N = {}, NEW where \in Steps \ {"sent", "done"},
           Said(step[t]) \cup N \subseteq Said(where),
           Prompt!Push(t, Prompt!Parts(names)), Prompt!Goes(t, where), UNCHANGED <<request, prompt>>
    PROVE  PromptInv'
<1> DEFINE S == Said(step[t])
           q == system[t] \o Prompt!Parts(names)
<1>1. system[t] \in Seq(Prompt!Message) /\ Apart(system[t]) /\ NamedIn(system[t], S)
  BY DEF PromptInv
<1>2. S \cap N = {} /\ S \cup N \subseteq Said(where)
  OBVIOUS
<1> HIDE DEF S
<1>3. q \in Seq(Prompt!Message) /\ Apart(q) /\ NamedIn(q, S \cup N)
  BY <1>1, <1>2, PushedPartsAreApart
<1>4. TurnGoes(t, where, q)
  BY DEF TurnGoes, Prompt!Push, Prompt!Goes
<1> HIDE DEF q
<1>5. NamedIn(q, Said(where))
  BY <1>2, <1>3 DEF NamedIn
<1> QED
  BY <1>3, <1>4, <1>5, GoingKeeps

\* So does a turn that pushes nothing.
LEMMA WaitingKeeps ==
    ASSUME PromptInv, NEW t \in PromptTurns, NEW where \in Steps \ {"sent", "done"},
           Said(step[t]) \subseteq Said(where),
           Prompt!Goes(t, where), UNCHANGED <<request, system, prompt>>
    PROVE  PromptInv'
<1> DEFINE q == system[t]
<1>1. q \in Seq(Prompt!Message) /\ Apart(q) /\ NamedIn(q, Said(where))
  BY DEF PromptInv, NamedIn
<1>2. TurnGoes(t, where, q)
  BY DEF TurnGoes, Prompt!Goes, PromptInv
<1> HIDE DEF q
<1> QED
  BY <1>1, <1>2, GoingKeeps

\* The names of the first parts are fresh, minimal or not.
LEMMA OpeningIsFresh ==
    ASSUME NEW r
    PROVE  \E names : Prompt!Opening(r) = Prompt!Parts(names) /\ FreshNames(names, Opened)
<1> DEFINE few == <<"continuity", "agents", "identity", "soul">>
           tools == IF r.tools THEN <<"tools">> ELSE <<>>
           people == IF r.web THEN <<"chat", "user">> ELSE <<>>
           many == <<"agents">> \o tools \o <<"identity", "soul">> \o people
<1>1. FreshNames(few, Opened)
  BY DEF FreshNames, Opened, Prompt!PartNames
<1>2. FreshNames(<<"agents">>, {"agents"}) /\ FreshNames(tools, {"tools"})
  <2>1. "agents" \in Prompt!PartNames /\ "tools" \in Prompt!PartNames
    BY DEF Prompt!PartNames
  <2>2. FreshNames(<<"agents">>, {"agents"}) /\ FreshNames(<<"tools">>, {"tools"}) /\ FreshNames(<<>>, {"tools"})
    BY <2>1, FreshOne
  <2> QED
    BY <2>2
<1>3. FreshNames(<<"identity", "soul">>, {"identity", "soul"}) /\ FreshNames(people, {"chat", "user"})
  <2>1. FreshNames(<<"identity", "soul">>, {"identity", "soul"})
    BY DEF FreshNames, Prompt!PartNames
  <2>2. FreshNames(<<"chat", "user">>, {"chat", "user"})
    BY DEF FreshNames, Prompt!PartNames
  <2>3. FreshNames(<<>>, {"chat", "user"})
    BY DEF FreshNames
  <2> QED
    BY <2>1, <2>2, <2>3
<1> HIDE DEF tools, people
<1>4. FreshNames(many, Opened)
  <2>1. FreshNames(<<"agents">> \o tools, {"agents"} \cup {"tools"})
    BY <1>2, FreshTogether
  <2>2. FreshNames(<<"agents">> \o tools \o <<"identity", "soul">>,
              ({"agents"} \cup {"tools"}) \cup {"identity", "soul"})
    BY <1>3, <2>1, FreshTogether
  <2>3. FreshNames(many, (({"agents"} \cup {"tools"}) \cup {"identity", "soul"}) \cup {"chat", "user"})
    BY <1>3, <2>2, FreshTogether
  <2> HIDE DEF many
  <2> QED
    BY <2>3 DEF FreshNames, Opened
<1>5. Prompt!Opening(r) = Prompt!Parts(IF Prompt!MinimalSystem(r) THEN few ELSE many)
  BY DEF Prompt!Opening, tools, people
<1> QED
  BY <1>1, <1>4, <1>5

\* So are those between the notice and the journal.
LEMMA MiddleIsFresh ==
    ASSUME NEW r, NEW first
    PROVE  \E names : /\ Prompt!Middle(r, first) = Prompt!Parts(names)
                      /\ FreshNames(names, {"birth", "roadmap", "freshness", "hypotheses"})
<1> DEFINE birth == IF first THEN <<"birth">> ELSE <<>>
           freshness == IF r.messages > MaxRetained THEN <<"freshness">> ELSE <<>>
           hypotheses == IF r.escalated THEN <<"hypotheses">> ELSE <<>>
           names == birth \o <<"roadmap">> \o freshness \o hypotheses
<1>1. FreshNames(birth, {"birth"}) /\ FreshNames(<<"roadmap">>, {"roadmap"})
  <2>1. "birth" \in Prompt!PartNames /\ "roadmap" \in Prompt!PartNames
    BY DEF Prompt!PartNames
  <2>2. FreshNames(<<"birth">>, {"birth"}) /\ FreshNames(<<>>, {"birth"}) /\ FreshNames(<<"roadmap">>, {"roadmap"})
    BY <2>1, FreshOne
  <2> QED
    BY <2>2
<1>2. FreshNames(freshness, {"freshness"}) /\ FreshNames(hypotheses, {"hypotheses"})
  <2>1. "freshness" \in Prompt!PartNames /\ "hypotheses" \in Prompt!PartNames
    BY DEF Prompt!PartNames
  <2>2. /\ FreshNames(<<"freshness">>, {"freshness"}) /\ FreshNames(<<>>, {"freshness"})
        /\ FreshNames(<<"hypotheses">>, {"hypotheses"}) /\ FreshNames(<<>>, {"hypotheses"})
    BY <2>1, FreshOne
  <2> QED
    BY <2>2
<1> HIDE DEF birth, freshness, hypotheses
<1>3. FreshNames(names, {"birth", "roadmap", "freshness", "hypotheses"})
  <2>1. FreshNames(birth \o <<"roadmap">>, {"birth"} \cup {"roadmap"})
    BY <1>1, FreshTogether
  <2>2. FreshNames(birth \o <<"roadmap">> \o freshness, ({"birth"} \cup {"roadmap"}) \cup {"freshness"})
    BY <1>2, <2>1, FreshTogether
  <2>3. FreshNames(names, (({"birth"} \cup {"roadmap"}) \cup {"freshness"}) \cup {"hypotheses"})
    BY <1>2, <2>2, FreshTogether
  <2> HIDE DEF names
  <2> QED
    BY <2>3 DEF FreshNames
<1>4. Prompt!Middle(r, first) = Prompt!Parts(names)
  BY DEF Prompt!Middle, birth, freshness, hypotheses
<1> QED
  BY <1>3, <1>4

-----------------------------------------------------------------------------
\* Every step of a turn keeps the invariant.

\* The first parts are pushed under different names.
LEMMA BeginKeeps ==
    ASSUME PromptConstants, PromptInv, NEW t \in PromptTurns, Prompt!Begin(t)
    PROVE  PromptInv'
<1> DEFINE where == IF Prompt!MinimalSystem(request[t]) THEN "collect"
                    ELSE IF request[t].web THEN "memory" ELSE "birth"
<1>1. /\ step[t] = "new" /\ Prompt!Push(t, Prompt!Opening(request[t])) /\ Prompt!Goes(t, where)
      /\ UNCHANGED <<request, prompt>>
  BY DEF Prompt!Begin
<1>2. where \in {"collect", "memory", "birth"}
  OBVIOUS
<1> HIDE DEF where
<1>3. PICK names : Prompt!Opening(request[t]) = Prompt!Parts(names) /\ FreshNames(names, Opened)
  BY OpeningIsFresh
<1>4. Prompt!Push(t, Prompt!Parts(names))
  BY <1>1, <1>3
<1>5. where \in Steps \ {"sent", "done"}
  BY <1>2 DEF Steps
<1>6. Said(step[t]) = {} /\ Opened \subseteq Said(where)
  BY <1>1, <1>2 DEF Said, Recalled, Experienced, Warned, Informed, Journaled
<1>7. Said(step[t]) \cap Opened = {} /\ Said(step[t]) \cup Opened \subseteq Said(where)
  BY <1>6
<1> QED
  BY <1>1, <1>3, <1>4, <1>5, <1>7, PushingKeeps

\* What is pushed under one name.
LEMMA OnePushKeeps ==
    ASSUME PromptConstants, PromptInv, NEW t \in PromptTurns, NEW x \in Prompt!PartNames,
           x \notin Said(step[t]), NEW where \in Steps \ {"sent", "done"},
           Said(step[t]) \cup {x} \subseteq Said(where),
           Prompt!Push(t, Prompt!Parts(<<x>>)), Prompt!Goes(t, where), UNCHANGED <<request, prompt>>
    PROVE  PromptInv'
<1>1. FreshNames(<<x>>, {x})
  BY FreshOne
<1>2. Said(step[t]) \cap {x} = {}
  OBVIOUS
<1> QED
  BY <1>1, <1>2, PushingKeeps

\* What is remembered comes under a name of its own.
LEMMA MemoryAndExperienceKeep ==
    ASSUME PromptConstants, PromptInv, NEW t \in PromptTurns,
           Prompt!LoadMemory(t) \/ Prompt!LoadExperience(t)
    PROVE  PromptInv'
<1>1. CASE Prompt!LoadMemory(t)
  <2>1. /\ step[t] = "memory" /\ Prompt!Push(t, Prompt!Parts(<<"memory">>))
        /\ Prompt!Goes(t, "experience") /\ UNCHANGED <<request, prompt>>
    BY <1>1 DEF Prompt!LoadMemory
  <2>2. "memory" \in Prompt!PartNames /\ "experience" \in Steps \ {"sent", "done"}
    BY DEF Prompt!PartNames, Steps
  <2>3. "memory" \notin Said(step[t]) /\ Said(step[t]) \cup {"memory"} \subseteq Said("experience")
    BY <2>1 DEF Said, Opened, Recalled
  <2> QED
    BY <2>1, <2>2, <2>3, OnePushKeeps
<1>2. CASE Prompt!LoadExperience(t)
  <2>1. /\ step[t] = "experience" /\ Prompt!Push(t, Prompt!Parts(<<"experience">>))
        /\ Prompt!Goes(t, "notice") /\ UNCHANGED <<request, prompt>>
    BY <1>2 DEF Prompt!LoadExperience
  <2>2. "experience" \in Prompt!PartNames /\ "notice" \in Steps \ {"sent", "done"}
    BY DEF Prompt!PartNames, Steps
  <2>3. /\ "experience" \notin Said(step[t])
        /\ Said(step[t]) \cup {"experience"} \subseteq Said("notice")
    BY <2>1 DEF Said, Opened, Recalled, Experienced
  <2> QED
    BY <2>1, <2>2, <2>3, OnePushKeeps
<1> QED
  BY <1>1, <1>2

\* So does the notice, if there is one.
LEMMA NoticeKeeps ==
    ASSUME PromptConstants, PromptInv, NEW t \in PromptTurns,
           Prompt!AskForRuns(t) \/ Prompt!HearOfRuns(t)
    PROVE  PromptInv'
<1>1. CASE Prompt!AskForRuns(t)
  <2> DEFINE where == IF noticed THEN "birth" ELSE "runs"
  <2>1. step[t] = "notice" /\ Prompt!Goes(t, where) /\ UNCHANGED <<request, system, prompt>>
    BY <1>1 DEF Prompt!AskForRuns
  <2>2. where \in {"birth", "runs"}
    OBVIOUS
  <2> HIDE DEF where
  <2>3. where \in Steps \ {"sent", "done"} /\ Said(step[t]) \subseteq Said(where)
    BY <2>1, <2>2 DEF Steps, Said, Warned
  <2> QED
    BY <2>1, <2>3, WaitingKeeps
<1>2. CASE Prompt!HearOfRuns(t)
  <2>1. step[t] = "runs" /\ Prompt!Goes(t, "birth") /\ UNCHANGED <<request, prompt>>
    BY <1>2 DEF Prompt!HearOfRuns
  <2>2. "birth" \in Steps \ {"sent", "done"} /\ "interrupted" \in Prompt!PartNames
    BY DEF Steps, Prompt!PartNames
  <2>3. /\ "interrupted" \notin Said(step[t])
        /\ Said(step[t]) \cup {"interrupted"} \subseteq Said("birth")
    BY <2>1 DEF Said, Opened, Recalled, Experienced, Warned
  <2>4. CASE AnyInterrupted
    <3>1. Prompt!Push(t, Prompt!Parts(<<"interrupted">>))
      BY <1>2, <2>4 DEF Prompt!HearOfRuns
    <3> QED
      BY <2>1, <2>2, <2>3, <3>1, OnePushKeeps
  <2>5. CASE ~AnyInterrupted
    <3>1. UNCHANGED system
      BY <1>2, <2>5 DEF Prompt!HearOfRuns
    <3>2. Said(step[t]) \subseteq Said("birth")
      BY <2>3
    <3> QED
      BY <2>1, <2>2, <3>1, <3>2, WaitingKeeps
  <2> QED
    BY <2>4, <2>5
<1> QED
  BY <1>1, <1>2

\* So do the journal and, each under its own, the parts before it.
LEMMA MiddleKeeps ==
    ASSUME PromptConstants, PromptInv, NEW t \in PromptTurns,
           Prompt!PushMiddle(t) \/ Prompt!ReadJournal(t)
    PROVE  PromptInv'
<1>1. CASE Prompt!PushMiddle(t)
  <2> DEFINE first == SessionOf[t] \notin withTurn
             N == {"birth", "roadmap", "freshness", "hypotheses"}
  <2>1. /\ step[t] = "birth" /\ Prompt!Push(t, Prompt!Middle(request[t], first))
        /\ Prompt!Goes(t, "journal") /\ UNCHANGED <<request, prompt>>
    BY <1>1 DEF Prompt!PushMiddle
  <2>2. PICK names : Prompt!Middle(request[t], first) = Prompt!Parts(names) /\ FreshNames(names, N)
    BY MiddleIsFresh
  <2>3. Prompt!Push(t, Prompt!Parts(names))
    BY <2>1, <2>2
  <2>4. "journal" \in Steps \ {"sent", "done"}
    BY DEF Steps
  <2>5. Said(step[t]) \cap N = {} /\ Said(step[t]) \cup N \subseteq Said("journal")
    BY <2>1 DEF Said, Opened, Recalled, Experienced, Warned, Informed
  <2> HIDE DEF N
  <2> QED
    BY <2>1, <2>2, <2>3, <2>4, <2>5, PushingKeeps
<1>2. CASE Prompt!ReadJournal(t)
  <2>1. /\ step[t] = "journal" /\ Prompt!Push(t, Prompt!Parts(<<"journal">>))
        /\ Prompt!Goes(t, "collect") /\ UNCHANGED <<request, prompt>>
    BY <1>2 DEF Prompt!ReadJournal
  <2>2. "journal" \in Prompt!PartNames /\ "collect" \in Steps \ {"sent", "done"}
    BY DEF Prompt!PartNames, Steps
  <2>3. "journal" \notin Said(step[t]) /\ Said(step[t]) \cup {"journal"} \subseteq Said("collect")
    BY <2>1 DEF Said, Opened, Recalled, Experienced, Warned, Informed, Journaled
  <2> QED
    BY <2>1, <2>2, <2>3, OnePushKeeps
<1> QED
  BY <1>1, <1>2

\* So does what the plugins found; collecting it changes no message.
LEMMA PluginsKeep ==
    ASSUME PromptConstants, PromptInv, NEW t \in PromptTurns,
           \/ \E found \in SUBSET {"memory", "observations"} : Prompt!Collect(t, found)
           \/ \E ok \in BOOLEAN : Prompt!Analyze(t, ok)
    PROVE  PromptInv'
<1>1. CASE \E found \in SUBSET {"memory", "observations"} : Prompt!Collect(t, found)
  <2>1. step[t] = "collect" /\ Prompt!Goes(t, "analyze") /\ UNCHANGED <<request, system, prompt>>
    BY <1>1 DEF Prompt!Collect
  <2>2. "analyze" \in Steps \ {"sent", "done"} /\ Said(step[t]) \subseteq Said("analyze")
    BY <2>1 DEF Steps, Said
  <2> QED
    BY <2>1, <2>2, WaitingKeeps
<1>2. CASE \E ok \in BOOLEAN : Prompt!Analyze(t, ok)
  <2>1. PICK ok \in BOOLEAN : Prompt!Analyze(t, ok)
    BY <1>2
  <2>2. step[t] = "analyze" /\ Prompt!Goes(t, "built") /\ UNCHANGED <<request, prompt>>
    BY <2>1 DEF Prompt!Analyze
  <2>3. "built" \in Steps \ {"sent", "done"} /\ "plugins" \in Prompt!PartNames
    BY DEF Steps, Prompt!PartNames
  <2>4. /\ "plugins" \notin Said(step[t])
        /\ Said(step[t]) \cup {"plugins"} \subseteq Said("built")
    BY <2>2 DEF Said, Opened, Recalled, Experienced, Warned, Informed, Journaled, Complete
  <2>5. Prompt!Push(t, Prompt!Parts(<<"plugins">>)) \/ UNCHANGED system
    BY <2>1 DEF Prompt!Analyze
  <2>6. Said(step[t]) \subseteq Said("built")
    BY <2>4
  <2>7. ASSUME Prompt!Push(t, Prompt!Parts(<<"plugins">>)) PROVE PromptInv'
    BY <2>2, <2>3, <2>4, <2>7, OnePushKeeps
  <2>8. ASSUME UNCHANGED system PROVE PromptInv'
    BY <2>2, <2>3, <2>6, <2>8, WaitingKeeps
  <2> QED
    BY <2>5, <2>7, <2>8
<1> QED
  BY <1>1, <1>2

\* A prompt is made of the messages that are there.
LEMMA SendKeeps ==
    ASSUME PromptInv, NEW t \in PromptTurns, Prompt!Send(t)
    PROVE  PromptInv'
<1> DEFINE Made(u) == Prompt!Fitted(Prompt!Bounded(system[u]) \o Prompt!UserMessages(request[u]),
                                  request[u])
<1>1. /\ step[t] = "built" /\ prompt' = [prompt EXCEPT ![t] = Made(t)]
      /\ step' = [step EXCEPT ![t] = "sent"] /\ system' = system /\ request' = request
  BY DEF Prompt!Send, Prompt!Goes
<1>2. /\ step \in [PromptTurns -> Steps] /\ request \in [PromptTurns -> PromptRequests]
      /\ system \in [PromptTurns -> Seq(Prompt!Message)] /\ DOMAIN prompt = PromptTurns
      /\ \A u \in PromptTurns : Apart(system[u]) /\ NamedIn(system[u], Said(step[u]))
      /\ \A u \in PromptTurns : step[u] \in {"sent", "done"} => prompt[u] = Made(u)
  BY DEF PromptInv
<1> HIDE DEF Made
<1>3. prompt'[t] = Made(t) /\ step'[t] = "sent"
      /\ \A u \in PromptTurns \ {t} : prompt'[u] = prompt[u] /\ step'[u] = step[u]
  BY <1>1, <1>2
<1>4. /\ step' \in [PromptTurns -> Steps] /\ request' \in [PromptTurns -> PromptRequests]
      /\ system' \in [PromptTurns -> Seq(Prompt!Message)] /\ DOMAIN prompt' = PromptTurns
  <2>1. "sent" \in Steps
    BY DEF Steps
  <2> QED
    BY <1>1, <1>2, <2>1
<1>5. ASSUME NEW u \in PromptTurns
      PROVE  Apart(system'[u]) /\ NamedIn(system'[u], Said(step'[u]))
  <2>1. Said("built") = Said("sent")
    BY DEF Said
  <2>2. Said(step'[u]) = Said(step[u])
    BY <1>1, <1>3, <2>1
  <2> QED
    BY <1>1, <1>2, <2>2
<1>6. ASSUME NEW u \in PromptTurns, step'[u] \in {"sent", "done"} PROVE prompt'[u] = Made(u)
  BY <1>2, <1>3, <1>6
<1>7. \A u \in PromptTurns :
          Made(u) = Prompt!Fitted(Prompt!Bounded(system'[u]) \o Prompt!UserMessages(request'[u]),
                                request'[u])
  BY <1>1 DEF Made
<1> QED
  BY <1>4, <1>5, <1>6, <1>7 DEF PromptInv

\* Rounds leave the prompt as it is, and the end of a turn does.
LEMMA RoundsKeep ==
    ASSUME PromptInv, NEW t \in PromptTurns,
           Prompt!Finish(t) \/ \E reply \in Replies : Prompt!FollowUp(t, reply)
    PROVE  PromptInv'
<1>1. CASE \E reply \in Replies : Prompt!FollowUp(t, reply)
  <2>1. UNCHANGED <<step, request, system, prompt>>
    BY <1>1 DEF Prompt!FollowUp
  <2> QED
    BY <2>1 DEF PromptInv
<1>2. CASE Prompt!Finish(t)
  <2>1. step[t] = "sent" /\ step' = [step EXCEPT ![t] = "done"] /\ UNCHANGED <<request, system, prompt>>
    BY <1>2 DEF Prompt!Finish, Prompt!Goes
  <2>2. "done" \in Steps /\ Said("done") = Said("sent")
    BY DEF Steps, Said
  <2>3. step' \in [PromptTurns -> Steps]
    BY <2>1, <2>2 DEF PromptInv
  <2>4. ASSUME NEW u \in PromptTurns
        PROVE  /\ Said(step'[u]) = Said(step[u])
               /\ step'[u] \in {"sent", "done"} => step[u] \in {"sent", "done"}
    BY <2>1, <2>2 DEF PromptInv
  <2> QED
    BY <2>1, <2>3, <2>4 DEF PromptInv
<1> QED
  BY <1>1, <1>2

\* The messages of follow-up rounds, none of which is the user's.
AddedInv ==
    /\ added \in [PromptTurns -> Seq(Prompt!Message)]
    /\ \A t \in PromptTurns : \A i \in 1..Len(added[t]) : added[t][i].role # "user"

\* A round's messages are what the model said and what its tools did.
LEMMA RoundIs ==
    ASSUME PromptConstants, NEW r, NEW reply \in Replies
    PROVE  /\ Prompt!Round(r, reply) \in Seq(Prompt!Message)
           /\ \A i \in 1..Len(Prompt!Round(r, reply)) : Prompt!Round(r, reply)[i].role # "user"
<1> DEFINE said == [role |-> "assistant", what |-> "reply", no |-> 0,
                    size |-> IF Prompt!Ollama(r) THEN reply.text ELSE 0]
           done == [i \in 1..Len(reply.results) |->
                       [role |-> "tool", what |-> "result", no |-> i, size |-> reply.results[i]]]
           one == <<said>>
<1>1. Prompt!Round(r, reply) = one \o done
  BY DEF Prompt!Round
<1>2. reply.text \in Nat /\ reply.results \in Seq(Nat) /\ Len(reply.results) \in Nat
      /\ \A i \in 1..Len(reply.results) : reply.results[i] \in Nat
  BY DEF PromptConstants
<1>3. said \in Prompt!Message /\ said.role # "user"
  <2> DEFINE size == IF Prompt!Ollama(r) THEN reply.text ELSE 0
  <2>1. size \in Nat
    BY <1>2
  <2> HIDE DEF size
  <2> QED
    BY <2>1 DEF Prompt!Message, Prompt!Roles
<1>4. ASSUME NEW i \in 1..Len(reply.results)
      PROVE  /\ [role |-> "tool", what |-> "result", no |-> i, size |-> reply.results[i]]
                     \in Prompt!Message
  BY <1>2 DEF Prompt!Message, Prompt!Roles
<1>5. done \in Seq(Prompt!Message) /\ Len(done) = Len(reply.results)
      /\ \A i \in 1..Len(reply.results) : done[i].role # "user"
  <2>1. done \in [1..Len(reply.results) -> Prompt!Message]
    BY <1>4
  <2>2. \A i \in 1..Len(reply.results) : done[i].role = "tool"
    OBVIOUS
  <2> DEFINE n == Len(reply.results)
  <2>3. n \in Nat /\ done \in [1..n -> Prompt!Message]
    BY <1>2, <2>1
  <2> HIDE DEF done, n
  <2>4. done \in Seq(Prompt!Message) /\ Len(done) = n
    BY <2>3
  <2> QED
    BY <2>2, <2>4 DEF n
<1>6. one \in Seq(Prompt!Message) /\ Len(one) = 1 /\ one[1] = said
  <2> HIDE DEF said
  <2> QED
    BY <1>3
<1> HIDE DEF one, done, said
<1>7. /\ one \o done \in Seq(Prompt!Message) /\ Len(one \o done) = Len(one) + Len(done)
      /\ \A i \in 1..Len(one) : (one \o done)[i] = one[i]
      /\ \A i \in 1..Len(done) : (one \o done)[Len(one) + i] = done[i]
  <2>1. one \in Seq(Prompt!Message) /\ done \in Seq(Prompt!Message)
    BY <1>5, <1>6
  <2> QED
    BY <2>1, JoinedElements
<1>8. ASSUME NEW i \in 1..Len(one \o done) PROVE (one \o done)[i].role # "user"
  <2>1. CASE i = 1
    BY <1>3, <1>6, <1>7, <2>1
  <2>2. CASE i # 1
    <3>1. i - 1 \in 1..Len(done) /\ 1 + (i - 1) = i
      BY <1>5, <1>6, <1>7, <1>2, <2>2
    <3>2. (one \o done)[1 + (i - 1)] = done[i - 1]
      BY <1>6, <1>7, <3>1
    <3> QED
      BY <1>5, <3>1, <3>2
  <2> QED
    BY <2>1, <2>2
<1> QED
  BY <1>1, <1>7, <1>8

\* Two sequences without the user's messages make one.
LEMMA NoneIsUsers ==
    ASSUME NEW q \in Seq(Prompt!Message), NEW r \in Seq(Prompt!Message),
           \A i \in 1..Len(q) : q[i].role # "user", \A i \in 1..Len(r) : r[i].role # "user"
    PROVE  /\ q \o r \in Seq(Prompt!Message)
           /\ \A i \in 1..Len(q \o r) : (q \o r)[i].role # "user"
<1>1. /\ q \o r \in Seq(Prompt!Message) /\ Len(q \o r) = Len(q) + Len(r)
      /\ Len(q) \in Nat /\ Len(r) \in Nat
      /\ \A i \in 1..Len(q) : (q \o r)[i] = q[i]
      /\ \A i \in 1..Len(r) : (q \o r)[Len(q) + i] = r[i]
  BY JoinedElements
<1>2. ASSUME NEW i \in 1..Len(q \o r) PROVE (q \o r)[i].role # "user"
  <2>1. CASE i <= Len(q)
    BY <1>1, <2>1
  <2>2. CASE ~(i <= Len(q))
    <3>1. i - Len(q) \in 1..Len(r) /\ Len(q) + (i - Len(q)) = i
      BY <1>1, <2>2
    <3>2. (q \o r)[Len(q) + (i - Len(q))] = r[i - Len(q)]
      BY <1>1, <3>1
    <3> QED
      BY <3>1, <3>2
  <2> QED
    BY <2>1, <2>2
<1> QED
  BY <1>1, <1>2

\* AddedInv is an invariant.
LEMMA AddedInvHolds == Prompt!Spec => []AddedInv
<1> USE PromptConstants
<1>1. Prompt!Init => AddedInv
  <2> SUFFICES ASSUME Prompt!Init PROVE AddedInv
    OBVIOUS
  <2>1. added = [t \in PromptTurns |-> <<>>]
    BY DEF Prompt!Init
  <2>2. <<>> \in Seq(Prompt!Message) /\ Len(<<>>) = 0
    OBVIOUS
  <2> QED
    BY <2>1, <2>2 DEF AddedInv
<1>2. AddedInv /\ [Prompt!Next]_Prompt!promptVars => AddedInv'
  <2> SUFFICES ASSUME AddedInv, [Prompt!Next]_Prompt!promptVars PROVE AddedInv'
    OBVIOUS
  <2>1. \/ added' = added
        \/ \E t \in PromptTurns, reply \in Replies : Prompt!FollowUp(t, reply)
    BY DEF Prompt!Next, Prompt!promptVars, Prompt!Begin, Prompt!LoadMemory, Prompt!LoadExperience,
           Prompt!AskForRuns, Prompt!HearOfRuns, Prompt!PushMiddle, Prompt!ReadJournal,
           Prompt!Collect, Prompt!Analyze, Prompt!Send, Prompt!Finish
  <2>2. CASE added' = added
    BY <2>2 DEF AddedInv
  <2>3. ASSUME NEW t \in PromptTurns, NEW reply \in Replies, Prompt!FollowUp(t, reply)
        PROVE  AddedInv'
    <3> DEFINE q == added[t]
               r == Prompt!Round(request[t], reply)
    <3>1. added' = [added EXCEPT ![t] = q \o r]
      BY <2>3 DEF Prompt!FollowUp
    <3>2. q \in Seq(Prompt!Message) /\ \A i \in 1..Len(q) : q[i].role # "user"
      BY DEF AddedInv
    <3>3. r \in Seq(Prompt!Message) /\ \A i \in 1..Len(r) : r[i].role # "user"
      BY RoundIs
    <3> DEFINE c == q \o r
    <3> HIDE DEF q, r
    <3>4. c \in Seq(Prompt!Message) /\ \A i \in 1..Len(c) : c[i].role # "user"
      BY <3>2, <3>3, NoneIsUsers
    <3> HIDE DEF c
    <3>5. added' = [added EXCEPT ![t] = c]
      BY <3>1 DEF c
    <3> QED
      BY <3>4, <3>5 DEF AddedInv
  <2> QED
    BY <2>1, <2>2, <2>3
<1> QED
  BY <1>1, <1>2, PTL DEF Prompt!Spec

\* PromptInv is an invariant.
LEMMA PromptInvHolds == Prompt!Spec => []PromptInv
<1> USE PromptConstants
<1>1. Prompt!Init => PromptInv
  <2> SUFFICES ASSUME Prompt!Init PROVE PromptInv
    OBVIOUS
  <2>1. /\ step = [t \in PromptTurns |-> "new"] /\ request \in [PromptTurns -> PromptRequests]
        /\ system = [t \in PromptTurns |-> <<>>] /\ prompt = [t \in PromptTurns |-> <<>>]
    BY DEF Prompt!Init
  <2>2. <<>> \in Seq(Prompt!Message) /\ Len(<<>>) = 0 /\ "new" \in Steps /\ "new" \notin {"sent", "done"}
    BY DEF Steps
  <2>3. Apart(<<>>) /\ NamedIn(<<>>, Said("new"))
    BY <2>2 DEF Apart, NamedIn
  <2> QED
    BY <2>1, <2>2, <2>3 DEF PromptInv
<1>2. PromptInv /\ [Prompt!Next]_Prompt!promptVars => PromptInv'
  <2> SUFFICES ASSUME PromptInv, [Prompt!Next]_Prompt!promptVars PROVE PromptInv'
    OBVIOUS
  <2>1. ASSUME NEW t \in PromptTurns, Prompt!Begin(t) PROVE PromptInv'
    BY <2>1, BeginKeeps
  <2>2. ASSUME NEW t \in PromptTurns, Prompt!LoadMemory(t) \/ Prompt!LoadExperience(t)
        PROVE  PromptInv'
    BY <2>2, MemoryAndExperienceKeep
  <2>3. ASSUME NEW t \in PromptTurns, Prompt!AskForRuns(t) \/ Prompt!HearOfRuns(t)
        PROVE  PromptInv'
    BY <2>3, NoticeKeeps
  <2>4. ASSUME NEW t \in PromptTurns, Prompt!PushMiddle(t) \/ Prompt!ReadJournal(t)
        PROVE  PromptInv'
    BY <2>4, MiddleKeeps
  <2>5. ASSUME NEW t \in PromptTurns,
               \/ \E found \in SUBSET {"memory", "observations"} : Prompt!Collect(t, found)
               \/ \E ok \in BOOLEAN : Prompt!Analyze(t, ok)
        PROVE  PromptInv'
    BY <2>5, PluginsKeep
  <2>6. ASSUME NEW t \in PromptTurns, Prompt!Send(t) PROVE PromptInv'
    BY <2>6, SendKeeps
  <2>7. ASSUME NEW t \in PromptTurns,
               Prompt!Finish(t) \/ \E reply \in Replies : Prompt!FollowUp(t, reply)
        PROVE  PromptInv'
    BY <2>7, RoundsKeep
  <2>8. CASE UNCHANGED Prompt!promptVars
    BY <2>8 DEF PromptInv, Prompt!promptVars
  <2> QED
    BY <2>1, <2>2, <2>3, <2>4, <2>5, <2>6, <2>7, <2>8 DEF Prompt!Next
<1> QED
  BY <1>1, <1>2, PTL DEF Prompt!Spec

\* A prompt before it is trimmed: the bounded system messages, then those of the conversation.
Whole(t) == Prompt!Bounded(system[t]) \o Prompt!UserMessages(request[t])

\* Its messages are all different, and the last is the last of the conversation if that has any.
LEMMA WholePrompt ==
    ASSUME PromptConstants, PromptInv, NEW t \in PromptTurns
    PROVE  /\ Whole(t) \in Seq(Prompt!Message)
           /\ \A i, j \in 1..Len(Whole(t)) : Whole(t)[i] = Whole(t)[j] => i = j
           /\ Len(Prompt!UserMessages(request[t])) # 0 =>
                  /\ Len(Whole(t)) # 0
                  /\ Whole(t)[Len(Whole(t))] =
                         Prompt!UserMessages(request[t])[Len(Prompt!UserMessages(request[t]))]
<1> DEFINE q == system[t]
           a == Prompt!Bounded(q)
           b == Prompt!UserMessages(request[t])
           c == a \o b
           n == Len(a)
           k == Len(b)
<1>1. q \in Seq(Prompt!Message) /\ Apart(q) /\ NamedIn(q, Said(step[t]))
      /\ request[t] \in PromptRequests
  BY DEF PromptInv
<1>2. "message" \notin Said(step[t])
  BY DEF Said, Opened, Recalled, Experienced, Warned, Informed, Journaled, Complete
<1> HIDE DEF q
<1>3. a \in Seq(Prompt!Message) /\ About(a, q) /\ Apart(a)
  BY <1>1, BoundedKeeps
<1>4. /\ b \in Seq(Prompt!Message) /\ \A i \in 1..Len(b) : b[i].what = "message"
      /\ \A i, j \in 1..Len(b) : b[i] = b[j] => i = j
  BY <1>1, UserMessagesAre
<1> HIDE DEF a, b
<1>5. /\ n \in Nat /\ k \in Nat /\ c \in Seq(Prompt!Message) /\ Len(c) = n + k
      /\ \A i \in 1..n : c[i] = a[i]
      /\ \A i \in 1..k : c[n + i] = b[i]
  BY <1>3, <1>4
<1>6. \A i \in 1..n : a[i].what # "message"
  BY <1>1, <1>2, <1>3 DEF About, NamedIn
<1> HIDE DEF n, k, c
<1>7. ASSUME NEW i \in 1..Len(c)
      PROVE  \/ i \in 1..n /\ c[i] = a[i]
             \/ i - n \in 1..k /\ c[i] = b[i - n]
  <2>1. CASE i <= n
    BY <1>5, <2>1
  <2>2. CASE ~(i <= n)
    <3>1. i - n \in 1..k /\ n + (i - n) = i
      BY <1>5, <2>2
    <3> QED
      BY <1>5, <3>1
  <2> QED
    BY <2>1, <2>2
<1>8. ASSUME NEW i \in 1..Len(c), NEW j \in 1..Len(c), c[i] = c[j] PROVE i = j
  <2>1. CASE i \in 1..n /\ c[i] = a[i] /\ j \in 1..n /\ c[j] = a[j]
    BY <1>3, <1>8, <2>1 DEF Apart, n
  <2>2. CASE i - n \in 1..k /\ c[i] = b[i - n] /\ j - n \in 1..k /\ c[j] = b[j - n]
    <3>1. i - n = j - n
      BY <1>4, <1>8, <2>2 DEF k
    <3> QED
      BY <1>5, <3>1
  <2>3. CASE i \in 1..n /\ c[i] = a[i] /\ j - n \in 1..k /\ c[j] = b[j - n]
    BY <1>4, <1>6, <1>8, <2>3 DEF k
  <2>4. CASE j \in 1..n /\ c[j] = a[j] /\ i - n \in 1..k /\ c[i] = b[i - n]
    BY <1>4, <1>6, <1>8, <2>4 DEF k
  <2> QED
    BY <1>7, <2>1, <2>2, <2>3, <2>4
<1>9. ASSUME k # 0 PROVE Len(c) # 0 /\ c[Len(c)] = b[k]
  <2>1. k \in 1..k
    BY <1>5, <1>9
  <2> QED
    BY <1>5, <2>1
<1> QED
  BY <1>5, <1>8, <1>9 DEF Whole, a, b, c, k, q

\* The last message of a conversation is its user's.
LEMMA LastIsUsers ==
    ASSUME PromptConstants, NEW r \in PromptRequests, r.messages # 0,
           NEW u, u = Prompt!UserMessages(r)
    PROVE  u[Len(u)].role = "user"
<1> DEFINE n == IF Prompt!MinimalContext(r) THEN 1 ELSE Prompt!Least(MaxRetained, r.messages)
           first == r.messages - n
           Role(i) == IF (r.messages - first - i) % 2 = 0 THEN "user" ELSE "assistant"
           Chars(i) == UserSize + IF i = n /\ Prompt!MinimalSystem(r) THEN PartSize.instead ELSE 0
           M1(i) == [role |-> Role(i), what |-> "message", no |-> first + i, size |-> Chars(i)]
<1>1. u = [i \in 1..n |-> M1(i)]
  BY DEF Prompt!UserMessages
<1>2. /\ r.messages \in Nat /\ MaxRetained \in Nat \ {0}
  BY DEF PromptConstants
<1>3. n \in Nat /\ n # 0
  BY <1>2 DEF Prompt!Least
<1> HIDE DEF n
<1>4. Role(n) = "user"
  <2>1. r.messages - first - n = 0
    BY <1>2, <1>3
  <2>2. 0 % 2 = 0
    OBVIOUS
  <2> HIDE DEF first
  <2> QED
    BY <2>1, <2>2
<1>5. n \in 1..n /\ M1(n).role = Role(n)
  BY <1>3
<1> HIDE DEF M1, Role, first, Chars
<1>6. Len(u) = n /\ u[n] = M1(n)
  <2>1. DOMAIN u = 1..n /\ u[n] = M1(n)
    BY <1>1, <1>5
  <2>2. u \in Seq(Prompt!Message)
    BY UserMessagesAre
  <2> QED
    BY <1>3, <2>1, <2>2
<1> QED
  BY <1>4, <1>5, <1>6

\* A suffix makes a message three tokens longer at most, and leaves what it is.
LEMMA SuffixCost ==
    ASSUME NEW m \in Prompt!Message, NEW x, x = [m EXCEPT !.size = @ + Prompt!SuffixSize]
    PROVE  /\ x \in Prompt!Message /\ x.role = m.role
           /\ Cost[x] \in Nat /\ Cost[m] \in Nat /\ Cost[x] <= Cost[m] + 3
<1>1. m.size \in Nat /\ Prompt!SuffixSize = 10
  BY DEF Prompt!Message, Prompt!SuffixSize
<1>2. x \in Prompt!Message /\ x.role = m.role /\ x.size = m.size + 10
  BY <1>1 DEF Prompt!Message
<1>3. Cost[x] = (x.size + 3) \div 4 /\ Cost[m] = (m.size + 3) \div 4
  BY <1>2 DEF Cost, Prompt!Tokens
<1> DEFINE k == m.size
<1>4. (k + 13) \div 4 \in Nat /\ (k + 3) \div 4 \in Nat /\ (k + 13) \div 4 <= (k + 3) \div 4 + 3
  <2>1. k \in Nat
    BY <1>1
  <2> HIDE DEF k
  <2> QED
    BY <2>1
<1>5. x.size + 3 = k + 13
  BY <1>1, <1>2
<1> QED
  BY <1>2, <1>3, <1>4, <1>5

\* Who gets the suffix: the last of the user's messages, and nobody else.
LastUsers(q, i) == q[i].role = "user" /\ \A j \in (i + 1)..Len(q) : q[j].role # "user"

\* With it the messages are three tokens more at most.
LEMMA SuffixedMessages ==
    ASSUME NEW q \in Seq(Prompt!Message), NEW r, r = Prompt!WithSuffix(q)
    PROVE  /\ Prompt!Total(r) \in Nat /\ Prompt!Total(r) <= Prompt!Total(q) + 3
           /\ \A i \in 1..Len(q) : LastUsers(q, i) =>
                  r[i] = [q[i] EXCEPT !.size = @ + Prompt!SuffixSize]
<1> DEFINE n == Len(q)
           X(i) == [q[i] EXCEPT !.size = @ + Prompt!SuffixSize]
<1>1. r = [i \in 1..n |-> IF LastUsers(q, i) THEN X(i) ELSE q[i]]
  BY DEF Prompt!WithSuffix, LastUsers
<1>2. n \in Nat /\ \A i \in 1..n : q[i] \in Prompt!Message
  OBVIOUS
<1>3. ASSUME NEW i \in 1..n
      PROVE  X(i) \in Prompt!Message /\ Cost[X(i)] \in Nat /\ Cost[q[i]] \in Nat
             /\ Cost[X(i)] <= Cost[q[i]] + 3
  <2>1. q[i] \in Prompt!Message
    BY <1>2
  <2> QED
    BY <2>1, SuffixCost
<1> HIDE DEF n, X
<1>4. ASSUME NEW i \in 1..n, NEW j \in 1..n, LastUsers(q, i), LastUsers(q, j) PROVE i = j
  BY <1>2, <1>4 DEF LastUsers, n
<1>5. r \in Seq(Prompt!Message) /\ Len(r) = n
  <2>1. \A i \in 1..n : (IF LastUsers(q, i) THEN X(i) ELSE q[i]) \in Prompt!Message
    BY <1>2, <1>3
  <2>2. r \in [1..n -> Prompt!Message]
    BY <1>1, <2>1
  <2> QED
    BY <1>2, <2>2
<1>6. ASSUME NEW i \in 1..n
      PROVE  /\ LastUsers(q, i) => r[i] = X(i)
             /\ ~LastUsers(q, i) => r[i] = q[i]
  BY <1>1
<1>7. ASSUME NEW i \in 1..n
      PROVE  /\ Cost[r[i]] <= Cost[q[i]] + 3
             /\ Cost[r[i]] > Cost[q[i]] => LastUsers(q, i)
  BY <1>3, <1>6
<1>8. Weight(r, Cost) <= Weight(q, Cost) + 3
  <2>1. \A i, j \in 1..Len(q) : Cost[r[i]] > Cost[q[i]] /\ Cost[r[j]] > Cost[q[j]] => i = j
    BY <1>4, <1>7 DEF n
  <2>2. \A i \in 1..Len(q) : Cost[r[i]] <= Cost[q[i]] + 3
    BY <1>7 DEF n
  <2>3. Len(q) = Len(r) /\ Cost \in [Prompt!Message -> Nat] /\ 3 \in Nat
    BY <1>5, TotalIsCost DEF n
  <2> QED
    BY <1>5, <2>1, <2>2, <2>3, WeightRaised
<1>9. Prompt!Total(r) = Weight(r, Cost) /\ Prompt!Total(q) = Weight(q, Cost)
      /\ Prompt!Total(r) \in Nat
  BY <1>5, TotalIsCost, CostOfBoth
<1> QED
  BY <1>6, <1>8, <1>9 DEF n, X

\* What a model is sent, if all that was added is not the user's, is not longer than the prompt,
\* that and the suffix, and has the last message of the prompt where it was.
LEMMA SentIs ==
    ASSUME NEW t \in PromptTurns, NEW s \in Seq(Prompt!Message), NEW a \in Seq(Prompt!Message),
           prompt[t] = s, added[t] = a, \A i \in 1..Len(a) : a[i].role # "user"
    PROVE  /\ Prompt!Total(Prompt!ToSend(t)) \in Nat
           /\ Prompt!Total(Prompt!ToSend(t)) <=
                   Prompt!Total(s) + Prompt!Total(a) + (IF request[t].noThink THEN 3 ELSE 0)
           /\ Len(s) # 0 /\ s[Len(s)].role = "user" =>
                   Prompt!ToSend(t)[Len(s)] =
                       IF request[t].noThink
                       THEN [s[Len(s)] EXCEPT !.size = @ + Prompt!SuffixSize]
                       ELSE s[Len(s)]
<1> DEFINE c == s \o a
           n == Len(s)
<1>1. /\ c \in Seq(Prompt!Message) /\ Len(c) = n + Len(a) /\ n \in Nat /\ Len(a) \in Nat
      /\ \A i \in 1..n : c[i] = s[i]
      /\ \A i \in 1..Len(a) : c[n + i] = a[i]
  BY JoinedElements
<1>2. Prompt!Total(c) = Prompt!Total(s) + Prompt!Total(a)
      /\ Prompt!Total(s) \in Nat /\ Prompt!Total(a) \in Nat
  BY CostOfBoth
<1>3. Prompt!ToSend(t) = IF request[t].noThink THEN Prompt!WithSuffix(c) ELSE c
  BY DEF Prompt!ToSend
<1> HIDE DEF c, n
<1>4. /\ Prompt!Total(Prompt!WithSuffix(c)) \in Nat
      /\ Prompt!Total(Prompt!WithSuffix(c)) <= Prompt!Total(c) + 3
      /\ \A i \in 1..Len(c) : LastUsers(c, i) =>
              Prompt!WithSuffix(c)[i] = [c[i] EXCEPT !.size = @ + Prompt!SuffixSize]
  <2> DEFINE w == Prompt!WithSuffix(c)
  <2>1. c \in Seq(Prompt!Message) /\ w = Prompt!WithSuffix(c)
    BY <1>1
  <2> HIDE DEF w
  <2>2. /\ Prompt!Total(w) \in Nat /\ Prompt!Total(w) <= Prompt!Total(c) + 3
        /\ \A i \in 1..Len(c) : LastUsers(c, i) =>
                w[i] = [c[i] EXCEPT !.size = @ + Prompt!SuffixSize]
    BY <2>1, SuffixedMessages
  <2> QED
    BY <2>2 DEF w
<1>5. ASSUME n # 0, s[n].role = "user" PROVE LastUsers(c, n) /\ n \in 1..Len(c) /\ c[n] = s[n]
  <2>1. n \in 1..n /\ n \in 1..Len(c)
    BY <1>1, <1>5
  <2>2. ASSUME NEW j \in (n + 1)..Len(c) PROVE c[j].role # "user"
    <3>1. j - n \in 1..Len(a) /\ n + (j - n) = j
      BY <1>1
    <3>2. c[n + (j - n)] = a[j - n]
      BY <1>1, <3>1
    <3> QED
      BY <3>1, <3>2
  <2> QED
    BY <1>1, <1>5, <2>1, <2>2 DEF LastUsers
<1>6. CASE request[t].noThink
  <2>1. Prompt!ToSend(t) = Prompt!WithSuffix(c)
    BY <1>3, <1>6
  <2>2. Prompt!Total(Prompt!WithSuffix(c)) <= Prompt!Total(s) + Prompt!Total(a) + 3
    BY <1>2, <1>4
  <2> QED
    BY <1>4, <1>5, <1>6, <2>1, <2>2 DEF n
<1>7. CASE ~request[t].noThink
  <2>1. Prompt!ToSend(t) = c
    BY <1>3, <1>7
  <2> QED
    BY <1>2, <1>5, <1>7, <2>1 DEF n
<1> QED
  BY <1>6, <1>7

\* Whatever turns of other sessions do at its awaits, and however parts, messages, limits and
\* tools' results come out: what a turn's model is sent has the user's last message, whole, at
\* the end of its prompt, and goes over the model's limit by no more than what follow-up rounds
\* added and the three tokens of the suffix, unless that message is all the prompt there is.
THEOREM PromptsFit == Prompt!Spec => []PromptFits
<1> USE PromptConstants
<1>1. PromptInv /\ AddedInv => PromptFits
  <2> SUFFICES ASSUME PromptInv, AddedInv, NEW t \in PromptTurns, step[t] \in {"sent", "done"}
               PROVE  /\ request[t].messages # 0 =>
                             /\ Len(prompt[t]) # 0
                             /\ Prompt!ToSend(t)[Len(prompt[t])] =
                                   IF request[t].noThink
                                   THEN [Prompt!Last(Prompt!UserMessages(request[t]))
                                            EXCEPT !.size = @ + Prompt!SuffixSize]
                                   ELSE Prompt!Last(Prompt!UserMessages(request[t]))
                      /\ request[t].cap # 0 =>
                             \/ Prompt!Total(Prompt!ToSend(t)) <=
                                   request[t].cap + Prompt!Total(added[t])
                                       + (IF request[t].noThink THEN 3 ELSE 0)
                             \/ Len(prompt[t]) = 1
    BY DEF PromptFits, Prompt!PromptFits
  <2> DEFINE s == prompt[t]
             a == added[t]
             r == request[t]
             q == Whole(t)
             u == Prompt!UserMessages(r)
             sending == Prompt!ToSend(t)
  <2>1. r \in PromptRequests /\ s = Prompt!Fitted(q, r)
    BY DEF PromptInv, Whole
  <2>2. /\ q \in Seq(Prompt!Message)
        /\ Len(u) # 0 => Len(q) # 0 /\ q[Len(q)] = u[Len(u)]
    BY WholePrompt
  <2>3. r.messages # 0 => Len(u) # 0 /\ u[Len(u)].role = "user"
    BY <2>1, UserMessagesAre, LastIsUsers
  <2>4. a \in Seq(Prompt!Message) /\ \A i \in 1..Len(a) : a[i].role # "user"
    BY DEF AddedInv
  <2>5. s \in Seq(Prompt!Message) /\ (Len(q) # 0 => Ends(s, q)) /\ FitsIn(s, r.cap)
    <3> HIDE DEF s, q, r
    <3> QED
      BY <2>1, <2>2, PromptIsFitted
  <2>6. /\ Prompt!Total(sending) \in Nat
        /\ Prompt!Total(sending) <=
                Prompt!Total(s) + Prompt!Total(a) + (IF r.noThink THEN 3 ELSE 0)
        /\ Len(s) # 0 /\ s[Len(s)].role = "user" =>
                sending[Len(s)] = IF r.noThink THEN [s[Len(s)] EXCEPT !.size = @ + Prompt!SuffixSize]
                                  ELSE s[Len(s)]
    BY <2>4, <2>5, SentIs
  <2>7. Prompt!Total(s) \in Nat /\ Prompt!Total(a) \in Nat /\ r.cap \in Nat
    BY <2>1, <2>4, <2>5, CostOfBoth DEF PromptConstants
  <2> HIDE DEF s, a, q, r, u, sending
  <2>9. ASSUME r.messages # 0
        PROVE  /\ Len(s) # 0
               /\ sending[Len(s)] =
                     IF r.noThink THEN [Prompt!Last(u) EXCEPT !.size = @ + Prompt!SuffixSize]
                     ELSE Prompt!Last(u)
    <3>1. Len(s) # 0 /\ s[Len(s)] = u[Len(u)] /\ s[Len(s)].role = "user"
      BY <2>2, <2>3, <2>5, <2>9 DEF Ends
    <3>2. Prompt!Last(u) = u[Len(u)]
      BY DEF Prompt!Last
    <3> QED
      BY <2>6, <3>1, <3>2
  <2>10. ASSUME r.cap # 0
         PROVE  \/ Prompt!Total(sending) <=
                       r.cap + Prompt!Total(a) + (IF r.noThink THEN 3 ELSE 0)
                \/ Len(s) = 1
    <3>1. Prompt!Total(s) <= r.cap \/ Len(s) = 1
      BY <2>5, <2>10 DEF FitsIn
    <3>2. CASE r.noThink
      BY <2>6, <2>7, <3>1, <3>2
    <3>3. CASE ~r.noThink
      BY <2>6, <2>7, <3>1, <3>3
    <3> QED
      BY <3>2, <3>3
  <2> QED
    BY <2>9, <2>10 DEF s, a, r, u, sending
<1> QED
  BY <1>1, PromptInvHolds, AddedInvHolds, PTL

\* And of what such a prompt lacks the newest message would not fit, nor would any where roles
\* have a priority, unless it was summarized.
THEOREM NothingGoesInVain == Prompt!Spec => []NothingIsDroppedInVain
<1> USE PromptConstants
<1>1. PromptInv => NothingIsDroppedInVain
  <2> SUFFICES ASSUME PromptInv, NEW t \in PromptTurns, step[t] \in {"sent", "done"}, request[t].cap # 0,
                      ~Prompt!Summarizes(Whole(t), request[t])
               PROVE  NotInVain(Whole(t), prompt[t], request[t])
    BY DEF NothingIsDroppedInVain, Prompt!NothingIsDroppedInVain, NotInVain, Dropped, Whole
  <2> DEFINE q == Whole(t)
             r == request[t]
  <2>1. r \in PromptRequests /\ prompt[t] = Prompt!Trimmed(q, r)
    BY DEF PromptInv, Whole, Prompt!Fitted
  <2>2. q \in Seq(Prompt!Message) /\ \A i, j \in 1..Len(q) : q[i] = q[j] => i = j
    BY WholePrompt
  <2>3. r.cap # 0
    OBVIOUS
  <2> HIDE DEF q, r
  <2>4. NotInVain(q, prompt[t], r)
    BY <2>1, <2>2, <2>3, TrimmedNotInVain
  <2> QED
    BY <2>4 DEF q, r
<1> QED
  BY <1>1, PromptInvHolds, PTL
=============================================================================
