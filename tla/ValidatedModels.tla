---------------------------- MODULE ValidatedModels ----------------------------
(***************************************************************************)
(* Provider and model resilience: `npm run validate-model` probes one      *)
(* model and writes what it found into the validation store, a file; the   *)
(* adapter of the running server keeps a copy of the store for a while and *)
(* lets a turn try only the models of its chain that are passed there.     *)
(***************************************************************************)
EXTENDS Integers, Sequences, FiniteSets, SequencesExt, Filters

CONSTANTS Models, Chain,     \* [session.model, ...fallbackModels]
          Probes, Probed,    \* runs of the command, [Probes -> Models]
          FullSuite,         \* those that also ask for 2+2
          Enabled, Paid, RunAgainstPaid,
          Ttl,               \* VALIDATION_STORE_CACHE_TTL_MS, in ticks
          Turns, None

VARIABLES probe,      \* per run: "new", "tools", "reasoning", "read", "write", "writing", "over"
          saw,        \* per run: of {"tool_call", "done", "4"}
          copy,       \* per run: the results it has read, [Models -> {"passed", "failed", None}]
          store,      \* the results in the file
          writers,    \* runs that are writing the file right now
          broken,     \* the file cannot be parsed
          allowOne,   \* allowOneUnvalidatedAttempt
          cache,      \* validationStoreCache: [results, age]
          chain,      \* per turn: the models it may try, None before, <<>> if it is refused
          notPassed   \* history, per model: ticks since the file last said it had passed

probeVars == <<probe, saw, copy>>
fileVars == <<store, writers, broken>>
validatedVars == <<probeVars, fileVars, allowOne, cache, chain, notPassed>>

NoResults == [m \in Models |-> None]

Init ==
    /\ probe = [p \in Probes |-> "new"]
    /\ saw = [p \in Probes |-> {}]
    /\ copy = [p \in Probes |-> NoResults]
    /\ store = NoResults /\ writers = {} /\ broken = FALSE
    /\ allowOne \in BOOLEAN
    /\ cache = [results |-> NoResults, age |-> Ttl]
    /\ chain = [t \in Turns |-> None]
    /\ notPassed = [m \in Models |-> Ttl]

\* The clock of the history, in step with the file.
SinceValid(file, sound) ==
    notPassed' = [m \in Models |-> IF sound /\ file[m] = "passed" THEN 0 ELSE notPassed[m]]

-----------------------------------------------------------------------------
\* probe-cli.ts and runProbe.

Goes(p, step) == probe' = [probe EXCEPT ![p] = step]
Sees(p, what) == saw' = [saw EXCEPT ![p] = @ \cup {what}]

\* Refused for a paid model; failed at once for one that is switched off.
Begin(p) ==
    /\ probe[p] = "new"
    /\ Goes(p, IF Probed[p] \in Paid /\ ~RunAgainstPaid THEN "over"
               ELSE IF Probed[p] \notin Enabled THEN "read" ELSE "tools")
    /\ UNCHANGED <<saw, copy, fileVars, allowOne, cache, chain, notPassed>>

\* The model calls the tool; an error event alone ends nothing.
ToolCall(p) ==
    /\ probe[p] = "tools"
    /\ Sees(p, "tool_call")
    /\ UNCHANGED <<probe, copy, fileVars, allowOne, cache, chain, notPassed>>

\* "done" ends the turn, and the probe unless it goes on to the second question.
Done(p) ==
    /\ probe[p] = "tools"
    /\ Sees(p, "done")
    /\ Goes(p, IF p \in FullSuite /\ "tool_call" \in saw[p] THEN "reasoning" ELSE "read")
    /\ UNCHANGED <<copy, fileVars, allowOne, cache, chain, notPassed>>

\* "done" of the second turn, the answer right or wrong.
Reasons(p, right) ==
    /\ probe[p] = "reasoning"
    /\ IF right THEN Sees(p, "4") ELSE UNCHANGED saw
    /\ Goes(p, "read")
    /\ UNCHANGED <<copy, fileVars, allowOne, cache, chain, notPassed>>

\* The timeout, an error that is thrown, or a stream that just ends.
Breaks(p) ==
    /\ probe[p] \in {"tools", "reasoning"}
    /\ Goes(p, "read")
    /\ UNCHANGED <<saw, copy, fileVars, allowOne, cache, chain, notPassed>>

Passed(p) ==
    /\ {"tool_call", "done"} \subseteq saw[p]
    /\ p \in FullSuite => "4" \in saw[p]

\* What a reader gets; the file is empty or cut short while somebody writes it.
ReadStore == IF writers # {} \/ broken THEN NoResults ELSE store

\* updateValidationResult reads the file, changes one entry and writes it all.
Read(p) ==
    /\ probe[p] = "read"
    /\ copy' = [copy EXCEPT ![p] =
           [ReadStore EXCEPT ![Probed[p]] = IF Passed(p) THEN "passed" ELSE "failed"]]
    /\ Goes(p, "write")
    /\ UNCHANGED <<saw, fileVars, allowOne, cache, chain, notPassed>>

Write(p) ==
    /\ probe[p] = "write"
    /\ writers' = writers \cup {p}
    /\ Goes(p, "writing")
    /\ broken' = (broken /\ writers # {})
    /\ UNCHANGED <<saw, copy, store, allowOne, cache, chain, notPassed>>

\* The last byte is there; if another run writes, too, the two may have mixed.
Written(p) ==
    /\ probe[p] = "writing"
    /\ writers' = writers \ {p}
    /\ store' = copy[p]
    /\ broken' \in {FALSE, broken \/ writers' # {}}
    /\ SinceValid(copy[p], ~broken' /\ writers' = {})
    /\ Goes(p, "over")
    /\ UNCHANGED <<saw, copy, allowOne, cache, chain>>

-----------------------------------------------------------------------------
\* sendTurn in the server.

\* Mutant: a copy once read is used for good.
MutFresh == cache.age < Ttl \/ cache.results # NoResults

Fresh == cache.age < Ttl

\* The models the turn may try: the validated ones of its chain; if there are
\* none, all of them or no turn.
Filter(results) ==
    LET validated == SelectIn(Chain, {m \in Models : results[m] = "passed"}) IN
    IF validated # <<>> THEN validated ELSE IF allowOne THEN Chain ELSE <<>>

SendTurn(t) ==
    /\ chain[t] = None
    /\ LET results == IF Fresh THEN cache.results ELSE ReadStore IN
        /\ cache' = IF Fresh THEN cache ELSE [results |-> results, age |-> 0]
        /\ chain' = [chain EXCEPT ![t] = Filter(results)]
    /\ UNCHANGED <<probeVars, fileVars, allowOne, notPassed>>

Later(n) == IF n < Ttl THEN n + 1 ELSE n

\* Time passes.
Tick ==
    /\ cache' = [cache EXCEPT !.age = Later(@)]
    /\ notPassed' = [m \in Models |->
           IF ReadStore[m] = "passed" THEN 0 ELSE Later(notPassed[m])]
    /\ UNCHANGED <<probeVars, fileVars, allowOne, chain>>

Next ==
    \/ Tick
    \/ \E t \in Turns : SendTurn(t)
    \/ \E p \in Probes :
         \/ Begin(p) \/ ToolCall(p) \/ Done(p) \/ Breaks(p)
         \/ Read(p) \/ Write(p) \/ Written(p)
         \/ \E right \in BOOLEAN : Reasons(p, right)

Spec == Init /\ [][Next]_validatedVars

-----------------------------------------------------------------------------
\* A turn is allowed a model only if the store said it had passed less than the
\* cache's time ago, probes and turns interleaved as they may be; unless the
\* configuration allows an attempt without any.
OnlyValidatedAreTried ==
    [][\A t \in Turns : chain'[t] # chain[t] =>
         \/ \A m \in ToSet(chain'[t]) : notPassed[m] < Ttl
         \/ allowOne /\ chain'[t] = Chain]_validatedVars
=============================================================================
