------------------------------- MODULE Workflow -------------------------------
(***************************************************************************)
(* WorkflowRuntime.run: the steps of a workflow, run one after the other   *)
(* under an idempotency key, with the completed ones in a state file that  *)
(* is written in place after each, and in memory once all are.             *)
(*                                                                         *)
(* Completed steps are always a prefix of the definition's, so their       *)
(* number stands for completedStepIds.                                     *)
(***************************************************************************)
EXTENDS Integers

CONSTANTS Calls,          \* calls of run() with the same definition and key
          Steps,          \* how many steps the definition has
          NeedApproval,   \* the steps that require approval
          MaxMishaps        \* bound

Absent == -1              \* what the state file holds besides a number of steps
Torn   == -2

VARIABLES at,         \* per call: "new", "approval", "step", "run", "write" or "over"
          completed,  \* per call: the length of runtimeState.completedStepIds
          file,       \* the state file
          kept,       \* this.state has the key
          ran,        \* history, per step: how often it was run
          overlapped, \* history: two calls were under way at once
          mishaps     \* deaths of the process, and steps that failed

workflowVars == <<at, completed, file, kept, ran, overlapped, mishaps>>

UnderWay == {c \in Calls : at[c] \notin {"new", "over"}}

Init ==
    /\ at = [c \in Calls |-> "new"]
    /\ completed = [c \in Calls |-> 0]
    /\ file = Absent /\ kept = FALSE
    /\ ran = [s \in 1..Steps |-> 0]
    /\ overlapped = FALSE /\ mishaps = 0

Goes(c, where) == at' = [at EXCEPT ![c] = where]

\* The state is taken from memory or from the file; a file cut short is an error.
Begin(c) ==
    /\ at[c] = "new"
    /\ overlapped' = (overlapped \/ UnderWay # {})
    /\ completed' = [completed EXCEPT ![c] =
           IF kept THEN Steps ELSE IF file \in {Absent, Torn} THEN 0 ELSE file]
    /\ Goes(c, IF ~kept /\ file = Torn THEN "over" ELSE "step")
    /\ UNCHANGED <<file, kept, ran, mishaps>>

\* The loop goes to the first step that is not completed, or ends.
NextStep(c) ==
    /\ at[c] = "step" /\ completed[c] < Steps
    /\ Goes(c, IF completed[c] + 1 \in NeedApproval THEN "approval" ELSE "run")
    /\ UNCHANGED <<completed, file, kept, ran, overlapped, mishaps>>

Finish(c) ==
    /\ at[c] = "step" /\ completed[c] = Steps
    /\ kept' = TRUE
    /\ Goes(c, "over")
    /\ UNCHANGED <<completed, file, ran, overlapped, mishaps>>

Decide(c, approved) ==
    /\ at[c] = "approval"
    /\ Goes(c, IF approved THEN "run" ELSE "over")
    /\ UNCHANGED <<completed, file, kept, ran, overlapped, mishaps>>

\* step.run(): what it does is done when it fails, too, if only in part.
RunStep(c, succeeds) ==
    /\ at[c] = "run"
    /\ ran' = [ran EXCEPT ![completed[c] + 1] = @ + 1]
    /\ IF succeeds
       THEN completed' = [completed EXCEPT ![c] = @ + 1] /\ Goes(c, "persist")
       ELSE Goes(c, "over") /\ UNCHANGED completed
    /\ \/ succeeds /\ UNCHANGED mishaps
       \/ ~succeeds /\ mishaps < MaxMishaps /\ mishaps' = mishaps + 1
    /\ UNCHANGED <<file, kept, overlapped>>

\* Mutant: the state is written when the last step is done.
MutPersist(c) ==
    /\ at[c] = "persist"
    /\ IF completed[c] = Steps
       THEN file' = Torn /\ Goes(c, "write")
       ELSE UNCHANGED file /\ Goes(c, "step")
    /\ UNCHANGED <<completed, kept, ran, overlapped, mishaps>>

\* persist(): the file is emptied, then filled.
Persist(c) ==
    /\ at[c] = "persist"
    /\ file' = Torn
    /\ Goes(c, "write")
    /\ UNCHANGED <<completed, kept, ran, overlapped, mishaps>>

\* Two that write at once may leave a mixture.
Write(c) ==
    /\ at[c] = "write"
    /\ file' \in {completed[c]} \cup (IF \E d \in Calls \ {c} : at[d] = "write" THEN {Torn} ELSE {})
    /\ Goes(c, "step")
    /\ UNCHANGED <<completed, kept, ran, overlapped, mishaps>>

Stop ==
    /\ mishaps < MaxMishaps /\ UnderWay # {}
    /\ mishaps' = mishaps + 1
    /\ at' = [c \in Calls |-> IF c \in UnderWay THEN "over" ELSE at[c]]
    /\ kept' = FALSE
    /\ UNCHANGED <<completed, file, ran, overlapped>>

Next ==
    \/ Stop
    \/ \E c \in Calls :
         \/ Begin(c) \/ NextStep(c) \/ Finish(c) \/ Persist(c) \/ Write(c)
         \/ \E yes \in BOOLEAN : Decide(c, yes) \/ RunStep(c, yes)

Spec == Init /\ [][Next]_workflowVars

-----------------------------------------------------------------------------
\* Under one key a step runs once, and once more for every call that failed in the
\* middle of it or died before its file was written, as long as no two calls of
\* the key are under way at once: a call that is denied repeats nothing.
StepsRunOnce == ~overlapped => \A s \in 1..Steps : ran[s] <= 1 + mishaps
=============================================================================
