---------------------------- MODULE ApprovalGate ----------------------------
(***************************************************************************)
(* What a tool call must pass before it runs (tools.ts), the grants that   *)
(* let it (CapabilityStore) and the requests an operator answers           *)
(* (ApprovalWorkflow), with the two files they are saved in.               *)
(*                                                                         *)
(* A call is asked one gate after another, an await between each; a denied *)
(* call ends, and the model may try it again.  Gates that are always open  *)
(* (read-only commands, tools without capabilities) are left out, and so   *)
(* are the switches of the configuration that open the others.             *)
(***************************************************************************)
EXTENDS Naturals, Sequences, FiniteSets, FiniteSetsExt, SequencesExt, Filters

CONSTANTS Calls,       \* tool calls a model makes, over and over
          Tool,        \* [Calls -> what is called: see Gates]
          GrantTtl, StaleAfter, GrantUses,
          LastTime, MaxRequests, MaxRestarts  \* bounds

VARIABLES asked,     \* per call: gates passed in this try
          grants,    \* CapabilityStore.grants, oldest first
          requests,  \* ApprovalWorkflow.requests, oldest first
          pendingOf, \* requestsByFingerprint: scope and plan to request
          saved,     \* the two files
          clock, restarts,
          passes,    \* history, per scope: grants that were used
          approvals  \* history, per scope: when the operator approved

gateVars == <<asked, grants, requests, pendingOf, saved, clock, restarts, passes, approvals>>

\* requiredCapabilitiesForApproval.
Capabilities(scope) ==
    CASE scope.intent = "high-risk-tool" -> {"tool.high-risk"}
      [] scope.tool = "web_fetch" -> {"net.fetch"}
      [] scope.tool = "gh_pr_write" /\ scope.intent # "high-risk-tool" ->
             {"process.exec", "fs.write", "process.exec.mutate"}
      [] scope.tool = "exec" /\ scope.intent = "network-impacting" -> {"process.exec", "net.fetch"}
      [] scope.tool = "exec" /\ scope.intent = "mutating" ->
             {"process.exec", "fs.write", "process.exec.mutate"}
      [] OTHER -> {"process.exec", "process.exec.privileged"}

\* The gates of a call in their order: a scope, and the plan shown to the operator.
Gate(tool, intent, plan) == [scope |-> [tool |-> tool, intent |-> intent], plan |-> plan]
If(condition, gate) == IF condition THEN <<gate>> ELSE <<>>

Gates(c) ==
    LET t == Tool[c]
    IN  IF t.name = "exec"
        THEN If(t.destructive, Gate("exec", "privilege-impacting", "destructive"))
             \o If(~t.listed /\ t.intent # "read-only", Gate("exec", t.intent, "not in allowlist"))
             \o If(t.intent # "read-only", Gate("exec", t.intent, "non-read intent"))
        ELSE IF t.name = "gh_pr_write"
             THEN <<Gate(t.name, "high-risk-tool", "router"), Gate(t.name, "mutating", "write")>>
             ELSE <<Gate(t.name, "network-impacting", "fetch")>>

AllGates == UNION {Range(Gates(c)) : c \in Calls}
Scopes == {g.scope : g \in AllGates}
Nobody == [grants |-> <<>>, requests |-> <<>>]

Init ==
    /\ asked = [c \in Calls |-> 0]
    /\ grants = <<>> /\ requests = <<>>
    /\ pendingOf = [g \in AllGates |-> 0]
    /\ saved = Nobody
    /\ clock = 0 /\ restarts = 0
    /\ passes = [s \in Scopes |-> 0]
    /\ approvals = [s \in Scopes |-> <<>>]

-----------------------------------------------------------------------------
\* CapabilityStore.

Live(all) == SelectIn(all, {g \in Range(all) : g.until > clock /\ g.uses > 0})
Holding(all, cap, scope) == {i \in DOMAIN all : all[i].cap = cap /\ all[i].scope = scope}

\* One use of the oldest grant of every capability; what is used up goes.
Consumed(all, scope) ==
    LET used == {Min(Holding(all, cap, scope)) : cap \in Capabilities(scope)}
        lowered == [i \in DOMAIN all |->
                       IF i \in used THEN [all[i] EXCEPT !.uses = @ - 1] ELSE all[i]]
    IN  SelectIn(lowered, {g \in Range(lowered) : g.uses > 0})

Allowed(all, scope) == \A cap \in Capabilities(scope) : Holding(all, cap, scope) # {}

\* Mutant: using a grant is not saved.
MutPersistGrants(all) == UNCHANGED saved

PersistGrants(all) == saved' = [saved EXCEPT !.grants = all]

-----------------------------------------------------------------------------
\* ApprovalWorkflow.

\* expireStaleRequests; the file is written when something expired.
Expired == [i \in DOMAIN requests |->
    IF requests[i].status = "pending" /\ clock - requests[i].made > StaleAfter
    THEN [requests[i] EXCEPT !.status = "expired"] ELSE requests[i]]
PersistRequests(all) == saved' = [saved EXCEPT !.requests = all]

Pending(all, i) == i # 0 /\ all[i].status = "pending"

\* request: an equal one that is pending is answered with, not repeated.
Request(gate) ==
    IF Pending(Expired, pendingOf[gate])
    THEN /\ requests' = Expired
         /\ IF Expired # requests THEN PersistRequests(Expired) ELSE UNCHANGED saved
         /\ UNCHANGED pendingOf
    ELSE /\ Len(requests) < MaxRequests
         /\ requests' = Append(Expired, [gate |-> gate, made |-> clock, status |-> "pending"])
         /\ pendingOf' = [pendingOf EXCEPT ![gate] = Len(requests')]
         /\ PersistRequests(requests')

-----------------------------------------------------------------------------
\* The gates of a call.

Standing(c) == Gates(c)[asked[c] + 1]
Cleared(c) == asked[c] = Len(Gates(c))

\* CapabilityApprovalGate.approve finds what it needs.
Pass(c) ==
    LET scope == Standing(c).scope
        left == Consumed(Live(grants), scope)
    IN  /\ ~Cleared(c) /\ Allowed(Live(grants), scope)
        /\ asked' = [asked EXCEPT ![c] = @ + 1]
        /\ grants' = left /\ PersistGrants(left)
        /\ passes' = [passes EXCEPT ![scope] = @ + 1]
        /\ UNCHANGED <<requests, pendingOf, clock, restarts, approvals>>

\* It does not: the operator is asked, and the call is over.
Deny(c) ==
    /\ ~Cleared(c) /\ ~Allowed(Live(grants), Standing(c).scope)
    /\ asked' = [asked EXCEPT ![c] = 0]
    /\ grants' = Live(grants)
    /\ Request(Standing(c))
    /\ UNCHANGED <<clock, restarts, passes, approvals>>

\* The command runs and the call is over.
Run(c) ==
    /\ Cleared(c)
    /\ asked' = [asked EXCEPT ![c] = 0]
    /\ UNCHANGED <<grants, requests, pendingOf, saved, clock, restarts, passes, approvals>>

-----------------------------------------------------------------------------
\* The operator, the clock and restarts.

\* One grant for every capability of the request.
Granted(scope) ==
    SetToSeq({[cap |-> cap, scope |-> scope, until |-> clock + GrantTtl, uses |-> GrantUses]
                 : cap \in Capabilities(scope)})

Answered(i, status) == [Expired EXCEPT ![i].status = status]

Approve(i) ==
    LET scope == requests[i].gate.scope
    IN  /\ Pending(Expired, i)
        /\ grants' = Live(grants) \o Granted(scope)
        /\ requests' = Answered(i, "approved")
        /\ saved' = [grants |-> grants', requests |-> requests']
        /\ approvals' = [approvals EXCEPT ![scope] = Append(@, clock)]
        /\ UNCHANGED <<asked, pendingOf, clock, restarts, passes>>

DenyRequest(i) ==
    /\ Pending(Expired, i)
    /\ requests' = Answered(i, "denied")
    /\ PersistRequests(requests')
    /\ UNCHANGED <<asked, grants, pendingOf, clock, restarts, passes, approvals>>

\* Looking at the requests expires the stale ones; looking at the grants
\* forgets those that ran out.
List ==
    /\ Expired # requests \/ Live(grants) # grants
    /\ requests' = Expired /\ grants' = Live(grants)
    /\ IF Expired # requests THEN PersistRequests(Expired) ELSE UNCHANGED saved
    /\ UNCHANGED <<asked, pendingOf, clock, restarts, passes, approvals>>

Elapse ==
    /\ clock < LastTime
    /\ clock' = clock + 1
    /\ UNCHANGED <<asked, grants, requests, pendingOf, saved, restarts, passes, approvals>>

\* Mutant: what was pending is not looked up again.
MutReload(onDisk) == pendingOf' = [g \in AllGates |-> 0]

\* load: the requests of the file, the pending ones under their fingerprint.
Reload(onDisk) ==
    pendingOf' = [g \in AllGates |->
        LET open == {i \in DOMAIN onDisk : onDisk[i].gate = g /\ onDisk[i].status = "pending"}
        IN  IF open = {} THEN 0 ELSE Max(open)]

Restored(onDisk) ==
    /\ restarts < MaxRestarts
    /\ restarts' = restarts + 1
    /\ asked' = [c \in Calls |-> 0]
    /\ saved' = onDisk
    /\ grants' = onDisk.grants /\ requests' = onDisk.requests
    /\ Reload(onDisk.requests)
    /\ UNCHANGED <<clock, passes>>

Restart == Restored(saved) /\ UNCHANGED approvals

\* The process dies while a request is approved: some grants are saved, the
\* request is still pending.
DieApproving(i) ==
    LET scope == requests[i].gate.scope
    IN  /\ Pending(Expired, i)
        /\ \E n \in 1..Cardinality(Capabilities(scope)) :
               Restored([grants |-> Live(grants) \o SubSeq(Granted(scope), 1, n),
                         requests |-> IF Expired # requests THEN Expired ELSE saved.requests])
        /\ approvals' = [approvals EXCEPT ![scope] = Append(@, clock)]

-----------------------------------------------------------------------------
Ask == \E c \in Calls : Pass(c) \/ Deny(c) \/ Run(c)
Operate == \E i \in DOMAIN requests : Approve(i) \/ DenyRequest(i) \/ DieApproving(i)

Next == Ask \/ Operate \/ List \/ Elapse \/ Restart

Spec == Init /\ [][Next]_gateVars

-----------------------------------------------------------------------------
\* No gate is passed more often than operators allowed: every pass is backed by
\* an approval of its scope that is not older than a grant lives, and all of them
\* together by the uses that were granted, restarts included.
PassesAreCovered ==
    [][\A s \in Scopes : passes'[s] # passes[s] =>
          /\ \E i \in DOMAIN approvals[s] : clock - approvals[s][i] < GrantTtl
          /\ passes'[s] <= GrantUses * Len(approvals[s])]_gateVars

\* An operator is never shown one plan twice, also after a restart.
OnePendingPerPlan ==
    \A i, j \in DOMAIN requests :
        /\ requests[i].status = "pending" /\ requests[j].status = "pending"
        /\ requests[i].gate = requests[j].gate
        => i = j
=============================================================================
