--------------------------- MODULE SerialSessions ---------------------------
(***************************************************************************)
(* What SessionQueue promises its callers, whatever the backend and the    *)
(* event loop do: per session, turns are executed one at a time, in the    *)
(* order they were submitted; only a session over its limit turns one      *)
(* away, and then only the newest or the oldest waiting one; every promise *)
(* is settled exactly once.                                                *)
(***************************************************************************)
EXTENDS Naturals, Sequences

CONSTANTS Turns, Sessions, HardLimit, None

VARIABLES
    home,    \* [Turns -> session submitted to, or None]
    waiting, \* [Sessions -> Seq(Turns)], in submission order
    active,  \* [Sessions -> turn being executed, or None]
    fate     \* [Turns -> how the promise was settled]

vars == <<home, waiting, active, fate>>

Init ==
    /\ home = [t \in Turns |-> None]
    /\ waiting = [s \in Sessions |-> <<>>]
    /\ active = [s \in Sessions |-> None]
    /\ fate = [t \in Turns |-> "open"]

OverLimit(s) ==
    Len(waiting[s]) + (IF active[s] = None THEN 0 ELSE 1) > HardLimit

Settle(t, how) ==
    /\ fate[t] = "open"
    /\ fate' = [fate EXCEPT ![t] = how]

Submit(t, s) ==
    /\ home[t] = None
    /\ home' = [home EXCEPT ![t] = s]
    /\ waiting' = [waiting EXCEPT ![s] = Append(@, t)]
    /\ UNCHANGED <<active, fate>>

Refuse(s) ==
    /\ waiting[s] # <<>>
    /\ OverLimit(s)
    /\ Settle(waiting[s][Len(waiting[s])], "refused")
    /\ waiting' = [waiting EXCEPT ![s] = SubSeq(@, 1, Len(@) - 1)]
    /\ UNCHANGED <<home, active>>

Drop(s) ==
    /\ waiting[s] # <<>>
    /\ OverLimit(s)
    /\ Settle(Head(waiting[s]), "dropped")
    /\ waiting' = [waiting EXCEPT ![s] = Tail(@)]
    /\ UNCHANGED <<home, active>>

Start(s) ==
    /\ active[s] = None
    /\ waiting[s] # <<>>
    /\ active' = [active EXCEPT ![s] = Head(waiting[s])]
    /\ waiting' = [waiting EXCEPT ![s] = Tail(@)]
    /\ UNCHANGED <<home, fate>>

Finish(s) ==
    /\ active[s] # None
    /\ \E how \in {"resolved", "failed"} : Settle(active[s], how)
    /\ active' = [active EXCEPT ![s] = None]
    /\ UNCHANGED <<home, waiting>>

Next ==
    \/ \E t \in Turns, s \in Sessions : Submit(t, s)
    \/ \E s \in Sessions : Refuse(s) \/ Drop(s) \/ Start(s) \/ Finish(s)

Spec ==
    /\ Init
    /\ [][Next]_vars
    /\ \A s \in Sessions : WF_vars(Start(s)) /\ WF_vars(Finish(s))
=============================================================================
