----------------------- MODULE SessionQueueRefinement -----------------------
(***************************************************************************)
(* SessionQueue implements SerialSessions when callers do not submit       *)
(* inside one tick (Burst = FALSE).  A turn held by a drain loop that has  *)
(* not started it, by a caller about to drop it or by its own enqueueAsync *)
(* still waits.                                                            *)
(***************************************************************************)
EXTENDS SessionQueue

\* The one-element sequence of the member of S, <<>> when S is empty.
Sole(S) == IF S = {} THEN <<>> ELSE <<CHOOSE x \in S : TRUE>>

InDrainHand(s) ==
    {hand[d] : d \in {x \in Turns : /\ key[x] = s
                                    /\ drain[x] = "dequeuing"
                                    /\ hand[x] # None}}

AboutToDrop(s) ==
    {dropped[t] : t \in {x \in Turns : /\ key[x] = s
                                       /\ pc[x] = "dropping"
                                       /\ dropped[x] # None}}

Arriving(s) == {t \in Turns : key[t] = s /\ pc[t] \in {"listing", "dropping"}}

WaitingTurns ==
    [s \in Sessions |->
        Sole(InDrainHand(s)) \o Sole(AboutToDrop(s)) \o list[s] \o Sole(Arriving(s))]

ActiveTurn ==
    [s \in Sessions |->
        IF \E d \in Turns : Executing(d) /\ key[d] = s
        THEN hand[CHOOSE d \in Turns : Executing(d) /\ key[d] = s]
        ELSE None]

Serial == INSTANCE SerialSessions
            WITH home <- key, waiting <- WaitingTurns, active <- ActiveTurn

\* What it implements without any fairness: its initial states and its steps.
SerialSafety == Serial!Init /\ [][Serial!Next]_(Serial!vars)

\* One turn at a time, in submission order, turned away only over the limit,
\* each promise settled once and none left hanging: the queue implements its
\* abstract specification, fairness included.
ImplementsSerialSessions == Serial!Spec
=============================================================================
