-------------------------- MODULE MCTurnExecution --------------------------
\* Instances of TurnExecution for TLC: each behaviour is one of the part in focus.
EXTENDS TurnExecution, TLC

CONSTANTS r1, r2, r3, r4, chat, beat, mine, other

VARIABLE focus

\* Three turns with the session id of the web UI's chat, so that failures can repeat,
\* one of them another profile's, and the heartbeat's.
Home == [r \in Runs |-> IF r = r4 THEN beat ELSE chat]
Agent == [r \in Runs |-> IF r = r3 THEN other ELSE mine]

Symmetry == Permutations({r1, r2}) \cup Permutations(Errors)

MCInit == Init /\ focus \in {"beat", "guard"}

\* With the heartbeat's turn, one of each profile and one fault; or two turns of one
\* profile, one of the other, and all faults.
MCNext ==
    /\ Next /\ UNCHANGED focus
    /\ focus = "beat" => (pc'[r1] = "new" \/ pc'[r2] = "new") /\ faults' <= 1
    /\ focus = "guard" => pc'[r4] = "new"

MCSpec == MCInit /\ [][MCNext]_<<focus, vars>>
=============================================================================
