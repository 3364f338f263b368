----------------------------- MODULE MCServices -----------------------------
(***************************************************************************)
(* What runs around the turns, for TLC: each behaviour is one of the       *)
(* component in focus, the state of the others does not change.            *)
(***************************************************************************)
EXTENDS Heartbeat, ServiceComponents, Sequences, FiniteSets, TLC

VARIABLE focus

configVars == <<doing, held, text, objects, current, file, justWrote, watcher, edited, reloads,
                raced>>
chatVars == <<thread, stored, view, agent, loaded, loading, saves, asked, stage, request,
              askedOf, answer, read, unseen, offered, switches, polls, spliced>>
doorVars == <<now, events, admitted, requests, tokens, incident, lastSent, greeted, suggested,
              queued, late>>
streamVars == <<loop, socket, count, queue, written, pushed, since>>
supervisorVars == <<wrapper, from, server, down, failureLog, done, builds, recoveries, orphan,
                    waiter, lastBuild, orphaned, crashes, breaks, kills>>
workflowVars == <<at, completed, saved, kept, ran, overlapped, mishaps>>
idleVars == <<idleFor, scans, running, runningJobs, failed, activity>>

-----------------------------------------------------------------------------
\* The values of the constants.

\* Messages for one profile.
MCTo == [m \in Mail |-> CHOOSE p \in Profiles : TRUE]

Usual == [enabled |-> TRUE, active |-> TRUE, everyMs |-> 10, maxMs |-> 12,
          skipWhenEmpty |-> TRUE, mailbox |-> TRUE]
MCSettings ==
    {Usual, [Usual EXCEPT !.enabled = FALSE, !.active = FALSE, !.skipWhenEmpty = FALSE,
                          !.mailbox = FALSE]}

MCKindOf == "a" :> "patch" @@ "b" :> "bind" @@ "c" :> "create" @@ "d" :> "delete"

\* A caller on this host, whose text may have risky patterns, and others.
Caller(ip, version, token, local, patterns) ==
    [ip |-> ip, version |-> version, token |-> token, local |-> local, patterns |-> patterns]
MCCallers ==
    {Caller("here", TRUE, "secret", TRUE, 6), Caller("there", TRUE, "secret", FALSE, 0),
     Caller("there", TRUE, "secret", FALSE, 5), Caller("there", FALSE, "secret", FALSE, 0),
     Caller("there", TRUE, "none", FALSE, 0), Caller("there", TRUE, "wrong", FALSE, 0)}
MCLimit ==
    [m \in {"chat.send", "incident.bundle", "advisor.file_change"} |->
        IF m = "chat.send" THEN 2 ELSE 1]

\* Two connections for a session that allows one, and one for another.
MCSessionOf == <<"s", "s", "t">>

-----------------------------------------------------------------------------
Components ==
    {"heartbeat", "config", "profiles", "chat", "long chat", "door", "stream", "supervisor",
     "workflow", "idle"}

MCInit ==
    /\ focus \in Components
    /\ Init
    /\ focus # "heartbeat" => settings = Usual /\ \A p \in Profiles : birth[p] /\ list[p] = "full"
    /\ focus # "chat" => agent = "main"
    /\ H!Init /\ C!Init /\ D!Init /\ L!Init /\ S!Init /\ W!Init /\ R!Init

HeartbeatNext ==
    /\ focus = "heartbeat" /\ Next
    /\ UNCHANGED <<focus, configVars, chatVars, doorVars, streamVars, supervisorVars,
                   workflowVars, idleVars>>
\* Two patches and a new profile, with an edit of the file; or a patch, a new
\* profile and the end of another.
ConfigNext ==
    /\ focus \in {"config", "profiles"} /\ C!Next
    /\ IF focus = "config" THEN doing'["d"] = "new" ELSE doing'["b"] = "new" /\ edited' = {}
    /\ UNCHANGED <<focus, heartVars, chatVars, doorVars, streamVars, supervisorVars,
                   workflowVars, idleVars>>
\* One turn, while the user looks at another profile and saves overtake each
\* other; or two turns of one profile.
ChatNext ==
    /\ focus \in {"chat", "long chat"} /\ H!Next
    /\ IF focus = "chat" THEN asked' <= 1
       ELSE switches' = 0 /\ offered'["other"] = 0 /\ Cardinality(saves') <= 1
    /\ UNCHANGED <<focus, heartVars, configVars, doorVars, streamVars, supervisorVars,
                   workflowVars, idleVars>>
DoorNext ==
    /\ focus = "door" /\ D!Next
    /\ UNCHANGED <<focus, heartVars, configVars, chatVars, streamVars, supervisorVars,
                   workflowVars, idleVars>>
StreamNext ==
    /\ focus = "stream" /\ L!Next
    /\ UNCHANGED <<focus, heartVars, configVars, chatVars, doorVars, supervisorVars,
                   workflowVars, idleVars>>
SupervisorNext ==
    /\ focus = "supervisor" /\ S!Next
    /\ UNCHANGED <<focus, heartVars, configVars, chatVars, doorVars, streamVars, workflowVars,
                   idleVars>>
WorkflowNext ==
    /\ focus = "workflow" /\ W!Next
    /\ UNCHANGED <<focus, heartVars, configVars, chatVars, doorVars, streamVars,
                   supervisorVars, idleVars>>
IdleNext ==
    /\ focus = "idle" /\ R!Next
    /\ UNCHANGED <<focus, heartVars, configVars, chatVars, doorVars, streamVars,
                   supervisorVars, workflowVars>>

MCNext ==
    \/ HeartbeatNext \/ ConfigNext \/ ChatNext \/ DoorNext
    \/ StreamNext \/ SupervisorNext \/ WorkflowNext \/ IdleNext

allVars == <<focus, heartVars, configVars, chatVars, doorVars, streamVars, supervisorVars,
             workflowVars, idleVars>>

MCSpec == MCInit /\ [][MCNext]_allVars
=============================================================================
