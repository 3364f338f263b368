---------------------------- MODULE ChatThreads ----------------------------
(***************************************************************************)
(* The chat thread of a session, kept in one file per profile by the       *)
(* gateway (thread-store.ts) and shown, and written back after every       *)
(* change, by the web client (ChatContext.tsx).                            *)
(*                                                                         *)
(* There is one session id, as the client starts with, and one client; the *)
(* session storage of the browser is kept per session, not per profile.  A *)
(* request of the client that reads a thread is one step; one that writes  *)
(* it may arrive late.  Each change of the view runs the effect that       *)
(* saves it (Shown).                                                       *)
(***************************************************************************)
EXTENDS Naturals, Sequences, FiniteSets, Filters

CONSTANTS Agents,      \* profiles
          Turns,       \* turns the user sends (bound)
          MaxSwitches, MaxPolls, MaxBeats,   \* bounds,
          MaxSaves     \* ... and how many thread.set are on their way at once

VARIABLES file,      \* per profile: the messages of its thread file
          stored,    \* the browser's session storage
          view,      \* messages
          agent,     \* selectedProfileId
          loaded,    \* serverLoadDoneRef
          loading,   \* the load effect's getThread is on its way
          saves,     \* thread.set requests on their way
          asked,     \* turns sent so far; the last may be in progress
          stage,     \* runTurn: "idle", "sending", "syncing" or "waiting"
          request,   \* the messages agent.run was called with
          askedOf,   \* per turn: the profile it was sent to
          answer,    \* per turn: "none", "due", "checked", "read" or "done"
          read,      \* per turn: the thread appendMessage has read
          held,      \* pendingProactiveByProfile: per profile, messages not shown yet
          proactive, \* per profile: the heartbeat's message the poll answers with
          switches, polls,
          spliced    \* history: a loaded thread was put before the end of another one

serverVars == <<file, answer, read>>
clientVars == <<stored, view, agent, loaded, loading, saves, asked, stage, request,
                askedOf, held>>
chatVars == <<serverVars, clientVars, proactive, switches, polls, spliced>>

Message(role, n, p) == [role |-> role, turn |-> n, of |-> p]
Question(n) == Message("user", n, askedOf[n])
Answer(n) == Message("assistant", n, askedOf[n])
Proactive(p) == Message("assistant", Turns + proactive[p], p)

EndsWith(messages, m) == messages # <<>> /\ messages[Len(messages)] = m
Has(messages, m) == \E i \in DOMAIN messages : messages[i] = m

Init ==
    /\ file = [p \in Agents |-> <<>>]
    /\ stored = <<>> /\ view = <<>>
    /\ agent \in Agents
    /\ loaded = FALSE /\ loading = TRUE
    /\ saves = {}
    /\ asked = 0 /\ stage = "idle" /\ request = <<>>
    /\ askedOf = [n \in 1..Turns |-> agent]
    /\ answer = [n \in 1..Turns |-> "none"] /\ read = [n \in 1..Turns |-> <<>>]
    /\ held = [p \in Agents |-> <<>>]
    /\ proactive = [p \in Agents |-> 0]
    /\ switches = 0 /\ polls = 0 /\ spliced = FALSE

-----------------------------------------------------------------------------
\* The client.

InProgress == stage # "idle"

\* The view changes: it is saved in the browser, and on the server once the
\* thread was loaded from there.
Shown(messages) ==
    /\ view' = messages /\ stored' = messages
    /\ saves' = IF loaded' THEN saves \cup {[of |-> agent, messages |-> messages]} ELSE saves
    /\ Cardinality(saves') <= MaxSaves

Unchanged == UNCHANGED <<view, stored, saves>>

\* dedupeConsecutiveAssistantReplies.
IsRepeat(messages, i) ==
    i > 1 /\ messages[i].role = "assistant" /\ messages[i] = messages[i - 1]
Deduped(messages) ==
    LET kept == SelectIn([i \in DOMAIN messages |-> i],
                         {i \in DOMAIN messages : ~IsRepeat(messages, i)})
    IN  [j \in DOMAIN kept |-> messages[kept[j]]]

\* Another profile is chosen: what is shown is that of the old one, and saved in
\* the browser as the session's, until the new thread is loaded.
Switch(p) ==
    /\ switches < MaxSwitches /\ p # agent
    /\ switches' = switches + 1
    /\ agent' = p /\ loaded' = FALSE /\ loading' = TRUE
    /\ stored' = view
    /\ UNCHANGED <<serverVars, view, saves, asked, stage, request, askedOf, held, proactive,
                   polls, spliced>>

\* The load effect.  A message just typed, not yet known to the server, stays.
Load ==
    LET ofServer == Deduped(file[agent]) \o held[agent]
        tail == SubSeq(view, Len(ofServer) + 1, Len(view))
        typed == \E i \in DOMAIN tail : tail[i].role = "user"
    IN  /\ loading
        /\ loading' = FALSE /\ loaded' = TRUE
        /\ held' = [held EXCEPT ![agent] = <<>>]
        /\ IF stage # "sending" THEN Shown(ofServer)
           ELSE IF ofServer = <<>> THEN Unchanged
           ELSE IF typed THEN Shown(ofServer \o tail) ELSE Shown(ofServer)
        /\ spliced' = \/ spliced
                      \/ /\ stage = "sending" /\ ofServer # <<>> /\ typed
                         /\ SubSeq(view, 1, Len(ofServer)) # ofServer
        /\ UNCHANGED <<serverVars, agent, asked, stage, request, askedOf, proactive,
                       switches, polls>>

LoadFails ==
    /\ loading
    /\ loading' = FALSE /\ loaded' = TRUE
    /\ Shown(stored)
    /\ UNCHANGED <<serverVars, agent, asked, stage, request, askedOf, held, proactive,
                   switches, polls, spliced>>

\* What agent.run and the reconnection take over from the server: never less
\* than what is shown.
Synced(ofServer) == IF Len(view) > Len(ofServer) THEN Unchanged ELSE Shown(ofServer)

Reconnect ==
    /\ UNCHANGED loaded
    /\ Synced(Deduped(file[agent]))
    /\ UNCHANGED <<serverVars, agent, loading, asked, stage, request, askedOf, held, proactive,
                   switches, polls, spliced>>

\* runTurn up to the request: one at a time.
Send ==
    LET messages == Append(view, Message("user", asked + 1, agent))
    IN  /\ ~InProgress /\ asked < Turns
        /\ asked' = asked + 1 /\ stage' = "sending"
        /\ askedOf' = [askedOf EXCEPT ![asked + 1] = agent]
        /\ request' = messages
        /\ UNCHANGED loaded /\ Shown(messages)
        /\ UNCHANGED <<serverVars, agent, loading, held, proactive, switches, polls, spliced>>

\* agent.run: the thread is the one it came with.
Run ==
    /\ stage = "sending"
    /\ file' = [file EXCEPT ![askedOf[asked]] = request]
    /\ answer' = [answer EXCEPT ![asked] = "due"]
    /\ stage' = "syncing"
    /\ UNCHANGED <<read, stored, view, agent, loaded, loading, saves, asked, request, askedOf,
                   held, proactive, switches, polls, spliced>>

Sync ==
    /\ stage = "syncing"
    /\ stage' = "waiting"
    /\ UNCHANGED loaded
    /\ IF agent = askedOf[asked] THEN Synced(Deduped(file[agent])) ELSE Unchanged
    /\ UNCHANGED <<serverVars, agent, loading, asked, request, askedOf, held, proactive,
                   switches, polls, spliced>>

\* Mutant: the answer is added to whatever is shown.
MutWithAnswer(n) == Append(view, Answer(n))

\* The answer, unless it is what the thread ends with already.
WithAnswer(n) ==
    IF EndsWith(view, Answer(n)) THEN view ELSE Append(view, Answer(n))

\* agent.wait has the answer: it is added to what is shown by now.
Finish ==
    /\ stage \in {"syncing", "waiting"} /\ answer[asked] = "done"
    /\ stage' = "idle"
    /\ UNCHANGED loaded
    /\ IF WithAnswer(asked) = view THEN Unchanged ELSE Shown(WithAnswer(asked))
    /\ UNCHANGED <<serverVars, agent, loading, asked, request, askedOf, held, proactive,
                   switches, polls, spliced>>

\* A request failed, or the client waited too long; the server may go on.
GiveUp ==
    /\ InProgress
    /\ stage' = "idle"
    /\ UNCHANGED <<serverVars, stored, view, agent, loaded, loading, saves, asked, request,
                   askedOf, held, proactive, switches, polls, spliced>>

Clear ==
    /\ ~InProgress /\ view # <<>>
    /\ view' = <<>> /\ stored' = <<>>
    /\ saves' = saves \cup {[of |-> agent, messages |-> <<>>]}
    /\ Cardinality(saves') <= MaxSaves
    /\ UNCHANGED <<serverVars, agent, loaded, loading, asked, stage, request, askedOf, held,
                   proactive, switches, polls, spliced>>

\* The poll of the chat page: a message for another profile is held until that
\* one is chosen, and held again by the next poll.
Poll(p) ==
    /\ polls < MaxPolls /\ proactive[p] > 0
    /\ polls' = polls + 1
    /\ UNCHANGED loaded
    /\ IF p # agent
       THEN held' = [held EXCEPT ![p] = Append(@, Proactive(p))] /\ Unchanged
       ELSE /\ UNCHANGED held
            /\ IF Has(view, Proactive(p))
               THEN Unchanged ELSE Shown(Append(view, Proactive(p)))
    /\ UNCHANGED <<serverVars, agent, loading, asked, stage, request, askedOf, proactive,
                   switches, spliced>>

-----------------------------------------------------------------------------
\* The gateway.

\* thread.set.
Save(s) ==
    /\ s \in saves
    /\ saves' = saves \ {s}
    /\ file' = [file EXCEPT ![s.of] = s.messages]
    /\ UNCHANGED <<answer, read, stored, view, agent, loaded, loading, asked, stage, request,
                   askedOf, held, proactive, switches, polls, spliced>>

AnswerIs(n, step) == answer' = [answer EXCEPT ![n] = step]

\* appendAssistantToThread, when the run has completed: the thread is read to
\* see what it ends with, read again, and written.
CheckThread(n) ==
    /\ answer[n] = "due"
    /\ AnswerIs(n, IF EndsWith(file[askedOf[n]], Answer(n)) THEN "done" ELSE "checked")
    /\ UNCHANGED <<file, read, clientVars, proactive, switches, polls, spliced>>

ReadThread(n) ==
    /\ answer[n] = "checked"
    /\ AnswerIs(n, "read")
    /\ read' = [read EXCEPT ![n] = file[askedOf[n]]]
    /\ UNCHANGED <<file, clientVars, proactive, switches, polls, spliced>>

AppendMessage(n) ==
    /\ answer[n] = "read"
    /\ AnswerIs(n, "done")
    /\ file' = [file EXCEPT ![askedOf[n]] = Append(read[n], Answer(n))]
    /\ UNCHANGED <<read, clientVars, proactive, switches, polls, spliced>>

\* A heartbeat leaves a message for the poll (Heartbeat).
HeartbeatMessage(p) ==
    /\ proactive[p] < MaxBeats
    /\ proactive' = [proactive EXCEPT ![p] = @ + 1]
    /\ UNCHANGED <<serverVars, clientVars, switches, polls, spliced>>

-----------------------------------------------------------------------------
Client ==
    \/ Load \/ LoadFails \/ Reconnect \/ Send \/ Run \/ Sync \/ Finish \/ GiveUp \/ Clear
    \/ \E p \in Agents : Switch(p) \/ Poll(p)

Gateway ==
    \/ \E s \in saves : Save(s)
    \/ \E n \in 1..Turns : CheckThread(n) \/ ReadThread(n) \/ AppendMessage(n)
    \/ \E p \in Agents : HeartbeatMessage(p)

Next == Client \/ Gateway

Spec == Init /\ [][Next]_chatVars

-----------------------------------------------------------------------------
Twins(messages) ==
    {i \in 2..Len(messages) : messages[i].role = "assistant" /\ messages[i] = messages[i - 1]}

\* The answer to a turn is shown once, and once in the thread file, however
\* the server's append, the client's own and the written-back threads
\* interleave (gateway.ts:170, "do not create duplicate bubbles").  (Unless a load
\* so slow that a turn has ended meanwhile cut the view by the length of a thread
\* it does not begin with.)
AnswerOnce == ~spliced =>
    /\ \A i \in Twins(view) : view[i].turn > Turns
    /\ \A p \in Agents : \A i \in Twins(file[p]) : file[p][i].turn > Turns

\* A heartbeat's message is shown once (Chat.tsx:142, "so we never process the
\* same proactive message twice").
ProactiveOnce == Twins(view) = {}

\* The thread of a profile has the messages of that profile (thread-store.ts:2,
\* "per profile and session").
ThreadsAreSeparate ==
    \A p \in Agents : \A i \in DOMAIN file[p] : file[p][i].of = p

\* What was appended to a thread stays in it as long as the user clears nothing
\* (gateway.ts:504-505, "so the message log is correct even if the client
\* disconnects").
AnswersAreKept ==
    \A n \in 1..Turns : answer[n] = "done" => Has(file[askedOf[n]], Answer(n))
=============================================================================
