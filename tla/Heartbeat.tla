----------------------------- MODULE Heartbeat -----------------------------
(***************************************************************************)
(* The heartbeat of each profile: the orchestrator's tick                  *)
(* (scheduleHeartbeat, runHeartbeat), the turn it runs for a profile       *)
(* (runOneHeartbeatTurn), the flag a user's message leaves for the next    *)
(* one, the message kept for heartbeat.poll, and the mailbox a heartbeat   *)
(* empties into its prompt while other profiles' turns write to it.        *)
(*                                                                         *)
(* Left out: the text of the prompt, the deduplication of the reply, and   *)
(* the trimming of an inbox, which no caller asks for.                     *)
(***************************************************************************)
EXTENDS Naturals

CONSTANTS Profiles,
          Mail, To,       \* envelopes, [Mail -> Profiles]
          Settings,       \* heartbeat configurations (records, see the actions)
          UserMessages, Deaths, ConfigEdits, FileEdits   \* bounds

VARIABLES tick,        \* "timer", or "running": the beats of the last tick
          interval,    \* HeartbeatRunner.currentIntervalMs
          settings,    \* configRef.current.heartbeat
          beat,        \* per profile: "off", "begins", "reading", "turn" or "over"
          names,       \* per profile: files receiveMessages still has to read
          moving,      \* per profile: the one it has read and not moved yet
          content,     \* per profile: envelopes in the prompt of its beat
          birth,       \* per profile: BIRTH.md exists
          list,        \* per profile: HEARTBEAT.md is "absent", "blank" or "full"
          born,        \* per profile: BIRTH.md existed when the beat began
          notice,      \* per profile: the beat was told it is a continuation
          interrupted, \* heartbeatInterruptedByProfile
          proactive,   \* per profile: what heartbeat.poll answers
          sending,     \* per envelope: "no", "writing" or "sent"
          inbox,       \* envelopes whose file is in their inbox
          gone,        \* files that were removed unread
          shown,       \* history, per envelope: beats whose prompt had it
          owed,        \* history: profiles whose beat was cut, and not told so since
          users, deaths, edits

beatVars == <<beat, names, moving, content, born, notice>>
mailVars == <<sending, inbox, gone, shown>>
boundVars == <<users, deaths, edits>>
heartVars == <<tick, interval, settings, beatVars, birth, list, interrupted, proactive,
               mailVars, owed, boundVars>>

Init ==
    /\ tick = "timer"
    /\ settings \in Settings /\ interval = settings.everyMs
    /\ beat = [p \in Profiles |-> "off"]
    /\ names = [p \in Profiles |-> {}] /\ moving = [p \in Profiles |-> {}]
    /\ content = [p \in Profiles |-> {}]
    /\ born = [p \in Profiles |-> FALSE]
    /\ notice = [p \in Profiles |-> FALSE]
    /\ interrupted = [p \in Profiles |-> FALSE]
    /\ proactive = [p \in Profiles |-> "none"]
    /\ birth \in [Profiles -> BOOLEAN]
    /\ list \in [Profiles -> {"absent", "blank", "full"}]
    /\ sending = [m \in Mail |-> "no"]
    /\ inbox = {} /\ gone = {}
    /\ shown = [m \in Mail |-> 0]
    /\ owed = {}
    /\ users = 0 /\ deaths = 0 /\ edits = [config |-> 0, files |-> 0]

-----------------------------------------------------------------------------
\* The tick.

Least(a, b) == IF a < b THEN a ELSE b

\* nextInterval: nobody counts unread events, so within the active hours the
\* interval only grows.
NextInterval ==
    IF settings.active THEN Least(settings.maxMs, (interval * 12) \div 10) ELSE settings.maxMs

\* runHeartbeat: every profile's beat begins, unless heartbeats are switched off.
Tick ==
    /\ tick = "timer"
    /\ tick' = "running"
    /\ beat' = [p \in Profiles |-> IF settings.enabled THEN "begins" ELSE "over"]
    /\ UNCHANGED <<interval, settings, names, moving, content, born, notice, birth, list,
                   interrupted, proactive, mailVars, owed, boundVars>>

\* The next one is scheduled when all of them are over.
Scheduled ==
    /\ tick = "running" /\ \A p \in Profiles : beat[p] = "over"
    /\ tick' = "timer"
    /\ interval' = NextInterval
    /\ beat' = [p \in Profiles |-> "off"]
    /\ UNCHANGED <<settings, names, moving, content, born, notice, birth, list, interrupted,
                   proactive, mailVars, owed, boundVars>>

-----------------------------------------------------------------------------
\* runOneHeartbeatTurn.

Becomes(p, step) == beat' = [beat EXCEPT ![p] = step]
ClearInterrupted(p) == interrupted' = [interrupted EXCEPT ![p] = FALSE]
Offer(p, message) == proactive' = [proactive EXCEPT ![p] = message]

Empty(p) == settings.skipWhenEmpty /\ ~birth[p] /\ list[p] # "full"

\* Nothing to do: the flag is cleared unseen.
Skip(p) ==
    /\ beat[p] = "begins"
    /\ Empty(p)
    /\ ClearInterrupted(p) /\ owed' = owed \ {p}
    /\ Becomes(p, "over")
    /\ UNCHANGED <<tick, interval, settings, names, moving, content, born, notice, birth, list,
                   proactive, mailVars, boundVars>>

ClearSeen(p) == IF interrupted[p] THEN ClearInterrupted(p) ELSE UNCHANGED interrupted

\* The prompt is put together, and the inbox listed.
Prepare(p) ==
    /\ beat[p] = "begins"
    /\ ~Empty(p)
    /\ born' = [born EXCEPT ![p] = birth[p]]
    /\ notice' = [notice EXCEPT ![p] = interrupted[p]]
    /\ ClearSeen(p)
    /\ owed' = IF interrupted[p] THEN owed \ {p} ELSE owed
    /\ names' = [names EXCEPT ![p] =
           IF settings.mailbox THEN {m \in inbox : To[m] = p} ELSE {}]
    /\ content' = [content EXCEPT ![p] = {}]
    /\ Becomes(p, "reading")
    /\ UNCHANGED <<tick, interval, settings, moving, birth, list, proactive, mailVars,
                   boundVars>>

\* receiveMessages reads one file: what does not parse yet is removed.
Read(p, m) ==
    /\ beat[p] = "reading" /\ moving[p] = {} /\ m \in names[p]
    /\ names' = [names EXCEPT ![p] = @ \ {m}]
    /\ IF sending[m] = "sent"
       THEN /\ content' = [content EXCEPT ![p] = @ \cup {m}]
            /\ moving' = [moving EXCEPT ![p] = {m}]
            /\ UNCHANGED <<inbox, gone>>
       ELSE /\ inbox' = inbox \ {m} /\ gone' = gone \cup {m}
            /\ UNCHANGED <<content, moving>>
    /\ UNCHANGED <<tick, interval, settings, beat, born, notice, birth, list, interrupted,
                   proactive, sending, shown, owed, boundVars>>

\* Mutant: what was read stays in the inbox.
MutMove(p) ==
    /\ moving[p] # {}
    /\ moving' = [moving EXCEPT ![p] = {}]
    /\ UNCHANGED <<tick, interval, settings, beat, names, content, born, notice, birth, list,
                   interrupted, proactive, mailVars, owed, boundVars>>

\* A file that was read goes to mailbox/processed.
Move(p) ==
    /\ moving[p] # {}
    /\ moving' = [moving EXCEPT ![p] = {}]
    /\ inbox' = inbox \ moving[p]
    /\ UNCHANGED <<tick, interval, settings, beat, names, content, born, notice, birth, list,
                   interrupted, proactive, sending, gone, shown, owed, boundVars>>

StartTurn(p) ==
    /\ beat[p] = "reading" /\ names[p] = {} /\ moving[p] = {}
    /\ shown' = [m \in Mail |-> IF m \in content[p] THEN shown[m] + 1 ELSE shown[m]]
    /\ Becomes(p, "turn")
    /\ UNCHANGED <<tick, interval, settings, names, moving, content, born, notice, birth, list,
                   interrupted, proactive, sending, inbox, gone, owed, boundVars>>

\* What becomes of a reply.  It is complete when it ends with HEARTBEAT_OK; one
\* that does not is replaced by a notice, except while BIRTH is pending.
Answer(p, reply) ==
    CASE reply = "text, complete" -> "whole"
      [] reply = "text, cut" /\ born[p] -> "partial"
      [] reply = "none" /\ born[p] -> "greeting"
      [] reply = "text, cut" /\ ~born[p] -> IF notice[p] THEN "was interrupted" ELSE "did not complete"
      [] OTHER -> IF list[p] = "absent" THEN "none" ELSE "no update"

\* Mutant: the flag is cleared when the turn is over.
MutOver(p) == Becomes(p, "over") /\ ClearInterrupted(p)

Over(p) == Becomes(p, "over") /\ UNCHANGED interrupted

EndTurn(p, reply) ==
    /\ beat[p] = "turn"
    /\ Offer(p, Answer(p, reply))
    /\ Over(p)
    /\ UNCHANGED <<tick, interval, settings, names, moving, content, born, notice, birth, list,
                   mailVars, owed, boundVars>>

\* A turn that fails leaves what the poll answers, except while BIRTH is pending.
TurnFails(p) ==
    /\ beat[p] = "turn"
    /\ IF born[p] THEN Offer(p, "greeting") ELSE UNCHANGED proactive
    /\ Over(p)
    /\ UNCHANGED <<tick, interval, settings, names, moving, content, born, notice, birth, list,
                   mailVars, owed, boundVars>>

-----------------------------------------------------------------------------
\* The others.

\* agent.run of a user: the profile's turn is cancelled, if it has one.
UserMessage(p) ==
    /\ users < UserMessages
    /\ users' = users + 1
    /\ interrupted' = [interrupted EXCEPT ![p] = TRUE]
    /\ owed' = IF beat[p] = "turn" THEN owed \cup {p} ELSE owed
    /\ UNCHANGED <<tick, interval, settings, beatVars, birth, list, proactive, mailVars,
                   deaths, edits>>

\* inter_agent_send_message of some other profile's turn: the file is there
\* before its text.
Send(m) ==
    /\ sending[m] = "no"
    /\ sending' = [sending EXCEPT ![m] = "writing"]
    /\ inbox' = inbox \cup {m}
    /\ UNCHANGED <<tick, interval, settings, beatVars, birth, list, interrupted, proactive,
                   gone, shown, owed, boundVars>>

Sent(m) ==
    /\ sending[m] = "writing"
    /\ sending' = [sending EXCEPT ![m] = "sent"]
    /\ UNCHANGED <<tick, interval, settings, beatVars, birth, list, interrupted, proactive,
                   inbox, gone, shown, owed, boundVars>>

\* config.reload, config.patch or the watcher.
Reconfigure ==
    /\ edits.config < ConfigEdits
    /\ settings' \in Settings \ {settings}
    /\ edits' = [edits EXCEPT !.config = @ + 1]
    /\ UNCHANGED <<tick, interval, beatVars, birth, list, interrupted, proactive, mailVars,
                   owed, users, deaths>>

\* An agent or the user edits HEARTBEAT.md, or ends BIRTH.
EditFiles(p) ==
    /\ edits.files < FileEdits
    /\ edits' = [edits EXCEPT !.files = @ + 1]
    /\ \/ \E text \in {"blank", "full"} \ {list[p]} : list' = [list EXCEPT ![p] = text]
          /\ UNCHANGED birth
       \/ birth[p] /\ birth' = [birth EXCEPT ![p] = FALSE] /\ UNCHANGED list
    /\ UNCHANGED <<tick, interval, settings, beatVars, interrupted, proactive, mailVars,
                   owed, users, deaths>>

\* The process dies and starts again.  No record is kept of a heartbeat, so
\* resumeInterruptedRuns finds none to continue; a message half written stays.
Restart ==
    /\ deaths < Deaths
    /\ deaths' = deaths + 1
    /\ tick' = "timer" /\ interval' = settings.everyMs
    /\ beat' = [p \in Profiles |-> "off"]
    /\ names' = [p \in Profiles |-> {}] /\ moving' = [p \in Profiles |-> {}]
    /\ content' = [p \in Profiles |-> {}]
    /\ born' = [p \in Profiles |-> FALSE] /\ notice' = [p \in Profiles |-> FALSE]
    /\ interrupted' = [p \in Profiles |-> FALSE]
    /\ proactive' = [p \in Profiles |-> "none"]
    /\ sending' = [m \in Mail |-> IF sending[m] = "writing" THEN "torn" ELSE sending[m]]
    /\ owed' = {}
    /\ UNCHANGED <<settings, birth, list, inbox, gone, shown, users, edits>>

-----------------------------------------------------------------------------
Replies == {"text, complete", "text, cut", "none"}

Beat(p) ==
    \/ Skip(p) \/ Prepare(p) \/ Move(p) \/ StartTurn(p) \/ TurnFails(p)
    \/ \E m \in Mail : Read(p, m)
    \/ \E reply \in Replies : EndTurn(p, reply)

Next ==
    \/ Tick \/ Scheduled \/ Reconfigure \/ Restart
    \/ \E p \in Profiles : Beat(p) \/ UserMessage(p) \/ EditFiles(p)
    \/ \E m \in Mail : Send(m) \/ Sent(m)

Spec == Init /\ [][Next]_heartVars

-----------------------------------------------------------------------------
\* A message is in the prompt of one heartbeat at most, whenever the process dies,
\* and none that still waits in its inbox has been.
MailIsShownOnce == \A m \in Mail : shown[m] <= IF m \in inbox THEN 0 ELSE 1

\* A heartbeat a user's message came into the middle of is followed by one that
\* is told so, if the next one is not skipped: until then the flag is set.
CutBeatIsContinued == \A p \in owed : interrupted[p]

\* A message that was sent is waiting or was read
\* (docs/inter-agent-communication.md:23, "safe concurrent read/delete").
SentMailArrives == \A m \in Mail : sending[m] = "sent" => m \notin gone
=============================================================================
