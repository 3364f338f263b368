------------------------- MODULE OrchestratorProofs -------------------------
(***************************************************************************)
(* What the orchestrator promises: of messages and of cut beats            *)
(* (Heartbeat), for any profiles, messages and settings, and of proactive  *)
(* intents (ProactiveIntents), for any intents, channels and budgets; in   *)
(* both however often the process dies.                                    *)
(***************************************************************************)
EXTENDS Heartbeat, IntentComponent, FiniteSetTheorems, Inductions, TLAPS

Types ==
    /\ beat \in [Profiles -> {"off", "begins", "reading", "turn", "over"}]
    /\ names \in [Profiles -> SUBSET Mail]
    /\ moving \in [Profiles -> SUBSET Mail]
    /\ content \in [Profiles -> SUBSET Mail]
    /\ sending \in [Mail -> {"no", "writing", "sent", "torn"}]
    /\ shown \in [Mail -> Nat]
    /\ inbox \subseteq Mail

\* Only the profile a message is addressed to reads its file, and only while its
\* beat is reading; a file it still has to read is there.
ReadsItsOwn(p) ==
    /\ \A m \in names[p] : To[m] = p /\ m \in inbox /\ m \notin content[p]
    /\ moving[p] \subseteq content[p]
    /\ beat[p] # "reading" => names[p] = {} /\ moving[p] = {}

\* What it has read has been in no prompt yet, and only the file it has not moved
\* yet is still in the inbox.
HasRead(p) ==
    beat[p] = "reading" =>
        \A m \in content[p] :
            To[m] = p /\ shown[m] = 0 /\ sending[m] # "no" /\ (m \in inbox => m \in moving[p])

\* A message that has been in a prompt was sent, and its file is not in the inbox.
ShownIsGone(m) ==
    /\ sending[m] = "no" => shown[m] = 0 /\ m \notin inbox
    /\ shown[m] <= IF m \in inbox THEN 0 ELSE 1

MailInv ==
    /\ Types
    /\ \A p \in Profiles : ReadsItsOwn(p) /\ HasRead(p)
    /\ \A m \in Mail : ShownIsGone(m)

\* Nobody's beat moves and no message does.
MailRests == UNCHANGED <<beat, names, moving, content, sending, shown, inbox>>

\* The beat of p moves, to a step that is not "reading", and no message does.
MovesOn(p) ==
    /\ \E step \in {"off", "begins", "turn", "over"} : Becomes(p, step)
    /\ beat[p] # "reading"
    /\ UNCHANGED <<names, moving, content, sending, shown, inbox>>

-----------------------------------------------------------------------------
\* No message has been sent at first.
LEMMA MailInit == Init => MailInv
BY DEF Init, MailInv, Types, ReadsItsOwn, HasRead, ShownIsGone

\* A step that touches no message and no beat keeps the invariant.
LEMMA RestKeeps == MailInv /\ MailRests => MailInv'
BY DEF MailRests, MailInv, Types, ReadsItsOwn, HasRead, ShownIsGone

\* So does one that moves a beat on after its reading or before it.
LEMMA MovesOnKeeps == ASSUME MailInv, NEW p \in Profiles, MovesOn(p) PROVE MailInv'
<1>1. /\ UNCHANGED <<names, moving, content, sending, shown, inbox>>
      /\ beat' \in [Profiles -> {"off", "begins", "reading", "turn", "over"}]
      /\ \A q \in Profiles : beat'[q] # "reading" \/ beat'[q] = beat[q]
      /\ \A q \in Profiles : q # p => beat'[q] = beat[q]
      /\ beat[p] # "reading"
  BY DEF MovesOn, Becomes, MailInv, Types
<1> QED
  BY <1>1 DEF MailInv, Types, ReadsItsOwn, HasRead, ShownIsGone

\* A tick moves every beat, none of which is reading.
LEMMA TickKeeps == ASSUME MailInv, Tick \/ Scheduled, \A p \in Profiles : beat[p] # "reading"
                   PROVE  MailInv'
<1>1. /\ UNCHANGED <<names, moving, content, sending, shown, inbox>>
      /\ beat' \in [Profiles -> {"begins", "over", "off"}]
  BY DEF Tick, Scheduled, mailVars
<1> QED
  BY <1>1 DEF MailInv, Types, ReadsItsOwn, HasRead, ShownIsGone

\* A beat lists the files of its own inbox.
LEMMA PrepareKeeps == ASSUME MailInv, NEW p \in Profiles, Prepare(p) PROVE MailInv'
<1> USE DEF MailInv
<1>1. /\ UNCHANGED <<moving, sending, shown, inbox>>
      /\ beat' = [beat EXCEPT ![p] = "reading"]
      /\ content' = [content EXCEPT ![p] = {}]
      /\ \E listed \in SUBSET {m \in inbox : To[m] = p} : names' = [names EXCEPT ![p] = listed]
      /\ beat[p] = "begins"
  BY DEF Prepare, Becomes, mailVars
<1>2. Types'
  BY <1>1 DEF Types
<1>3. \A q \in Profiles : q # p => /\ names'[q] = names[q] /\ content'[q] = content[q]
                                   /\ beat'[q] = beat[q]
  BY <1>1 DEF Types
<1>4. /\ content'[p] = {} /\ beat'[p] = "reading"
      /\ \A m \in names'[p] : m \in inbox /\ To[m] = p
  BY <1>1 DEF Types
<1>5. \A q \in Profiles : ReadsItsOwn(q)'
  BY <1>1, <1>3, <1>4 DEF ReadsItsOwn
<1>6. \A q \in Profiles : HasRead(q)'
  BY <1>1, <1>3, <1>4 DEF HasRead
<1> QED
  BY <1>1, <1>2, <1>5, <1>6 DEF ShownIsGone

\* A file that is read goes into the prompt, or is removed if it is not complete.
LEMMA ReadKeeps == ASSUME MailInv, NEW p \in Profiles, NEW m \in Mail, Read(p, m) PROVE MailInv'
<1> USE DEF MailInv
<1>1. /\ UNCHANGED <<beat, sending, shown>>
      /\ beat[p] = "reading" /\ moving[p] = {} /\ m \in names[p]
      /\ names' = [names EXCEPT ![p] = @ \ {m}]
  BY DEF Read
<1>2. /\ To[m] = p /\ m \in inbox /\ shown[m] = 0
      /\ sending[m] # "no"
  BY <1>1 DEF ReadsItsOwn, ShownIsGone, Types
<1>3. \A q \in Profiles : q # p => names'[q] = names[q] /\ m \notin names[q]
  BY <1>1, <1>2 DEF Types, ReadsItsOwn
<1>4. names'[p] = names[p] \ {m}
  BY <1>1 DEF Types
<1>5. CASE sending[m] = "sent"
  <2>1. /\ inbox' = inbox
        /\ content' = [content EXCEPT ![p] = @ \cup {m}]
        /\ moving' = [moving EXCEPT ![p] = {m}]
    BY <1>5 DEF Read
  <2>2. Types'
    BY <1>1, <2>1 DEF Types
  <2>3. /\ content'[p] = content[p] \cup {m} /\ moving'[p] = {m}
        /\ \A q \in Profiles : q # p => content'[q] = content[q] /\ moving'[q] = moving[q]
    BY <2>1 DEF Types
  <2>4. \A q \in Profiles : ReadsItsOwn(q)'
    BY <1>1, <1>3, <1>4, <2>1, <2>3 DEF ReadsItsOwn
  <2>5. \A q \in Profiles : HasRead(q)'
    BY <1>1, <1>2, <2>1, <2>3 DEF HasRead
  <2> QED
    BY <1>1, <2>1, <2>2, <2>4, <2>5 DEF ShownIsGone
<1>6. CASE sending[m] # "sent"
  <2>1. inbox' = inbox \ {m} /\ content' = content /\ moving' = moving
    BY <1>6 DEF Read
  <2>2. Types'
    BY <1>1, <2>1 DEF Types
  <2>3. \A q \in Profiles : ReadsItsOwn(q)'
    BY <1>1, <1>3, <1>4, <2>1 DEF ReadsItsOwn
  <2>4. \A q \in Profiles : HasRead(q)'
    BY <1>1, <2>1 DEF HasRead
  <2>5. \A k \in Mail : ShownIsGone(k)'
    BY <1>1, <1>2, <2>1 DEF ShownIsGone
  <2> QED
    BY <2>2, <2>3, <2>4, <2>5
<1> QED
  BY <1>5, <1>6

\* A file that was read leaves the inbox.
LEMMA MoveKeeps == ASSUME MailInv, NEW p \in Profiles, Move(p) PROVE MailInv'
<1> USE DEF MailInv
<1>1. /\ UNCHANGED <<beat, names, content, sending, shown>>
      /\ moving' = [moving EXCEPT ![p] = {}] /\ inbox' = inbox \ moving[p]
      /\ moving[p] # {}
  BY DEF Move
<1>2. beat[p] = "reading"
  BY <1>1 DEF ReadsItsOwn
<1>3. Types'
  BY <1>1 DEF Types
<1>4. moving'[p] = {} /\ \A q \in Profiles : q # p => moving'[q] = moving[q]
  BY <1>1 DEF Types
<1>5. \A q \in Profiles : HasRead(q)'
  BY <1>1, <1>4 DEF HasRead
<1>6. \A m \in Mail : ShownIsGone(m)'
  BY <1>1 DEF ShownIsGone, Types
<1>7. ASSUME NEW q \in Profiles PROVE ReadsItsOwn(q)'
  <2>1. \A m \in names[q] : m \notin moving[p]
    BY <1>2 DEF ReadsItsOwn, HasRead
  <2> QED
    BY <1>1, <1>4, <2>1 DEF ReadsItsOwn
<1> QED
  BY <1>3, <1>5, <1>6, <1>7

\* The prompt is what was read, and nothing of it is in the inbox any more.
LEMMA StartTurnKeeps == ASSUME MailInv, NEW p \in Profiles, StartTurn(p) PROVE MailInv'
<1> USE DEF MailInv
<1>1. /\ UNCHANGED <<names, moving, content, sending, inbox>>
      /\ beat' = [beat EXCEPT ![p] = "turn"]
      /\ shown' = [m \in Mail |-> IF m \in content[p] THEN shown[m] + 1 ELSE shown[m]]
      /\ beat[p] = "reading" /\ names[p] = {} /\ moving[p] = {}
  BY DEF StartTurn, Becomes
<1>2. Types'
  BY <1>1 DEF Types
<1>3. beat'[p] = "turn" /\ \A q \in Profiles : q # p => beat'[q] = beat[q]
  BY <1>1 DEF Types
<1>4. \A m \in content[p] : m \in Mail /\ To[m] = p /\ shown[m] = 0 /\ m \notin inbox /\ sending[m] # "no"
  BY <1>1 DEF HasRead, Types
<1>5. \A m \in Mail : shown'[m] = IF m \in content[p] THEN 1 ELSE shown[m]
  BY <1>1, <1>4
<1>6. \A m \in Mail : ShownIsGone(m)'
  BY <1>1, <1>4, <1>5 DEF ShownIsGone, Types
<1>7. \A q \in Profiles : ReadsItsOwn(q)'
  BY <1>1, <1>3 DEF ReadsItsOwn
<1>8. ASSUME NEW q \in Profiles PROVE HasRead(q)'
  <2>1. CASE q = p
    BY <1>3, <2>1 DEF HasRead
  <2>2. CASE q # p
    <3>1. beat'[q] = "reading" => \A m \in content[q] : m \in Mail /\ m \notin content[p]
      BY <1>3, <1>4, <2>2 DEF HasRead, Types
    <3> QED
      BY <1>1, <1>3, <1>5, <2>2, <3>1 DEF HasRead
  <2> QED
    BY <2>1, <2>2
<1> QED
  BY <1>2, <1>6, <1>7, <1>8

\* A message is sent once, so one that has been read does not come back.
LEMMA SendKeeps == ASSUME MailInv, NEW m \in Mail, Send(m) \/ Sent(m) PROVE MailInv'
<1> USE DEF MailInv
<1>1. /\ UNCHANGED <<beat, names, moving, content, shown>>
      /\ \A k \in Mail : k # m => sending'[k] = sending[k] /\ (k \in inbox' <=> k \in inbox)
      /\ sending'[m] # "no" /\ inbox \subseteq inbox' /\ inbox' \subseteq Mail
      /\ m \in inbox' => m \in inbox \/ sending[m] = "no"
      /\ sending' \in [Mail -> {"no", "writing", "sent", "torn"}]
  BY DEF Send, Sent, beatVars, Types
<1>2. \A p \in Profiles : content[p] \subseteq Mail /\ names[p] \subseteq Mail
  BY DEF Types
<1>3. Types'
  BY <1>1 DEF Types
<1>4. \A k \in Mail : ShownIsGone(k)'
  BY <1>1 DEF ShownIsGone, Types
<1>5. \A p \in Profiles : HasRead(p)'
  BY <1>1, <1>2 DEF HasRead
<1>6. \A p \in Profiles : ReadsItsOwn(p)'
  BY <1>1, <1>2 DEF ReadsItsOwn
<1> QED
  BY <1>3, <1>4, <1>5, <1>6

\* The death of the process loses the prompts that were being made, not the files.
LEMMA RestartKeeps == ASSUME MailInv, Restart PROVE MailInv'
<1>1. /\ beat' = [p \in Profiles |-> "off"]
      /\ names' = [p \in Profiles |-> {}] /\ moving' = [p \in Profiles |-> {}]
      /\ content' = [p \in Profiles |-> {}]
      /\ sending' = [m \in Mail |-> IF sending[m] = "writing" THEN "torn" ELSE sending[m]]
      /\ UNCHANGED <<shown, inbox>>
  BY DEF Restart
<1> QED
  BY <1>1 DEF MailInv, Types, ReadsItsOwn, HasRead, ShownIsGone

\* While the timer runs, no beat does; while beats run, the timer does not.
TimerInv ==
    /\ beat \in [Profiles -> {"off", "begins", "reading", "turn", "over"}]
    /\ tick = "timer" => \A p \in Profiles : beat[p] = "off"

\* Every step keeps both invariants.
LEMMA MailStep == MailInv /\ TimerInv /\ [Next]_heartVars => MailInv' /\ TimerInv'
<1> SUFFICES ASSUME MailInv, TimerInv, [Next]_heartVars PROVE MailInv' /\ TimerInv'
  OBVIOUS
<1>1. CASE Tick \/ Scheduled
  <2>1. \A p \in Profiles : beat[p] # "reading"
    BY <1>1 DEF Tick, Scheduled, TimerInv
  <2>2. TimerInv'
    BY <1>1 DEF Tick, Scheduled, TimerInv
  <2> QED
    BY <1>1, <2>1, <2>2, TickKeeps
<1>2. CASE Restart
  <2>1. TimerInv'
    BY <1>2 DEF Restart, TimerInv
  <2> QED
    BY <1>2, <2>1, RestartKeeps
<1>3. CASE Reconfigure \/ UNCHANGED heartVars \/ \E p \in Profiles : UserMessage(p) \/ EditFiles(p)
  <2>1. MailRests /\ tick' = tick
    BY <1>3 DEF Reconfigure, UserMessage, EditFiles, heartVars, mailVars, beatVars, MailRests
  <2> QED
    BY <2>1, RestKeeps DEF TimerInv, MailRests
<1>4. ASSUME NEW m \in Mail, Send(m) \/ Sent(m) PROVE MailInv' /\ TimerInv'
  BY <1>4, SendKeeps DEF Send, Sent, TimerInv, beatVars
<1>5. ASSUME NEW p \in Profiles, Beat(p) PROVE MailInv' /\ TimerInv'
  <2>1. TimerInv'
    <3>1. /\ tick' = tick /\ beat[p] # "off"
          /\ beat' = beat \/ \E step \in {"reading", "turn", "over"} : Becomes(p, step)
      BY <1>5 DEF Beat, Skip, Prepare, Read, Move, StartTurn, EndTurn, TurnFails, Over,
                  MailInv, ReadsItsOwn
    <3> QED
      BY <3>1 DEF TimerInv, Becomes
  <2>2. MailInv'
    <3>1. CASE Skip(p) \/ TurnFails(p) \/ \E reply \in Replies : EndTurn(p, reply)
      <4>1. MovesOn(p)
        BY <3>1 DEF Skip, TurnFails, EndTurn, Over, MovesOn, mailVars
      <4> QED
        BY <4>1, MovesOnKeeps
    <3>2. CASE Prepare(p)
      BY <3>2, PrepareKeeps
    <3>3. CASE Move(p)
      BY <3>3, MoveKeeps
    <3>4. CASE StartTurn(p)
      BY <3>4, StartTurnKeeps
    <3>5. ASSUME NEW m \in Mail, Read(p, m) PROVE MailInv'
      BY <3>5, ReadKeeps
    <3> QED
      BY <1>5, <3>1, <3>2, <3>3, <3>4, <3>5 DEF Beat
  <2> QED
    BY <2>1, <2>2
<1> QED
  BY <1>1, <1>2, <1>3, <1>4, <1>5 DEF Next

\* A message is in the prompt of one heartbeat at most, whichever profiles send it
\* while others read, and wherever the process dies.
THEOREM MailOnce == Spec => []MailIsShownOnce
<1>1. Init => TimerInv
  BY DEF Init, TimerInv
<1>2. MailInv => MailIsShownOnce
  BY DEF MailInv, ShownIsGone, MailIsShownOnce
<1> QED
  BY <1>1, <1>2, MailInit, MailStep, PTL DEF Spec

-----------------------------------------------------------------------------
\* Cut beats.

OwedInv == interrupted \in [Profiles -> BOOLEAN] /\ owed \subseteq Profiles /\ CutBeatIsContinued

\* A flag is cleared by the beat that hands it on, and by no other step.
LEMMA OwedStep == OwedInv /\ [Next]_heartVars => OwedInv'
<1> SUFFICES ASSUME OwedInv, [Next]_heartVars PROVE OwedInv'
  OBVIOUS
<1> USE DEF OwedInv, CutBeatIsContinued
<1>1. ASSUME NEW p \in Profiles, Beat(p) PROVE OwedInv'
  <2>1. CASE Skip(p)
    BY <2>1 DEF Skip, ClearInterrupted
  <2>2. CASE Prepare(p)
    BY <2>2 DEF Prepare, ClearSeen, ClearInterrupted
  <2>3. CASE ~Skip(p) /\ ~Prepare(p)
    BY <1>1, <2>3 DEF Beat, Read, Move, StartTurn, EndTurn, TurnFails, Over
  <2> QED
    BY <2>1, <2>2, <2>3
<1>2. ASSUME NEW p \in Profiles, UserMessage(p) PROVE OwedInv'
  BY <1>2 DEF UserMessage
<1>3. CASE Restart
  BY <1>3 DEF Restart
<1>4. CASE \/ Tick \/ Scheduled \/ Reconfigure \/ UNCHANGED heartVars
           \/ \E p \in Profiles : EditFiles(p)
           \/ \E m \in Mail : Send(m) \/ Sent(m)
  BY <1>4 DEF Tick, Scheduled, Reconfigure, heartVars, EditFiles, Send, Sent
<1> QED
  BY <1>1, <1>2, <1>3, <1>4 DEF Next

\* A heartbeat that a user's message cut is owed a notice, and the flag that brings
\* it stays set until a beat has it, for any profiles, users and edits of files.
THEOREM CutBeatsOwed == Spec => []CutBeatIsContinued
<1>1. Init => OwedInv
  BY DEF Init, OwedInv, CutBeatIsContinued
<1>2. OwedInv => CutBeatIsContinued
  BY DEF OwedInv
<1> QED
  BY <1>1, <1>2, OwedStep, PTL DEF Spec

-----------------------------------------------------------------------------
\* ProactiveIntents.

\* A state of the store, as memory or the file has it.
Snapshot(s) ==
    /\ s = [intents |-> s.intents, sent |-> s.sent, budget |-> s.budget]
    /\ s.intents \in Seq(Intents)

IntentTypes ==
    /\ Snapshot(state) /\ Snapshot(store) /\ Snapshot(storing) /\ Snapshot(seen)
    /\ DOMAIN read = Intents /\ \A i \in Intents : Snapshot(read[i])
    /\ chain \in Seq(I!Owners) /\ writing \in BOOLEAN /\ (writing => chain # <<>>)
    /\ call \in [Intents -> {"none", "reading", "saving", "done", "lost"}]
    /\ dispatch \in [Dispatches -> {"idle", "walking", "sending", "marking", "saving"}]
    /\ \A k \in Dispatches : dispatch[k] # "idle" => life \in {"running", "stopping"}

Knows(s, i) == \E n \in DOMAIN s.intents : s.intents[n] = i
Repeats(q) == \E m, n \in 1..Len(q) : q[m] = q[n] /\ m # n

\* An empty store.
LEMMA EmptyKnows ==
    Snapshot(I!Empty) /\ ~Repeats(I!Empty.intents) /\ \A i : ~Knows(I!Empty, i)
<1>1. <<>> \in Seq(Intents) /\ Len(<<>>) = 0 /\ DOMAIN <<>> = 1..0
  OBVIOUS
<1>2. /\ I!Empty = [intents |-> I!Empty.intents, sent |-> I!Empty.sent, budget |-> I!Empty.budget]
      /\ I!Empty.intents = <<>>
  BY DEF I!Empty
<1> QED
  BY <1>1, <1>2 DEF Snapshot, Knows, Repeats

\* What queueing an intent makes of a store.
LEMMA PushKnows ==
    ASSUME NEW s, Snapshot(s), NEW i \in Intents
    PROVE  /\ Snapshot(I!Push(s, i)) /\ I!Push(s, i).sent = s.sent
           /\ \A j : Knows(I!Push(s, i), j) <=> Knows(s, j) \/ j = i
           /\ ~Repeats(s.intents) /\ ~Knows(s, i) => ~Repeats(I!Push(s, i).intents)
<1> DEFINE p == I!Push(s, i)
           q == s.intents
           r == Append(q, i)
<1>1. p = [s EXCEPT !.intents = r]
  BY DEF I!Push
<1>2. p.intents = r /\ p.sent = s.sent
      /\ p = [intents |-> p.intents, sent |-> p.sent, budget |-> p.budget]
  BY <1>1 DEF Snapshot
<1>3. q \in Seq(Intents)
  BY DEF Snapshot
<1> HIDE DEF p, q
<1>4. /\ r \in Seq(Intents) /\ Len(r) = Len(q) + 1 /\ Len(q) \in Nat /\ r[Len(q) + 1] = i
      /\ \A n \in 1..Len(q) : r[n] = q[n]
      /\ DOMAIN q = 1..Len(q) /\ DOMAIN r = 1..(Len(q) + 1)
  BY <1>3
<1> HIDE DEF r
<1>5. \A j : Knows(p, j) <=> Knows(s, j) \/ j = i
  <2>1. \A n \in DOMAIN r : n \in 1..Len(q) \/ n = Len(q) + 1
    BY <1>4
  <2>2. 1..Len(q) \subseteq DOMAIN r /\ Len(q) + 1 \in DOMAIN r
    BY <1>4
  <2> QED
    BY <1>2, <1>4, <2>1, <2>2 DEF Knows, q
<1>6. ~Repeats(q) /\ ~Knows(s, i) => ~Repeats(r)
  <2> SUFFICES ASSUME ~Repeats(q), ~Knows(s, i),
                      NEW m \in 1..Len(r), NEW n \in 1..Len(r), r[m] = r[n], m # n
               PROVE  FALSE
    BY DEF Repeats
  <2>1. \A k \in 1..Len(q) : q[k] # i
    BY <1>4 DEF Knows, q
  <2>2. CASE m \in 1..Len(q) /\ n \in 1..Len(q)
    BY <1>4, <2>2 DEF Repeats
  <2>3. CASE m = Len(q) + 1 /\ n \in 1..Len(q)
    BY <1>4, <2>1, <2>3
  <2>4. CASE n = Len(q) + 1 /\ m \in 1..Len(q)
    BY <1>4, <2>1, <2>4
  <2> QED
    BY <1>4, <2>2, <2>3, <2>4
<1> QED
  BY <1>2, <1>4, <1>5, <1>6 DEF Snapshot, p, q

\* What marking an intent makes of a store.
LEMMA MarkKnows ==
    ASSUME NEW s, Snapshot(s), NEW i
    PROVE  /\ Snapshot(I!Mark(s, i)) /\ I!Mark(s, i).intents = s.intents
           /\ I!Mark(s, i).sent = IF Knows(s, i) THEN s.sent \cup {i} ELSE s.sent
<1>1. CASE Knows(s, i)
  <2>1. I!Mark(s, i) = [s EXCEPT !.sent = s.sent \cup {i}]
    BY <1>1 DEF I!Mark, Knows
  <2> QED
    BY <1>1, <2>1 DEF Snapshot
<1>2. CASE ~Knows(s, i)
  <2>1. I!Mark(s, i) = s
    BY <1>2 DEF I!Mark, Knows
  <2> QED
    BY <1>2, <2>1
<1> QED
  BY <1>1, <1>2

\* Saving the budget leaves the intents.
LEMMA BudgetKnows ==
    ASSUME NEW s, Snapshot(s), NEW b
    PROVE  /\ Snapshot([s EXCEPT !.budget = b]) /\ [s EXCEPT !.budget = b].intents = s.intents
           /\ [s EXCEPT !.budget = b].sent = s.sent
BY DEF Snapshot

\* A store knows what it knew as long as its list is the same.
LEMMA SameKnows ==
    ASSUME NEW s, NEW t, s.intents = t.intents
    PROVE  \A i : Knows(s, i) <=> Knows(t, i)
BY DEF Knows

\* Who waits for a write that is not done, or not begun.
Waits(q, o) == \E n \in 1..Len(q) : q[n] = o
WaitsBehind(q, o) == \E n \in 2..Len(q) : q[n] = o

\* The chain of writes.
LEMMA ChainGrows ==
    ASSUME NEW X, NEW q \in Seq(X), NEW x \in X
    PROVE  /\ Append(q, x) \in Seq(X) /\ Append(q, x) # <<>>
           /\ \A o : Waits(Append(q, x), o) <=> Waits(q, o) \/ o = x
           /\ \A o : WaitsBehind(q, o) => WaitsBehind(Append(q, x), o)
           /\ q # <<>> => WaitsBehind(Append(q, x), x)
<1> DEFINE r == Append(q, x)
<1>1. /\ r \in Seq(X) /\ Len(r) = Len(q) + 1 /\ Len(q) \in Nat /\ r[Len(q) + 1] = x
      /\ \A n \in 1..Len(q) : r[n] = q[n]
  OBVIOUS
<1>2. q # <<>> => Len(q) > 0
  OBVIOUS
<1> HIDE DEF r
<1>3. \A n \in 1..Len(r) : n \in 1..Len(q) \/ n = Len(q) + 1
  BY <1>1
<1>4. \A n \in 1..Len(q) : n \in 1..Len(r)
  BY <1>1
<1>5. \A n \in 2..Len(q) : n \in 2..Len(r) /\ n \in 1..Len(q)
  BY <1>1
<1>6. Len(q) + 1 \in 1..Len(r) /\ (q # <<>> => Len(q) + 1 \in 2..Len(r))
  BY <1>1, <1>2
<1>7. \A o : Waits(r, o) <=> Waits(q, o) \/ o = x
  BY <1>1, <1>3, <1>4, <1>6 DEF Waits
<1>8. \A o : WaitsBehind(q, o) => WaitsBehind(r, o)
  BY <1>1, <1>5 DEF WaitsBehind
<1>9. q # <<>> => WaitsBehind(r, x)
  BY <1>1, <1>6 DEF WaitsBehind
<1>10. r # <<>>
  BY <1>1
<1> QED
  BY <1>1, <1>7, <1>8, <1>9, <1>10 DEF r

\* A chain whose first write is done.
LEMMA ChainShrinks ==
    ASSUME NEW X, NEW q \in Seq(X), q # <<>>
    PROVE  Tail(q) \in Seq(X) /\ \A o : Waits(Tail(q), o) <=> WaitsBehind(q, o)
<1> DEFINE r == Tail(q)
<1>1. /\ r \in Seq(X) /\ Len(r) = Len(q) - 1 /\ Len(q) \in Nat \ {0}
      /\ \A n \in 1..(Len(q) - 1) : r[n] = q[n + 1]
  OBVIOUS
<1> HIDE DEF r
<1>2. ASSUME NEW o, WaitsBehind(q, o) PROVE Waits(r, o)
  <2>1. PICK n \in 2..Len(q) : q[n] = o
    BY <1>2 DEF WaitsBehind
  <2>2. n - 1 \in 1..Len(r) /\ n - 1 \in 1..(Len(q) - 1) /\ (n - 1) + 1 = n
    BY <1>1
  <2>3. r[n - 1] = q[n]
    BY <1>1, <2>2
  <2> QED
    BY <2>1, <2>2, <2>3 DEF Waits
<1>3. ASSUME NEW o, Waits(r, o) PROVE WaitsBehind(q, o)
  <2>1. PICK n \in 1..Len(r) : r[n] = o
    BY <1>3 DEF Waits
  <2>2. n + 1 \in 2..Len(q) /\ r[n] = q[n + 1]
    BY <1>1
  <2> QED
    BY <2>1, <2>2 DEF WaitsBehind
<1> QED
  BY <1>1, <1>2, <1>3 DEF r

\* What a read of the file returns is a state of the store, or nothing.
LEMMA ContentsAre ==
    ASSUME IntentTypes, NEW f \in I!Contents
    PROVE  /\ Snapshot(f)
           /\ f = store \/ (writing /\ f = storing) \/ (writing /\ f = I!Empty)
BY EmptyKnows DEF IntentTypes, I!Contents

\* The steps that leave the store, its file and the calls alone.
Elsewhere ==
    UNCHANGED <<timing, state, loaded, store, chain, writing, storing, life, seen, call, read, cut>>

TickSteps == {"idle", "walking", "sending", "marking", "saving"}

\* They are steps of a dispatch, or of the clock.
LEMMA ElsewhereSteps ==
    ASSUME IntentTypes,
           \/ I!Pass \/ UNCHANGED I!vars
           \/ \E k \in Dispatches : \/ I!StartDispatch(k) \/ I!Skip(k) \/ I!Send(k)
                                    \/ I!NotDelivered(k) \/ I!Marked(k) \/ I!Dispatched(k)
    PROVE  /\ Elsewhere
           /\ \/ dispatch' = dispatch
              \/ \E k \in Dispatches, s \in TickSteps :
                     /\ dispatch' = [dispatch EXCEPT ![k] = s]
                     /\ dispatch[k] # "idle" \/ life = "running"
<1> USE DEF I!storeVars, I!callVars, I!tickVars, I!lifeVars, I!histVars
<1>1. CASE I!Pass
  BY <1>1 DEF I!Pass, Elsewhere
<1>2. CASE UNCHANGED I!vars
  BY <1>2 DEF I!vars, Elsewhere
<1>3. ASSUME NEW k \in Dispatches, I!StartDispatch(k)
      PROVE  /\ Elsewhere /\ life = "running"
             /\ dispatch' = [dispatch EXCEPT ![k] = "walking"]
  BY <1>3 DEF I!StartDispatch, Elsewhere
<1>4. ASSUME NEW k \in Dispatches, I!Skip(k)
      PROVE  Elsewhere /\ dispatch' = dispatch
  BY <1>4 DEF I!Skip, Elsewhere
<1>5. ASSUME NEW k \in Dispatches, I!NotDelivered(k)
      PROVE  /\ Elsewhere /\ dispatch[k] = "sending"
             /\ dispatch' = [dispatch EXCEPT ![k] = "walking"]
  BY <1>5 DEF I!NotDelivered, Elsewhere
<1>6. ASSUME NEW k \in Dispatches, I!Send(k)
      PROVE  /\ Elsewhere /\ dispatch[k] = "walking"
             /\ dispatch' = [dispatch EXCEPT ![k] = "sending"]
  BY <1>6 DEF I!Send, Elsewhere
<1>7. ASSUME NEW k \in Dispatches, I!Marked(k)
      PROVE  /\ Elsewhere /\ dispatch[k] = "marking"
             /\ dispatch' = [dispatch EXCEPT ![k] = "walking"]
  BY <1>7 DEF I!Marked, Elsewhere
<1>8. ASSUME NEW k \in Dispatches, I!Dispatched(k)
      PROVE  /\ Elsewhere /\ dispatch[k] = "saving"
             /\ dispatch' = [dispatch EXCEPT ![k] = "idle"]
  BY <1>8 DEF I!Dispatched, Elsewhere
<1>9. {"walking", "sending", "idle"} \subseteq TickSteps
  BY DEF TickSteps
<1> QED
  BY <1>1, <1>2, <1>3, <1>4, <1>5, <1>6, <1>7, <1>8, <1>9, Zenon

\* The life of the store, when no call comes while start() still reads the file.
LoadInv ==
    /\ loaded <=> life \in {"running", "stopping"}
    /\ chain # <<>> => loaded
    /\ \A i \in Intents : call[i] # "reading" /\ (call[i] = "saving" => loaded)
    /\ \A k \in Dispatches : dispatch[k] # "idle" => loaded
    /\ life = "starting" => seen = store

\* An intent whose call is saving is in the state, and in the file or on its way to it
\* in a write that has not taken its payload yet; when the call is over it is in the file.
AckInv(i) ==
    /\ call[i] = "done" => ~Waits(chain, <<"call", i>>)
    /\ call[i] \in {"saving", "done"} /\ ~cut =>
          /\ loaded => Knows(state, i)
          /\ Knows(store, i) \/ Waits(chain, <<"call", i>>)
          /\ writing => Knows(storing, i) \/ WaitsBehind(chain, <<"call", i>>)

IntentsInv ==
    /\ IntentTypes
    /\ timing # "early" => LoadInv /\ \A i \in Intents : AckInv(i)

\* Steps elsewhere.
LEMMA ElsewhereKeeps ==
    ASSUME IntentsInv,
           \/ I!Pass \/ UNCHANGED I!vars
           \/ \E k \in Dispatches : \/ I!StartDispatch(k) \/ I!Skip(k) \/ I!Send(k)
                                    \/ I!NotDelivered(k) \/ I!Marked(k) \/ I!Dispatched(k)
    PROVE  IntentsInv'
<1>1. IntentTypes
  BY DEF IntentsInv
<1>2. /\ Elsewhere
      /\ \/ dispatch' = dispatch
         \/ \E k \in Dispatches, s \in TickSteps :
                /\ dispatch' = [dispatch EXCEPT ![k] = s]
                /\ dispatch[k] # "idle" \/ life = "running"
  BY <1>1, ElsewhereSteps
<1>3. dispatch \in [Dispatches -> TickSteps]
  BY <1>1 DEF IntentTypes, TickSteps
<1>4. dispatch' \in [Dispatches -> TickSteps]
  BY <1>2, <1>3
<1>5. \A k \in Dispatches : dispatch'[k] # "idle" => dispatch[k] # "idle" \/ life = "running"
  BY <1>2, <1>3
<1>6. IntentTypes'
  BY <1>1, <1>2, <1>4 DEF IntentTypes, Snapshot, Elsewhere, TickSteps
<1>7. ASSUME timing # "early" PROVE LoadInv' /\ \A i \in Intents : AckInv(i)'
  <2>1. LoadInv /\ \A i \in Intents : AckInv(i)
    BY <1>7 DEF IntentsInv
  <2>2. LoadInv'
    BY <1>2, <1>5, <2>1 DEF LoadInv, Elsewhere
  <2>3. \A i \in Intents : AckInv(i)'
    BY <1>2, <2>1 DEF AckInv, Elsewhere, Knows
  <2> QED
    BY <2>2, <2>3
<1> QED
  BY <1>2, <1>6, <1>7 DEF IntentsInv, Elsewhere

\* A write takes what the state is, which knows every intent whose call is waiting.
LEMMA WriteKeeps ==
    ASSUME IntentsInv, I!Write
    PROVE  IntentsInv'
<1> USE DEF I!storeVars, I!callVars, I!tickVars, I!lifeVars, I!histVars
<1>0. IntentTypes
  BY DEF IntentsInv
<1>1. CASE I!StartWrite
  <2>1. /\ UNCHANGED <<timing, state, loaded, store, chain, life, seen, call, read, dispatch, cut>>
        /\ writing' = TRUE /\ storing' = state /\ chain # <<>> /\ ~writing
    BY <1>1 DEF I!StartWrite
  <2>2. IntentTypes'
    BY <1>0, <2>1 DEF IntentTypes, Snapshot
  <2>3. ASSUME timing # "early" PROVE LoadInv' /\ \A i \in Intents : AckInv(i)'
    <3>1. LoadInv /\ \A i \in Intents : AckInv(i)
      BY <2>3 DEF IntentsInv
    <3>2. LoadInv'
      BY <2>1, <3>1 DEF LoadInv
    <3>3. \A i \in Intents : AckInv(i)'
      BY <2>1, <3>1 DEF LoadInv, AckInv, Knows
    <3> QED
      BY <3>2, <3>3
  <2> QED
    BY <2>1, <2>2, <2>3 DEF IntentsInv
<1>2. CASE I!FinishWrite
  <2>1. /\ UNCHANGED <<timing, state, loaded, life, seen, call, read, dispatch, cut>>
        /\ store' = storing /\ chain' = Tail(chain) /\ writing' = FALSE
        /\ storing' = I!Empty /\ writing
    BY <1>2 DEF I!FinishWrite
  <2>2. chain \in Seq(I!Owners)
    BY <1>0 DEF IntentTypes
  <2>3. /\ chain # <<>> /\ chain' \in Seq(I!Owners)
        /\ \A o : Waits(chain', o) <=> WaitsBehind(chain, o)
    BY <1>0, <2>1, <2>2, ChainShrinks DEF IntentTypes
  <2>4. IntentTypes'
    BY <1>0, <2>1, <2>3, EmptyKnows DEF IntentTypes, Snapshot
  <2>5. ASSUME timing # "early" PROVE LoadInv' /\ \A i \in Intents : AckInv(i)'
    <3>1. LoadInv /\ \A i \in Intents : AckInv(i)
      BY <2>5 DEF IntentsInv
    <3>2. LoadInv'
      BY <2>1, <2>3, <3>1 DEF LoadInv
    <3>3. \A o : WaitsBehind(chain, o) => Waits(chain, o)
      <4>1. \A n \in 2..Len(chain) : n \in 1..Len(chain)
        BY <2>2
      <4> QED
        BY <4>1 DEF Waits, WaitsBehind
    <3>4. \A i \in Intents : AckInv(i)'
      BY <2>1, <2>3, <3>1, <3>3 DEF AckInv, Knows
    <3> QED
      BY <3>2, <3>4
  <2> QED
    BY <2>1, <2>4, <2>5 DEF IntentsInv
<1> QED
  BY <1>1, <1>2 DEF I!Write

\* A step that adds a write to the chain and keeps what the state knows.
LEMMA PersistKeeps ==
    ASSUME IntentsInv, timing' = timing, NEW o \in I!Owners, chain' = Append(chain, o),
           UNCHANGED <<loaded, store, writing, storing, read, cut>>,
           Snapshot(state'), \A i : Knows(state, i) => Knows(state', i),
           life \in {"running", "stopping"}, life' \in {"running", "stopping"}, seen' = seen,
           \/ call' = call /\ o[1] # "call"
           \/ \E i \in Intents : /\ o = <<"call", i>> /\ call[i] = "none" /\ Knows(state', i)
                                 /\ call' = [call EXCEPT ![i] = "saving"],
           dispatch' \in [Dispatches -> TickSteps]
    PROVE  IntentsInv'
<1>0. IntentTypes /\ chain \in Seq(I!Owners)
      /\ call \in [Intents -> {"none", "reading", "saving", "done", "lost"}]
  BY DEF IntentsInv, IntentTypes
<1>1. /\ chain' \in Seq(I!Owners) /\ chain' # <<>>
      /\ \A x : Waits(chain', x) <=> Waits(chain, x) \/ x = o
      /\ \A x : WaitsBehind(chain, x) => WaitsBehind(chain', x)
      /\ chain # <<>> => WaitsBehind(chain', o)
  BY <1>0, ChainGrows
<1>2. call' \in [Intents -> {"none", "reading", "saving", "done", "lost"}]
  BY <1>0
<1>3. IntentTypes'
  BY <1>0, <1>1, <1>2 DEF IntentTypes, Snapshot, TickSteps
<1>4. ASSUME timing # "early" PROVE LoadInv' /\ \A i \in Intents : AckInv(i)'
  <2>1. LoadInv /\ \A i \in Intents : AckInv(i)
    BY <1>4 DEF IntentsInv
  <2>2. \A i \in Intents : call'[i] # "reading"
    BY <1>0, <2>1 DEF LoadInv
  <2>3. LoadInv'
    BY <2>1, <2>2 DEF LoadInv
  <2>4. ASSUME NEW i \in Intents PROVE AckInv(i)'
    <3>1. CASE o = <<"call", i>>
      <4>1. call'[i] = "saving" /\ Knows(state', i)
        BY <1>0, <3>1
      <4>2. writing => chain # <<>>
        BY <1>0 DEF IntentTypes
      <4> QED
        BY <1>1, <3>1, <4>1, <4>2 DEF AckInv
    <3>2. CASE o # <<"call", i>>
      <4>1. call'[i] = call[i]
        BY <1>0, <3>2
      <4> QED
        BY <1>1, <2>1, <3>2, <4>1 DEF AckInv, Knows
    <3> QED
      BY <3>1, <3>2
  <2> QED
    BY <2>3, <2>4
<1> QED
  BY <1>3, <1>4 DEF IntentsInv

\* Steps of queueIntent.
LEMMA CallKeeps ==
    ASSUME IntentsInv, NEW i \in Intents,
           I!QueueIntent(i) \/ I!QueueAndRead(i) \/ I!QueueLoaded(i) \/ I!Acknowledge(i)
    PROVE  IntentsInv'
<1> USE DEF I!storeVars, I!callVars, I!tickVars, I!lifeVars, I!histVars
<1>0. /\ IntentTypes /\ Snapshot(state) /\ chain \in Seq(I!Owners)
      /\ call \in [Intents -> {"none", "reading", "saving", "done", "lost"}]
      /\ dispatch \in [Dispatches -> TickSteps]
      /\ DOMAIN read = Intents /\ \A j \in Intents : Snapshot(read[j])
  BY DEF IntentsInv, IntentTypes, TickSteps
<1> DEFINE o == <<"call", i>>
<1>a. o \in I!Owners
  BY DEF I!Owners
<1>b. Append(chain, o) \in Seq(I!Owners) /\ Append(chain, o) # <<>>
  BY <1>0, <1>a, ChainGrows
<1>1. CASE I!QueueIntent(i)
  <2>1. /\ life \in {"starting", "running"} /\ call[i] = "none" /\ loaded
        /\ state' = I!Push(state, i) /\ chain' = Append(chain, o)
        /\ call' = [call EXCEPT ![i] = "saving"]
        /\ UNCHANGED <<timing, loaded, store, writing, storing, life, seen, read, dispatch, cut>>
    BY <1>1 DEF I!QueueIntent, I!Persist
  <2>2. /\ Snapshot(state') /\ Knows(state', i)
        /\ \A j : Knows(state, j) => Knows(state', j)
    BY <1>0, <2>1, PushKnows
  <2>3. CASE timing = "early"
    <3>1. call' \in [Intents -> {"none", "reading", "saving", "done", "lost"}]
      BY <1>0, <2>1
    <3>2. IntentTypes'
      BY <1>0, <1>b, <2>1, <2>2, <3>1 DEF IntentTypes, Snapshot
    <3> QED
      BY <2>1, <2>3, <3>2 DEF IntentsInv
  <2>4. CASE timing # "early"
    <3>1. life = "running"
      BY <2>1, <2>4 DEF IntentsInv, LoadInv
    <3> QED
      BY <1>0, <1>a, <2>1, <2>2, <3>1, PersistKeeps
  <2> QED
    BY <2>3, <2>4
<1>2. CASE I!QueueAndRead(i)
  <2>1. /\ timing = "early" /\ call' = [call EXCEPT ![i] = "reading"]
        /\ \E f \in I!Contents : read' = [read EXCEPT ![i] = f]
        /\ UNCHANGED <<timing, state, loaded, store, chain, writing, storing, life, seen, dispatch>>
    BY <1>2 DEF I!QueueAndRead
  <2>2. PICK f \in I!Contents : read' = [read EXCEPT ![i] = f]
    BY <2>1
  <2>3. Snapshot(f)
    BY <1>0, ContentsAre
  <2>4. DOMAIN read' = Intents /\ \A j \in Intents : Snapshot(read'[j])
    <3>1. \A j \in Intents : read'[j] = IF j = i THEN f ELSE read[j]
      BY <1>0, <2>2
    <3>2. \A j \in Intents : j # i => Snapshot(read'[j])
      BY <1>0, <3>1
    <3>3. Snapshot(read'[i])
      BY <2>3, <3>1
    <3> QED
      BY <1>0, <2>2, <3>2, <3>3
  <2>5. call' \in [Intents -> {"none", "reading", "saving", "done", "lost"}]
    BY <1>0, <2>1
  <2>6. IntentTypes'
    BY <1>0, <2>1, <2>4, <2>5 DEF IntentTypes, Snapshot
  <2> QED
    BY <2>1, <2>6 DEF IntentsInv
<1>3. CASE I!QueueLoaded(i)
  <2>1. /\ call[i] = "reading" /\ state' = I!Push(read[i], i) /\ chain' = Append(chain, o)
        /\ call' = [call EXCEPT ![i] = "saving"] /\ read' = [read EXCEPT ![i] = I!Empty]
        /\ UNCHANGED <<timing, store, writing, storing, life, seen, dispatch>>
    BY <1>3 DEF I!QueueLoaded, I!Persist
  <2>2. Snapshot(read[i])
    BY <1>0
  <2>3. Snapshot(state')
    BY <2>1, <2>2, PushKnows
  <2>4. DOMAIN read' = Intents /\ \A j \in Intents : Snapshot(read'[j])
    <3>1. \A j \in Intents : read'[j] = IF j = i THEN I!Empty ELSE read[j]
      BY <1>0, <2>1
    <3>2. \A j \in Intents : j # i => Snapshot(read'[j])
      BY <1>0, <3>1
    <3>3. Snapshot(read'[i])
      BY <3>1, EmptyKnows
    <3> QED
      BY <1>0, <2>1, <3>2, <3>3
  <2>5. call' \in [Intents -> {"none", "reading", "saving", "done", "lost"}]
    BY <1>0, <2>1
  <2>6. IntentTypes'
    BY <1>0, <1>b, <2>1, <2>3, <2>4, <2>5 DEF IntentTypes, Snapshot
  <2>7. timing = "early"
    BY <2>1 DEF IntentsInv, LoadInv
  <2> QED
    BY <2>1, <2>6, <2>7 DEF IntentsInv
<1>4. CASE I!Acknowledge(i)
  <2>1. /\ call[i] = "saving" /\ call' = [call EXCEPT ![i] = "done"]
        /\ I!Saved(o)
        /\ UNCHANGED <<timing, state, loaded, store, chain, writing, storing, life, seen, read,
                       dispatch, cut>>
    BY <1>4 DEF I!Acknowledge
  <2>2. ~Waits(chain, o)
    <3>1. DOMAIN chain = 1..Len(chain)
      BY <1>0
    <3> QED
      BY <2>1, <3>1 DEF I!Saved, Waits
  <2>3. call' \in [Intents -> {"none", "reading", "saving", "done", "lost"}]
    BY <1>0, <2>1
  <2>4. IntentTypes'
    BY <1>0, <2>1, <2>3 DEF IntentTypes, Snapshot
  <2>5. ASSUME timing # "early" PROVE LoadInv' /\ \A j \in Intents : AckInv(j)'
    <3>1. LoadInv /\ \A j \in Intents : AckInv(j)
      BY <2>5 DEF IntentsInv
    <3>2. \A j \in Intents : call'[j] # "reading" /\ (call'[j] = "saving" => loaded)
      BY <1>0, <2>1, <3>1 DEF LoadInv
    <3>3. LoadInv'
      BY <2>1, <3>1, <3>2 DEF LoadInv
    <3>4. ASSUME NEW j \in Intents PROVE AckInv(j)'
      <4>1. CASE j = i
        BY <1>0, <2>1, <2>2, <3>1, <4>1 DEF AckInv, Knows
      <4>2. CASE j # i
        BY <1>0, <2>1, <3>1, <4>2 DEF AckInv, Knows
      <4> QED
        BY <4>1, <4>2
    <3> QED
      BY <3>3, <3>4
  <2> QED
    BY <2>1, <2>4, <2>5 DEF IntentsInv
<1> QED
  BY <1>1, <1>2, <1>3, <1>4

\* Steps of a dispatch that write the state: an intent is marked, the budget is saved.
LEMMA DispatchKeeps ==
    ASSUME IntentsInv, NEW k \in Dispatches, I!Delivered(k) \/ I!EndDispatch(k)
    PROVE  IntentsInv'
<1> USE DEF I!storeVars, I!callVars, I!tickVars, I!lifeVars, I!histVars
<1>0. /\ IntentTypes /\ Snapshot(state) /\ dispatch \in [Dispatches -> TickSteps]
      /\ dispatch[k] # "idle" => life \in {"running", "stopping"}
  BY DEF IntentsInv, IntentTypes, TickSteps
<1> DEFINE o == <<"tick", k>>
<1>a. o \in I!Owners /\ o[1] # "call"
  BY DEF I!Owners
<1>1. CASE I!Delivered(k)
  <2> DEFINE i == Head(batch[k])
  <2>1. /\ dispatch[k] = "sending" /\ state' = I!Mark(state, i)
        /\ IF state' = state THEN UNCHANGED <<chain, writing, storing>> ELSE I!Persist(o)
        /\ dispatch' = [dispatch EXCEPT ![k] = "marking"]
        /\ UNCHANGED <<timing, loaded, store, life, seen, call, read, cut>>
    BY <1>1 DEF I!Delivered
  <2> HIDE DEF i
  <2>2. Snapshot(state') /\ state'.intents = state.intents
    BY <1>0, <2>1, MarkKnows
  <2>3. \A j : Knows(state, j) => Knows(state', j)
    BY <2>2, SameKnows
  <2>4. /\ dispatch' \in [Dispatches -> TickSteps]
        /\ \A j \in Dispatches : dispatch'[j] # "idle" => dispatch[j] # "idle"
    BY <1>0, <2>1 DEF TickSteps
  <2>5. CASE state' = state
    <3>1. UNCHANGED <<state, chain, writing, storing>>
      BY <2>1, <2>5
    <3>2. IntentTypes'
      BY <1>0, <2>1, <2>4, <3>1 DEF IntentTypes, Snapshot, TickSteps
    <3>3. ASSUME timing # "early" PROVE LoadInv' /\ \A j \in Intents : AckInv(j)'
      BY <2>1, <2>4, <3>1, <3>3 DEF IntentsInv, LoadInv, AckInv, Knows
    <3> QED
      BY <2>1, <3>2, <3>3 DEF IntentsInv
  <2>6. CASE state' # state
    <3>1. chain' = Append(chain, o) /\ UNCHANGED <<writing, storing>>
      BY <2>1, <2>6 DEF I!Persist
    <3> QED
      BY <1>0, <1>a, <2>1, <2>2, <2>3, <2>4, <3>1, PersistKeeps
  <2> QED
    BY <2>5, <2>6
<1>2. CASE I!EndDispatch(k)
  <2>1. /\ dispatch[k] = "walking" /\ state' = [state EXCEPT !.budget = spent]
        /\ chain' = Append(chain, o)
        /\ dispatch' = [dispatch EXCEPT ![k] = "saving"]
        /\ UNCHANGED <<timing, loaded, store, writing, storing, life, seen, call, read, cut>>
    BY <1>2 DEF I!EndDispatch, I!SaveBudget, I!Persist
  <2>2. Snapshot(state') /\ state'.intents = state.intents
    BY <1>0, <2>1, BudgetKnows
  <2>3. \A j : Knows(state, j) => Knows(state', j)
    BY <2>2, SameKnows
  <2>4. dispatch' \in [Dispatches -> TickSteps]
    BY <1>0, <2>1 DEF TickSteps
  <2> QED
    BY <1>0, <1>a, <2>1, <2>2, <2>3, <2>4, PersistKeeps
<1> QED
  BY <1>1, <1>2

\* Start, stop and death: what the file knows outlives them.
LEMMA LifeKeeps ==
    ASSUME IntentsInv, I!Hydrate \/ I!Stop \/ I!Exit \/ I!Crash \/ I!Restart
    PROVE  IntentsInv'
<1> USE DEF I!storeVars, I!callVars, I!tickVars, I!lifeVars, I!histVars
<1>0. /\ IntentTypes /\ Snapshot(state) /\ Snapshot(seen) /\ chain \in Seq(I!Owners)
      /\ call \in [Intents -> {"none", "reading", "saving", "done", "lost"}]
      /\ dispatch \in [Dispatches -> TickSteps] /\ (writing => chain # <<>>)
  BY DEF IntentsInv, IntentTypes, TickSteps
<1>1. CASE I!Hydrate
  <2>1. /\ life = "starting" /\ life' = "running" /\ state' = seen /\ loaded' = TRUE
        /\ seen' = I!Empty
        /\ UNCHANGED <<timing, store, chain, writing, storing, call, read, dispatch, cut>>
    BY <1>1 DEF I!Hydrate
  <2>2. Snapshot(seen')
    BY <2>1, EmptyKnows
  <2>3. IntentTypes'
    BY <1>0, <2>1, <2>2 DEF IntentTypes, Snapshot
  <2>4. ASSUME timing # "early" PROVE LoadInv' /\ \A i \in Intents : AckInv(i)'
    <3>1. LoadInv /\ \A i \in Intents : AckInv(i)
      BY <2>4 DEF IntentsInv
    <3>2. ~loaded /\ seen = store /\ chain = <<>> /\ ~writing
      BY <1>0, <2>1, <3>1 DEF LoadInv
    <3>3. LoadInv'
      BY <2>1, <3>1, <3>2 DEF LoadInv
    <3>4. \A o : ~Waits(chain, o)
      BY <3>2 DEF Waits
    <3>5. \A i \in Intents : AckInv(i)'
      BY <2>1, <3>1, <3>2, <3>4 DEF AckInv, Knows
    <3> QED
      BY <3>3, <3>5
  <2> QED
    BY <2>1, <2>3, <2>4 DEF IntentsInv
<1>2. CASE I!Stop
  <2> DEFINE o == <<"stop", Nobody>>
  <2>1. /\ life = "running" /\ life' = "stopping" /\ state' = [state EXCEPT !.budget = spent]
        /\ chain' = Append(chain, o)
        /\ UNCHANGED <<timing, loaded, store, writing, storing, seen, call, read, dispatch, cut>>
    BY <1>2 DEF I!Stop, I!SaveBudget, I!Persist
  <2>2. Snapshot(state') /\ state'.intents = state.intents
    BY <1>0, <2>1, BudgetKnows
  <2>3. \A j : Knows(state, j) => Knows(state', j)
    BY <2>2, SameKnows
  <2>4. o \in I!Owners /\ o[1] # "call"
    BY DEF I!Owners
  <2> QED
    BY <1>0, <2>1, <2>2, <2>3, <2>4, PersistKeeps
<1>3. CASE I!Exit \/ I!Crash
  <2>1. /\ life' = "down" /\ seen' = I!Empty /\ state' = I!Empty /\ loaded' = FALSE
        /\ chain' = <<>> /\ writing' = FALSE /\ storing' = I!Empty
        /\ store' \in I!Contents /\ cut' = (cut \/ (writing /\ store' = I!Empty))
        /\ call' = [i \in Intents |->
                       IF call[i] \in {"reading", "saving"} THEN "lost" ELSE call[i]]
        /\ read' = [i \in Intents |-> I!Empty]
        /\ dispatch' = [k \in Dispatches |-> "idle"]
        /\ timing' = timing
    BY <1>3 DEF I!Exit, I!Crash, I!Die
  <2>2. /\ Snapshot(store')
        /\ store' = store \/ (writing /\ store' = storing) \/ (writing /\ store' = I!Empty)
    BY <1>0, <2>1, ContentsAre
  <2>3. /\ Snapshot(state') /\ Snapshot(storing') /\ Snapshot(seen')
        /\ DOMAIN read' = Intents /\ \A i \in Intents : Snapshot(read'[i])
    BY <2>1, EmptyKnows
  <2>4. chain' \in Seq(I!Owners) /\ \A o : ~Waits(chain', o)
    BY <2>1 DEF Waits
  <2>5. \A i \in Intents : call'[i] \in {"none", "done", "lost"} /\ (call'[i] = "done" => call[i] = "done")
    BY <1>0, <2>1
  <2>6. call' \in [Intents -> {"none", "reading", "saving", "done", "lost"}]
    BY <2>1, <2>5
  <2>7. /\ dispatch' \in [Dispatches -> {"idle", "walking", "sending", "marking", "saving"}]
        /\ \A k \in Dispatches : dispatch'[k] = "idle"
    BY <2>1
  <2>8. IntentTypes'
    BY <2>1, <2>2, <2>3, <2>4, <2>6, <2>7 DEF IntentTypes
  <2>9. ASSUME timing # "early" PROVE LoadInv' /\ \A i \in Intents : AckInv(i)'
    <3>1. LoadInv /\ \A i \in Intents : AckInv(i)
      BY <2>9 DEF IntentsInv
    <3>2. LoadInv'
      BY <2>1, <2>5, <2>7 DEF LoadInv
    <3>3. \A o : WaitsBehind(chain, o) => Waits(chain, o)
      <4>1. \A n \in 2..Len(chain) : n \in 1..Len(chain)
        BY <1>0
      <4> QED
        BY <4>1 DEF Waits, WaitsBehind
    <3>4. ASSUME NEW i \in Intents PROVE AckInv(i)'
      <4>1. ASSUME call'[i] = "done", ~cut' PROVE Knows(store', i)
        <5>1. /\ call[i] = "done" /\ ~cut /\ ~(writing /\ store' = I!Empty)
          BY <2>1, <2>5, <4>1
        <5>2. Knows(store, i) /\ (writing => Knows(storing, i))
          BY <3>1, <3>3, <5>1 DEF AckInv
        <5> QED
          BY <2>2, <5>1, <5>2 DEF Knows
      <4> QED
        BY <2>1, <2>4, <2>5, <4>1 DEF AckInv
    <3> QED
      BY <3>2, <3>4
  <2> QED
    BY <2>1, <2>8, <2>9 DEF IntentsInv
<1>4. CASE I!Restart
  <2>1. /\ life = "down" /\ life' = "starting" /\ seen' = store
        /\ UNCHANGED <<timing, state, loaded, store, chain, writing, storing, call, read, dispatch,
                       cut>>
    BY <1>4 DEF I!Restart
  <2>2. IntentTypes'
    BY <1>0, <2>1 DEF IntentTypes, Snapshot
  <2>3. ASSUME timing # "early" PROVE LoadInv' /\ \A i \in Intents : AckInv(i)'
    <3>1. LoadInv /\ \A i \in Intents : AckInv(i)
      BY <2>3 DEF IntentsInv
    <3>2. LoadInv'
      BY <2>1, <3>1 DEF LoadInv
    <3>3. \A i \in Intents : AckInv(i)'
      BY <2>1, <3>1 DEF AckInv, Knows
    <3> QED
      BY <3>2, <3>3
  <2> QED
    BY <2>1, <2>2, <2>3 DEF IntentsInv
<1> QED
  BY <1>1, <1>2, <1>3, <1>4

\* At first nothing is stored, queued or written.
LEMMA IntentsInit == I!Init => IntentsInv
<1> SUFFICES ASSUME I!Init PROVE IntentsInv
  OBVIOUS
<1>1. /\ state = I!Empty /\ store = I!Empty /\ storing = I!Empty /\ seen = I!Empty
      /\ loaded = FALSE /\ chain = <<>> /\ writing = FALSE /\ life = "starting"
      /\ call = [i \in Intents |-> "none"] /\ read = [i \in Intents |-> I!Empty]
      /\ dispatch = [k \in Dispatches |-> "idle"]
  BY DEF I!Init
<1>2. IntentTypes
  <2>1. /\ Snapshot(state) /\ Snapshot(store) /\ Snapshot(storing) /\ Snapshot(seen)
        /\ DOMAIN read = Intents /\ \A i \in Intents : Snapshot(read[i])
    BY <1>1, EmptyKnows
  <2>2. chain \in Seq(I!Owners) /\ writing \in BOOLEAN /\ ~writing
    <3>1. chain = <<>>
      BY <1>1
    <3>2. writing = FALSE
      BY <1>1
    <3>3. <<>> \in Seq(I!Owners)
      OBVIOUS
    <3> QED
      BY <3>1, <3>2, <3>3
  <2>3. /\ call \in [Intents -> {"none", "reading", "saving", "done", "lost"}]
        /\ dispatch \in [Dispatches -> {"idle", "walking", "sending", "marking", "saving"}]
        /\ \A k \in Dispatches : dispatch[k] = "idle"
    BY <1>1
  <2> QED
    BY <2>1, <2>2, <2>3 DEF IntentTypes
<1>3. LoadInv /\ \A i \in Intents : AckInv(i)
  BY <1>1 DEF LoadInv, AckInv, Waits
<1> QED
  BY <1>2, <1>3 DEF IntentsInv

\* Every step keeps the invariant.
LEMMA IntentsNext == IntentsInv /\ [I!Next]_I!vars => IntentsInv'
<1> SUFFICES ASSUME IntentsInv, [I!Next]_I!vars PROVE IntentsInv'
  OBVIOUS
<1>1. CASE I!Pass \/ UNCHANGED I!vars
  BY <1>1, ElsewhereKeeps
<1>2. CASE I!Write
  BY <1>2, WriteKeeps
<1>3. ASSUME NEW i \in Intents,
             I!QueueIntent(i) \/ I!QueueAndRead(i) \/ I!CallStep(i)
      PROVE  IntentsInv'
  BY <1>3, CallKeeps DEF I!CallStep
<1>4. ASSUME NEW k \in Dispatches, I!StartDispatch(k) \/ I!TickStep(k)
      PROVE  IntentsInv'
  <2>1. CASE I!Delivered(k) \/ I!EndDispatch(k)
    BY <2>1, DispatchKeeps
  <2>2. CASE \/ I!StartDispatch(k) \/ I!Skip(k) \/ I!Send(k) \/ I!NotDelivered(k)
             \/ I!Marked(k) \/ I!Dispatched(k)
    BY <2>2, ElsewhereKeeps, Zenon
  <2> QED
    BY <1>4, <2>1, <2>2 DEF I!TickStep
<1>5. CASE I!Hydrate \/ I!Stop \/ I!Exit \/ I!Crash \/ I!Restart
  BY <1>5, LifeKeeps
<1> QED
  BY <1>1, <1>2, <1>3, <1>4, <1>5, Zenon DEF I!Next

\* Whatever the interleaving of calls, dispatches, writes, stops and deaths of the process: an
\* acknowledged intent is in the file, unless the call came before start() had loaded, or a death
\* cut a write of the file (autonomy-state.ts queueIntent, persist; orchestrator.ts start, stop).
THEOREM AcknowledgedSurvives == I!Spec => []AcknowledgedIsKept
<1>1. IntentsInv => AcknowledgedIsKept
  <2> SUFFICES ASSUME IntentsInv, timing # "early", NEW i \in Intents, call[i] = "done", ~cut
               PROVE  \E n \in DOMAIN store.intents : store.intents[n] = i
    BY DEF AcknowledgedIsKept, I!AcknowledgedIsKept
  <2>1. AckInv(i)
    BY DEF IntentsInv
  <2> QED
    BY <2>1 DEF AckInv, Knows
<1> QED
  BY IntentsInit, IntentsNext, <1>1, PTL DEF I!Spec

-----------------------------------------------------------------------------
\* How often an intent is delivered.

\* The lists a store has, had or will have.
Lists == {state.intents, store.intents, storing.intents, seen.intents, <<>>}

\* A list in which every intent is queued once, by a call.
Called(q, c) == ~Repeats(q) /\ \A n \in DOMAIN q : c[q[n]] # "none"

ListsInv == \A q \in Lists : q \in Seq(Intents) /\ Called(q, call)

\* No step but queueIntent makes a new list: the others hand on those there are.
LEMMA ListsStep ==
    ASSUME IntentsInv, [I!Next]_I!vars, timing = "calm"
    PROVE  \/ /\ Lists' \subseteq Lists
              /\ \A i \in Intents : call[i] # "none" => call'[i] # "none"
           \/ \E i \in Intents :
                 /\ call[i] = "none" /\ call' = [call EXCEPT ![i] = "saving"]
                 /\ Lists' \subseteq Lists \cup {Append(state.intents, i)}
<1> USE DEF I!storeVars, I!callVars, I!tickVars, I!lifeVars, I!histVars
<1>0. /\ IntentTypes /\ LoadInv /\ Snapshot(state)
      /\ call \in [Intents -> {"none", "reading", "saving", "done", "lost"}]
  BY DEF IntentsInv, IntentTypes
<1>e. I!Empty.intents = <<>>
  BY DEF I!Empty
<1>1. CASE UNCHANGED <<state, store, storing, seen, call>>
  BY <1>1 DEF Lists
<1>2. CASE \/ I!Pass \/ UNCHANGED I!vars
           \/ \E k \in Dispatches : \/ I!StartDispatch(k) \/ I!Skip(k) \/ I!Send(k)
                                    \/ I!NotDelivered(k) \/ I!Marked(k) \/ I!Dispatched(k)
  <2>1. Elsewhere
    BY <1>0, <1>2, ElsewhereSteps
  <2> QED
    BY <1>1, <2>1 DEF Elsewhere
<1>3. CASE I!StartWrite
  <2>1. storing' = state /\ UNCHANGED <<state, store, seen, call>>
    BY <1>3 DEF I!StartWrite
  <2> QED
    BY <2>1 DEF Lists
<1>4. CASE I!FinishWrite
  <2>1. store' = storing /\ storing' = I!Empty /\ UNCHANGED <<state, seen, call>>
    BY <1>4 DEF I!FinishWrite
  <2> QED
    BY <1>e, <2>1 DEF Lists
<1>5. ASSUME NEW i \in Intents, I!QueueIntent(i)
      PROVE  /\ call[i] = "none" /\ call' = [call EXCEPT ![i] = "saving"]
             /\ Lists' \subseteq Lists \cup {Append(state.intents, i)}
  <2>1. /\ call[i] = "none" /\ call' = [call EXCEPT ![i] = "saving"]
        /\ state' = I!Push(state, i) /\ UNCHANGED <<store, storing, seen>>
    BY <1>5 DEF I!QueueIntent, I!Persist
  <2>2. state'.intents = Append(state.intents, i)
    BY <1>0, <2>1 DEF I!Push, Snapshot
  <2> QED
    BY <2>1, <2>2 DEF Lists
<1>6. ASSUME NEW i \in Intents, I!QueueAndRead(i) PROVE FALSE
  BY <1>6 DEF I!QueueAndRead
<1>7. ASSUME NEW i \in Intents, I!QueueLoaded(i) PROVE FALSE
  BY <1>0, <1>7 DEF I!QueueLoaded, LoadInv
<1>8. ASSUME NEW i \in Intents, I!Acknowledge(i)
      PROVE  Lists' \subseteq Lists /\ \A j \in Intents : call[j] # "none" => call'[j] # "none"
  <2>1. call' = [call EXCEPT ![i] = "done"] /\ UNCHANGED <<state, store, storing, seen>>
    BY <1>8 DEF I!Acknowledge
  <2> QED
    BY <1>0, <2>1 DEF Lists
<1>9. CASE \E k \in Dispatches : I!Delivered(k)
  <2>1. PICK k \in Dispatches : I!Delivered(k)
    BY <1>9
  <2> DEFINE i == Head(batch[k])
  <2>2. state' = I!Mark(state, i) /\ UNCHANGED <<store, seen, call>>
    BY <2>1 DEF I!Delivered
  <2>3. storing' = storing
    BY <2>1 DEF I!Delivered, I!Persist
  <2> HIDE DEF i
  <2>4. state'.intents = state.intents
    BY <1>0, <2>2, MarkKnows
  <2> QED
    BY <2>2, <2>3, <2>4 DEF Lists
<1>10. CASE (\E k \in Dispatches : I!EndDispatch(k)) \/ I!Stop
  <2>1. state' = [state EXCEPT !.budget = spent] /\ UNCHANGED <<store, storing, seen, call>>
    BY <1>10 DEF I!EndDispatch, I!Stop, I!SaveBudget, I!Persist
  <2>2. state'.intents = state.intents
    BY <1>0, <2>1, BudgetKnows
  <2> QED
    BY <2>1, <2>2 DEF Lists
<1>11. CASE I!Hydrate
  <2>1. state' = seen /\ seen' = I!Empty /\ UNCHANGED <<store, storing, call>>
    BY <1>11 DEF I!Hydrate
  <2> QED
    BY <1>e, <2>1 DEF Lists
<1>12. CASE I!Restart
  <2>1. seen' = store /\ UNCHANGED <<state, store, storing, call>>
    BY <1>12 DEF I!Restart
  <2> QED
    BY <2>1 DEF Lists
<1>13. CASE I!Exit \/ I!Crash
  <2>1. /\ state' = I!Empty /\ storing' = I!Empty /\ seen' = I!Empty /\ store' \in I!Contents
        /\ call' = [i \in Intents |->
                       IF call[i] \in {"reading", "saving"} THEN "lost" ELSE call[i]]
    BY <1>13 DEF I!Exit, I!Crash, I!Die
  <2>2. store' = store \/ store' = storing \/ store' = I!Empty
    BY <1>0, <2>1, ContentsAre
  <2>3. Lists' \subseteq Lists
    BY <1>e, <2>1, <2>2 DEF Lists
  <2>4. \A i \in Intents : call[i] # "none" => call'[i] # "none"
    BY <1>0, <2>1
  <2> QED
    BY <2>3, <2>4
<1> QED
  <2>1. CASE \E i \in Intents : I!QueueIntent(i) \/ I!QueueAndRead(i) \/ I!CallStep(i)
    BY <2>1, <1>5, <1>6, <1>7, <1>8 DEF I!CallStep
  <2>2. CASE \E k \in Dispatches : I!StartDispatch(k) \/ I!TickStep(k)
    BY <2>2, <1>2, <1>9, <1>10, Zenon DEF I!TickStep
  <2>3. CASE I!Write
    BY <2>3, <1>3, <1>4 DEF I!Write
  <2> QED
    BY <2>1, <2>2, <2>3, <1>2, <1>10, <1>11, <1>12, <1>13, Zenon DEF I!Next

\* So every list has an intent once, and only an intent that was queued.
LEMMA ListsNext ==
    ASSUME IntentsInv, ListsInv, [I!Next]_I!vars, timing = "calm"
    PROVE  ListsInv'
<1>0. call \in [Intents -> {"none", "reading", "saving", "done", "lost"}]
  BY DEF IntentsInv, IntentTypes
<1>1. CASE /\ Lists' \subseteq Lists
           /\ \A i \in Intents : call[i] # "none" => call'[i] # "none"
  <2>1. \A q \in Lists : q \in Seq(Intents) /\ Called(q, call)
    BY DEF ListsInv
  <2>2. ASSUME NEW q \in Lists PROVE q \in Seq(Intents) /\ Called(q, call')
    <3>1. q \in Seq(Intents) /\ Called(q, call)
      BY <2>1
    <3>2. \A n \in DOMAIN q : q[n] \in Intents
      BY <3>1
    <3> QED
      BY <1>1, <3>1, <3>2 DEF Called
  <2> QED
    BY <1>1, <2>2 DEF ListsInv
<1>2. ASSUME NEW i \in Intents, call[i] = "none", call' = [call EXCEPT ![i] = "saving"],
             Lists' \subseteq Lists \cup {Append(state.intents, i)}
      PROVE  ListsInv'
  <2>1. \A q \in Lists : q \in Seq(Intents) /\ Called(q, call)
    BY DEF ListsInv
  <2>2. ASSUME NEW q \in Lists PROVE Called(q, call')
    <3>1. q \in Seq(Intents) /\ Called(q, call)
      BY <2>1
    <3>2. \A n \in DOMAIN q : q[n] \in Intents
      BY <3>1
    <3> QED
      BY <1>0, <1>2, <3>1, <3>2 DEF Called
  <2>3. Append(state.intents, i) \in Seq(Intents) /\ Called(Append(state.intents, i), call')
    <3> DEFINE q == state.intents
               r == Append(q, i)
    <3>1. q \in Seq(Intents) /\ Called(q, call) /\ Called(q, call')
      BY <2>1, <2>2 DEF Lists
    <3> HIDE DEF q
    <3>2. /\ r \in Seq(Intents) /\ Len(r) = Len(q) + 1 /\ Len(q) \in Nat /\ r[Len(q) + 1] = i
          /\ \A n \in 1..Len(q) : r[n] = q[n]
          /\ DOMAIN r = 1..Len(r) /\ DOMAIN q = 1..Len(q)
      BY <3>1
    <3> HIDE DEF r
    <3>3. \A n \in 1..Len(r) : n \in 1..Len(q) \/ n = Len(q) + 1
      BY <3>2
    <3>4. \A n \in 1..Len(q) : q[n] # i
      BY <1>2, <3>1, <3>2 DEF Called
    <3>5. ~Repeats(r)
      <4> SUFFICES ASSUME NEW m \in 1..Len(r), NEW n \in 1..Len(r), r[m] = r[n], m # n
                   PROVE  FALSE
        BY DEF Repeats
      <4>1. CASE m \in 1..Len(q) /\ n \in 1..Len(q)
        BY <3>1, <3>2, <4>1 DEF Called, Repeats
      <4>2. CASE m = Len(q) + 1 /\ n \in 1..Len(q)
        BY <3>2, <3>4, <4>2
      <4>3. CASE n = Len(q) + 1 /\ m \in 1..Len(q)
        BY <3>2, <3>4, <4>3
      <4> QED
        BY <3>3, <4>1, <4>2, <4>3
    <3>6. call'[i] # "none"
      BY <1>0, <1>2
    <3>7. \A n \in DOMAIN r : call'[r[n]] # "none"
      BY <3>1, <3>2, <3>3, <3>6 DEF Called
    <3> QED
      BY <3>2, <3>5, <3>7 DEF Called, r, q
  <2> QED
    BY <1>2, <2>1, <2>2, <2>3 DEF ListsInv
<1> QED
  BY <1>1, <1>2, ListsStep

\* What a dispatch has still to visit: each intent once, known to the store and not marked.
Fresh(q, s) ==
    /\ q \in Seq(Intents) /\ ~Repeats(q)
    /\ \A n \in 1..Len(q) : Knows(s, q[n]) /\ q[n] \notin s.sent

\* One dispatch at a time, and only while it is under way has it intents to visit.
BatchInv ==
    /\ batch \in [Dispatches -> Seq(Intents)]
    /\ \A k \in Dispatches : /\ Fresh(batch[k], state)
                             /\ dispatch[k] = "sending" => batch[k] # <<>>
                             /\ dispatch[k] \in {"idle", "saving"} => batch[k] = <<>>
    /\ \A j, k \in Dispatches : dispatch[j] # "idle" /\ dispatch[k] # "idle" => j = k

\* An intent is delivered once in a life of the process, and marked in the same step.
SentInv ==
    /\ losses \in Nat /\ sent \in [Intents -> Nat]
    /\ \A i \in Intents :
          sent[i] <= losses \/ (sent[i] <= losses + 1 /\ loaded /\ i \in state.sent)

OnceInv == IntentsInv /\ (timing = "calm" => ListsInv /\ BatchInv /\ SentInv)

\* The empty batch is fresh.
LEMMA NothingIsFresh ==
    ASSUME NEW s PROVE Fresh(<<>>, s)
<1>1. <<>> \in Seq(Intents) /\ Len(<<>>) = 0
  OBVIOUS
<1> QED
  BY <1>1 DEF Fresh, Repeats

\* A batch whose first intent has been visited is fresh, and does not have that intent again.
LEMMA RestIsFresh ==
    ASSUME NEW q, NEW s, Fresh(q, s), q # <<>>
    PROVE  /\ Head(q) \in Intents /\ Knows(s, Head(q)) /\ Head(q) \notin s.sent
           /\ Fresh(Tail(q), s)
           /\ \A n \in 1..Len(Tail(q)) : Tail(q)[n] # Head(q)
<1>1. q \in Seq(Intents)
  BY DEF Fresh
<1> DEFINE r == Tail(q)
<1>2. /\ Len(q) \in Nat \ {0} /\ Head(q) = q[1] /\ r \in Seq(Intents) /\ Len(r) = Len(q) - 1
      /\ \A n \in 1..(Len(q) - 1) : r[n] = q[n + 1]
  BY <1>1
<1>3. 1 \in 1..Len(q) /\ q[1] \in Intents
  BY <1>1, <1>2
<1> HIDE DEF r
<1>4. \A n \in 1..Len(r) : n + 1 \in 1..Len(q) /\ r[n] = q[n + 1] /\ n + 1 # 1
  BY <1>2
<1>5. \A n \in 1..Len(r) : r[n] # q[1] /\ Knows(s, r[n]) /\ r[n] \notin s.sent
  BY <1>3, <1>4 DEF Fresh, Repeats
<1>6. ~Repeats(r)
  <2> SUFFICES ASSUME NEW m \in 1..Len(r), NEW n \in 1..Len(r), r[m] = r[n], m # n
               PROVE  FALSE
    BY DEF Repeats
  <2>1. m + 1 # n + 1
    BY <1>2
  <2> QED
    BY <1>4, <2>1 DEF Fresh, Repeats
<1> QED
  BY <1>2, <1>3, <1>5, <1>6 DEF Fresh, r

\* The pending intents are fresh.
LEMMA PendingIsFresh ==
    ASSUME IntentsInv, ListsInv
    PROVE  Fresh(I!Pending, state)
<1> DEFINE S == {i \in Intents : i \notin state.sent /\ NotBefore[i] <= wall}
           q == state.intents
           p == I!Pending
<1>1. q \in Seq(Intents) /\ ~Repeats(q)
  BY DEF ListsInv, Lists, Called
<1>2. p = SelectIn(q, S)
  BY DEF I!Pending, I!SelectIn, SelectIn
<1>3. \A m, n \in 1..Len(q) : q[m] = q[n] => m = n
  BY <1>1 DEF Repeats
<1>s. S \cap state.sent = {}
  OBVIOUS
<1>q. \A x : (\E n \in DOMAIN q : q[n] = x) => Knows(state, x)
  BY DEF Knows
<1> HIDE DEF S, q, p
<1>4. p \in Seq(Intents)
  BY <1>1, <1>2, SelectInElements
<1>5. \A x : (\E n \in 1..Len(p) : p[n] = x) <=> x \in S /\ \E n \in 1..Len(q) : q[n] = x
  BY <1>1, <1>2, SelectInElements
<1>6. \A m, n \in 1..Len(p) : p[m] = p[n] => m = n
  BY <1>1, <1>2, <1>3, SelectInDistinct
<1>7. DOMAIN q = 1..Len(q)
  BY <1>1
<1>8. \A n \in 1..Len(p) : Knows(state, p[n]) /\ p[n] \notin state.sent
  BY <1>s, <1>q, <1>5, <1>7
<1> QED
  BY <1>4, <1>6, <1>8 DEF Fresh, Repeats, p

\* Steps that do not touch the dispatches, and leave or add to what the state knows.
LEMMA BatchSame ==
    ASSUME BatchInv, batch' = batch, dispatch' = dispatch, state'.sent = state.sent,
           \A i : Knows(state, i) => Knows(state', i)
    PROVE  BatchInv'
<1>1. ASSUME NEW k \in Dispatches PROVE Fresh(batch[k], state')
  BY DEF BatchInv, Fresh
<1> QED
  BY <1>1 DEF BatchInv

\* A step of the one dispatch that is under way.
LEMMA BatchStep ==
    ASSUME OnceInv, timing = "calm", NEW k \in Dispatches, NEW s, NEW q \in Seq(Intents),
           \A j \in Dispatches : dispatch[j] # "idle" => j = k,
           dispatch' = [dispatch EXCEPT ![k] = s], batch' = [batch EXCEPT ![k] = q],
           Fresh(q, state'), s = "sending" => q # <<>>, s \in {"idle", "saving"} => q = <<>>
    PROVE  BatchInv'
<1>1. /\ dispatch \in [Dispatches -> TickSteps] /\ batch \in [Dispatches -> Seq(Intents)]
      /\ \A j \in Dispatches : dispatch[j] = "idle" => batch[j] = <<>>
  BY DEF OnceInv, IntentsInv, IntentTypes, BatchInv, TickSteps
<1>2. batch' \in [Dispatches -> Seq(Intents)] /\ batch'[k] = q /\ dispatch'[k] = s
  BY <1>1
<1>3. \A j \in Dispatches : j # k => dispatch'[j] = "idle" /\ batch'[j] = <<>>
  BY <1>1
<1>4. \A j \in Dispatches : /\ Fresh(batch'[j], state')
                            /\ dispatch'[j] = "sending" => batch'[j] # <<>>
                            /\ dispatch'[j] \in {"idle", "saving"} => batch'[j] = <<>>
  BY <1>2, <1>3, NothingIsFresh
<1> QED
  BY <1>2, <1>3, <1>4 DEF BatchInv

\* Steps that leave the deliveries, the deaths, and what the store says was sent.
LEMMA SentSame ==
    ASSUME SentInv, UNCHANGED <<sent, losses, loaded>>, state'.sent = state.sent
    PROVE  SentInv'
BY DEF SentInv

\* Steps of the dispatches.
LEMMA DispatchOnce ==
    ASSUME OnceInv, timing = "calm", NEW k \in Dispatches, I!StartDispatch(k) \/ I!TickStep(k)
    PROVE  BatchInv' /\ SentInv'
<1> USE DEF I!storeVars, I!callVars, I!tickVars, I!lifeVars, I!histVars
<1>0. /\ BatchInv /\ SentInv /\ ListsInv /\ IntentsInv /\ LoadInv /\ Snapshot(state)
      /\ dispatch \in [Dispatches -> TickSteps] /\ batch[k] \in Seq(Intents) /\ Fresh(batch[k], state)
      /\ batch \in [Dispatches -> Seq(Intents)]
  BY DEF OnceInv, IntentsInv, IntentTypes, BatchInv, TickSteps
<1>a. dispatch[k] # "idle" => \A j \in Dispatches : dispatch[j] # "idle" => j = k
  BY <1>0 DEF BatchInv
<1>b. batch[k] # <<>> =>
        /\ Tail(batch[k]) \in Seq(Intents) /\ Fresh(Tail(batch[k]), state)
        /\ Head(batch[k]) \in Intents
  BY <1>0, RestIsFresh
<1>c. dispatch[k] = "sending" => batch[k] # <<>>
  BY <1>0 DEF BatchInv
<1>d. batch = [batch EXCEPT ![k] = batch[k]]
  BY <1>0
<1>1. CASE I!StartDispatch(k)
  <2>1. /\ \A j \in Dispatches : dispatch[j] = "idle"
        /\ dispatch' = [dispatch EXCEPT ![k] = "walking"]
        /\ batch' = [batch EXCEPT ![k] = I!Pending]
        /\ UNCHANGED <<state, loaded, sent, losses>>
    BY <1>1 DEF I!StartDispatch
  <2>2. Fresh(I!Pending, state) /\ I!Pending \in Seq(Intents)
    BY <1>0, PendingIsFresh DEF Fresh
  <2>3. Fresh(I!Pending, state')
    BY <2>1, <2>2
  <2>4. BatchInv'
    BY <2>1, <2>2, <2>3, BatchStep
  <2> QED
    BY <1>0, <2>1, <2>4, SentSame
<1>2. CASE I!Skip(k) \/ I!NotDelivered(k)
  <2>1. /\ batch[k] # <<>> /\ dispatch[k] # "idle"
        /\ dispatch' = [dispatch EXCEPT ![k] = "walking"]
        /\ batch' = [batch EXCEPT ![k] = Tail(batch[k])]
        /\ UNCHANGED <<state, loaded, sent, losses>>
    BY <1>0, <1>2, <1>c DEF I!Skip, I!NotDelivered
  <2>2. Fresh(Tail(batch[k]), state')
    BY <1>b, <2>1
  <2>3. BatchInv'
    BY <1>a, <1>b, <2>1, <2>2, BatchStep
  <2> QED
    BY <1>0, <2>1, <2>3, SentSame
<1>3. CASE I!Send(k)
  <2>1. /\ batch[k] # <<>> /\ dispatch[k] # "idle"
        /\ dispatch' = [dispatch EXCEPT ![k] = "sending"] /\ batch' = batch
        /\ UNCHANGED <<state, loaded, sent, losses>>
    BY <1>3 DEF I!Send
  <2>2. Fresh(batch[k], state')
    BY <1>0, <2>1
  <2>3. BatchInv'
    BY <1>0, <1>a, <1>d, <2>1, <2>2, BatchStep
  <2> QED
    BY <1>0, <2>1, <2>3, SentSame
<1>4. CASE I!Marked(k)
  <2>1. /\ dispatch[k] # "idle"
        /\ dispatch' = [dispatch EXCEPT ![k] = "walking"] /\ batch' = batch
        /\ UNCHANGED <<state, loaded, sent, losses>>
    BY <1>4 DEF I!Marked
  <2>2. Fresh(batch[k], state')
    BY <1>0, <2>1
  <2>3. BatchInv'
    BY <1>0, <1>a, <1>d, <2>1, <2>2, BatchStep
  <2> QED
    BY <1>0, <2>1, <2>3, SentSame
<1>5. CASE I!Dispatched(k)
  <2>1. /\ dispatch[k] = "saving"
        /\ dispatch' = [dispatch EXCEPT ![k] = "idle"] /\ batch' = batch
        /\ UNCHANGED <<state, loaded, sent, losses>>
    BY <1>5 DEF I!Dispatched
  <2>2. Fresh(batch[k], state') /\ batch[k] = <<>>
    BY <1>0, <2>1 DEF BatchInv
  <2>3. BatchInv'
    BY <1>0, <1>a, <1>d, <2>1, <2>2, BatchStep
  <2> QED
    BY <1>0, <2>1, <2>3, SentSame
<1>6. CASE I!EndDispatch(k)
  <2>1. /\ dispatch[k] = "walking" /\ batch[k] = <<>> /\ batch' = batch
        /\ dispatch' = [dispatch EXCEPT ![k] = "saving"]
        /\ state' = [state EXCEPT !.budget = spent]
        /\ UNCHANGED <<loaded, sent, losses>>
    BY <1>6 DEF I!EndDispatch, I!SaveBudget
  <2>2. state'.sent = state.sent
    BY <1>0, <2>1, BudgetKnows
  <2>3. Fresh(batch[k], state')
    BY <2>1, NothingIsFresh
  <2>4. BatchInv'
    BY <1>0, <1>a, <1>d, <2>1, <2>3, BatchStep
  <2> QED
    BY <1>0, <2>1, <2>2, <2>4, SentSame
<1>7. CASE I!Delivered(k)
  <2> DEFINE i == Head(batch[k])
             q == Tail(batch[k])
  <2>1. /\ dispatch[k] = "sending" /\ sent' = [sent EXCEPT ![i] = sent[i] + 1]
        /\ state' = I!Mark(state, i)
        /\ dispatch' = [dispatch EXCEPT ![k] = "marking"]
        /\ batch' = [batch EXCEPT ![k] = q]
        /\ UNCHANGED <<loaded, losses>>
    BY <1>7 DEF I!Delivered
  <2>2. /\ i \in Intents /\ Knows(state, i) /\ i \notin state.sent /\ Fresh(q, state)
        /\ \A n \in 1..Len(q) : q[n] # i
    BY <1>0, <1>c, <2>1, RestIsFresh
  <2> HIDE DEF i, q
  <2>3. state'.intents = state.intents /\ state'.sent = state.sent \cup {i}
    BY <1>0, <2>1, <2>2, MarkKnows
  <2>4. \A j : Knows(state, j) => Knows(state', j)
    BY <2>3, SameKnows
  <2>5. Fresh(q, state') /\ q \in Seq(Intents)
    BY <2>2, <2>3, <2>4 DEF Fresh
  <2>6. BatchInv'
    BY <1>a, <2>1, <2>5, BatchStep
  <2>7. SentInv'
    <3>1. /\ losses \in Nat /\ sent \in [Intents -> Nat] /\ sent[i] <= losses
          /\ \A j \in Intents :
                sent[j] <= losses \/ (sent[j] <= losses + 1 /\ loaded /\ j \in state.sent)
      BY <1>0, <2>2 DEF SentInv
    <3>2. loaded
      BY <1>0, <2>1 DEF LoadInv
    <3>3. sent' \in [Intents -> Nat] /\ sent'[i] = sent[i] + 1
          /\ \A j \in Intents : j # i => sent'[j] = sent[j]
      BY <2>1, <2>2, <3>1
    <3>4. sent'[i] <= losses + 1
      BY <2>2, <3>1, <3>3
    <3> QED
      BY <2>1, <2>3, <3>1, <3>2, <3>3, <3>4 DEF SentInv
  <2> QED
    BY <2>6, <2>7
<1> QED
  BY <1>1, <1>2, <1>3, <1>4, <1>5, <1>6, <1>7, Zenon DEF I!TickStep

\* Steps that leave the dispatches: calls, writes, the clock, start and stop.
LEMMA OthersOnce ==
    ASSUME OnceInv, timing = "calm",
           \/ I!Pass \/ I!Write \/ I!Hydrate \/ I!Stop \/ I!Restart \/ UNCHANGED I!vars
           \/ \E i \in Intents : I!QueueIntent(i) \/ I!QueueAndRead(i) \/ I!CallStep(i)
    PROVE  BatchInv' /\ SentInv'
<1> USE DEF I!storeVars, I!callVars, I!tickVars, I!lifeVars, I!histVars
<1>0. BatchInv /\ SentInv /\ LoadInv /\ Snapshot(state)
  BY DEF OnceInv, IntentsInv, IntentTypes
<1>a. ASSUME UNCHANGED <<dispatch, batch, sent, losses, loaded>>, state'.sent = state.sent,
             \A i : Knows(state, i) => Knows(state', i)
      PROVE  BatchInv' /\ SentInv'
  BY <1>0, <1>a, BatchSame, SentSame
<1>b. ASSUME state' = state
      PROVE  state'.sent = state.sent /\ \A i : Knows(state, i) => Knows(state', i)
  BY <1>b
<1>1. CASE I!Pass \/ UNCHANGED I!vars
  <2>1. UNCHANGED <<dispatch, batch, sent, losses, loaded, state>>
    BY <1>1 DEF I!Pass, I!vars
  <2> QED
    BY <1>a, <1>b, <2>1
<1>2. CASE I!Write
  <2>1. UNCHANGED <<dispatch, batch, sent, losses, loaded, state>>
    BY <1>2 DEF I!Write, I!StartWrite, I!FinishWrite
  <2> QED
    BY <1>a, <1>b, <2>1
<1>3. CASE I!Restart
  <2>1. UNCHANGED <<dispatch, batch, sent, losses, loaded, state>>
    BY <1>3 DEF I!Restart
  <2> QED
    BY <1>a, <1>b, <2>1
<1>4. CASE I!Stop
  <2>1. /\ UNCHANGED <<dispatch, batch, sent, losses, loaded>>
        /\ state' = [state EXCEPT !.budget = spent]
    BY <1>4 DEF I!Stop, I!SaveBudget
  <2>2. state'.intents = state.intents /\ state'.sent = state.sent
    BY <1>0, <2>1, BudgetKnows
  <2>3. \A i : Knows(state, i) => Knows(state', i)
    BY <2>2, SameKnows
  <2> QED
    BY <1>a, <2>1, <2>2, <2>3
<1>5. CASE I!Hydrate
  <2>1. /\ life = "starting" /\ loaded' = TRUE
        /\ UNCHANGED <<dispatch, batch, sent, losses>>
    BY <1>5 DEF I!Hydrate
  <2>2. ~loaded /\ \A k \in Dispatches : dispatch[k] = "idle"
    BY <1>0, <2>1 DEF LoadInv
  <2>3. \A k \in Dispatches : batch[k] = <<>>
    BY <1>0, <2>2 DEF BatchInv
  <2>4. BatchInv'
    BY <1>0, <2>1, <2>2, <2>3, NothingIsFresh DEF BatchInv
  <2>5. SentInv'
    BY <1>0, <2>1, <2>2 DEF SentInv
  <2> QED
    BY <2>4, <2>5
<1>6. ASSUME NEW i \in Intents, I!QueueIntent(i) PROVE BatchInv' /\ SentInv'
  <2>1. /\ UNCHANGED <<dispatch, batch, sent, losses, loaded>> /\ state' = I!Push(state, i)
    BY <1>6 DEF I!QueueIntent
  <2>2. state'.sent = state.sent /\ \A j : Knows(state, j) => Knows(state', j)
    BY <1>0, <2>1, PushKnows
  <2> QED
    BY <1>a, <2>1, <2>2
<1>7. ASSUME NEW i \in Intents, I!QueueAndRead(i) \/ I!QueueLoaded(i) PROVE FALSE
  BY <1>0, <1>7 DEF I!QueueAndRead, I!QueueLoaded, LoadInv
<1>8. ASSUME NEW i \in Intents, I!Acknowledge(i) PROVE BatchInv' /\ SentInv'
  <2>1. UNCHANGED <<dispatch, batch, sent, losses, loaded, state>>
    BY <1>8 DEF I!Acknowledge
  <2> QED
    BY <1>a, <1>b, <2>1
<1> QED
  BY <1>1, <1>2, <1>3, <1>4, <1>5, <1>6, <1>7, <1>8, Zenon DEF I!CallStep

\* A death forgets the dispatches, and allows for one delivery more.
LEMMA DeathOnce ==
    ASSUME OnceInv, timing = "calm", I!Exit \/ I!Crash
    PROVE  BatchInv' /\ SentInv'
<1>0. BatchInv /\ SentInv
  BY DEF OnceInv
<1>1. /\ dispatch' = [k \in Dispatches |-> "idle"] /\ batch' = [k \in Dispatches |-> <<>>]
      /\ losses' = losses + 1 /\ sent' = sent
  BY DEF I!Exit, I!Crash, I!Die
<1>2. /\ batch' \in [Dispatches -> Seq(Intents)]
      /\ \A k \in Dispatches : dispatch'[k] = "idle" /\ batch'[k] = <<>>
  BY <1>1
<1>3. BatchInv'
  BY <1>2, NothingIsFresh DEF BatchInv
<1>4. SentInv'
  BY <1>0, <1>1 DEF SentInv
<1> QED
  BY <1>3, <1>4

\* The timing is chosen once.
LEMMA TimingFixed == [I!Next]_I!vars => timing' = timing
<1> USE DEF I!histVars
<1>1. I!Pass \/ I!Write \/ UNCHANGED I!vars => timing' = timing
  BY DEF I!Pass, I!Write, I!StartWrite, I!FinishWrite, I!vars
<1>2. \A i \in Intents : I!QueueIntent(i) \/ I!QueueAndRead(i) \/ I!CallStep(i) => timing' = timing
  BY DEF I!QueueIntent, I!QueueAndRead, I!CallStep, I!QueueLoaded, I!Acknowledge
<1>3. \A k \in Dispatches : I!StartDispatch(k) \/ I!TickStep(k) => timing' = timing
  BY DEF I!StartDispatch, I!TickStep, I!Skip, I!Send, I!NotDelivered, I!Delivered, I!Marked,
         I!EndDispatch, I!Dispatched
<1>4. I!Hydrate \/ I!Stop \/ I!Exit \/ I!Crash \/ I!Restart => timing' = timing
  BY DEF I!Hydrate, I!Stop, I!Exit, I!Crash, I!Restart, I!Die
<1> QED
  BY <1>1, <1>2, <1>3, <1>4, Zenon DEF I!Next

\* With calm timing an intent is delivered once, and once more at most for each death of the
\* process, which may lose the mark (orchestrator.ts dispatchProactiveIntents, autonomy-state.ts
\* markIntentSent): a dispatch lists only unmarked intents, and no two dispatches overlap.
THEOREM OnceDelivered == I!Spec => []DeliveredOnce
<1>1. I!Init => OnceInv
  <2> SUFFICES ASSUME I!Init PROVE OnceInv
    OBVIOUS
  <2>1. IntentsInv
    BY IntentsInit
  <2>2. /\ state = I!Empty /\ store = I!Empty /\ storing = I!Empty /\ seen = I!Empty
        /\ dispatch = [k \in Dispatches |-> "idle"] /\ batch = [k \in Dispatches |-> <<>>]
        /\ sent = [i \in Intents |-> 0] /\ losses = 0
    BY DEF I!Init
  <2>3. I!Empty.intents = <<>>
    BY DEF I!Empty
  <2>a. <<>> \in Seq(Intents) /\ Len(<<>>) = 0 /\ DOMAIN <<>> = 1..0
    OBVIOUS
  <2>4. ListsInv
    <3>1. Lists = {<<>>}
      BY <2>2, <2>3 DEF Lists
    <3> QED
      BY <2>a, <3>1 DEF ListsInv, Called, Repeats
  <2>5. BatchInv
    <3>1. /\ batch \in [Dispatches -> Seq(Intents)]
          /\ \A k \in Dispatches : dispatch[k] = "idle" /\ batch[k] = <<>>
      BY <2>2, <2>a
    <3> QED
      BY <3>1, NothingIsFresh DEF BatchInv
  <2>6. SentInv
    BY <2>2 DEF SentInv
  <2> QED
    BY <2>1, <2>4, <2>5, <2>6 DEF OnceInv
<1>2. OnceInv /\ [I!Next]_I!vars => OnceInv'
  <2> SUFFICES ASSUME OnceInv, [I!Next]_I!vars PROVE OnceInv'
    OBVIOUS
  <2>1. IntentsInv'
    BY IntentsNext DEF OnceInv
  <2>2. timing' = timing
    BY TimingFixed
  <2>3. ASSUME timing = "calm" PROVE ListsInv' /\ BatchInv' /\ SentInv'
    <3>1. ListsInv'
      BY <2>3, ListsNext DEF OnceInv
    <3>2. CASE \E k \in Dispatches : I!StartDispatch(k) \/ I!TickStep(k)
      BY <2>3, <3>1, <3>2, DispatchOnce
    <3>3. CASE \/ I!Pass \/ I!Write \/ I!Hydrate \/ I!Stop \/ I!Restart \/ UNCHANGED I!vars
               \/ \E i \in Intents : I!QueueIntent(i) \/ I!QueueAndRead(i) \/ I!CallStep(i)
      BY <2>3, <3>1, <3>3, OthersOnce, Zenon
    <3>4. CASE I!Exit \/ I!Crash
      BY <2>3, <3>1, <3>4, DeathOnce
    <3> QED
      BY <3>2, <3>3, <3>4, Zenon DEF I!Next
  <2> QED
    BY <2>1, <2>2, <2>3 DEF OnceInv
<1>3. OnceInv => DeliveredOnce
  <2> SUFFICES ASSUME OnceInv, timing = "calm", NEW i \in Intents
               PROVE  sent[i] <= 1 + losses
    BY DEF DeliveredOnce, I!DeliveredOnce
  <2>1. losses \in Nat /\ sent[i] \in Nat /\ (sent[i] <= losses \/ sent[i] <= losses + 1)
    BY DEF OnceInv, SentInv
  <2> QED
    BY <2>1
<1> QED
  BY <1>1, <1>2, <1>3, PTL DEF I!Spec

-----------------------------------------------------------------------------
\* The budget of the channels.

\* Times in their order, none of them after t.
Past(q, t) == /\ q \in Seq(Nat)
              /\ \A m \in 1..Len(q) : q[m] <= t
              /\ \A m, n \in 1..Len(q) : m <= n => q[m] <= q[n]

\* At t the last times of q are those of p that are not older than the span.
Recalls(q, p, span, t) ==
    \A m \in 1..Len(p) : p[m] + span >= t =>
        /\ Len(q) - Len(p) + m \in 1..Len(q)
        /\ q[Len(q) - Len(p) + m] = p[m]

\* No stretch as long as the span has more times than the limit.
Apart(p, limit, span) == \A m, n \in 1..Len(p) : n >= m + limit => p[n] > p[m] + span

\* The times of q that are not older than the span.
Young(q, span, t) == SelectIn(q, {x \in Nat : x >= t - span})

\* What is left of times when the older ones are dropped.
LEMMA YoungIs ==
    ASSUME NEW t \in Nat, NEW q, Past(q, t), NEW span \in Nat
    PROVE  \E l \in 0..Len(q) :
               /\ Young(q, span, t) \in Seq(Nat) /\ Len(Young(q, span, t)) = Len(q) - l
               /\ \A i \in 1..(Len(q) - l) : Young(q, span, t)[i] = q[l + i]
               /\ \A i \in 1..l : q[i] + span < t
<1> DEFINE S == {x \in Nat : x >= t - span}
           r == Young(q, span, t)
<1>1. q \in Seq(Nat) /\ Len(q) \in Nat /\ \A i \in 1..Len(q) : q[i] \in Nat
  BY DEF Past
<1>2. \A i, j \in 1..Len(q) : i <= j /\ q[i] \in S => q[j] \in S
  BY <1>1 DEF Past
<1>a. \A x \in Nat : x \notin S => x + span < t
  OBVIOUS
<1>4. r = SelectIn(q, S)
  BY DEF Young
<1> HIDE DEF S, r
<1>3. PICK l \in 0..Len(q) : /\ SelectIn(q, S) = SubSeq(q, l + 1, Len(q))
                             /\ \A i \in 1..l : q[i] \notin S
  BY <1>1, <1>2, SelectInLater
<1>5. ASSUME NEW i \in 1..l PROVE q[i] + span < t
  <2>1. q[i] \in Nat /\ q[i] \notin S
    BY <1>1, <1>3
  <2> QED
    BY <1>a, <2>1
<1>6. /\ r \in Seq(Nat) /\ Len(r) = Len(q) - l
      /\ \A i \in 1..(Len(q) - l) : r[i] = q[l + i]
  BY <1>1, <1>3, <1>4, DropFirst
<1> QED
  BY <1>5, <1>6 DEF r

\* It is in order.
LEMMA YoungPast ==
    ASSUME NEW t \in Nat, NEW q, Past(q, t), NEW span \in Nat
    PROVE  Past(Young(q, span, t), t)
<1> DEFINE r == Young(q, span, t)
<1>1. q \in Seq(Nat) /\ Len(q) \in Nat
  BY DEF Past
<1>2. PICK l \in 0..Len(q) : /\ r \in Seq(Nat) /\ Len(r) = Len(q) - l
                             /\ \A i \in 1..(Len(q) - l) : r[i] = q[l + i]
                             /\ \A i \in 1..l : q[i] + span < t
  BY YoungIs
<1> HIDE DEF r
<1>3. ASSUME NEW i \in 1..Len(r) PROVE l + i \in 1..Len(q) /\ r[i] = q[l + i]
  <2>1. i \in 1..(Len(q) - l) /\ l + i \in 1..Len(q)
    BY <1>1, <1>2
  <2> QED
    BY <1>2, <2>1
<1>4. ASSUME NEW i \in 1..Len(r) PROVE r[i] <= t
  BY <1>3 DEF Past
<1>5. ASSUME NEW m \in 1..Len(r), NEW n \in 1..Len(r), m <= n PROVE r[m] <= r[n]
  <2>1. /\ l + m \in 1..Len(q) /\ l + n \in 1..Len(q) /\ l + m <= l + n
        /\ r[m] = q[l + m] /\ r[n] = q[l + n]
    BY <1>2, <1>3, <1>5
  <2> QED
    BY <2>1 DEF Past
<1> QED
  BY <1>2, <1>4, <1>5 DEF Past, r

\* It still recalls what is young enough.
LEMMA YoungRecalls ==
    ASSUME NEW t \in Nat, NEW q, Past(q, t), NEW p \in Seq(Nat),
           NEW long \in Nat, Recalls(q, p, long, t), NEW span \in Nat, span <= long
    PROVE  Recalls(Young(q, span, t), p, span, t)
<1> DEFINE r == Young(q, span, t)
<1>1. q \in Seq(Nat) /\ Len(q) \in Nat /\ Len(p) \in Nat
  BY DEF Past
<1>2. PICK l \in 0..Len(q) : /\ r \in Seq(Nat) /\ Len(r) = Len(q) - l
                             /\ \A i \in 1..(Len(q) - l) : r[i] = q[l + i]
                             /\ \A i \in 1..l : q[i] + span < t
  BY YoungIs
<1> HIDE DEF r
<1> SUFFICES ASSUME NEW m \in 1..Len(p), p[m] + span >= t
             PROVE  /\ Len(r) - Len(p) + m \in 1..Len(r)
                    /\ r[Len(r) - Len(p) + m] = p[m]
  BY DEF Recalls, r
<1> DEFINE n == Len(q) - Len(p) + m
<1>3. p[m] \in Nat
  OBVIOUS
<1>4. p[m] + long >= t
  BY <1>3
<1>5. n \in 1..Len(q) /\ q[n] = p[m]
  BY <1>4 DEF Recalls
<1>6. n - l = Len(r) - Len(p) + m
  BY <1>1, <1>2
<1> HIDE DEF n
<1>7. ~(n \in 1..l)
  BY <1>2, <1>3, <1>5
<1>8. n - l \in 1..(Len(q) - l) /\ l + (n - l) = n
  BY <1>1, <1>2, <1>5, <1>7
<1>9. r[n - l] = p[m]
  BY <1>2, <1>5, <1>8
<1> QED
  BY <1>2, <1>6, <1>8, <1>9

\* A send that is counted.
LEMMA SendRecalled ==
    ASSUME NEW t \in Nat, NEW p \in Seq(Nat), NEW q \in Seq(Nat), NEW span \in Nat,
           Recalls(q, p, span, t)
    PROVE  Recalls(Append(q, t), Append(p, t), span, t)
<1> DEFINE p2 == Append(p, t)
           q2 == Append(q, t)
<1>1. /\ Len(p2) = Len(p) + 1 /\ p2[Len(p) + 1] = t /\ Len(p) \in Nat
      /\ \A i \in 1..Len(p) : p2[i] = p[i]
  OBVIOUS
<1>2. /\ Len(q2) = Len(q) + 1 /\ q2[Len(q) + 1] = t /\ Len(q) \in Nat
      /\ \A i \in 1..Len(q) : q2[i] = q[i]
  OBVIOUS
<1> HIDE DEF p2, q2
<1> SUFFICES ASSUME NEW m \in 1..Len(p2), p2[m] + span >= t
             PROVE  /\ Len(q2) - Len(p2) + m \in 1..Len(q2)
                    /\ q2[Len(q2) - Len(p2) + m] = p2[m]
  BY DEF Recalls, p2, q2
<1>3. CASE m = Len(p) + 1
  <2>1. Len(q2) - Len(p2) + m = Len(q) + 1
    BY <1>1, <1>2, <1>3
  <2> QED
    BY <1>1, <1>2, <1>3, <2>1
<1>4. CASE m \in 1..Len(p)
  <2> DEFINE n == Len(q) - Len(p) + m
  <2>1. Len(q2) - Len(p2) + m = n
    BY <1>1, <1>2, <1>4
  <2>2. p2[m] = p[m]
    BY <1>1, <1>4
  <2>3. n \in 1..Len(q) /\ q[n] = p[m]
    BY <1>4, <2>2 DEF Recalls
  <2> HIDE DEF n
  <2>4. n \in 1..Len(q2) /\ q2[n] = q[n]
    BY <1>2, <2>3
  <2> QED
    BY <2>1, <2>2, <2>3, <2>4
<1> QED
  BY <1>1, <1>3, <1>4

\* A send that keeps to the limit.
LEMMA SendFits ==
    ASSUME NEW t \in Nat, NEW p \in Seq(Nat), NEW q \in Seq(Nat), NEW span \in Nat,
           Recalls(q, p, span, t), NEW limit \in Nat, Len(q) < limit, Apart(p, limit, span)
    PROVE  Apart(Append(p, t), limit, span)
<1> DEFINE p2 == Append(p, t)
<1>1. /\ Len(p2) = Len(p) + 1 /\ p2[Len(p) + 1] = t /\ Len(p) \in Nat
      /\ \A i \in 1..Len(p) : p2[i] = p[i]
  OBVIOUS
<1>a. Len(q) \in Nat
  OBVIOUS
<1> HIDE DEF p2
<1>b. \A i \in 1..Len(p2) : i \in 1..Len(p) \/ i = Len(p) + 1
  BY <1>1
<1> SUFFICES ASSUME NEW m \in 1..Len(p2), NEW n \in 1..Len(p2), n >= m + limit
             PROVE  p2[n] > p2[m] + span
  BY DEF Apart, p2
<1>2. m \in 1..Len(p)
  BY <1>1, <1>a
<1>3. CASE n \in 1..Len(p)
  BY <1>1, <1>2, <1>3 DEF Apart
<1>4. CASE n = Len(p) + 1
  <2>1. ~(Len(q) - Len(p) + m \in 1..Len(q))
    BY <1>1, <1>a, <1>2, <1>4
  <2>2. ~(p[m] + span >= t)
    BY <1>2, <2>1 DEF Recalls
  <2>3. p[m] \in Nat
    BY <1>2
  <2>4. p2[m] = p[m] /\ p2[n] = t
    BY <1>1, <1>2, <1>4
  <2> QED
    BY <2>2, <2>3, <2>4
<1>5. n \in 1..Len(p) \/ n = Len(p) + 1
  BY <1>b
<1> QED
  BY <1>3, <1>4, <1>5

\* The present is the last of what is past.
LEMMA PastNow ==
    ASSUME NEW t \in Nat, NEW q, Past(q, t) PROVE Past(Append(q, t), t)
<1> DEFINE r == Append(q, t)
<1>1. q \in Seq(Nat) /\ Len(q) \in Nat /\ \A i \in 1..Len(q) : q[i] \in Nat
  BY DEF Past
<1>2. /\ r \in Seq(Nat) /\ Len(r) = Len(q) + 1 /\ r[Len(q) + 1] = t
      /\ \A i \in 1..Len(q) : r[i] = q[i]
  BY <1>1
<1> HIDE DEF r
<1>3. \A m \in 1..Len(r) : m \in 1..Len(q) \/ m = Len(q) + 1
  BY <1>1, <1>2
<1>4. ASSUME NEW m \in 1..Len(r) PROVE r[m] <= t
  BY <1>1, <1>2, <1>3 DEF Past
<1>5. ASSUME NEW m \in 1..Len(r), NEW n \in 1..Len(r), m <= n PROVE r[m] <= r[n]
  <2>1. CASE n = Len(q) + 1
    BY <1>2, <1>4, <2>1
  <2>2. CASE n \in 1..Len(q)
    <3>1. m \in 1..Len(q)
      BY <1>1, <1>5, <2>2
    <3>2. q[m] <= q[n]
      BY <1>5, <2>2, <3>1 DEF Past
    <3> QED
      BY <1>2, <2>2, <3>1, <3>2
  <2> QED
    BY <1>3, <2>1, <2>2
<1> QED
  BY <1>2, <1>4, <1>5 DEF Past, r

\* What is past stays so.
LEMMA PastLater ==
    ASSUME NEW t \in Nat, NEW q, Past(q, t) PROVE Past(q, t + 1)
<1>1. ASSUME NEW m \in 1..Len(q) PROVE q[m] <= t + 1
  <2>1. q[m] \in Nat /\ q[m] <= t
    BY DEF Past
  <2> QED
    BY <2>1
<1> QED
  BY <1>1 DEF Past

\* There is less and less to be recalled.
LEMMA RecallsLater ==
    ASSUME NEW t \in Nat, NEW q, NEW p \in Seq(Nat), NEW span \in Nat, Recalls(q, p, span, t)
    PROVE  Recalls(q, p, span, t + 1)
<1> SUFFICES ASSUME NEW m \in 1..Len(p), p[m] + span >= t + 1
             PROVE  /\ Len(q) - Len(p) + m \in 1..Len(q)
                    /\ q[Len(q) - Len(p) + m] = p[m]
  BY DEF Recalls
<1>1. p[m] + span >= t
  OBVIOUS
<1> QED
  BY <1>1 DEF Recalls

\* A budget, or the sends: for every channel times that are past.
Books(b, t) == b \in [Channels -> Seq(Nat)] /\ \A c \in Channels : Past(b[c], t)

\* The budgets there are, in memory, in the file and on their way.
Budgets ==
    {state.budget, store.budget, storing.budget, seen.budget, spent, I!Empty.budget}
        \cup {read[i].budget : i \in Intents}

\* A budget that recalls the sends of a day.
AllRecalled(b) == \A c \in Channels : Recalls(b[c], sends[c], DaySpan, wall)

\* The same when start() has forgotten the heartbeat's.
RecalledAtStart(b) ==
    \A c \in Channels : IF c = HeartbeatChannel THEN sends[c] = <<>>
                        ELSE Recalls(b[c], sends[c], DaySpan, wall)

\* A write that waits is of a dispatch that waits for it; the last one of a call comes
\* before that of stop().
WritesOwned ==
    /\ \A n \in 1..Len(chain) : \A k \in Dispatches :
           chain[n] = <<"tick", k>> => dispatch[k] \in {"marking", "saving"}
    /\ life = "stopping" =>
           \A n \in 1..Len(chain) : \A i \in Intents :
               chain[n] = <<"call", i>> =>
                   \E m \in 1..Len(chain) : n < m /\ chain[m] = <<"stop", Nobody>>

Away(k) == dispatch[k] \in {"walking", "sending", "marking"}

\* After stop() has saved the budget it is on its way to the file, unless a dispatch is
\* still to save a newer one.
BudgetSaved ==
    life = "stopping" =>
        \/ \E k \in Dispatches : Away(k)
        \/ /\ AllRecalled(state.budget)
           /\ chain = <<>> => AllRecalled(store.budget)
           /\ writing /\ Len(chain) = 1 => AllRecalled(storing.budget)

\* The sends keep to the limits, in every window.
WithinLimits ==
    \A c \in Channels :
        /\ Apart(sends[c], MaxPerHour, HourSpan) /\ Apart(sends[c], MaxPerDay, DaySpan)
        /\ \A n \in 1..Len(sends[c]) : sends[c][n] \notin QuietTimes

\* What is known of the sends, in every life.
SendsKnown ==
    /\ life \in {"running", "stopping"} => AllRecalled(spent)
    /\ life = "starting" => RecalledAtStart(seen.budget)
    /\ life = "down" => RecalledAtStart(store.budget)
    /\ timing = "early" /\ life \in {"starting", "down"} => \A c \in Channels : sends[c] = <<>>

BooksInv ==
    /\ wall \in Nat /\ Books(sends, wall) /\ \A b \in Budgets : Books(b, wall)
    /\ WithinLimits
    /\ SendsKnown

BudgetInv == IntentsInv /\ BooksInv /\ (timing # "early" => WritesOwned /\ BudgetSaved)

\* The limits are numbers.
LEMMA Limits ==
    /\ HourSpan \in Nat /\ DaySpan \in Nat /\ MaxPerHour \in Nat /\ MaxPerDay \in Nat
    /\ HourSpan <= DaySpan
BY BudgetAssumption

\* No step makes another budget than that of the process; the others hand on those there are.
LEMMA BudgetsMove ==
    ASSUME IntentsInv, [I!Next]_I!vars
    PROVE  Budgets' \subseteq Budgets \cup {spent'}
<1> USE DEF I!storeVars, I!callVars, I!tickVars, I!lifeVars, I!histVars
<1>0. /\ IntentTypes /\ Snapshot(state) /\ DOMAIN read = Intents
      /\ \A i \in Intents : Snapshot(read[i])
  BY DEF IntentsInv, IntentTypes
<1>e. I!Empty' = I!Empty
  BY DEF I!Empty
<1>1. CASE UNCHANGED <<state, store, storing, seen, read>>
  BY <1>1, <1>e DEF Budgets
<1>2. CASE \/ I!Pass \/ UNCHANGED I!vars
           \/ \E k \in Dispatches : \/ I!StartDispatch(k) \/ I!Skip(k) \/ I!Send(k)
                                    \/ I!NotDelivered(k) \/ I!Marked(k) \/ I!Dispatched(k)
  <2>1. Elsewhere
    BY <1>0, <1>2, ElsewhereSteps
  <2> QED
    BY <1>1, <2>1 DEF Elsewhere
<1>3. CASE I!StartWrite
  <2>1. storing' = state /\ UNCHANGED <<state, store, seen, read>>
    BY <1>3 DEF I!StartWrite
  <2> QED
    BY <1>e, <2>1 DEF Budgets
<1>4. CASE I!FinishWrite
  <2>1. store' = storing /\ storing' = I!Empty /\ UNCHANGED <<state, seen, read>>
    BY <1>4 DEF I!FinishWrite
  <2> QED
    BY <1>e, <2>1 DEF Budgets
<1>5. ASSUME NEW i \in Intents, I!QueueIntent(i) PROVE Budgets' \subseteq Budgets \cup {spent'}
  <2>1. state' = I!Push(state, i) /\ UNCHANGED <<store, storing, seen, read>>
    BY <1>5 DEF I!QueueIntent, I!Persist
  <2>2. state'.budget = state.budget
    BY <1>0, <2>1 DEF I!Push, Snapshot
  <2> QED
    BY <1>e, <2>1, <2>2 DEF Budgets
<1>6. ASSUME NEW i \in Intents, I!QueueAndRead(i) PROVE Budgets' \subseteq Budgets \cup {spent'}
  <2>1. /\ \E f \in I!Contents : read' = [read EXCEPT ![i] = f]
        /\ UNCHANGED <<state, store, storing, seen>>
    BY <1>6 DEF I!QueueAndRead
  <2>2. PICK f \in I!Contents : read' = [read EXCEPT ![i] = f]
    BY <2>1
  <2>3. f = store \/ f = storing \/ f = I!Empty
    BY <1>0, ContentsAre
  <2>4. \A j \in Intents : read'[j] = f \/ read'[j] = read[j]
    BY <1>0, <2>2
  <2> QED
    BY <1>e, <2>1, <2>3, <2>4 DEF Budgets
<1>7. ASSUME NEW i \in Intents, I!QueueLoaded(i) PROVE Budgets' \subseteq Budgets \cup {spent'}
  <2>1. /\ state' = I!Push(read[i], i) /\ read' = [read EXCEPT ![i] = I!Empty]
        /\ UNCHANGED <<store, storing, seen>>
    BY <1>7 DEF I!QueueLoaded, I!Persist
  <2>2. state'.budget = read[i].budget
    BY <1>0, <2>1 DEF I!Push, Snapshot
  <2>3. \A j \in Intents : read'[j] = I!Empty \/ read'[j] = read[j]
    BY <1>0, <2>1
  <2> QED
    BY <1>e, <2>1, <2>2, <2>3 DEF Budgets
<1>8. CASE \E i \in Intents : I!Acknowledge(i)
  BY <1>1, <1>8 DEF I!Acknowledge
<1>9. CASE \E k \in Dispatches : I!Delivered(k)
  <2>1. PICK k \in Dispatches : I!Delivered(k)
    BY <1>9
  <2> DEFINE i == Head(batch[k])
  <2>2. state' = I!Mark(state, i) /\ UNCHANGED <<store, seen, read>>
    BY <2>1 DEF I!Delivered
  <2>3. storing' = storing
    BY <2>1 DEF I!Delivered, I!Persist
  <2> HIDE DEF i
  <2>4. state'.budget = state.budget
    BY <1>0, <2>2 DEF I!Mark, Snapshot
  <2> QED
    BY <1>e, <2>2, <2>3, <2>4 DEF Budgets
<1>10. CASE (\E k \in Dispatches : I!EndDispatch(k)) \/ I!Stop
  <2>1. /\ state' = [state EXCEPT !.budget = spent]
        /\ UNCHANGED <<store, storing, seen, read>>
    BY <1>10 DEF I!EndDispatch, I!Stop, I!SaveBudget, I!Persist
  <2>2. state'.budget = spent
    BY <1>0, <2>1 DEF Snapshot
  <2> QED
    BY <1>e, <2>1, <2>2 DEF Budgets
<1>11. CASE I!Hydrate
  <2>1. state' = seen /\ seen' = I!Empty /\ UNCHANGED <<store, storing, read>>
    BY <1>11 DEF I!Hydrate
  <2> QED
    BY <1>e, <2>1 DEF Budgets
<1>12. CASE I!Restart
  <2>1. seen' = store /\ UNCHANGED <<state, store, storing, read>>
    BY <1>12 DEF I!Restart
  <2> QED
    BY <1>e, <2>1 DEF Budgets
<1>13. CASE I!Exit \/ I!Crash
  <2>1. /\ state' = I!Empty /\ storing' = I!Empty /\ seen' = I!Empty /\ store' \in I!Contents
        /\ read' = [i \in Intents |-> I!Empty]
    BY <1>13 DEF I!Exit, I!Crash, I!Die
  <2>2. store' = store \/ store' = storing \/ store' = I!Empty
    BY <1>0, <2>1, ContentsAre
  <2>3. \A j \in Intents : read'[j] = I!Empty
    BY <2>1
  <2> QED
    BY <1>e, <2>1, <2>2, <2>3 DEF Budgets
<1> QED
  <2>1. CASE \E i \in Intents : I!QueueIntent(i) \/ I!QueueAndRead(i) \/ I!CallStep(i)
    BY <2>1, <1>5, <1>6, <1>7, <1>8 DEF I!CallStep
  <2>2. CASE \E k \in Dispatches : I!StartDispatch(k) \/ I!TickStep(k)
    BY <2>2, <1>2, <1>9, <1>10, Zenon DEF I!TickStep
  <2>3. CASE I!Write
    BY <2>3, <1>3, <1>4 DEF I!Write
  <2> QED
    BY <2>1, <2>2, <2>3, <1>2, <1>10, <1>11, <1>12, <1>13, Zenon DEF I!Next

\* The steps that leave the clock, the budget and the sends alone.
StillSteps ==
    \/ I!Write \/ UNCHANGED I!vars
    \/ \E i \in Intents : I!QueueIntent(i) \/ I!QueueAndRead(i) \/ I!CallStep(i)
    \/ \E k \in Dispatches : \/ I!StartDispatch(k) \/ I!NotDelivered(k) \/ I!Delivered(k)
                             \/ I!Marked(k) \/ I!EndDispatch(k) \/ I!Dispatched(k)

\* They leave the process as it is; what they write was being written.
LEMMA StillStepsAre ==
    ASSUME StillSteps
    PROVE  UNCHANGED <<timing, wall, spent, sends, life, seen>> /\ (store' = store \/ writing)
<1> USE DEF I!storeVars, I!callVars, I!tickVars, I!lifeVars, I!histVars
<1> DEFINE Goal == UNCHANGED <<timing, wall, spent, sends, life, seen>> /\ (store' = store \/ writing)
<1>1. I!Write \/ UNCHANGED I!vars => Goal
  BY DEF I!Write, I!StartWrite, I!FinishWrite, I!vars
<1>2. \A i \in Intents : I!QueueIntent(i) \/ I!QueueAndRead(i) \/ I!CallStep(i) => Goal
  BY DEF I!QueueIntent, I!QueueAndRead, I!CallStep, I!QueueLoaded, I!Acknowledge
<1>3. \A k \in Dispatches : I!StartDispatch(k) \/ I!NotDelivered(k) \/ I!Delivered(k) => Goal
  BY DEF I!StartDispatch, I!NotDelivered, I!Delivered
<1>4. \A k \in Dispatches : I!Marked(k) \/ I!EndDispatch(k) \/ I!Dispatched(k) => Goal
  BY DEF I!Marked, I!EndDispatch, I!Dispatched
<1> HIDE DEF Goal
<1>5. Goal
  BY <1>1, <1>2, <1>3, <1>4, Zenon DEF StillSteps
<1> QED
  BY <1>5 DEF Goal

\* The sends and the budget, as steps change them.
LEMMA StillBooks ==
    ASSUME BudgetInv, StillSteps, [I!Next]_I!vars PROVE BooksInv'
<1>1. /\ UNCHANGED <<timing, wall, spent, sends, life, seen>> /\ (store' = store \/ writing)
  BY StillStepsAre
<1>2. \A b \in Budgets' : Books(b, wall')
  <2>1. Budgets' \subseteq Budgets \cup {spent'}
    BY BudgetsMove DEF BudgetInv
  <2>2. spent' \in Budgets /\ wall' = wall
    BY <1>1 DEF Budgets
  <2> QED
    BY <2>1, <2>2 DEF BudgetInv, BooksInv
<1>3. life' = "down" => RecalledAtStart(store.budget)'
  <2> SUFFICES ASSUME life = "down" PROVE RecalledAtStart(store.budget)'
    BY <1>1
  <2>1. CASE timing = "early"
    <3>1. \A c \in Channels : sends[c] = <<>>
      BY <2>1 DEF BudgetInv, BooksInv, SendsKnown
    <3>2. \A c \in Channels : \A q : Recalls(q, sends[c], DaySpan, wall)
      BY <3>1 DEF Recalls
    <3> QED
      BY <1>1, <3>1, <3>2 DEF RecalledAtStart
  <2>2. CASE timing # "early"
    <3>1. ~loaded /\ chain = <<>>
      BY <2>2 DEF BudgetInv, IntentsInv, LoadInv
    <3>2. ~writing
      BY <3>1 DEF BudgetInv, IntentsInv, IntentTypes
    <3>3. store' = store
      BY <1>1, <3>2
    <3> QED
      BY <1>1, <3>3 DEF BudgetInv, BooksInv, SendsKnown, RecalledAtStart
  <2> QED
    BY <2>1, <2>2
<1>4. SendsKnown'
  BY <1>1, <1>3 DEF BudgetInv, BooksInv, SendsKnown, AllRecalled, RecalledAtStart
<1>5. WithinLimits'
  BY <1>1 DEF BudgetInv, BooksInv, WithinLimits
<1> QED
  BY <1>1, <1>2, <1>4, <1>5 DEF BudgetInv, BooksInv, Books

\* Time passes.
LEMMA PassBooks ==
    ASSUME BudgetInv, I!Pass PROVE BooksInv'
<1> USE DEF I!storeVars, I!callVars, I!tickVars, I!lifeVars, I!histVars
<1>1. wall' = wall + 1 /\ UNCHANGED <<timing, state, store, storing, seen, read, spent, sends, life>>
  BY DEF I!Pass
<1>2. wall \in Nat
  BY DEF BudgetInv, BooksInv
<1>3. ASSUME NEW b, Books(b, wall) PROVE Books(b, wall')
  BY <1>1, <1>2, <1>3, PastLater DEF Books
<1>4. Budgets' = Budgets
  BY <1>1 DEF Budgets, I!Empty
<1>5. ASSUME NEW c \in Channels, NEW q, Recalls(q, sends[c], DaySpan, wall)
      PROVE  Recalls(q, sends[c], DaySpan, wall')
  <2>1. sends[c] \in Seq(Nat)
    BY DEF BudgetInv, BooksInv, Books
  <2> QED
    BY <1>1, <1>2, <1>5, <2>1, Limits, RecallsLater
<1>6. SendsKnown'
  BY <1>1, <1>5 DEF BudgetInv, BooksInv, SendsKnown, AllRecalled, RecalledAtStart
<1>7. WithinLimits'
  BY <1>1 DEF BudgetInv, BooksInv, WithinLimits
<1>8. wall' \in Nat /\ Books(sends', wall') /\ \A b \in Budgets' : Books(b, wall')
  BY <1>1, <1>2, <1>3, <1>4 DEF BudgetInv, BooksInv
<1> QED
  BY <1>6, <1>7, <1>8 DEF BooksInv

\* The window of a channel, when a dispatch runs: what the budget has of the last day.
LEMMA WindowIs ==
    ASSUME BudgetInv, NEW c \in Channels, life \in {"running", "stopping"}
    PROVE  /\ Past(I!Window(c), wall) /\ Recalls(I!Window(c), sends[c], DaySpan, wall)
           /\ Past(I!Since(I!Window(c), HourSpan), wall)
           /\ Recalls(I!Since(I!Window(c), HourSpan), sends[c], HourSpan, wall)
<1>1. wall \in Nat /\ Past(spent[c], wall) /\ Past(sends[c], wall) /\ sends[c] \in Seq(Nat)
  BY DEF BudgetInv, BooksInv, Books, Budgets, Past
<1>2. Recalls(spent[c], sends[c], DaySpan, wall)
  BY DEF BudgetInv, BooksInv, SendsKnown, AllRecalled
<1>3. \A q, span : I!Since(q, span) = Young(q, span, wall)
  BY DEF I!Since, Young, I!SelectIn, SelectIn
<1>4. I!Window(c) = Young(spent[c], DaySpan, wall)
  BY <1>3 DEF I!Window
<1> DEFINE w == I!Window(c)
<1>5. Past(w, wall) /\ Recalls(w, sends[c], DaySpan, wall)
  BY <1>1, <1>2, <1>4, Limits, YoungPast, YoungRecalls
<1> HIDE DEF w
<1>6. Past(Young(w, HourSpan, wall), wall) /\ Recalls(Young(w, HourSpan, wall), sends[c], HourSpan, wall)
  BY <1>1, <1>5, Limits, YoungPast, YoungRecalls
<1> QED
  BY <1>3, <1>5, <1>6 DEF w

\* An intent is passed over, or sent.
LEMMA DispatchBooks ==
    ASSUME BudgetInv, NEW k \in Dispatches, I!Skip(k) \/ I!Send(k), [I!Next]_I!vars PROVE BooksInv'
<1> USE DEF I!storeVars, I!callVars, I!tickVars, I!lifeVars, I!histVars
<1> DEFINE c == ChannelOf[Head(batch[k])]
<1>1. /\ dispatch[k] = "walking" /\ UNCHANGED <<timing, wall, life, store, seen>>
      /\ \/ /\ spent' = [spent EXCEPT ![c] = I!Window(c)]
            /\ sends' = sends
         \/ /\ I!Allowed(c)
            /\ spent' = [spent EXCEPT ![c] = Append(I!Window(c), wall)]
            /\ sends' = [sends EXCEPT ![c] = Append(sends[c], wall)]
  BY DEF I!Skip, I!Send
<1> HIDE DEF c
<1>2. life \in {"running", "stopping"}
  BY <1>1 DEF BudgetInv, IntentsInv, IntentTypes
<1>3. /\ wall \in Nat /\ spent \in [Channels -> Seq(Nat)] /\ sends \in [Channels -> Seq(Nat)]
      /\ \A d \in Channels : /\ Past(spent[d], wall) /\ Past(sends[d], wall)
                             /\ Recalls(spent[d], sends[d], DaySpan, wall)
  <2>1. spent \in Budgets
    BY DEF Budgets
  <2> QED
    BY <1>2, <2>1 DEF BudgetInv, BooksInv, SendsKnown, AllRecalled, Books
<1> DEFINE Good(d) ==
        /\ Past(spent'[d], wall) /\ Past(sends'[d], wall)
        /\ Recalls(spent'[d], sends'[d], DaySpan, wall)
        /\ Apart(sends'[d], MaxPerHour, HourSpan) /\ Apart(sends'[d], MaxPerDay, DaySpan)
        /\ \A n \in 1..Len(sends'[d]) : sends'[d][n] \notin QuietTimes
<1>4. ASSUME NEW d \in Channels PROVE Good(d)
  <2>1. /\ Apart(sends[d], MaxPerHour, HourSpan) /\ Apart(sends[d], MaxPerDay, DaySpan)
        /\ \A n \in 1..Len(sends[d]) : sends[d][n] \notin QuietTimes
    BY DEF BudgetInv, BooksInv, WithinLimits
  <2>2. CASE d # c
    <3>1. spent'[d] = spent[d] /\ sends'[d] = sends[d]
      BY <1>1, <1>3, <2>2
    <3> QED
      BY <1>3, <2>1, <3>1
  <2>3. CASE d = c /\ spent' = [spent EXCEPT ![c] = I!Window(c)] /\ sends' = sends
    <3>1. spent'[d] = I!Window(d) /\ sends'[d] = sends[d]
      BY <1>3, <2>3
    <3>2. Past(I!Window(d), wall) /\ Recalls(I!Window(d), sends[d], DaySpan, wall)
      BY <1>2, WindowIs
    <3> QED
      BY <1>3, <2>1, <3>1, <3>2
  <2>4. CASE /\ d = c /\ I!Allowed(c)
             /\ spent' = [spent EXCEPT ![c] = Append(I!Window(c), wall)]
             /\ sends' = [sends EXCEPT ![c] = Append(sends[c], wall)]
    <3> DEFINE w == I!Window(d)
               h == I!Since(I!Window(d), HourSpan)
               p == sends[d]
    <3>1. spent'[d] = Append(w, wall) /\ sends'[d] = Append(p, wall)
      BY <1>3, <2>4
    <3>2. /\ Past(w, wall) /\ Recalls(w, p, DaySpan, wall)
          /\ Past(h, wall) /\ Recalls(h, p, HourSpan, wall)
      BY <1>2, WindowIs
    <3>3. wall \notin QuietTimes /\ Len(h) < MaxPerHour /\ Len(w) < MaxPerDay
      BY <2>4 DEF I!Allowed
    <3>4. Past(p, wall) /\ p \in Seq(Nat) /\ wall \in Nat
      BY <1>3
    <3>p. /\ Apart(p, MaxPerHour, HourSpan) /\ Apart(p, MaxPerDay, DaySpan)
          /\ \A n \in 1..Len(p) : p[n] \notin QuietTimes
      BY <2>1
    <3> HIDE DEF w, h, p
    <3>5. w \in Seq(Nat) /\ h \in Seq(Nat)
      BY <3>2 DEF Past
    <3>6. Past(Append(w, wall), wall) /\ Past(Append(p, wall), wall)
      BY <3>2, <3>4, PastNow
    <3>7. Recalls(Append(w, wall), Append(p, wall), DaySpan, wall)
      BY <3>2, <3>4, <3>5, Limits, SendRecalled
    <3>8. Apart(Append(p, wall), MaxPerHour, HourSpan)
      BY <3>2, <3>3, <3>4, <3>p, <3>5, Limits, SendFits
    <3>9. Apart(Append(p, wall), MaxPerDay, DaySpan)
      BY <3>2, <3>3, <3>4, <3>p, <3>5, Limits, SendFits
    <3>10. \A n \in 1..Len(Append(p, wall)) : Append(p, wall)[n] \notin QuietTimes
      BY <3>3, <3>4, <3>p
    <3> QED
      BY <3>1, <3>6, <3>7, <3>8, <3>9, <3>10
  <2> QED
    BY <1>1, <2>2, <2>3, <2>4
<1>5. DOMAIN spent' = Channels /\ DOMAIN sends' = Channels
      /\ spent' = [d \in Channels |-> spent'[d]] /\ sends' = [d \in Channels |-> sends'[d]]
  BY <1>1, <1>3
<1>6. \A d \in Channels : spent'[d] \in Seq(Nat) /\ sends'[d] \in Seq(Nat)
  BY <1>4 DEF Past
<1>7. Books(spent', wall) /\ Books(sends', wall)
  <2>1. spent' \in [Channels -> Seq(Nat)] /\ sends' \in [Channels -> Seq(Nat)]
    BY <1>5, <1>6
  <2> QED
    BY <1>4, <2>1 DEF Books
<1>8. Budgets' \subseteq Budgets \cup {spent'}
  BY BudgetsMove DEF BudgetInv
<1>9. \A b \in Budgets' : Books(b, wall)
  BY <1>7, <1>8 DEF BudgetInv, BooksInv
<1>10. WithinLimits'
  BY <1>4 DEF WithinLimits
<1>11. SendsKnown'
  <2>1. life' \in {"running", "stopping"} /\ wall' = wall
    BY <1>1, <1>2
  <2>2. AllRecalled(spent)'
    BY <1>4, <2>1 DEF AllRecalled
  <2> QED
    BY <2>1, <2>2 DEF SendsKnown
<1> QED
  BY <1>1, <1>3, <1>7, <1>9, <1>10, <1>11 DEF BooksInv

\* What waits to be written when a shutdown ends that no dispatch outlasts: nothing, so
\* that the file has the budget.
LEMMA ExitSaves ==
    ASSUME BudgetInv, timing # "early", I!Exit, \A k \in Dispatches : dispatch[k] = "idle"
    PROVE  AllRecalled(store.budget) /\ store' = store
<1>1. /\ life = "stopping" /\ I!Saved(<<"stop", Nobody>>) /\ store' \in I!Contents
  BY DEF I!Exit, I!Die
<1>2. WritesOwned /\ BudgetSaved /\ IntentTypes /\ chain \in Seq(I!Owners)
  BY DEF BudgetInv, IntentsInv, IntentTypes
<1>3. \A n \in 1..Len(chain) : chain[n] # <<"stop", Nobody>>
  <2>1. DOMAIN chain = 1..Len(chain)
    BY <1>2
  <2> QED
    BY <1>1, <2>1 DEF I!Saved
<1>4. ASSUME NEW n \in 1..Len(chain) PROVE FALSE
  <2>1. chain[n] \in I!Owners
    BY <1>2
  <2>2. ASSUME NEW i \in Intents, chain[n] = <<"call", i>> PROVE FALSE
    BY <1>1, <1>2, <1>3, <2>2 DEF WritesOwned
  <2>3. ASSUME NEW k \in Dispatches, chain[n] = <<"tick", k>> PROVE FALSE
    BY <1>2, <2>3 DEF WritesOwned
  <2> QED
    BY <1>3, <2>1, <2>2, <2>3 DEF I!Owners
<1>5. chain = <<>>
  BY <1>2, <1>4
<1>6. ~writing
  BY <1>2, <1>5 DEF IntentTypes
<1>7. store' = store
  BY <1>1, <1>6 DEF I!Contents
<1>8. AllRecalled(store.budget)
  BY <1>1, <1>2, <1>5 DEF BudgetSaved, Away
<1> QED
  BY <1>7, <1>8

\* Start, stop and death.
LEMMA LifeBooks ==
    ASSUME BudgetInv, I!Hydrate \/ I!Stop \/ I!Exit \/ I!Crash \/ I!Restart, [I!Next]_I!vars
    PROVE  BooksInv'
<1> USE DEF I!storeVars, I!callVars, I!tickVars, I!lifeVars, I!histVars
<1>0. /\ wall \in Nat /\ Books(sends, wall) /\ WithinLimits /\ SendsKnown
      /\ \A b \in Budgets : Books(b, wall)
  BY DEF BudgetInv, BooksInv
<1>a. Budgets' \subseteq Budgets \cup {spent'}
  BY BudgetsMove DEF BudgetInv
<1>n. \A t : Past(<<>>, t)
  <2>1. <<>> \in Seq(Nat) /\ Len(<<>>) = 0
    OBVIOUS
  <2> QED
    BY <2>1 DEF Past
<1>r. \A q, t : Recalls(q, <<>>, DaySpan, t)
  BY DEF Recalls
<1>1. CASE I!Hydrate
  <2>1. /\ life = "starting" /\ life' = "running" /\ spent' = I!HydratedBudget(seen)
        /\ UNCHANGED <<timing, wall, sends>>
    BY <1>1 DEF I!Hydrate
  <2>2. spent' = [c \in Channels |-> IF c = HeartbeatChannel THEN <<>> ELSE seen.budget[c]]
    BY <2>1 DEF I!HydratedBudget
  <2>3. Books(seen.budget, wall)
    BY <1>0 DEF Budgets
  <2>4. Books(spent', wall)
    BY <1>n, <2>2, <2>3 DEF Books, Past
  <2>5. \A c \in Channels : Recalls(spent'[c], sends[c], DaySpan, wall)
    <3> TAKE c \in Channels
    <3>1. CASE c = HeartbeatChannel
      BY <1>0, <1>r, <2>1, <3>1 DEF SendsKnown, RecalledAtStart
    <3>2. CASE c # HeartbeatChannel
      BY <1>0, <2>1, <2>2, <3>2 DEF SendsKnown, RecalledAtStart
    <3> QED
      BY <3>1, <3>2
  <2>6. SendsKnown'
    BY <2>1, <2>5 DEF SendsKnown, AllRecalled
  <2>7. WithinLimits'
    BY <1>0, <2>1 DEF WithinLimits
  <2> QED
    BY <1>0, <1>a, <2>1, <2>4, <2>6, <2>7 DEF BooksInv
<1>2. CASE I!Stop
  <2>1. /\ life = "running" /\ life' = "stopping"
        /\ UNCHANGED <<timing, wall, sends, spent, seen, store>>
    BY <1>2 DEF I!Stop, I!SaveBudget, I!Persist
  <2>2. Books(spent', wall)
    BY <1>0, <2>1 DEF Budgets
  <2>3. SendsKnown'
    BY <1>0, <2>1 DEF SendsKnown, AllRecalled
  <2>4. WithinLimits'
    BY <1>0, <2>1 DEF WithinLimits
  <2> QED
    BY <1>0, <1>a, <2>1, <2>2, <2>3, <2>4 DEF BooksInv
<1>3. CASE I!Exit \/ I!Crash
  <2>1. PICK keep \in BOOLEAN :
            /\ keep => I!Exit /\ timing # "early" /\ \A k \in Dispatches : dispatch[k] = "idle"
            /\ I!Die(keep)
    <3>1. CASE I!Crash
      BY <3>1 DEF I!Crash
    <3>2. CASE I!Exit
      <4> DEFINE keep == timing # "early" /\ \A k \in Dispatches : dispatch[k] = "idle"
      <4>1. I!Die(keep) /\ keep \in BOOLEAN
        BY <3>2 DEF I!Exit
      <4>2. keep => timing # "early" /\ \A k \in Dispatches : dispatch[k] = "idle"
        OBVIOUS
      <4> HIDE DEF keep
      <4> QED
        BY <3>2, <4>1, <4>2
    <3> QED
      BY <1>3, <3>1, <3>2
  <2>2. /\ life' = "down" /\ spent' = [c \in Channels |-> <<>>]
        /\ sends' = [c \in Channels |->
                        IF keep /\ c # HeartbeatChannel THEN sends[c] ELSE <<>>]
        /\ UNCHANGED <<timing, wall>>
    BY <2>1 DEF I!Die
  <2>3. Books(spent', wall) /\ Books(sends', wall)
    <3>1. <<>> \in Seq(Nat)
      OBVIOUS
    <3> QED
      BY <1>0, <1>n, <2>2, <3>1 DEF Books
  <2>4. WithinLimits'
    <3> SUFFICES ASSUME NEW c \in Channels
                 PROVE  /\ Apart(sends'[c], MaxPerHour, HourSpan)
                        /\ Apart(sends'[c], MaxPerDay, DaySpan)
                        /\ \A n \in 1..Len(sends'[c]) : sends'[c][n] \notin QuietTimes
      BY DEF WithinLimits
    <3>1. CASE sends'[c] = sends[c]
      BY <1>0, <3>1 DEF WithinLimits
    <3>2. CASE sends'[c] = <<>>
      BY <3>2 DEF Apart
    <3> QED
      BY <2>2, <3>1, <3>2
  <2>5. RecalledAtStart(store.budget)'
    <3> SUFFICES ASSUME NEW c \in Channels
                 PROVE  IF c = HeartbeatChannel THEN sends'[c] = <<>>
                        ELSE Recalls(store'.budget[c], sends'[c], DaySpan, wall)
      BY <2>2 DEF RecalledAtStart
    <3>1. CASE c = HeartbeatChannel \/ ~keep
      <4>1. sends'[c] = <<>>
        BY <2>2, <3>1
      <4> QED
        BY <1>r, <4>1
    <3>2. CASE c # HeartbeatChannel /\ keep
      <4>1. sends'[c] = sends[c]
        BY <2>2, <3>2
      <4>2. AllRecalled(store.budget) /\ store' = store
        BY <2>1, <3>2, ExitSaves
      <4> QED
        BY <3>2, <4>1, <4>2 DEF AllRecalled
    <3> QED
      BY <3>1, <3>2
  <2>6. timing' = "early" => \A c \in Channels : sends'[c] = <<>>
    BY <2>1, <2>2
  <2>7. SendsKnown'
    BY <2>2, <2>5, <2>6 DEF SendsKnown
  <2> QED
    BY <1>0, <1>a, <2>2, <2>3, <2>4, <2>7 DEF BooksInv
<1>4. CASE I!Restart
  <2>1. /\ life = "down" /\ life' = "starting" /\ seen' = store
        /\ UNCHANGED <<timing, wall, sends, spent>>
    BY <1>4 DEF I!Restart
  <2>2. Books(spent', wall)
    BY <1>0, <2>1 DEF Budgets
  <2>3. SendsKnown'
    BY <1>0, <2>1 DEF SendsKnown, RecalledAtStart
  <2>4. WithinLimits'
    BY <1>0, <2>1 DEF WithinLimits
  <2> QED
    BY <1>0, <1>a, <2>1, <2>2, <2>3, <2>4 DEF BooksInv
<1> QED
  BY <1>1, <1>2, <1>3, <1>4

\* The chain of writes when one is added.
LEMMA OneMore ==
    ASSUME chain \in Seq(I!Owners), NEW o, chain' = Append(chain, o)
    PROVE  /\ Len(chain) \in Nat /\ Len(chain') = Len(chain) + 1 /\ chain' # <<>>
           /\ chain'[Len(chain) + 1] = o /\ \A n \in 1..Len(chain) : chain'[n] = chain[n]
           /\ \A n \in 1..Len(chain') : n \in 1..Len(chain) \/ n = Len(chain) + 1
BY Z3

\* A dispatch goes on, and nothing is written or saved.
LEMMA DispatchGoesOn ==
    ASSUME BudgetInv, timing # "early", NEW k \in Dispatches, NEW step \in TickSteps,
           dispatch' = [dispatch EXCEPT ![k] = step],
           UNCHANGED <<chain, life, state, store, writing, storing, wall>>,
           \/ Away(k) /\ step \in {"walking", "sending", "marking"}
           \/ dispatch[k] = "idle" /\ life = "running"
           \/ dispatch[k] = "saving" /\ I!Saved(<<"tick", k>>) /\ sends' = sends,
           dispatch[k] = "marking" => I!Saved(<<"tick", k>>)
    PROVE  WritesOwned' /\ BudgetSaved'
<1>0. /\ WritesOwned /\ BudgetSaved /\ chain \in Seq(I!Owners)
      /\ dispatch \in [Dispatches -> TickSteps]
  BY DEF BudgetInv, IntentsInv, IntentTypes, TickSteps
<1>1. \A j \in Dispatches : dispatch'[j] = IF j = k THEN step ELSE dispatch[j]
  BY <1>0
<1>d. DOMAIN chain = 1..Len(chain)
  BY <1>0
<1>2. I!Saved(<<"tick", k>>) => \A n \in 1..Len(chain) : chain[n] # <<"tick", k>>
  BY <1>d DEF I!Saved
<1>3. ASSUME NEW n \in 1..Len(chain), NEW j \in Dispatches, chain[n] = <<"tick", j>>
      PROVE  dispatch'[j] \in {"marking", "saving"}
  <2>1. dispatch[j] \in {"marking", "saving"}
    BY <1>0, <1>3 DEF WritesOwned
  <2>2. j # k
    BY <1>2, <1>3, <2>1 DEF Away
  <2> QED
    BY <1>1, <2>1, <2>2
<1>4. WritesOwned'
  BY <1>0, <1>3 DEF WritesOwned
<1>5. BudgetSaved'
  <2> SUFFICES ASSUME life = "stopping" PROVE BudgetSaved'
    BY DEF BudgetSaved
  <2>1. CASE Away(k)
    <3>1. Away(k)'
      BY <1>1, <2>1 DEF Away
    <3> QED
      BY <3>1 DEF BudgetSaved
  <2>2. CASE dispatch[k] = "saving" /\ sends' = sends
    <3>1. \A j \in Dispatches : Away(j) => Away(j)'
      BY <1>1, <2>2 DEF Away
    <3> QED
      BY <1>0, <2>2, <3>1 DEF BudgetSaved, AllRecalled
  <2> QED
    BY <2>1, <2>2
<1> QED
  BY <1>4, <1>5

\* Steps of a dispatch.
LEMMA DispatchSaves ==
    ASSUME BudgetInv, timing # "early", NEW k \in Dispatches, I!StartDispatch(k) \/ I!TickStep(k)
    PROVE  WritesOwned' /\ BudgetSaved'
<1> USE DEF I!storeVars, I!callVars, I!tickVars, I!lifeVars, I!histVars
<1>0. /\ WritesOwned /\ BudgetSaved /\ chain \in Seq(I!Owners) /\ Snapshot(state)
      /\ dispatch \in [Dispatches -> TickSteps]
  BY DEF BudgetInv, IntentsInv, IntentTypes, TickSteps
<1>1. CASE I!StartDispatch(k)
  <2>1. /\ dispatch' = [dispatch EXCEPT ![k] = "walking"] /\ "walking" \in TickSteps
        /\ dispatch[k] = "idle" /\ life = "running"
        /\ UNCHANGED <<chain, life, state, store, writing, storing, wall, sends>>
    BY <1>1 DEF I!StartDispatch, TickSteps
  <2> QED
    BY <2>1, DispatchGoesOn
<1>2. CASE I!Skip(k)
  <2>1. /\ dispatch' = [dispatch EXCEPT ![k] = "walking"] /\ "walking" \in TickSteps
        /\ dispatch[k] = "walking"
        /\ UNCHANGED <<chain, life, state, store, writing, storing, wall, sends>>
    BY <1>0, <1>2 DEF I!Skip, TickSteps
  <2> QED
    BY <2>1, DispatchGoesOn DEF Away
<1>3. CASE I!Send(k)
  <2>1. /\ dispatch' = [dispatch EXCEPT ![k] = "sending"] /\ "sending" \in TickSteps
        /\ dispatch[k] = "walking"
        /\ UNCHANGED <<chain, life, state, store, writing, storing, wall>>
    BY <1>3 DEF I!Send, TickSteps
  <2> QED
    BY <2>1, DispatchGoesOn DEF Away
<1>4. CASE I!NotDelivered(k)
  <2>1. /\ dispatch' = [dispatch EXCEPT ![k] = "walking"] /\ "walking" \in TickSteps
        /\ dispatch[k] = "sending"
        /\ UNCHANGED <<chain, life, state, store, writing, storing, wall, sends>>
    BY <1>4 DEF I!NotDelivered, TickSteps
  <2> QED
    BY <2>1, DispatchGoesOn DEF Away
<1>5. CASE I!Marked(k)
  <2>1. /\ dispatch' = [dispatch EXCEPT ![k] = "walking"] /\ "walking" \in TickSteps
        /\ dispatch[k] = "marking" /\ I!Saved(<<"tick", k>>)
        /\ UNCHANGED <<chain, life, state, store, writing, storing, wall, sends>>
    BY <1>5 DEF I!Marked, TickSteps
  <2> QED
    BY <2>1, DispatchGoesOn DEF Away
<1>6. CASE I!Dispatched(k)
  <2>1. /\ dispatch' = [dispatch EXCEPT ![k] = "idle"] /\ "idle" \in TickSteps
        /\ dispatch[k] = "saving" /\ I!Saved(<<"tick", k>>)
        /\ UNCHANGED <<chain, life, state, store, writing, storing, wall, sends>>
    BY <1>6 DEF I!Dispatched, TickSteps
  <2> QED
    BY <2>1, DispatchGoesOn
<1>7. ASSUME NEW step \in {"marking", "saving"}, dispatch' = [dispatch EXCEPT ![k] = step],
             dispatch[k] \in {"walking", "sending"},
             chain' = chain \/ chain' = Append(chain, <<"tick", k>>), life' = life
      PROVE  WritesOwned'
  <2>1. \A j \in Dispatches : dispatch'[j] = IF j = k THEN step ELSE dispatch[j]
    BY <1>0, <1>7
  <2>2. CASE chain' = chain
    BY <1>0, <1>7, <2>1, <2>2 DEF WritesOwned
  <2>3. CASE chain' = Append(chain, <<"tick", k>>)
    <3> DEFINE o == <<"tick", k>>
    <3>1. /\ Len(chain) \in Nat /\ Len(chain') = Len(chain) + 1
          /\ chain'[Len(chain) + 1] = o /\ \A n \in 1..Len(chain) : chain'[n] = chain[n]
          /\ \A n \in 1..Len(chain') : n \in 1..Len(chain) \/ n = Len(chain) + 1
      BY <1>0, <2>3, OneMore
    <3>2. ASSUME NEW n \in 1..Len(chain'), NEW j \in Dispatches, chain'[n] = <<"tick", j>>
          PROVE  dispatch'[j] \in {"marking", "saving"}
      <4>1. CASE n = Len(chain) + 1
        <5>1. j = k
          BY <3>1, <3>2, <4>1
        <5> QED
          BY <1>7, <2>1, <5>1
      <4>2. CASE n \in 1..Len(chain)
        <5>1. chain[n] = <<"tick", j>>
          BY <3>1, <3>2, <4>2
        <5>2. dispatch[j] \in {"marking", "saving"}
          BY <1>0, <4>2, <5>1 DEF WritesOwned
        <5> QED
          BY <1>7, <2>1, <5>2
      <4> QED
        BY <3>1, <4>1, <4>2
    <3>3. ASSUME life' = "stopping", NEW n \in 1..Len(chain'), NEW i \in Intents,
                 chain'[n] = <<"call", i>>
          PROVE  \E m \in 1..Len(chain') : n < m /\ chain'[m] = <<"stop", Nobody>>
      <4>1. n \in 1..Len(chain)
        BY <3>1, <3>3
      <4>2. chain[n] = <<"call", i>> /\ life = "stopping"
        BY <1>7, <3>1, <3>3, <4>1
      <4>3. PICK m \in 1..Len(chain) : n < m /\ chain[m] = <<"stop", Nobody>>
        BY <1>0, <4>1, <4>2 DEF WritesOwned
      <4>4. m \in 1..Len(chain') /\ chain'[m] = chain[m]
        BY <3>1
      <4> QED
        BY <4>3, <4>4
    <3> QED
      BY <3>2, <3>3 DEF WritesOwned
  <2> QED
    BY <1>7, <2>2, <2>3
<1>8. CASE I!Delivered(k)
  <2>1. /\ dispatch[k] = "sending" /\ dispatch' = [dispatch EXCEPT ![k] = "marking"]
        /\ life' = life /\ (chain' = chain \/ chain' = Append(chain, <<"tick", k>>))
    BY <1>8 DEF I!Delivered, I!Persist
  <2>2. WritesOwned'
    BY <1>7, <2>1
  <2>3. dispatch'[k] = "marking"
    BY <1>0, <2>1
  <2>4. BudgetSaved'
    BY <2>3 DEF BudgetSaved, Away
  <2> QED
    BY <2>2, <2>4
<1>9. CASE I!EndDispatch(k)
  <2>1. /\ dispatch[k] = "walking" /\ dispatch' = [dispatch EXCEPT ![k] = "saving"]
        /\ life' = life /\ chain' = Append(chain, <<"tick", k>>)
        /\ state' = [state EXCEPT !.budget = spent]
        /\ UNCHANGED <<wall, sends, writing>>
    BY <1>9 DEF I!EndDispatch, I!SaveBudget, I!Persist
  <2>2. WritesOwned'
    BY <1>7, <2>1
  <2>3. state'.budget = spent
    BY <1>0, <2>1 DEF Snapshot
  <2>4. life = "stopping" => AllRecalled(spent)
    BY DEF BudgetInv, BooksInv, SendsKnown
  <2>5. life = "stopping" => AllRecalled(state.budget)'
    BY <2>1, <2>3, <2>4 DEF AllRecalled
  <2>6. chain' # <<>> /\ (writing => Len(chain') # 1)
    <3>1. /\ Len(chain) \in Nat /\ Len(chain') = Len(chain) + 1 /\ chain' # <<>>
      BY <1>0, <2>1, OneMore
    <3>2. writing => chain # <<>>
      BY DEF BudgetInv, IntentsInv, IntentTypes
    <3>3. chain # <<>> => Len(chain) # 0
      BY <1>0
    <3> QED
      BY <3>1, <3>2, <3>3
  <2>7. BudgetSaved'
    BY <2>1, <2>5, <2>6 DEF BudgetSaved
  <2> QED
    BY <2>2, <2>7
<1> QED
  BY <1>1, <1>2, <1>3, <1>4, <1>5, <1>6, <1>8, <1>9, Zenon DEF I!TickStep

\* The chain of writes when the first is done.
LEMMA OneLess ==
    ASSUME chain \in Seq(I!Owners), chain # <<>>, chain' = Tail(chain)
    PROVE  /\ Len(chain) \in Nat \ {0} /\ Len(chain') = Len(chain) - 1
           /\ \A n \in 1..Len(chain') : n + 1 \in 1..Len(chain) /\ chain'[n] = chain[n + 1]
           /\ \A m \in 1..Len(chain) : m = 1 \/ m - 1 \in 1..Len(chain')
BY Z3

\* Steps of the file.
LEMMA WriteSaves ==
    ASSUME BudgetInv, timing # "early", I!Write
    PROVE  WritesOwned' /\ BudgetSaved'
<1> USE DEF I!storeVars, I!callVars, I!tickVars, I!lifeVars, I!histVars
<1>0. /\ WritesOwned /\ BudgetSaved /\ chain \in Seq(I!Owners) /\ (writing => chain # <<>>)
  BY DEF BudgetInv, IntentsInv, IntentTypes
<1>1. CASE I!StartWrite
  <2>1. /\ storing' = state
        /\ UNCHANGED <<chain, life, state, store, dispatch, sends, wall>>
    BY <1>1 DEF I!StartWrite
  <2>2. WritesOwned'
    BY <1>0, <2>1 DEF WritesOwned
  <2>3. BudgetSaved'
    BY <1>0, <2>1 DEF BudgetSaved, Away, AllRecalled
  <2> QED
    BY <2>2, <2>3
<1>2. CASE I!FinishWrite
  <2>1. /\ writing /\ ~writing' /\ store' = storing /\ chain' = Tail(chain)
        /\ UNCHANGED <<life, state, dispatch, sends, wall>>
    BY <1>2 DEF I!FinishWrite
  <2>2. /\ Len(chain) \in Nat \ {0} /\ Len(chain') = Len(chain) - 1
        /\ \A n \in 1..Len(chain') : n + 1 \in 1..Len(chain) /\ chain'[n] = chain[n + 1]
        /\ \A m \in 1..Len(chain) : m = 1 \/ m - 1 \in 1..Len(chain')
    BY <1>0, <2>1, OneLess
  <2>3. ASSUME life' = "stopping", NEW n \in 1..Len(chain'), NEW i \in Intents,
               chain'[n] = <<"call", i>>
        PROVE  \E m \in 1..Len(chain') : n < m /\ chain'[m] = <<"stop", Nobody>>
    <3>1. n + 1 \in 1..Len(chain) /\ chain[n + 1] = <<"call", i>>
      BY <2>2, <2>3
    <3>2. PICK m \in 1..Len(chain) : n + 1 < m /\ chain[m] = <<"stop", Nobody>>
      BY <1>0, <2>1, <2>3, <3>1 DEF WritesOwned
    <3>3. m # 1 /\ n < m - 1 /\ (m - 1) + 1 = m
      BY <3>2
    <3>4. m - 1 \in 1..Len(chain')
      BY <2>2, <3>3
    <3>5. chain'[m - 1] = chain[m]
      BY <2>2, <3>3, <3>4
    <3> QED
      BY <3>2, <3>3, <3>4, <3>5
  <2>4. \A n \in 1..Len(chain') : \A k \in Dispatches :
            chain'[n] = <<"tick", k>> => dispatch'[k] \in {"marking", "saving"}
    BY <1>0, <2>1, <2>2 DEF WritesOwned
  <2>5. WritesOwned'
    BY <2>3, <2>4 DEF WritesOwned
  <2>6. chain' = <<>> => Len(chain) = 1
    BY <2>2
  <2>7. BudgetSaved'
    BY <1>0, <2>1, <2>6 DEF BudgetSaved, Away, AllRecalled
  <2> QED
    BY <2>5, <2>7
<1> QED
  BY <1>1, <1>2 DEF I!Write

\* Steps of a call.
LEMMA CallSaves ==
    ASSUME BudgetInv, timing # "early", NEW i \in Intents,
           I!QueueIntent(i) \/ I!QueueAndRead(i) \/ I!CallStep(i)
    PROVE  WritesOwned' /\ BudgetSaved'
<1> USE DEF I!storeVars, I!callVars, I!tickVars, I!lifeVars, I!histVars
<1>0. /\ WritesOwned /\ BudgetSaved /\ chain \in Seq(I!Owners)
  BY DEF BudgetInv, IntentsInv, IntentTypes
<1>1. CASE I!QueueIntent(i)
  <2>1. /\ chain' = Append(chain, <<"call", i>>) /\ UNCHANGED <<life, dispatch>>
        /\ life \in {"starting", "running"} /\ loaded
    BY <1>1 DEF I!QueueIntent, I!Persist
  <2>2. life' = "running"
    BY <2>1 DEF BudgetInv, IntentsInv, LoadInv
  <2> DEFINE o == <<"call", i>>
  <2>3. /\ Len(chain) \in Nat /\ Len(chain') = Len(chain) + 1
        /\ chain'[Len(chain) + 1] = o /\ \A n \in 1..Len(chain) : chain'[n] = chain[n]
        /\ \A n \in 1..Len(chain') : n \in 1..Len(chain) \/ n = Len(chain) + 1
    BY <1>0, <2>1, OneMore
  <2>4. ASSUME NEW n \in 1..Len(chain'), NEW k \in Dispatches, chain'[n] = <<"tick", k>>
        PROVE  dispatch'[k] \in {"marking", "saving"}
    <3>1. n \in 1..Len(chain)
      BY <2>3, <2>4
    <3> QED
      BY <1>0, <2>1, <2>3, <2>4, <3>1 DEF WritesOwned
  <2> QED
    BY <2>2, <2>4 DEF WritesOwned, BudgetSaved
<1>2. CASE I!QueueAndRead(i)
  BY <1>2 DEF I!QueueAndRead
<1>3. CASE I!QueueLoaded(i)
  BY <1>3 DEF I!QueueLoaded, BudgetInv, IntentsInv, LoadInv
<1>4. CASE I!Acknowledge(i)
  <2>1. UNCHANGED <<chain, life, state, store, writing, storing, dispatch, sends, wall>>
    BY <1>4 DEF I!Acknowledge
  <2> QED
    BY <1>0, <2>1 DEF WritesOwned, BudgetSaved, Away, AllRecalled
<1> QED
  BY <1>1, <1>2, <1>3, <1>4 DEF I!CallStep

\* Start, stop and death.
LEMMA LifeSaves ==
    ASSUME BudgetInv, timing # "early",
           I!Hydrate \/ I!Stop \/ I!Exit \/ I!Crash \/ I!Restart
    PROVE  WritesOwned' /\ BudgetSaved'
<1> USE DEF I!storeVars, I!callVars, I!tickVars, I!lifeVars, I!histVars
<1>0. /\ WritesOwned /\ BudgetSaved /\ chain \in Seq(I!Owners) /\ (writing => chain # <<>>)
      /\ Snapshot(state)
  BY DEF BudgetInv, IntentsInv, IntentTypes
<1>1. CASE I!Hydrate \/ I!Restart
  <2>1. UNCHANGED <<chain, dispatch>> /\ life' # "stopping"
    BY <1>1 DEF I!Hydrate, I!Restart
  <2> QED
    BY <1>0, <2>1 DEF WritesOwned, BudgetSaved
<1>2. CASE I!Exit \/ I!Crash
  <2>1. chain' = <<>> /\ life' = "down"
    BY <1>2 DEF I!Exit, I!Crash, I!Die
  <2> QED
    BY <2>1 DEF WritesOwned, BudgetSaved
<1>3. CASE I!Stop
  <2>1. /\ life = "running" /\ chain' = Append(chain, <<"stop", Nobody>>)
        /\ state' = [state EXCEPT !.budget = spent]
        /\ UNCHANGED <<writing, dispatch, sends, wall>>
    BY <1>3 DEF I!Stop, I!SaveBudget, I!Persist
  <2> DEFINE o == <<"stop", Nobody>>
  <2>2. /\ Len(chain) \in Nat /\ Len(chain') = Len(chain) + 1 /\ chain' # <<>>
        /\ chain'[Len(chain) + 1] = o /\ \A n \in 1..Len(chain) : chain'[n] = chain[n]
        /\ \A n \in 1..Len(chain') : n \in 1..Len(chain) \/ n = Len(chain) + 1
    BY <1>0, <2>1, OneMore
  <2>3. ASSUME NEW n \in 1..Len(chain'), NEW k \in Dispatches, chain'[n] = <<"tick", k>>
        PROVE  dispatch'[k] \in {"marking", "saving"}
    <3>1. n \in 1..Len(chain)
      BY <2>2, <2>3
    <3> QED
      BY <1>0, <2>1, <2>2, <2>3, <3>1 DEF WritesOwned
  <2>4. ASSUME NEW n \in 1..Len(chain'), NEW i \in Intents, chain'[n] = <<"call", i>>
        PROVE  \E m \in 1..Len(chain') : n < m /\ chain'[m] = <<"stop", Nobody>>
    <3>1. n \in 1..Len(chain)
      BY <2>2, <2>4
    <3>2. Len(chain) + 1 \in 1..Len(chain') /\ n < Len(chain) + 1
      BY <2>2, <3>1
    <3> QED
      BY <2>2, <3>2
  <2>5. WritesOwned'
    BY <2>3, <2>4 DEF WritesOwned
  <2>6. state'.budget = spent
    BY <1>0, <2>1 DEF Snapshot
  <2>7. AllRecalled(spent)
    BY <2>1 DEF BudgetInv, BooksInv, SendsKnown
  <2>8. AllRecalled(state.budget)'
    BY <2>1, <2>6, <2>7 DEF AllRecalled
  <2>9. writing => Len(chain') # 1
    <3>1. chain # <<>> => Len(chain) # 0
      BY <1>0
    <3> QED
      BY <1>0, <2>2, <3>1
  <2>10. BudgetSaved'
    BY <2>1, <2>2, <2>8, <2>9 DEF BudgetSaved
  <2> QED
    BY <2>5, <2>10
<1> QED
  BY <1>1, <1>2, <1>3

\* Time, and a step of the other components.
LEMMA PassSaves ==
    ASSUME BudgetInv, timing # "early", I!Pass \/ UNCHANGED I!vars
    PROVE  WritesOwned' /\ BudgetSaved'
<1> USE DEF I!storeVars, I!callVars, I!tickVars, I!lifeVars, I!histVars
<1>0. WritesOwned /\ BudgetSaved /\ wall \in Nat /\ Books(sends, wall)
  BY DEF BudgetInv, BooksInv
<1>1. /\ UNCHANGED <<chain, life, state, store, writing, storing, dispatch, sends>>
      /\ wall' = wall \/ wall' = wall + 1
  BY DEF I!Pass, I!vars
<1>2. ASSUME NEW c \in Channels, NEW q, Recalls(q, sends[c], DaySpan, wall)
      PROVE  Recalls(q, sends[c], DaySpan, wall')
  <2>1. sends[c] \in Seq(Nat)
    BY <1>0 DEF Books
  <2> QED
    BY <1>0, <1>1, <1>2, <2>1, Limits, RecallsLater
<1>3. \A b : AllRecalled(b) => \A c \in Channels : Recalls(b[c], sends'[c], DaySpan, wall')
  BY <1>1, <1>2 DEF AllRecalled
<1>4. WritesOwned'
  BY <1>0, <1>1 DEF WritesOwned
<1>5. BudgetSaved'
  BY <1>0, <1>1, <1>3 DEF BudgetSaved, Away, AllRecalled
<1> QED
  BY <1>4, <1>5

\* Every step keeps the invariant.
LEMMA BudgetNext == BudgetInv /\ [I!Next]_I!vars => BudgetInv'
<1> SUFFICES ASSUME BudgetInv, [I!Next]_I!vars PROVE BudgetInv'
  OBVIOUS
<1>1. IntentsInv'
  BY IntentsNext DEF BudgetInv
<1>2. timing' = timing
  BY TimingFixed
<1>3. CASE I!Pass \/ UNCHANGED I!vars
  <2>1. BooksInv'
    BY <1>3, PassBooks, StillBooks DEF StillSteps
  <2> QED
    BY <1>1, <1>2, <1>3, <2>1, PassSaves DEF BudgetInv
<1>4. CASE I!Write
  <2>1. BooksInv'
    BY <1>4, StillBooks DEF StillSteps
  <2> QED
    BY <1>1, <1>2, <1>4, <2>1, WriteSaves DEF BudgetInv
<1>5. ASSUME NEW i \in Intents, I!QueueIntent(i) \/ I!QueueAndRead(i) \/ I!CallStep(i)
      PROVE  BudgetInv'
  <2>1. BooksInv'
    BY <1>5, StillBooks DEF StillSteps
  <2> QED
    BY <1>1, <1>2, <1>5, <2>1, CallSaves DEF BudgetInv
<1>6. ASSUME NEW k \in Dispatches, I!StartDispatch(k) \/ I!TickStep(k) PROVE BudgetInv'
  <2>1. CASE I!Skip(k) \/ I!Send(k)
    <3>1. BooksInv'
      BY <2>1, DispatchBooks
    <3> QED
      BY <1>1, <1>2, <1>6, <3>1, DispatchSaves DEF BudgetInv
  <2>2. CASE ~(I!Skip(k) \/ I!Send(k))
    <3>1. \/ I!StartDispatch(k) \/ I!NotDelivered(k) \/ I!Delivered(k)
          \/ I!Marked(k) \/ I!EndDispatch(k) \/ I!Dispatched(k)
      BY <1>6, <2>2, Zenon DEF I!TickStep
    <3>2. StillSteps
      BY <3>1, Zenon DEF StillSteps
    <3>3. BooksInv'
      BY <3>2, StillBooks
    <3> QED
      BY <1>1, <1>2, <1>6, <3>3, DispatchSaves DEF BudgetInv
  <2> QED
    BY <2>1, <2>2
<1>7. CASE I!Hydrate \/ I!Stop \/ I!Exit \/ I!Crash \/ I!Restart
  <2>1. BooksInv'
    BY <1>7, LifeBooks
  <2> QED
    BY <1>1, <1>2, <1>7, <2>1, LifeSaves DEF BudgetInv
<1> QED
  BY <1>3, <1>4, <1>5, <1>6, <1>7, Zenon DEF I!Next

\* It holds at the start.
LEMMA BudgetInit == I!Init => BudgetInv
<1> SUFFICES ASSUME I!Init PROVE BudgetInv
  OBVIOUS
<1>1. IntentsInv
  BY IntentsInit
<1>2. /\ state = I!Empty /\ store = I!Empty /\ storing = I!Empty /\ seen = I!Empty
      /\ chain = <<>> /\ life = "starting" /\ wall = 0
      /\ spent = [c \in Channels |-> <<>>] /\ sends = [c \in Channels |-> <<>>]
      /\ read = [i \in Intents |-> I!Empty]
  BY DEF I!Init
<1>3. <<>> \in Seq(Nat) /\ Len(<<>>) = 0 /\ \A t : Past(<<>>, t)
  <2>1. <<>> \in Seq(Nat) /\ Len(<<>>) = 0
    OBVIOUS
  <2> QED
    BY <2>1 DEF Past
<1> DEFINE none == [c \in Channels |-> <<>>]
<1>4. Books(none, wall)
  BY <1>3 DEF Books
<1>5. I!Empty.budget = none
  BY DEF I!Empty
<1>6. \A b \in Budgets : b = none
  BY <1>2, <1>5 DEF Budgets
<1>7. Books(sends, wall) /\ \A b \in Budgets : Books(b, wall)
  BY <1>2, <1>4, <1>6
<1>8. \A c \in Channels : sends[c] = <<>>
  BY <1>2
<1>9. WithinLimits
  BY <1>8 DEF WithinLimits, Apart
<1>10. \A c \in Channels : \A q : Recalls(q, sends[c], DaySpan, wall)
  BY <1>8 DEF Recalls
<1>11. SendsKnown
  BY <1>2, <1>8, <1>10 DEF SendsKnown, RecalledAtStart
<1>12. WritesOwned /\ BudgetSaved
  BY <1>2 DEF WritesOwned, BudgetSaved
<1>13. wall \in Nat
  BY <1>2
<1> QED
  BY <1>1, <1>7, <1>9, <1>11, <1>12, <1>13 DEF BudgetInv, BooksInv

\* Times of which no stretch as long as the span has more than the limit: so many, at most,
\* are not older than the span when the n-th comes.
LEMMA FewAreYoung ==
    ASSUME NEW p \in Seq(Nat), NEW limit \in Nat, NEW span \in Nat, Apart(p, limit, span),
           NEW n \in 1..Len(p)
    PROVE  Cardinality({m \in 1..n : p[m] >= p[n] - span}) <= limit
<1> DEFINE S == {m \in 1..n : p[m] >= p[n] - span}
           low == IF n > limit THEN n - limit + 1 ELSE 1
<1>1. n \in Nat \ {0} /\ low \in Nat /\ low \in 1..(n + 1) /\ n - low + 1 <= limit
  OBVIOUS
<1>2. \A m \in 1..n : m \in 1..Len(p) /\ p[m] \in Nat
  OBVIOUS
<1>3. ASSUME NEW m \in S PROVE m \in low..n
  <2>1. m \in 1..n /\ p[m] >= p[n] - span /\ m \in 1..Len(p)
    BY <1>2
  <2>2. ~(n >= m + limit)
    <3>1. p[m] \in Nat /\ p[n] \in Nat
      BY <2>1
    <3>2. ~(p[n] > p[m] + span)
      BY <2>1, <3>1
    <3> QED
      BY <2>1, <3>2 DEF Apart
  <2> QED
    BY <1>1, <2>1, <2>2
<1> HIDE DEF S, low
<1>4. IsFiniteSet(low..n) /\ Cardinality(low..n) = IF low > n THEN 0 ELSE n - low + 1
  <2>1. low \in Int /\ n \in Int
    BY <1>1
  <2> QED
    BY <2>1, FS_Interval
<1>5. S \subseteq low..n
  BY <1>3
<1>6. Cardinality(S) <= Cardinality(low..n) /\ Cardinality(S) \in Nat
  BY <1>4, <1>5, FS_Subset, FS_CardinalityType
<1>7. Cardinality(low..n) <= limit
  BY <1>1, <1>4
<1> QED
  BY <1>1, <1>6, <1>7, <1>4 DEF S

\* Whatever the interleaving of calls, dispatches, writes, stops and deaths of the process: no
\* channel gets more than its hourly and its daily share of sends, and none in quiet hours, in
\* one life of the process and, but for the heartbeat's channel, across shutdowns that no
\* dispatch outlasts, unless calls came while start() still read the file (scheduler.ts
\* AutonomyBudget; orchestrator.ts dispatchProactiveIntents, start, stop; autonomy-state.ts
\* upsertBudget).
THEOREM ShareIsKept == I!Spec => []WithinBudget
<1>1. BudgetInv => WithinBudget
  <2> SUFFICES ASSUME BudgetInv, NEW c \in Channels, NEW n \in DOMAIN sends[c]
               PROVE  /\ sends[c][n] \notin QuietTimes
                      /\ Cardinality({m \in 1..n : sends[c][m] >= sends[c][n] - HourSpan})
                            <= MaxPerHour
                      /\ Cardinality({m \in 1..n : sends[c][m] >= sends[c][n] - DaySpan})
                            <= MaxPerDay
    <3>1. \A S : I!Cardinality(S) = Cardinality(S)
      BY DEF I!Cardinality, Cardinality
    <3> QED
      BY <3>1 DEF WithinBudget, I!WithinBudget
  <2>1. sends[c] \in Seq(Nat)
    BY DEF BudgetInv, BooksInv, Books
  <2>2. n \in 1..Len(sends[c])
    BY <2>1
  <2>3. /\ Apart(sends[c], MaxPerHour, HourSpan) /\ Apart(sends[c], MaxPerDay, DaySpan)
        /\ sends[c][n] \notin QuietTimes
    BY <2>2 DEF BudgetInv, BooksInv, WithinLimits
  <2> QED
    BY <2>1, <2>2, <2>3, Limits, FewAreYoung
<1> QED
  BY BudgetInit, BudgetNext, <1>1, PTL DEF I!Spec
=============================================================================
