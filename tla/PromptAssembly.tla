---------------------------- MODULE PromptAssembly ----------------------------
(***************************************************************************)
(* From a turn's request to the messages its model is sent:                *)
(* buildPromptMessages, the plugin pipeline, the budget of the system      *)
(* messages, and in startTurn the trimming to maxContextTokens, the suffix *)
(* against thinking and the rounds in which a model gets its tools'        *)
(* results.                                                                *)
(*                                                                         *)
(* A message is its role, what it is about and its size in characters.     *)
(* Turns of different sessions interleave at the awaits.  Scrubbing, which *)
(* changes no size here, and the options the program does not set (recent  *)
(* topics) are left out.                                                   *)
(***************************************************************************)
EXTENDS Integers, Sequences, FiniteSets, SequencesExt, FiniteSetsExt, Filters

CONSTANTS Turns, SessionOf,
          Requests,      \* what a turn can be like (records, see the operators)
          Size,          \* characters of each part of the system prompt, 0 if it is absent
          UserSize,      \* of a message of the conversation
          PerMessageMax, \* session.maxMessageChars
          MaxRetained,   \* 8 in the code
          AnyInterrupted,   \* the run store has interrupted runs
          Replies,       \* a model's text and its tools' results, by size (records)
          MaxAdded       \* bound: messages that may be added before another round

VARIABLES step,       \* per turn: where it waits
          request,    \* per turn
          system,     \* per turn: the system messages so far
          prompt,     \* per turn: promptMessages, once they are trimmed
          added,      \* per turn: the messages of its follow-up rounds
          artifacts,  \* per turn: what the plugins have collected
          diagnosed,  \* per turn: failures of plugins
          noticed,    \* interruptedNoticeShown
          withTurn,   \* sessionsWithTurn
          notices     \* history: turns that got the notice

Roles == {"system", "user", "assistant", "tool"}

PartNames ==
    {"instead", "label", "summary", "continuity", "agents", "tools", "identity", "soul", "chat",
     "user", "memory", "experience", "interrupted", "birth", "roadmap", "freshness",
     "hypotheses", "journal", "plugins"}

Message ==
    [role : Roles, what : PartNames \cup {"message", "reply", "result"}, no : Nat, size : Nat]

promptVars ==
    <<step, request, system, prompt, added, artifacts, diagnosed, noticed, withTurn, notices>>

Init ==
    /\ step = [t \in Turns |-> "new"]
    /\ request \in [Turns -> Requests]
    /\ system = [t \in Turns |-> <<>>] /\ prompt = [t \in Turns |-> <<>>]
    /\ added = [t \in Turns |-> <<>>]
    /\ artifacts = [t \in Turns |-> {}]
    /\ diagnosed = [t \in Turns |-> 0]
    /\ noticed = FALSE /\ withTurn = {} /\ notices = {}

-----------------------------------------------------------------------------
\* Which context the model gets.

Ollama(r) == r.provider = "ollama"

MinimalSystem(r) ==
    /\ Ollama(r) /\ r.tools
    /\ CASE r.mode = "full" -> FALSE
         [] r.mode = "minimal" -> TRUE
         [] r.mode = "auto" -> r.asksForTools
         [] OTHER -> r.minimalSystem

MinimalContext(r) ==
    /\ r.messages > 0
    /\ IF Ollama(r) /\ r.mode \in {"full", "minimal", "auto"}
       THEN MinimalSystem(r)
       ELSE r.tools /\ r.toolTurnMinimal /\ r.provider \notin {"lm-studio", "openai-compatible"}

Least(a, b) == IF a < b THEN a ELSE b

\* applyUserMessageFreshness, then only the last one in minimal context; the
\* minimal system prompt puts a sentence in front of it.
UserMessages(r) ==
    LET n == IF MinimalContext(r) THEN 1 ELSE Least(MaxRetained, r.messages)
        first == r.messages - n
    IN  [i \in 1..n |->
           [role |-> IF (r.messages - first - i) % 2 = 0 THEN "user" ELSE "assistant",
            what |-> "message", no |-> first + i,
            size |-> UserSize + IF i = n /\ MinimalSystem(r) THEN Size.instead ELSE 0]]

Part(what) == [role |-> "system", what |-> what, no |-> 0, size |-> Size[what]]

\* Empty parts are not pushed.
Parts(names) ==
    LET present == SelectIn(names, {what \in PartNames : Size[what] > 0})
    IN  [i \in 1..Len(present) |-> Part(present[i])]

\* Up to the first await.
Opening(r) ==
    Parts(IF MinimalSystem(r) THEN <<"continuity", "agents", "identity", "soul">>
          ELSE <<"agents">> \o (IF r.tools THEN <<"tools">> ELSE <<>>)
               \o <<"identity", "soul">> \o (IF r.web THEN <<"chat", "user">> ELSE <<>>))

\* From the notice to the journal; BIRTH is for a session's first turn.
Middle(r, first) ==
    Parts((IF first THEN <<"birth">> ELSE <<>>)
          \o <<"roadmap">>
          \o (IF r.messages > MaxRetained THEN <<"freshness">> ELSE <<>>)
          \o (IF r.escalated THEN <<"hypotheses">> ELSE <<>>))

-----------------------------------------------------------------------------
\* Budget and trimming.

\* applySystemPromptBudget: in order, until nothing is left.
TotalBudget == PerMessageMax + PerMessageMax \div 2

Take(acc, m) ==
    LET n == Least(m.size, Least(PerMessageMax, acc.left)) IN
    IF n = 0 THEN acc
    ELSE [out |-> Append(acc.out, [m EXCEPT !.size = n]), left |-> acc.left - n]

Bounded(messages) ==
    LET upTo[i \in 0..Len(messages)] ==
            IF i = 0 THEN [out |-> <<>>, left |-> TotalBudget]
            ELSE Take(upTo[i - 1], messages[i])
    IN  upTo[Len(messages)].out

\* estimateTokens: four characters each, rounded up.
Tokens(m) == (m.size + 3) \div 4
Total(messages) == Weight(messages, [m \in Message |-> Tokens(m)])

From(messages, i) == SubSeq(messages, i, Len(messages))

\* Mutant: the last message goes, too, when it is too large.
MutOldestFirst(messages, cap) ==
    From(messages, Min({i \in 1..Len(messages) : Total(From(messages, i)) <= cap}
                       \cup {Len(messages) + 1}))

OldestFirst(messages, cap) ==
    From(messages, Min({i \in 1..Len(messages) : Total(From(messages, i)) <= cap}
                       \cup {Len(messages)}))

\* The place of a role in the order in which roles are dropped; others go last.
DropRank(role, priority) ==
    Min({i \in 1..Len(priority) : priority[i] = role} \cup {Len(priority) + 1})

\* Rank by rank from the role that is dropped last, and newest first.
KeptBefore(messages, priority, i, j) ==
    LET Rank(k) == DropRank(messages[k].role, priority)
    IN  Rank(i) > Rank(j) \/ (Rank(i) = Rank(j) /\ i > j)

NextEntry(messages, priority, left) ==
    CHOOSE i \in left : \A j \in left \ {i} : KeptBefore(messages, priority, i, j)

\* Mutant: the first that does not fit is the end of it.
MutKeep(messages, cap, acc, i) ==
    IF acc.total + Tokens(messages[i]) <= cap
    THEN [left |-> acc.left \ {i}, kept |-> acc.kept \cup {i},
          total |-> acc.total + Tokens(messages[i])]
    ELSE [acc EXCEPT !.left = @ \ {i}, !.total = cap]

\* What does not fit is passed over.
Keep(messages, cap, acc, i) ==
    IF acc.total + Tokens(messages[i]) <= cap
    THEN [left |-> acc.left \ {i}, kept |-> acc.kept \cup {i},
          total |-> acc.total + Tokens(messages[i])]
    ELSE [acc EXCEPT !.left = @ \ {i}]

Kept(messages, cap, priority) ==
    LET last == Len(messages)
        upTo[k \in 0..(last - 1)] ==
            IF k = 0
            THEN [left |-> 1..(last - 1), kept |-> {last}, total |-> Tokens(messages[last])]
            ELSE LET acc == upTo[k - 1]
                 IN  Keep(messages, cap, acc, NextEntry(messages, priority, acc.left))
    IN  upTo[last - 1].kept

\* The last message is kept, whatever its size.
WithPriority(messages, cap, priority) ==
    LET kept == SelectIn([i \in 1..Len(messages) |-> i], Kept(messages, cap, priority))
    IN  [i \in 1..Len(kept) |-> messages[kept[i]]]

Trimmed(messages, r) ==
    IF r.cap = 0 \/ Total(messages) <= r.cap THEN messages
    ELSE IF r.priority = <<>> THEN OldestFirst(messages, r.cap)
    ELSE WithPriority(messages, r.cap, r.priority)

\* summarizePrefix: all but the last message in one, cut to its own limit.
Summarized(messages, r) ==
    LET prefix == SubSeq(messages, 1, Len(messages) - 1)
        text == Weight(prefix, [m \in Message |-> m.size + Size.label])
    IN  <<[role |-> "system", what |-> "summary", no |-> 0,
           size |-> Size.summary + Least(text, 4 * r.summaryTokens)],
          Last(messages)>>

Summarizes(messages, r) ==
    r.summarize /\ r.cap # 0 /\ Total(messages) > r.cap /\ Len(messages) > 1

Fitted(messages, r) ==
    Trimmed(IF Summarizes(messages, r) THEN Summarized(messages, r) ELSE messages, r)

-----------------------------------------------------------------------------
Goes(t, where) == step' = [step EXCEPT ![t] = where]
Push(t, messages) == system' = [system EXCEPT ![t] = @ \o messages]

\* The queue runs one turn of a session at a time.
Begin(t) ==
    /\ step[t] = "new"
    /\ \A u \in Turns \ {t} : SessionOf[u] = SessionOf[t] => step[u] \in {"new", "done"}
    /\ Push(t, Opening(request[t]))
    /\ Goes(t, IF MinimalSystem(request[t]) THEN "collect"
               ELSE IF request[t].web THEN "memory" ELSE "birth")
    /\ UNCHANGED <<request, prompt, added, artifacts, diagnosed, noticed, withTurn, notices>>

\* Session memory and past experiences are for the user's own chat only.
LoadMemory(t) ==
    /\ step[t] = "memory"
    /\ Push(t, Parts(<<"memory">>))
    /\ Goes(t, "experience")
    /\ UNCHANGED <<request, prompt, added, artifacts, diagnosed, noticed, withTurn, notices>>

LoadExperience(t) ==
    /\ step[t] = "experience"
    /\ Push(t, Parts(<<"experience">>))
    /\ Goes(t, "notice")
    /\ UNCHANGED <<request, prompt, added, artifacts, diagnosed, noticed, withTurn, notices>>

\* getInterruptedRunNotice looks at its flag and asks the run store,
AskForRuns(t) ==
    /\ step[t] = "notice"
    /\ Goes(t, IF noticed THEN "birth" ELSE "runs")
    /\ UNCHANGED <<request, system, prompt, added, artifacts, diagnosed, noticed, withTurn, notices>>

\* and sets the flag when it has the answer.
HearOfRuns(t) ==
    /\ step[t] = "runs"
    /\ noticed' = (noticed \/ AnyInterrupted)
    /\ IF AnyInterrupted
       THEN Push(t, Parts(<<"interrupted">>)) /\ notices' = notices \cup {t}
       ELSE UNCHANGED <<system, notices>>
    /\ Goes(t, "birth")
    /\ UNCHANGED <<request, prompt, added, artifacts, diagnosed, withTurn>>

\* From there to the journal without an await.
PushMiddle(t) ==
    /\ step[t] = "birth"
    /\ Push(t, Middle(request[t], SessionOf[t] \notin withTurn))
    /\ withTurn' = withTurn \cup {SessionOf[t]}
    /\ Goes(t, "journal")
    /\ UNCHANGED <<request, prompt, added, artifacts, diagnosed, noticed, notices>>

ReadJournal(t) ==
    /\ step[t] = "journal"
    /\ Push(t, Parts(<<"journal">>))
    /\ Goes(t, "collect")
    /\ UNCHANGED <<request, prompt, added, artifacts, diagnosed, noticed, withTurn, notices>>

\* PluginHost.run: a plugin that fails, or is late, leaves a diagnosis.
Collect(t, found) ==
    /\ step[t] = "collect"
    /\ artifacts' = [artifacts EXCEPT ![t] = found]
    /\ diagnosed' = [diagnosed EXCEPT ![t] = 2 - Cardinality(found)]
    /\ Goes(t, "analyze")
    /\ UNCHANGED <<request, system, prompt, added, noticed, withTurn, notices>>

\* The analyzer; the synthesizer makes one message of what there is.
Analyze(t, ok) ==
    /\ step[t] = "analyze"
    /\ IF ok THEN UNCHANGED diagnosed ELSE diagnosed' = [diagnosed EXCEPT ![t] = @ + 1]
    /\ IF ok /\ artifacts[t] # {} /\ ~MinimalSystem(request[t])
       THEN Push(t, Parts(<<"plugins">>))
       ELSE UNCHANGED system
    /\ Goes(t, "built")
    /\ UNCHANGED <<request, prompt, added, artifacts, noticed, withTurn, notices>>

-----------------------------------------------------------------------------
\* The model is asked, and while it wants tools, again with their results.

\* applyNoThinkToMessages: the last of the user's messages gets a suffix, " /no_think".
SuffixSize == 10

WithSuffix(messages) ==
    [i \in 1..Len(messages) |->
        IF /\ messages[i].role = "user"
           /\ \A j \in (i + 1)..Len(messages) : messages[j].role # "user"
        THEN [messages[i] EXCEPT !.size = @ + SuffixSize]
        ELSE messages[i]]

\* messagesToSend.
ToSend(t) ==
    IF request[t].noThink THEN WithSuffix(prompt[t] \o added[t]) ELSE prompt[t] \o added[t]

Send(t) ==
    /\ step[t] = "built"
    /\ prompt' = [prompt EXCEPT ![t] =
           Fitted(Bounded(system[t]) \o UserMessages(request[t]), request[t])]
    /\ Goes(t, "sent")
    /\ UNCHANGED <<request, system, added, artifacts, diagnosed, noticed, withTurn, notices>>

\* What the model said, unless the provider's API would mix that up with its calls,
\* and the result of each call.
Round(r, reply) ==
    <<[role |-> "assistant", what |-> "reply", no |-> 0,
       size |-> IF Ollama(r) THEN reply.text ELSE 0]>>
    \o [i \in 1..Len(reply.results) |->
           [role |-> "tool", what |-> "result", no |-> i, size |-> reply.results[i]]]

FollowUp(t, reply) ==
    /\ step[t] = "sent" /\ Len(added[t]) <= MaxAdded
    /\ request[t].provider \in {"ollama", "openai-compatible", "lm-studio"}
    /\ added' = [added EXCEPT ![t] = @ \o Round(request[t], reply)]
    /\ UNCHANGED <<step, request, system, prompt, artifacts, diagnosed, noticed, withTurn,
                   notices>>

\* An answer without calls, calls whose results this provider does not take, or a failure.
Finish(t) ==
    /\ step[t] = "sent"
    /\ Goes(t, "done")
    /\ UNCHANGED <<request, system, prompt, added, artifacts, diagnosed, noticed, withTurn,
                   notices>>

Next ==
    \E t \in Turns :
        \/ Begin(t) \/ LoadMemory(t) \/ LoadExperience(t) \/ AskForRuns(t) \/ HearOfRuns(t)
        \/ PushMiddle(t) \/ ReadJournal(t) \/ Send(t) \/ Finish(t)
        \/ \E found \in SUBSET {"memory", "observations"} : Collect(t, found)
        \/ \E ok \in BOOLEAN : Analyze(t, ok)
        \/ \E reply \in Replies : FollowUp(t, reply)

Spec == Init /\ [][Next]_promptVars

-----------------------------------------------------------------------------
\* What a model is sent goes over its limit by three things only: the user's last message
\* if that is all that is left, the suffix against thinking (three tokens), and what
\* follow-up rounds add.  Whatever is cut, the last message of the trimmed prompt, with the
\* suffix or without, is the user's last, whole, in every round.
PromptFits ==
    \A t \in Turns : step[t] \in {"sent", "done"} =>
        LET r    == request[t]
            last == Len(prompt[t])
            user == Last(UserMessages(r))
        IN  /\ r.messages # 0 =>
                   /\ last # 0
                   /\ ToSend(t)[last] =
                         IF r.noThink THEN [user EXCEPT !.size = @ + SuffixSize] ELSE user
            /\ r.cap # 0 =>
                   \/ Total(ToSend(t)) <=
                         r.cap + Total(added[t]) + (IF r.noThink THEN 3 ELSE 0)
                   \/ last = 1

\* docs/configuration-reference.md:368, of maxContextTokens: "the runtime trims the prompt so
\* the estimated token count does not exceed this value [...] The last message is always kept."
SentFitsTheContext ==
    \A t \in Turns : step[t] = "sent" /\ request[t].cap # 0 =>
        Total(ToSend(t)) <= request[t].cap \/ Len(ToSend(t)) = 1

\* Of the rest nothing is dropped without need: the newest that was dropped would
\* not fit, and none of them would where roles have a priority.
NothingIsDroppedInVain ==
    \A t \in Turns : step[t] \in {"sent", "done"} =>
        LET r == request[t]
            all == Bounded(system[t]) \o UserMessages(r)
            dropped == {i \in 1..Len(all) : all[i] \notin ToSet(prompt[t])}
        IN  r.cap # 0 /\ ~Summarizes(all, r) =>
              \A i \in dropped : (r.priority # <<>> \/ i = Max(dropped)) =>
                Total(prompt[t]) + Tokens(all[i]) > r.cap

\* The notice of an interrupted run is in one prompt of a process
\* (docs/continuity.md:29, "shown once per process").
NoticeIsShownOnce == Cardinality(notices) <= 1
=============================================================================
