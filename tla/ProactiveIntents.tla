-------------------------- MODULE ProactiveIntents --------------------------
(***************************************************************************)
(* Proactive messages: AutonomyStateStore (src/src/autonomy-state.ts),     *)
(* AutonomyBudget (src/src/scheduler.ts) and the part of                   *)
(* AutonomyOrchestrator (src/src/orchestrator.ts) between them: queueing   *)
(* an intent, the timer that dispatches pending ones, the budget and its   *)
(* persistence, start, stop and crash.                                     *)
(*                                                                         *)
(* A step runs to the next await that leaves the event loop: a read or     *)
(* write of the state file, or the channel's send.  Hourly and daily       *)
(* windows hold the same times, so one list is kept.  Failing writes are   *)
(* left out.                                                               *)
(***************************************************************************)
EXTENDS Integers, Sequences, FiniteSets, Filters

CONSTANTS Intents,              \* one queueIntent call each
          Channels,
          ChannelOf, NotBefore, \* [Intents -> channelId, notBeforeMs]
          Reachable,            \* channels whose send reports delivered: true
          HeartbeatChannel,     \* options.heartbeatChannelId
          Ticks,                \* dispatches that may be under way
          Timings,              \* the timings to consider, see below
          HourSpan, DaySpan, MaxPerHour, MaxPerDay,
          QuietTimes,           \* times in quietHours
          MaxTime, LastCall,    \* the clock stops, calls come until then
          MaxCrashes,
          None

ASSUME IntentsAssumption ==
    ChannelOf \in [Intents -> Channels] /\ NotBefore \in [Intents -> Nat]
ASSUME LimitsAssumption ==
    /\ {HourSpan, DaySpan, MaxPerHour, MaxPerDay, MaxTime, LastCall, MaxCrashes} \subseteq Nat
    /\ HourSpan <= DaySpan
ASSUME NoneAssumption == None \notin Intents \cup Ticks

\* How the outside is timed, for a whole behaviour:
\*   calm   a dispatch ends before the next is due; calls come after start() has loaded
\*   slow   sends and writes may outlast the timer's second, so dispatches overlap
\*   early  calls may come while start() still reads the file
ASSUME TimingsAssumption == Timings \subseteq {"calm", "slow", "early"}

VARIABLES
    timing,   \* fixed
    clock,
    state,    \* AutonomyStateStore.state
    loaded,   \* AutonomyStateStore.loaded
    spent,    \* AutonomyBudget: [Channels -> Seq of times]
    file,     \* the state file
    chain,    \* writeChain: who awaits the writes not yet done, in order
    writing,  \* the write at the head has serialised its payload ...
    payload,  \* ... this one, and is writing the file in place
    life,     \* the orchestrator
    seen,     \* what hydrateState's read of the file returned
    call,     \* [Intents -> where its queueIntent is]
    read,     \* [Intents -> what that call's read of the file returned]
    tick,     \* [Ticks -> where it is]
    batch,    \* [Ticks -> the intents it listed and has still to visit]
    sends,    \* [Channels -> times of the sends the budget has to know of]
    sent,     \* [Intents -> how often the channel delivered it]
    crashes, cut \* cut: a crash has hit a write of the file

storeVars == <<state, loaded, chain, writing, payload>>
callVars  == <<call, read>>
tickVars  == <<tick, batch>>
lifeVars  == <<life, seen>>
histVars  == <<timing, sends, sent, crashes, cut>>
vars == <<clock, storeVars, spent, file, lifeVars, callVars, tickVars, histVars>>

Empty == [intents |-> <<>>, sent |-> {}, budget |-> [c \in Channels |-> <<>>]]
Snapshots == [intents : Seq(Intents), sent : SUBSET Intents,
              budget : [Channels -> Seq(Nat)]]
Owners == ({"call"} \X Intents) \cup ({"tick"} \X Ticks) \cup ({"stop"} \X {None})

TypeOK ==
    /\ timing \in Timings
    /\ clock \in 0..MaxTime
    /\ {state, file, payload, seen} \subseteq Snapshots
    /\ loaded \in BOOLEAN /\ writing \in BOOLEAN /\ cut \in BOOLEAN
    /\ spent \in [Channels -> Seq(Nat)] /\ sends \in [Channels -> Seq(Nat)]
    /\ chain \in Seq(Owners)
    /\ life \in {"down", "starting", "running", "stopping", "exiting"}
    /\ call \in [Intents -> {"none", "reading", "saving", "done", "lost"}]
    /\ read \in [Intents -> Snapshots]
    /\ tick \in [Ticks -> {"idle", "walking", "sending", "marking", "saving"}]
    /\ batch \in [Ticks -> Seq(Intents)]
    /\ sent \in [Intents -> Nat]
    /\ crashes \in 0..MaxCrashes
    /\ writing => chain # <<>>
    /\ \A k \in Ticks : tick[k] # "idle" => life \in {"running", "stopping"}

Init ==
    /\ timing \in Timings
    /\ clock = 0
    /\ state = Empty /\ loaded = FALSE
    /\ spent = [c \in Channels |-> <<>>]
    /\ file = Empty
    /\ chain = <<>> /\ writing = FALSE /\ payload = Empty
    /\ life = "starting" /\ seen = Empty
    /\ call = [i \in Intents |-> "none"] /\ read = [i \in Intents |-> Empty]
    /\ tick = [k \in Ticks |-> "idle"] /\ batch = [k \in Ticks |-> <<>>]
    /\ sends = [c \in Channels |-> <<>>]
    /\ sent = [i \in Intents |-> 0]
    /\ crashes = 0 /\ cut = FALSE

Pass ==
    /\ clock < MaxTime
    /\ clock' = clock + 1
    /\ UNCHANGED <<storeVars, spent, file, lifeVars, callVars, tickVars, histVars>>

-----------------------------------------------------------------------------
(***************************************************************************)
(* The store.                                                              *)
(***************************************************************************)

\* o awaits persist(): its write joins the chain.
Persist(o) ==
    /\ chain' = Append(chain, o)
    /\ UNCHANGED <<writing, payload>>

\* What a reader of the file finds: a write under way truncates it first, and
\* a file that does not parse is read as an empty one.
Contents == IF writing THEN {file, payload, Empty} ELSE {file}

Saved(o) == \A n \in DOMAIN chain : chain[n] # o

StartWrite ==
    /\ chain # <<>> /\ ~writing
    /\ writing' = TRUE
    /\ payload' = state
    /\ UNCHANGED <<clock, state, loaded, chain, spent, file, lifeVars, callVars, tickVars,
                   histVars>>

FinishWrite ==
    /\ writing
    /\ file' = payload
    /\ chain' = Tail(chain)
    /\ writing' = FALSE
    /\ payload' = Empty
    /\ UNCHANGED <<clock, state, loaded, spent, lifeVars, callVars, tickVars, histVars>>

\* upsertBudget(exportState()).
SaveBudget(o) ==
    /\ state' = [state EXCEPT !.budget = spent]
    /\ Persist(o)
    /\ UNCHANGED loaded

-----------------------------------------------------------------------------
(***************************************************************************)
(* queueIntent.                                                            *)
(***************************************************************************)

\* Mutant: the list keeps one intent, the newest.
MutPush(s, i) == [s EXCEPT !.intents = <<i>>]

Push(s, i) == [s EXCEPT !.intents = Append(@, i)]

QueueIntent(i) ==
    /\ life \in {"starting", "running"} /\ clock <= LastCall
    /\ call[i] = "none"
    /\ loaded
    /\ state' = Push(state, i)
    /\ Persist(<<"call", i>>)
    /\ call' = [call EXCEPT ![i] = "saving"]
    /\ UNCHANGED <<clock, loaded, spent, file, lifeVars, read, tickVars, histVars>>

\* Not loaded yet: the call reads the file itself ...
QueueAndRead(i) ==
    /\ timing = "early"
    /\ life = "starting" /\ clock <= LastCall
    /\ call[i] = "none"
    /\ ~loaded
    /\ call' = [call EXCEPT ![i] = "reading"]
    /\ \E f \in Contents : read' = [read EXCEPT ![i] = f]
    /\ UNCHANGED <<clock, storeVars, spent, file, lifeVars, tickVars, histVars>>

\* ... and replaces the state by it, whoever has loaded or changed it meanwhile.
QueueLoaded(i) ==
    /\ call[i] = "reading"
    /\ loaded' = TRUE
    /\ state' = Push(read[i], i)
    /\ Persist(<<"call", i>>)
    /\ call' = [call EXCEPT ![i] = "saving"]
    /\ read' = [read EXCEPT ![i] = Empty]
    /\ UNCHANGED <<clock, spent, file, lifeVars, tickVars, histVars>>

\* Mutant: the caller does not await persist().
MutAcknowledge(i) ==
    /\ call[i] = "saving"
    /\ call' = [call EXCEPT ![i] = "done"]
    /\ UNCHANGED <<clock, storeVars, spent, file, lifeVars, read, tickVars, histVars>>

Acknowledge(i) ==
    /\ call[i] = "saving"
    /\ Saved(<<"call", i>>)
    /\ call' = [call EXCEPT ![i] = "done"]
    /\ UNCHANGED <<clock, storeVars, spent, file, lifeVars, read, tickVars, histVars>>

-----------------------------------------------------------------------------
(***************************************************************************)
(* The budget.                                                             *)
(***************************************************************************)

Since(times, span) == SelectIn(times, {t \in Nat : t >= clock - span})

Window(c) == Since(spent[c], DaySpan)

Allowed(c) ==
    /\ clock \notin QuietTimes
    /\ Len(Since(Window(c), HourSpan)) < MaxPerHour
    /\ Len(Window(c)) < MaxPerDay

-----------------------------------------------------------------------------
(***************************************************************************)
(* dispatchProactiveIntents.                                               *)
(***************************************************************************)

Pending ==
    SelectIn(state.intents, {i \in Intents : i \notin state.sent /\ NotBefore[i] <= clock})

StartDispatch(k) ==
    /\ life = "running"
    /\ tick[k] = "idle"
    /\ timing = "slow" \/ \A j \in Ticks : tick[j] = "idle"
    /\ tick' = [tick EXCEPT ![k] = "walking"]
    /\ batch' = [batch EXCEPT ![k] = Pending]
    /\ UNCHANGED <<clock, storeVars, spent, file, lifeVars, callVars, histVars>>

Skip(k) ==
    /\ tick[k] = "walking" /\ batch[k] # <<>>
    /\ LET c == ChannelOf[Head(batch[k])]
       IN ~Allowed(c) /\ spent' = [spent EXCEPT ![c] = Window(c)]
    /\ batch' = [batch EXCEPT ![k] = Tail(@)]
    /\ UNCHANGED <<clock, storeVars, file, lifeVars, callVars, tick, histVars>>

\* allow() counts the attempt; the send is awaited.
Send(k) ==
    /\ tick[k] = "walking" /\ batch[k] # <<>>
    /\ LET c == ChannelOf[Head(batch[k])]
       IN /\ Allowed(c)
          /\ spent' = [spent EXCEPT ![c] = Append(Window(c), clock)]
          /\ sends' = [sends EXCEPT ![c] = Append(@, clock)]
    /\ tick' = [tick EXCEPT ![k] = "sending"]
    /\ UNCHANGED <<clock, storeVars, file, lifeVars, callVars, batch, timing, sent, crashes, cut>>

NotDelivered(k) ==
    /\ tick[k] = "sending"
    /\ ChannelOf[Head(batch[k])] \notin Reachable
    /\ tick' = [tick EXCEPT ![k] = "walking"]
    /\ batch' = [batch EXCEPT ![k] = Tail(@)]
    /\ UNCHANGED <<clock, storeVars, spent, file, lifeVars, callVars, histVars>>

\* Mutant: the sent intent is not marked.
MutMark(s, i) == s

\* markIntentSent, on the intents the store knows.
Mark(s, i) ==
    IF \E n \in DOMAIN s.intents : s.intents[n] = i THEN [s EXCEPT !.sent = @ \cup {i}] ELSE s

Delivered(k) ==
    /\ tick[k] = "sending"
    /\ ChannelOf[Head(batch[k])] \in Reachable
    /\ sent' = [sent EXCEPT ![Head(batch[k])] = @ + 1]
    /\ state' = Mark(state, Head(batch[k]))
    /\ IF state' = state THEN UNCHANGED <<chain, writing, payload>> ELSE Persist(<<"tick", k>>)
    /\ tick' = [tick EXCEPT ![k] = "marking"]
    /\ batch' = [batch EXCEPT ![k] = Tail(@)]
    /\ UNCHANGED <<clock, loaded, spent, file, lifeVars, callVars, timing, sends, crashes, cut>>

Marked(k) ==
    /\ tick[k] = "marking"
    /\ Saved(<<"tick", k>>)
    /\ tick' = [tick EXCEPT ![k] = "walking"]
    /\ UNCHANGED <<clock, storeVars, spent, file, lifeVars, callVars, batch, histVars>>

EndDispatch(k) ==
    /\ tick[k] = "walking" /\ batch[k] = <<>>
    /\ SaveBudget(<<"tick", k>>)
    /\ tick' = [tick EXCEPT ![k] = "saving"]
    /\ UNCHANGED <<clock, spent, file, lifeVars, callVars, batch, histVars>>

Dispatched(k) ==
    /\ tick[k] = "saving"
    /\ Saved(<<"tick", k>>)
    /\ tick' = [tick EXCEPT ![k] = "idle"]
    /\ UNCHANGED <<clock, storeVars, spent, file, lifeVars, callVars, batch, histVars>>

-----------------------------------------------------------------------------
(***************************************************************************)
(* start, stop and crash.                                                  *)
(***************************************************************************)

\* Mutant: the budget of before the restart is forgotten.
MutHydratedBudget(f) == [c \in Channels |-> <<>>]

\* importState, then clearChannel for the heartbeat.
HydratedBudget(f) == [c \in Channels |-> IF c = HeartbeatChannel THEN <<>> ELSE f.budget[c]]

\* hydrateState's load ends: it read the file when start() was called, and
\* replaces the state by it.  The first dispatch is a second away.
Hydrate ==
    /\ life = "starting"
    /\ life' = "running"
    /\ state' = seen /\ loaded' = TRUE
    /\ spent' = HydratedBudget(seen)
    /\ seen' = Empty
    /\ UNCHANGED <<clock, chain, writing, payload, file, callVars, tickVars, histVars>>

Stop ==
    /\ life = "running" /\ crashes < MaxCrashes
    /\ life' = "stopping"
    /\ SaveBudget(<<"stop", None>>)
    /\ UNCHANGED <<clock, spent, file, seen, callVars, tickVars, histVars>>

\* The process ends; "keep" says that the budget is in the file, from which start()
\* takes that of every channel but the heartbeat's.
Die(keep) ==
    /\ life' = "down" /\ seen' = Empty
    /\ state' = Empty /\ loaded' = FALSE
    /\ spent' = [c \in Channels |-> <<>>]
    /\ chain' = <<>> /\ writing' = FALSE /\ payload' = Empty
    /\ file' \in Contents
    /\ cut' = (cut \/ (writing /\ file' = Empty))
    /\ call' = [i \in Intents |-> IF call[i] \in {"reading", "saving"} THEN "lost" ELSE call[i]]
    /\ read' = [i \in Intents |-> Empty]
    /\ tick' = [k \in Ticks |-> "idle"] /\ batch' = [k \in Ticks |-> <<>>]
    /\ sends' = [c \in Channels |-> IF keep /\ c # HeartbeatChannel THEN sends[c] ELSE <<>>]
    /\ crashes' = crashes + 1
    /\ UNCHANGED <<timing, clock, sent>>

Exit ==
    /\ life = "stopping" /\ Saved(<<"stop", None>>)
    /\ Die(timing # "early" /\ \A k \in Ticks : tick[k] = "idle")

Crash == life \in {"starting", "running"} /\ crashes < MaxCrashes /\ Die(FALSE)

Restart ==
    /\ life = "down"
    /\ life' = "starting"
    /\ seen' = file
    /\ UNCHANGED <<clock, storeVars, spent, file, callVars, tickVars, histVars>>

-----------------------------------------------------------------------------
Write == StartWrite \/ FinishWrite

CallStep(i) == QueueLoaded(i) \/ Acknowledge(i)

TickStep(k) ==
    Skip(k) \/ Send(k) \/ NotDelivered(k) \/ Delivered(k) \/ Marked(k) \/ EndDispatch(k)
        \/ Dispatched(k)

Next ==
    \/ Pass \/ Write
    \/ \E i \in Intents : QueueIntent(i) \/ QueueAndRead(i) \/ CallStep(i)
    \/ \E k \in Ticks : StartDispatch(k) \/ TickStep(k)
    \/ Hydrate \/ Stop \/ Exit \/ Crash \/ Restart

Spec == Init /\ [][Next]_vars

\* Time passes, the timer fires, files are written, sends end, the supervisor
\* restarts the process.
FairSpec ==
    /\ Spec
    /\ WF_vars(Pass) /\ WF_vars(Write) /\ WF_vars(Hydrate) /\ WF_vars(Exit) /\ WF_vars(Restart)
    /\ WF_vars(\E k \in Ticks : StartDispatch(k))
    /\ \A k \in Ticks : WF_vars(TickStep(k))
    /\ \A i \in Intents : WF_vars(CallStep(i))

-----------------------------------------------------------------------------
(***************************************************************************)
(* Properties.                                                             *)
(***************************************************************************)

\* With calm timing an intent is delivered once, and once more at most for each
\* time the process died before the file said it was sent.  (An overlapping
\* dispatch has listed the intent before it was marked; a call that read the
\* file early brings back a list in which it is pending.)
DeliveredOnce == timing = "calm" => \A i \in Intents : sent[i] <= 1 + crashes

\* No channel gets more than its hourly and daily share of sends, in quiet hours
\* none: in one life of the process, and, but for the heartbeat's channel, across a
\* shutdown that no dispatch outlasts.  (A call that read the file early may end
\* after the shutdown has saved the budget, and puts the old one back.)
WithinBudget ==
    \A c \in Channels :
        /\ \A n \in DOMAIN sends[c] : sends[c][n] \notin QuietTimes
        /\ \A n \in DOMAIN sends[c] :
              LET t == sends[c][n]
                  Within(span) == {m \in 1..n : sends[c][m] >= t - span}
              IN Cardinality(Within(HourSpan)) <= MaxPerHour
                    /\ Cardinality(Within(DaySpan)) <= MaxPerDay

\* An acknowledged intent is in the file, so it survives any later death of the
\* process that does not cut a write of the file; unless it came while start()
\* was still reading the file.
AcknowledgedIsKept ==
    timing # "early" =>
        \A i \in Intents :
            call[i] = "done" /\ ~cut => \E n \in DOMAIN file.intents : file.intents[n] = i

\* An acknowledged intent for a channel that delivers is delivered, unless the
\* clock has stopped and the channel's budget is spent.
EventuallyDelivered ==
    \A i \in Intents :
        (call[i] = "done" /\ ChannelOf[i] \in Reachable) ~>
            \/ sent[i] > 0
            \/ cut
            \/ clock = MaxTime /\ ~Allowed(ChannelOf[i])
=============================================================================
