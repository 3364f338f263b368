-------------------------- MODULE LifecycleStream --------------------------
(***************************************************************************)
(* The lifecycle events of runs, pushed to every subscriber of their       *)
(* session (InMemoryLifecycleStream), and the /stream connections the      *)
(* gateway serves from such a subscription.                                *)
(*                                                                         *)
(* The loop of a connection takes an event, writes it, looks whether the   *)
(* client is still there, gives way once, and takes the next, or sleeps    *)
(* until push wakes it.                                                    *)
(***************************************************************************)
EXTENDS Naturals, Sequences

CONSTANTS Connections, SessionOf,   \* [Connections -> Sessions]
          MaxConnections,           \* MAX_STREAM_CONNECTIONS_PER_SUBJECT
          Sessions, MaxEvents       \* events are numbered (bound)

VARIABLES loop,     \* per connection: "new", "refused", "starting", "taking", "asleep",
                    \* "woken", "pausing" or "over"
          socket,   \* per connection: "open" or "closed"
          count,    \* streamConnectionsBySubject
          queue,    \* per connection: its subscriber's queue
          written,  \* per connection: what was written to it
          pushed,   \* history: the events, as sessions, in their order
          since     \* history, per connection: events pushed before it subscribed

streamVars == <<loop, socket, count, queue, written, pushed, since>>

Connecting == 0
Subscribed(c) == loop[c] \in {"taking", "asleep", "woken", "pausing"}
Goes(c, to) == loop' = [loop EXCEPT ![c] = to]

Init ==
    /\ loop = [c \in Connections |-> "new"]
    /\ socket = [c \in Connections |-> "open"]
    /\ count = [s \in Sessions |-> 0]
    /\ queue = [c \in Connections |-> <<>>]
    /\ written = [c \in Connections |-> <<>>]
    /\ pushed = <<>>
    /\ since = [c \in Connections |-> 0]

-----------------------------------------------------------------------------
\* GET /stream: the connection is counted, and its loop begins.
Connect(c) ==
    /\ loop[c] = "new"
    /\ IF count[SessionOf[c]] >= MaxConnections
       THEN Goes(c, "refused") /\ UNCHANGED count
       ELSE Goes(c, "starting") /\ count' = [count EXCEPT ![SessionOf[c]] = @ + 1]
    /\ UNCHANGED <<socket, queue, written, pushed, since>>

\* The iteration begins: the subscriber is added, and told it is connected.
Subscribe(c) ==
    /\ loop[c] = "starting"
    /\ Goes(c, "taking")
    /\ queue' = [queue EXCEPT ![c] = <<Connecting>>]
    /\ since' = [since EXCEPT ![c] = Len(pushed)]
    /\ UNCHANGED <<socket, count, written, pushed>>

\* The next event is yielded and written; a client that has gone ends the loop,
\* which removes the subscriber.
Take(c) ==
    /\ loop[c] \in {"taking", "woken"} /\ queue[c] # <<>>
    /\ queue' = [queue EXCEPT ![c] = Tail(@)]
    /\ written' = [written EXCEPT ![c] = Append(@, Head(queue[c]))]
    /\ Goes(c, IF socket[c] = "closed" THEN "over" ELSE "pausing")
    /\ UNCHANGED <<socket, count, pushed, since>>

\* Mutant: the loop looks for events again only when it is woken.
MutPause(c) ==
    /\ loop[c] = "pausing"
    /\ Goes(c, "asleep")
    /\ UNCHANGED <<socket, count, queue, written, pushed, since>>

Pause(c) ==
    /\ loop[c] = "pausing"
    /\ Goes(c, "taking")
    /\ UNCHANGED <<socket, count, queue, written, pushed, since>>

Sleep(c) ==
    /\ loop[c] = "taking" /\ queue[c] = <<>>
    /\ Goes(c, "asleep")
    /\ UNCHANGED <<socket, count, queue, written, pushed, since>>

\* push: every subscriber of the session has the event; who sleeps is woken.
Push(s) ==
    LET hears == {c \in Connections : Subscribed(c) /\ SessionOf[c] = s}
    IN  /\ Len(pushed) < MaxEvents
        /\ pushed' = Append(pushed, s)
        /\ queue' = [c \in Connections |->
               IF c \in hears THEN Append(queue[c], Len(pushed) + 1) ELSE queue[c]]
        /\ loop' = [c \in Connections |->
               IF c \in hears /\ loop[c] = "asleep" THEN "woken" ELSE loop[c]]
        /\ UNCHANGED <<socket, count, written, since>>

\* The client goes: the connection is no longer counted, and its loop learns of
\* it with the next event.
Close(c) ==
    /\ loop[c] \notin {"new", "refused"} /\ socket[c] = "open"
    /\ socket' = [socket EXCEPT ![c] = "closed"]
    /\ count' = [count EXCEPT ![SessionOf[c]] = @ - 1]
    /\ UNCHANGED <<loop, queue, written, pushed, since>>

-----------------------------------------------------------------------------
Serve(c) == Subscribe(c) \/ Take(c) \/ Pause(c) \/ Sleep(c)

Next ==
    \/ \E c \in Connections : Connect(c) \/ Serve(c) \/ Close(c)
    \/ \E s \in Sessions : Push(s)

Spec == Init /\ [][Next]_streamVars

-----------------------------------------------------------------------------
\* The events of its session that were pushed since a connection subscribed.
Heard(c) == {i \in 1..Len(pushed) : i > since[c] /\ pushed[i] = SessionOf[c]}

\* What a connection was written and what its subscriber still has are all the
\* events of its session since it connected, each once and in their order, and
\* whoever sleeps has missed none: it has written all there is.
StreamIsGapless ==
    \A c \in Connections : Subscribed(c) =>
        LET given == written[c] \o queue[c]
        IN  /\ \A i, j \in DOMAIN given : i < j => given[i] < given[j]
            /\ {given[i] : i \in DOMAIN given} = {Connecting} \cup Heard(c)
            /\ loop[c] = "asleep" => queue[c] = <<>>
=============================================================================
