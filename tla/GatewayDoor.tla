---------------------------- MODULE GatewayDoor ----------------------------
(***************************************************************************)
(* What a request meets at the gateway before and after its handler: the   *)
(* protocol version, the caller's role, the limit on the rate of each      *)
(* method, the risk score, and, for what is sent to a channel, the         *)
(* incident mode, the pacing and the greeting.  Beside the handlers, the   *)
(* orchestrator and the heartbeats send to the same channels.              *)
(*                                                                         *)
(* From the rate limit to the adapter nothing awaits, so a request is one  *)
(* step.  Credentials are told apart by what authorize() finds out about   *)
(* them; the queue of intents is ProactiveIntents', here without a budget. *)
(***************************************************************************)
EXTENDS Naturals, Sequences, Filters

CONSTANTS Callers,     \* records: ip, version (is supported), token, local,
                       \* patterns (how many risky ones the text has)
          Channels, Slack,   \* the channels, and those named "slack:..."
          SlackEnabled,
          Limit,       \* per method, the requests allowed in a window
          WindowMs, PaceMs, GreetMs, SuggestMs,
          LastTime, MaxQueue, MaxRequests   \* bounds

VARIABLES now,
          events,      \* MethodRateLimiter.events: per method and subject
          admitted,    \* history: the same, never pruned
          requests,    \* history: how many those are
          tokens,      \* tokens that are not revoked
          incident,    \* proactiveDisabled (and isolatedTools, set with it)
          lastSent,    \* DeliveryPacer.lastSentByChannel
          greeted,     \* GreetingPolicy.lastGreetingByThread, one thread a channel
          suggested,   \* ProactiveSuggestionEngine.lastSuggestedAtByChannel
          queued,      \* proactive intents, as channels
          late         \* history: a proactive message was delivered in incident mode

sendVars == <<lastSent, greeted>>
doorVars == <<now, events, admitted, requests, tokens, incident, sendVars, suggested, queued,
              late>>

Methods == DOMAIN Limit
Subjects == {c.ip : c \in Callers}

Init ==
    /\ now = PaceMs + SuggestMs  \* at time 0 nothing was sent
    /\ events = [m \in Methods |-> [s \in Subjects |-> <<>>]]
    /\ admitted = events /\ requests = 0
    /\ tokens = {c.token : c \in Callers} \ {"none", "wrong"}
    /\ incident = FALSE
    /\ lastSent = [c \in Channels |-> 0]
    /\ greeted = [c \in Channels |-> 0]
    /\ suggested = [c \in Channels |-> 0]
    /\ queued = <<>>
    /\ late = FALSE

-----------------------------------------------------------------------------
\* AuthService.authorize, in token mode.
Role(c) ==
    IF c.token = "none" THEN "missing"
    ELSE IF c.token = "wrong" \/ c.token \notin tokens THEN "invalid"
    ELSE IF c.local THEN "admin" ELSE "remote"

\* METHOD_SCOPES.
Allowed(m) == IF m = "incident.bundle" THEN {"admin"} ELSE {"local", "remote", "admin"}

\* scoreInboundRisk; nobody counts recent triggers.
Trusted(c) == Role(c) # "remote"
Risk(c) == (IF Trusted(c) THEN 0 ELSE 30) + 12 * c.patterns

\* Mutant: a window that starts anew when its first request has aged.
MutRecent(history) ==
    IF history # <<>> /\ history[1] + WindowMs < now THEN <<>> ELSE history

Recent(history) == SelectIn(history, {t \in Nat : t + WindowMs >= now})

Full(c, m) == Len(Recent(events[m][c.ip])) >= Limit[m]

\* The first gate that is closed to a request; "none" if all are open.
Refusal(c, m) ==
    IF ~c.version THEN "PROTO_VERSION_UNSUPPORTED"
    ELSE IF Role(c) = "missing" THEN "AUTH_MISSING"
    ELSE IF Role(c) = "invalid" THEN "AUTH_INVALID"
    ELSE IF Role(c) \notin Allowed(m) THEN "AUTH_ROLE_MISMATCH"
    ELSE IF Full(c, m) THEN "RATE_LIMITED"
    ELSE IF Risk(c) >= 90 THEN "RISK_BLOCKED" ELSE "none"

\* The limiter forgets what has aged whenever it is asked, and remembers what it
\* lets pass: the request the risk score stops, too.
Limiter(c, m) ==
    LET recent == Recent(events[m][c.ip])
        pass == Refusal(c, m) \in {"none", "RISK_BLOCKED"}
    IN  /\ events' = [events EXCEPT ![m][c.ip] = IF pass THEN Append(recent, now) ELSE recent]
        /\ admitted' = [admitted EXCEPT ![m][c.ip] = IF pass THEN Append(@, now) ELSE @]
        /\ requests' = IF pass THEN requests + 1 ELSE requests
        /\ requests' <= MaxRequests

\* A request that is turned away.
Refuse(c, m) ==
    /\ Refusal(c, m) # "none"
    /\ IF Refusal(c, m) \in {"RATE_LIMITED", "RISK_BLOCKED"}
       THEN Limiter(c, m) ELSE UNCHANGED <<events, admitted, requests>>
    /\ UNCHANGED <<now, tokens, incident, sendVars, suggested, queued, late>>

Enter(c, m) ==
    /\ Refusal(c, m) = "none"
    /\ Limiter(c, m)

-----------------------------------------------------------------------------
\* The channels.

\* ChannelHub.send takes the first adapter that supports the channel: Slack's
\* delivers if it is set up, the local echo always.
Delivers(ch) == ch \in Slack => SlackEnabled
Deliver(ch, proactive) ==
    late' = (late \/ (Delivers(ch) /\ proactive /\ incident))

\* BehaviorPolicyEngine.planSend: pacing, and the greeting of a new thread.
Paced(ch, urgent) == ~urgent /\ now - lastSent[ch] < PaceMs
PlanSend(ch, urgent, isNew) ==
    IF Paced(ch, urgent) THEN UNCHANGED sendVars
    ELSE /\ lastSent' = [lastSent EXCEPT ![ch] = now]
         /\ greeted' = IF isNew /\ (greeted[ch] # 0 => now - greeted[ch] >= GreetMs)
                       THEN [greeted EXCEPT ![ch] = now] ELSE greeted

\* chat.send.
ChatSend(c, ch, proactive, urgent, isNew) ==
    /\ Enter(c, "chat.send")
    /\ ~(proactive /\ incident)
    /\ PlanSend(ch, urgent, isNew)
    /\ IF Paced(ch, urgent) THEN UNCHANGED late ELSE Deliver(ch, proactive)
    /\ UNCHANGED <<now, tokens, incident, suggested, queued>>

\* A proactive chat.send in incident mode.
ChatSendForbidden(c) ==
    /\ Enter(c, "chat.send")
    /\ incident
    /\ UNCHANGED <<now, tokens, incident, sendVars, suggested, queued, late>>

\* incident.bundle: the tokens it names are revoked, the caller's too if it is one.
IncidentBundle(c, revoked) ==
    /\ Enter(c, "incident.bundle")
    /\ tokens' = tokens \ revoked
    /\ incident' = TRUE
    /\ UNCHANGED <<now, sendVars, suggested, queued, late>>

\* advisor.file_change: a suggestion, and an intent to make it, unless throttled.
FileChange(c, ch) ==
    LET suggests == now - suggested[ch] >= SuggestMs
    IN  /\ Enter(c, "advisor.file_change")
        /\ suggested' = IF suggests THEN [suggested EXCEPT ![ch] = now] ELSE suggested
        /\ IF suggests /\ ~incident
           THEN Len(queued) < MaxQueue /\ queued' = Append(queued, ch)
           ELSE UNCHANGED queued
        /\ UNCHANGED <<now, tokens, incident, sendVars, late>>

-----------------------------------------------------------------------------
\* The orchestrator sends the oldest intent; one not delivered stays.
Dispatch ==
    /\ queued # <<>>
    /\ Deliver(Head(queued), TRUE)
    /\ queued' = IF Delivers(Head(queued)) THEN Tail(queued) ELSE queued
    /\ UNCHANGED <<now, events, admitted, requests, tokens, incident, sendVars, suggested>>

\* runOneHeartbeatTurn sends what the heartbeat has to say.
HeartbeatSend(ch) ==
    /\ ch \notin Slack
    /\ Deliver(ch, TRUE)
    /\ UNCHANGED <<now, events, admitted, requests, tokens, incident, sendVars, suggested, queued>>

Elapse ==
    /\ now < LastTime
    /\ now' = now + 1
    /\ UNCHANGED <<events, admitted, requests, tokens, incident, sendVars, suggested, queued, late>>

-----------------------------------------------------------------------------
Rpc(c) ==
    \/ \E m \in Methods : Refuse(c, m)
    \/ \E ch \in Channels, p, u, n \in BOOLEAN : ChatSend(c, ch, p, u, n)
    \/ ChatSendForbidden(c)
    \/ \E revoked \in SUBSET tokens : IncidentBundle(c, revoked)
    \/ \E ch \in Channels : FileChange(c, ch)

Next ==
    \/ \E c \in Callers : Rpc(c)
    \/ Dispatch \/ Elapse
    \/ \E ch \in Channels : HeartbeatSend(ch)

Spec == Init /\ [][Next]_doorVars

-----------------------------------------------------------------------------
\* However requests are spread over time, no stretch of one window's length has
\* more of a caller's requests for a method than its limit: forgetting old ones
\* when a request is refused, or let pass, never makes room too early.
RateIsBounded ==
    \A m \in Methods, s \in Subjects :
        LET times == admitted[m][s]
        IN  \A i, j \in DOMAIN times : j >= i + Limit[m] => times[j] - times[i] > WindowMs

\* After incident.bundle no proactive message is delivered
\* (docs/rpc-api-reference.md:311, "Disables proactive sends").
IncidentStopsProactive == ~late
=============================================================================
