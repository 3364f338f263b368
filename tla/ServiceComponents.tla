-------------------------- MODULE ServiceComponents --------------------------
(***************************************************************************)
(* The components around the turns side by side: an instance of each for   *)
(* every value of its constants, and their properties by names of their    *)
(* own.                                                                    *)
(***************************************************************************)

\* Workflow.

CONSTANTS Calls, Steps, NeedApproval, MaxMishaps
VARIABLES at, completed, saved, kept, ran, overlapped, mishaps

W == INSTANCE Workflow WITH file <- saved

StepsRunOnce == W!StepsRunOnce

-----------------------------------------------------------------------------
\* Supervisor.

CONSTANTS MaxCrashes, MaxBreaks, MaxKills, MaxRecoveries
VARIABLES wrapper, from, server, down, failureLog, done, builds, recoveries, orphan, waiter,
          lastBuild, orphaned, crashes, breaks, kills

S == INSTANCE Supervisor

RecoveryIsNotLost == S!RecoveryIsNotLost

-----------------------------------------------------------------------------
\* ConfigStore.

CONSTANTS Changes, KindOf, Edits, Reloads
VARIABLES doing, held, text, objects, current, file, justWrote, watcher, edited, reloads,
          raced

C == INSTANCE ConfigStore

AgreesUnlessRaced == C!AgreesUnlessRaced

-----------------------------------------------------------------------------
\* IdleReflection.

CONSTANTS MaxConcurrentJobs, IdleAfter, MaxRuns, MaxActivity
VARIABLES idleFor, scans, running, runningJobs, failed, activity

R == INSTANCE IdleReflection WITH queued <- scans

ScansGoOn == R!ScansGoOn

-----------------------------------------------------------------------------
\* LifecycleStream.

CONSTANTS Connections, SessionOf, MaxConnections, Sessions, MaxEvents
VARIABLES loop, socket, count, queue, written, pushed, since

L == INSTANCE LifecycleStream

StreamIsGapless == L!StreamIsGapless

-----------------------------------------------------------------------------
\* GatewayDoor.

CONSTANTS Callers, Channels, Slack, SlackEnabled, Limit, WindowMs, PaceMs, GreetMs, SuggestMs,
          LastTime, MaxQueue, MaxRequests
VARIABLES now, events, admitted, requests, tokens, incident, lastSent, greeted, suggested,
          queued, late

D == INSTANCE GatewayDoor

RateIsBounded == D!RateIsBounded

-----------------------------------------------------------------------------
\* ChatThreads.

CONSTANTS Agents, Turns, MaxSwitches, MaxPolls, MaxBeats, MaxSaves
VARIABLES thread, stored, view, agent, loaded, loading, saves, asked, stage, request, askedOf,
          answer, read, unseen, offered, switches, polls, spliced

H == INSTANCE ChatThreads WITH file <- thread, held <- unseen, proactive <- offered

AnswerOnce == H!AnswerOnce
=============================================================================
