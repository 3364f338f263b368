# CursorClaw: specifications and proofs

TLA+ models of the parts of CursorClaw whose correctness depends on order,
interleaving and restarts, the TLC configurations that check them, and TLAPS
proofs of what matters most. Paths below are relative to the repository's root
(`src/runtime.ts`); in `PROJECT.json`, which maps every definition to the lines
it models, they are prefixed with the directory the repository is checked out
in (`src/src/runtime.ts`).

Contents: 1 the system, 2 hard behaviours, 3 modules, 4 runs, 5 proofs,
6 divergences from the documents, 7 what is not modelled, 8 plan.

## 1. The system

CursorClaw is one Node.js process: a gateway that takes chat turns over HTTP, a
runtime that executes them against a model, schedulers that start turns of
their own, and a handful of JSON files that carry state across restarts. There
is no thread: a step of JavaScript runs to its next `await`. All concurrency
comes from what may run between two awaits, and all failure from an operation
that rejects, a timer that fires again, or the process dying between two steps.

| Component (source) | State | Operations | Interacts with |
|---|---|---|---|
| Session queue (`runtime.ts` SessionQueue, `queue/in-memory-backend.ts`) | a list and a `running` flag per session, a payload per turn | enqueue (admit, refuse, drop oldest), drain | every caller of `startTurn`: gateway, cron, heartbeat, resumption |
| Turn execution (`runtime.ts` scheduleTurn) with the reliability controllers (`reliability/`) | events, checkpoint, current run and failure counts per session | gate, rounds of model and tools, verification, catch, cancel | adapter, tools, journal, lifecycle stream, git |
| Context assembly (`runtime.ts` buildPromptMessages, `plugins/`, `max-context-tokens.ts`) | the messages being put together, notices shown once | collect parts, run plugins, budget, trim | turns, memory, substrate |
| Model adapter (`model-adapter.ts`, `providers/`) | the provider registered per turn, a child process or a request | send a turn along a chain of models, watch, cancel | turns, validation store |
| Provider model resilience (`provider-model-resilience/`) | validation store (a file), a cached copy | probe, save, filter a chain | adapter |
| Tools (`tools.ts`, `exec/`) | files, limits, the substrate in memory | guard, exec, apply_edits, gh_pr_write | turns, approvals |
| Approvals (`security/approval-workflow.ts`, `capabilities.ts`) | requests, grants; two files | request, resolve, expire, consume | tools, gateway |
| Memory (`memory.ts`, `continuity/`) | append-only file, archive, summaries, index | append, trim, compact, recall | turns, timer |
| Gateway: agent runs (`gateway.ts` agent.run, agent.wait) | `pendingRuns` | start a turn, poll or block for it, hand out the result | queue, run store, threads |
| Run store (`run-store.ts`) | records and a write chain, one file | createPending, markCompleted, markFailed, markInFlightInterrupted, consume, prune | gateway, startup |
| Startup resumption (`index.ts`) | list of interrupted runs | restart their turns or flag a heartbeat | run store, queue, threads |
| Gateway: access, limits, sending (`gateway.ts`, `security.ts`, `responsiveness.ts`, `channels.ts`) | request log, incident flag, last sends | authorize, limit, score, pace, send | every method, orchestrator |
| Lifecycle stream (`lifecycle-stream/`, `/stream`) | a queue per subscriber | push, subscribe, serve a connection | turns, browser |
| Chat threads and web UI (`thread-store.ts`, `ui/src/contexts/ChatContext.tsx`) | a file per profile, the view of a browser | get, set, append; load, save, send, reconnect | gateway |
| Configuration (`config.ts`, `gateway.ts`, `index.ts`) | an object and its file | patch, create and delete a profile, reload, watch | everything |
| Heartbeats and mailbox (`scheduler.ts`, `orchestrator.ts`, `index.ts`, `mailbox.ts`) | timer, interrupted flag, pending message; a file per envelope | schedule, run, interrupt; send, receive | queue, channels |
| Cron service (`scheduler.ts`) | jobs with next time, retries, `running`; one file | addJob, tick, flushState, loadState | orchestrator's timer, queue |
| Proactive intents (`autonomy-state.ts`, `orchestrator.ts`) | intents, budget windows; one file | queueIntent, dispatch, hydrate, stop | channels, idle reflection, file-change advisor |
| Workflow runtime (`scheduler.ts`) | completed steps per key; one file each | run | approvals |
| Idle reflection (`reflection/`) | queue, running count | enqueue, tick, note activity | gateway, journal |
| Supervisor scripts (`scripts/`) | files in `tmp/` | restart, rebuild, recover | the process |
| Observations, journal, skills, substrate, privacy, network, MCP | files, lists, caches | one call at a time | turns |

What makes each of them correct:

- **Session queue**: one turn of a session at a time, in submission order; the
  hard limit turns away the newest or the oldest turn and nobody else; every
  promise is settled once; no turn is left behind with nobody to run it.
- **Turns**: whoever follows the events learns what the caller learns; no
  checkpoint outlives its turn; a turn is escalated exactly for the repeated failures
  told under its session id.
- **Context**: what goes over the model's context is known, and nothing that fits is
  dropped.
- **Adapter, resilience**: a child process is watched as long as it lives; a
  turn tries only models that passed, if there are any.
- **Tools, approvals**: a file is edited as if calls came one after another, and a
  reported edit is in the next prompt; what changes a file was asked about, or is a
  program of the allowlist that passes for reading; one approval, one grant.
- **Memory**: a record that was appended is somewhere, or is lost in one of three known
  ways.
- **Agent runs, run store, resumption**: a request whose id a client has is, at
  every moment and whatever dies, carried by the file to an outcome or a
  resumption; a result that was handed out is final; every run is answered.
- **Door, stream, threads, configuration**: no window of a caller has more
  requests than the limit; a subscriber misses and repeats no event; an answer
  is in a thread once; memory and file agree when nobody raced.
- **Heartbeats, mailbox**: a message is shown once; the beat after a cut one is
  told so.
- **Cron**: a job is not run by two ticks at once; starts are spaced by the
  period or the backoff; retries are bounded; an "at" job succeeds once, but for what
  old ticks repeat; a job is not starved or skipped for good.
- **Proactive intents**: an acknowledged intent is in the file, is delivered,
  once, and within the channel's budget.
- **Workflow, idle reflection, supervisor**: a step runs once per key; scans go
  on; a broken build that is repaired gets its server back.

## 2. Hard behaviours

`PROJECT.json` lists the hazards at their lines. In short:

- *State read before an await and used after it*: the queue's state object
  (`runtime.ts:525`), a tick's time (`scheduler.ts:272`), a dispatch's batch
  (`orchestrator.ts:198`), a thread's contents (`thread-store.ts:82`).
- *Timers that do not wait*: cron and intent ticks start every second while
  earlier ones are still awaiting.
- *Restarts*: four stores are written in place or through a chain of promises,
  and every step between "decided" and "written" can be the last.
- *Rejections*: a promise that rejects with no handler attached ends the
  process (Node's default; the program installs no handler).
- *Two keys for one thing*: the queue goes by profile and session, the failure guard
  and the map of current runs by the session alone (`runtime.ts:518`, `:1277`).
- *Limits*: queue depth, concurrent cron jobs, retries, budgets.

## 3. Modules

Each module's header says which code it models, and one action stands for the
code between two awaits of one handler, with everything that code does.

### Session queue
`SessionQueue` models `SessionQueue.enqueue`, `enqueueAsync` and `drain` over
the in-memory backend at the granularity of *microtasks*: the variable `jobs`
is the microtask queue, in order, and a caller or a finished turn (a macrotask)
runs only when it is empty. A state object `{ running }` is named after the turn
whose `enqueueAsync` created it, a drain loop after the turn whose
`enqueueAsync` called it. `Submit`, `Admit`, `RefuseNew`, `TakeOldest`,
`ReplaceOldest`, `RefuseNoCandidate`, `AdmitOverLimit`, `RegisterBusy` and
`RegisterAndDrain` are the stretches of `enqueueAsync`; `StartTurn`,
`ExecuteReturns`, `SettleAndNext` and `EndDrain` those of `drain`. `strategy`
never changes: it is a variable so that one run covers both values of
`dropStrategy`. `Burst` says whether callers may submit twice inside one
event-loop tick. HTTP requests, cron ticks and heartbeats come in ticks of
their own (`Burst = FALSE`); the loop over interrupted runs at startup awaits a
file write between two submissions.

`SerialSessions` is the abstract specification: per session a FIFO of waiting
turns, one active turn, and a fate for each promise.
`SessionQueueRefinement` defines the mapping: a turn held by a drain loop that
has not started it, by a caller about to drop it or by its own `enqueueAsync`
still waits. `SessionQueueProofs` holds the theorems.

### Agent runs
`RunStore` has the store's operations as operators on its records and the write
chain: `Persist` requests a write; `StartWrite` takes the snapshot that
`JSON.stringify` takes when the chain reaches that write; `FinishWrite` renames
the temporary file, so a crash leaves the old or the new file. `Load` drops
what is in memory. `RunLifecycle` composes it with agent.run, the handlers on
the turn's promise (`HandleResolved`, `GatewayCompleted`, `HandleRejected`,
`BlockedOn`, `GatewayFailed...`), agent.wait in its blocking and polling forms,
and the loop over interrupted runs at startup (`Resume...`). A turn is only its
promise. `Die` is the end of the process, by `Kill` or by an unhandled
rejection; `Boot` starts the next one from the file.

### Cron
`CronService` models the whole service under the orchestrator's timer. `thread`
is the tick that executes; a tick gives it up only in `StartRun` (await of the
job) and when it writes. `now` is the time the tick was called at, which the
code keeps across awaits. The state file is written in place: a crash in the
middle, or two ticks writing at once, may leave a file that does not parse
(`Torn`), which `loadState` reads as no jobs. The timer does not wait for a tick
(`Overlap = TRUE`; `FALSE` is the usual timing, in which ticks end within their
second). The history variable `overtaken` names the "at" jobs that succeeded while
a tick as old as their time still had them ahead.

### Proactive intents
`ProactiveIntents` models `AutonomyStateStore`, `AutonomyBudget` and the
orchestrator's dispatch, hydrate and stop. The hourly and the daily window hold
the same times, so the model keeps one list. `timing` fixes, per behaviour, how
the outside is timed: *calm* (a dispatch ends within the timer's second and
calls come after `start()` has read the file), *slow* (dispatches overlap),
*early* (calls come while the file is still being read). `sends` is what the
budget has to know of: the sends of this life of the process, and those of before
a shutdown that saved the budget, but for the heartbeat's channel, whose budget
`start()` clears.

### Turns and what they use
`TurnExecution` is the `execute` closure of scheduleTurn. `pc` is the await a
turn stands at; what a model does is reduced to the round it asks for. A turn is
queued under its *lane*, `profileId:sessionId`, and one lane runs one turn at a time;
the guard, the forced reasoning and the map of current runs are kept by the plain
session id, as in the code, so two profiles' turns of one session id (the web UI has
one id for all profiles) overlap and share them. The history `ends` has, per session
id, the ends that turns told the guard, in that order. The work
tree (`dirty`, `branches`) is shared by all turns and by an operator; commits
while a checkpoint exists are left out. Writes and git commands may fail
(`StepFails`, `CheckpointFails`, `CatchFails`, `Cleanup`).

`PromptAssembly` takes a request to the messages that are sent: each part the
code may add is an element with a size, and the two awaits where another turn
may take a one-time notice are steps. A turn without messages is one of its
inputs, because `agent.run` takes an empty list. `prompt` is what the one trim leaves;
`ToSend` is what a round sends: the prompt with the suffix against thinking, which is put
on after the trim, and what follow-up rounds have `added`, which nobody trims.
`ModelAdapter` is one call of sendTurn with
its consumer: generators run only while the runtime asks, the child process and
its timer always. A child may close its output and run on (`ChildFallsSilent`), and
`EndOfLines` clears the timer before `close` is awaited, as the code does; a child that
cannot be spawned emits an `error` nobody listens to, which ends the gateway
(`SpawnFails`). `ValidatedModels` has probes of the command line and turns of
the server on the two sides of one store file. `ToolCalls` has the router and
the tools that write. A command has a form, if `exec` carries it out itself, and an
intent, which is what `classifyCommandIntent` makes of its words; a program that the
sandbox runs (`Run`) may leave anything of `Contents` in any file, whatever its intent,
and may fail after that. `editor` is the edit call that wrote a file last, if no command
has changed the file since. `ApprovalGate` has the gates, grants and requests, with the
time a grant lasts and the restart that reads the two files back.
`MemoryFiles` has every file operation of appends, trims and compactions as a
step; `archiving` is whether there is an archive, and `fit` how many texts of a
compaction are within its 15000 characters. Its history variables name the ways to lose a
record: `exposed`, appended while somebody who had read `MEMORY.md` had not written it
yet; `gone`, dropped with no archive to go to, or kept from it by a death.

### Around the turns
`GatewayDoor` makes a request one step, as nothing awaits between its checks.
`LifecycleStream` has the loop of a connection with the one point where it
gives way. `ChatThreads` joins the client's effects with the gateway's methods
on one file per profile. `ConfigStore` writes a configuration as the set of
changes it has, so that a lost one shows. `Heartbeat` composes the orchestrator's
tick, the turn of each profile and the mailbox; an envelope's file exists before
its text. `Workflow` and `IdleReflection` are small; `Supervisor` joins four
scripts over three files, with what a killed wrapper leaves running.

### Composites for TLC
A run costs the same whether its components interact or not, so components that
share no state are checked together: in `MCAgent`, `MCServices`, `MCAutonomy` and
`MCFair` a variable `focus`, fixed by the initial state, names the component whose
actions a behaviour takes; the others keep their state. The number of states is
the sum of the components'. Components that do interact are composed inside one
module (runs with their store and resumption; heartbeats with the mailbox; chat
client with gateway; adapter with the runtime's loop; supervisor scripts with
each other). Configuration and chat are one instance each (`C`, `H`), whose next
step `ConfigNext` and `ChatNext` restrict to what the focus is about; the cron
service is two instances on two sets of variables, one with overlapping ticks and
one that crashes.

### Modules for the proofs
`AgentComponents`, `ServiceComponents` and `IntentComponent` hold the constants, the
variables, the instances and the property names that a composite and the proofs
about its components share. `SessionQueueProofs`, `RunProofs`, `CronProofs` and
`TurnProofs` extend the module of their component; `OrchestratorProofs` is about
heartbeats and intents, `AgentProofs` and `ServiceProofs` about the components of
`MCAgent` and `MCServices`. `Filters` defines the code's `Array.filter` and the
`Array.reduce` that adds as recursive functions, so that `Inductions` can prove
what they return.

## 4. Runs

| Run | Configuration | Shows |
|---|---|---|
| `queue_serial` | 4 turns, 2 sessions, hard limit 3, both strategies, `Burst = FALSE` | one turn per session; refinement of `SerialSessions` with its fairness |
| `queue_burst` | 4 turns, 1 session, hard limit 2, both strategies, `Burst = TRUE` | custody, and every promise settles, although several drain loops serve the session |
| `runs_safety` | 2 requests, 4 run ids, 2 clients, 1 kill, 1 fault | no stuck pending run, no lost request, results are final |
| `runs_fair` | 1 request, 2 clients, 1 kill, 1 fault, fair | interrupted runs are consumed, accepted runs answered |
| `runs_rerun` | 1 request, 2 kills | violation: a consumed interrupted run is resumed again |
| `runs_failedturn` | 1 request, 1 fault, no kill | violation: a failing turn ends the process |
| `turns` | 2 turns with one session id of two profiles, 1 heartbeat, 2 errors, both thresholds 2, 1 fault; or 3 turns with one session id, 2 of one profile, 2 faults | events agree with outcomes, checkpoints are released; escalation exactly after equal failures of different turns, told under the session id |
| `agent` | one of six components in focus: a chain of two CLI models and an HTTP one; two calls, 1 restart, 3 time steps; 2 records, 2 compactions, 1 death, with and without an archive; 3 probes, 2 turns; 2 prompts with up to 2 added messages; 2 tool calls on 2 files | children are watched, but for those that closed their output; one pending request per plan and every pass covered; a record is lost in three ways only; only validated models are tried; a prompt goes over its limit by known things only and drops nothing in vain; files are serial, successful edits in the substrate, changes approved |
| `services` | one of eight components in focus: 2 messages, 1 death; 3 changes, 1 edit, 1 reload; a client of 1 or 2 profiles; 4 requests of six callers; 3 connections, 2 events; 2 crashes, 2 broken builds, 1 kill; 3 workflow calls; idle scans | mail is shown once and cut beats continued; memory and file agree unless raced; answers once; rates bounded; streams without gaps; recoveries not lost; steps once; scans go on |
| `autonomy` | cron with 2 overlapping ticks, 2 failures, clock to 4; cron with an "at" job, 2 overlapping ticks, 1 crash or shutdown, 1 failure, clock to 2; 2 intents, a dead channel, all timings, 1 crash or shutdown | one run per job, spacing, "at" jobs repeated only by ticks as old as their time; single delivery, budget, acknowledged intents are kept |
| `liveness` | fair: 2 intents, one due later, quiet hours, budget 1, 1 crash or shutdown; cron with one slot and 2 ticks; supervisor with 2 crashes and 2 broken builds | delivery, no starvation, the server comes back |
| `cron_stuck` | a shutdown during a run | violation: a job saved as running is skipped for good |

The violation runs check one statement of a document each; section 6 quotes them.

**Why the bounds are enough.** The queue's admission compares a depth with a
limit and its drain takes one turn after another: a session at the limit, one
over it, two turns waiting in order and one that becomes empty fit in limit + 1
turns (`Burst = FALSE`) and limit + 2 (`Burst = TRUE`). Two
sessions show that they do not disturb each other. Run ids leave room for each
request and its resumption; a second kill is what the finding `runs_rerun`
needs. Two ticks are the smallest overlap, and every further tick sees the same
shared records. The clock's bound leaves room for the period, a backoff and its
doubling. Three turns of one session id make two equal failures and the turn they
escalate; with the third of another profile, one of the failures is told while another
turn of the id is under way. Two calls, two appends or two prompts are the smallest race on a file
or a notice; a third workflow call meets a completed key. The window of the rate
limit is one time step, so four requests cross it. One death, restart, kill or
fault at any step is what the code must survive; a second crash and a second
broken build lead the supervisor through its whole loop twice. Bounds of this
kind are the constants `Turns`, `Runs`, `Requests`, `Ticks`, `Calls`, `Records`,
`Mail`, `Connections`, those that begin with `Max` or `Last`, and `UserMessages`,
`Deaths`, `ConfigEdits`, `FileEdits`. Runs whose bounds stop the system (all turns
submitted, the clock at its end) say `CHECK_DEADLOCK FALSE`.

**Fairness.** Weak fairness of what the event loop has in hand: pending
microtasks, file operations, turns that end and timers; and of the restart,
which the supervisor scripts do. That a turn ends is what the queue asks of its
environment (`ExecuteReturns`); the watchdog of the CLI provider and the
timeout of the HTTP ones are there for it, except for the lost `close` event and the
silent child of section 6. `EveryRunAnswered` also needs a client that goes on polling a run
it was not answered for (strong fairness, because the process may be down at any
one poll), `JobEventuallyRuns` strong fairness of a tick's end (other ticks may
hold the thread in between), and `ServerComesBack` a RECOVERY_CMD that succeeds in
the end if it is tried again and again. No fairness is assumed of submissions,
kills, faults or crashes.

**Mutants.** Definitions named `Mut...` are plausible bugs of the definition that
follows them; `PROJECT.json` pairs each property with one that violates it.

## 5. Proofs

Checked by `tlapm`, for every value of the constants that satisfies the modules'
named `ASSUME`s and the hypotheses of the theorem, the only assumptions used.
A proof module EXTENDS the module it is about, or, when the component is run in a
composite, the module that instantiates it (`AgentComponents`,
`ServiceComponents`, `IntentComponent`): the theorem is about the same
definition that the run checks.

| Theorem | States | Inductive invariant |
|---|---|---|
| `SessionQueueProofs.TypeCorrect` | `Spec => []TypeOK` | `TypeInv`: `TypeOK` and what keeps operations on sequences meaningful |
| `SessionQueueProofs.MutualExclusion` | `~Burst => (Spec => []OneTurnPerSession)` | `SerialInv` |
| `SessionQueueProofs.NoLostWakeUp` | `~Burst => (Spec => []NoStrandedTurn)` | `ServedInv` |
| `SessionQueueProofs.LimitHolds` | `~Burst => (Spec => []DepthWithinLimit)` | `LimitInv` |
| `SessionQueueProofs.EveryTurnHasItsHolder` | `Spec => []Custody` | `CustodyInv` |
| `SessionQueueProofs.QueueIsSerial` | `~Burst => (Spec => SerialSafety)`, the refinement without its fairness | `RefineInv` |
| `RunProofs.NothingIsStuck` | `Spec => []NoStuckPending` | `PendingInv` |
| `RunProofs.NoRequestLost` | `Spec => []RequestNotLost` | `DurableInv` |
| `RunProofs.ResultsAreFinal` | `Spec => []ResultHandedOutForGood` | `DurableInv` |
| `CronProofs.OneRun` | `Spec => []OneRunPerJob` | `CronInv` |
| `CronProofs.AtJobsOnce` | `Spec => []AtJobRepeatsOnlyIfOvertaken` | `AtInv` |
| `CronProofs.SpacedStarts` | `MaxCrashes = 0 => (Spec => StartsSpaced)` | `SpacedInv` |
| `OrchestratorProofs.MailOnce` | `Spec => []MailIsShownOnce` | `MailInv /\ TimerInv` |
| `OrchestratorProofs.CutBeatsOwed` | `Spec => []CutBeatIsContinued` | `OwedInv` |
| `OrchestratorProofs.AcknowledgedSurvives` | `I!Spec => []AcknowledgedIsKept` | `IntentsInv` |
| `OrchestratorProofs.OnceDelivered` | `I!Spec => []DeliveredOnce` | `OnceInv` |
| `OrchestratorProofs.ShareIsKept` | `I!Spec => []WithinBudget` | `BudgetInv` |
| `TurnProofs.EventsTrue` | `Spec => []EventsTellTheOutcome` | `EventsInv` |
| `TurnProofs.BranchesReleased` | `Spec => []CheckpointsReleased` | `BranchInv` |
| `TurnProofs.ForcedAfterRepeats` | `Spec => ForcedExactlyAfterRepeats` | `EventsInv /\ GuardInv` |
| `AgentProofs.NoChildIsLeft` | `Providers \in Seq({"cli", "http"}) => (A!Spec => []EveryChildIsWatched)` | `WatchInv` |
| `AgentProofs.TriedModelsArePassed` | `ModelTypes /\ ... => (V!Spec => OnlyValidatedAreTried)` | `FreshInv` |
| `AgentProofs.FilesStaySerial` | `RequestTypes /\ ... => (T!Spec => []FilesAreSerial)` | `CallsInv /\ FilesAreSerial` |
| `AgentProofs.EditsAreLoaded` | `RequestTypes /\ ... => (T!Spec => EditsReachTheSubstrate)` | `CallsInv /\ SubstrateInv` |
| `AgentProofs.OnlyApprovedChange` | `RequestTypes /\ ... => (T!Spec => ChangesAreApproved)` | `CallsInv` |
| `AgentProofs.PlansAreAskedOnce` | `G!Spec => []OnePendingPerPlan` | `PendingInv` |
| `AgentProofs.NoPassWithoutApproval` | `G!Spec => PassesAreCovered` | `BackedInv` |
| `AgentProofs.RecordsAreKept` | `MemoryTypes => (M!Spec => []EveryRecordIsKept)` | `KeptInv` |
| `AgentProofs.PromptsFit` | `Prompt!Spec => []PromptFits` | `PromptInv /\ AddedInv` |
| `AgentProofs.NothingGoesInVain` | `Prompt!Spec => []NothingIsDroppedInVain` | `PromptInv` |
| `ServiceProofs.StepsOnce` | `W!Spec => []StepsRunOnce` | `WorkflowInv` |
| `ServiceProofs.RecoveryKept` | `S!Spec => []RecoveryIsNotLost` | `SupervisorInv` |
| `ServiceProofs.ConfigurationsAgree` | `C!Spec => []AgreesUnlessRaced` | `ConfigInv` |
| `ServiceProofs.ScanQueuedOrRunning` | `R!Spec => []ScansGoOn` | `IdleInv` |
| `ServiceProofs.NoEventIsMissed` | `L!Spec => []StreamIsGapless` | `StreamInv` |
| `ServiceProofs.RateBounded` | `D!Spec => []RateIsBounded` | `DoorInv` |
| `ServiceProofs.OneBubble` | `H!Spec => []AnswerOnce` | `ChatInv` |

*Hypotheses.* `~Burst`: callers submit in event-loop ticks of their own, which is
what every caller of the program does; with two submissions in one tick the
theorems are false (section 6). `MaxCrashes = 0`: spacing is a
promise within one life of the process, because a crash loses the time of a
start that no write has saved. The others say what the constants are:
`RequestTypes`, that a command has a part and edits are a sequence;
`DOMAIN FirstFiles = Files`; `MemoryTypes`, that records are numbered from 1;
`ModelTypes`, that the chain is a sequence of models, the cache's age a positive
number, and that no value stands for "no result" and for a result; that limits, windows and
numbers of steps, runs and turns are natural numbers. A timing or a race that a
property names in its own statement is explained with the property.

*Queue.* `OneTurnPerSession` is not inductive: nothing in it says that a caller
about to start a drain loop saw the flag of the loop that runs. `SerialInv` adds
three conjuncts. `OneJob`: at most one microtask is pending, and it belongs to
the only enqueueAsync or drain loop that is between two awaits. So between the
read of the state object and its registration nothing else runs, and
`StateObjects`: what an enqueueAsync holds is what `sessions` still has for its
session, or new if there is none. Hence `OneDrain`: a live drain loop runs on its
session's registered object, flagged running, and is the only one. Without
`~Burst` the first conjunct fails, and the theorem is false (section 6).
`ServedInv` adds that a set flag has a live loop (`FlagHasLoop`) and that waiting
turns have a loop that holds a turn or a caller about to see to one (`Served`), so
a loop that finds nothing ends without leaving anything behind. `LimitInv` adds
that the length an `enqueueAsync` read is still the list's (`CountsTrue`): its
count is true when it uses it, and `WithinMost` follows. Custody needs none of
these, and so holds for callers of any kind: `OwnLists`, `HeldOnce` and
`InOnePlace` say that the lists, the hands of the loops and those of the callers
share no turn, `HeldWhileOpen` that a turn without an outcome is in one of them.
The refinement takes both. `Submit` is the abstract step of that name, `RefuseNew`
and `RefuseNoCandidate` are `Refuse`, `ReplaceOldest` is `Drop`, `StartTurn` is
`Start` and `SettleAndNext` is `Finish`; every other step is a stutter, `TakeOldest`
among them, because a turn that a caller is about to drop still waits in front.

*Runs.* `NoStuckPending` speaks of a process that serves requests. `PendingInv`
adds that one that is starting has already made every pending record
interrupted, so that the only way to become pending again is a new turn.
`DurableInv` looks at the three versions of the records: in memory, in the write
under way, in the file. What a later one of them has, those before it have
(`GrowingInv`). A client has a run id only when the write that its call awaits is
done (`WriteInv`); a resumption records the new run before it consumes the old
(`ResumeInv`); so each version carries every request that is owed (`CarriedInv`),
whichever of them a death leaves. In the same way a result that was handed out
is completed and consumed in the file, and nothing opens it again.

*Cron.* Two ticks hold different jobs because a job is flagged running before
its tick gives up the thread; that flag is looked up through a position in the
list. `CronInv` therefore adds that the list has no job twice, in memory, in the
file and in every write under way (`Sound`), and that an awaiting tick's position
is in the list. The count of slots is the cardinality of the awaiting ticks,
which are finitely many. Ticks may overlap in all three theorems. `AtInv` adds that an
"at" job that succeeded without being overtaken is over (`Over`: it has no time, nobody
runs it, and no tick at work that is as old as its time still has it ahead), or a crash
is counted that lost it. `SpacedInv`
adds that a job that rests has a next time that fits its last start (`NextFits`); a
tick may hold a time that is older than another's, so the proof compares the
job's time with the tick's, not with the clock.

*Orchestrator.* A message's file is still in the inbox only until the profile that
read it has moved it, and it enters a prompt after that (`HasRead`,
`ShownIsGone`); a death in between loses the prompt and not the file. A tick must
not begin while a beat reads (`TimerInv`). `IntentsInv` follows an acknowledged
intent through the state, the write under way and the file, where it may be
missing only from those that come before the write its call awaits. `OnceInv` adds that
every list of the state, the file and the dispatch has an intent once, and that an
intent in a batch is not yet marked. `BudgetInv` follows the times of the sends
instead: in the budget, and after a shutdown in the state and in the file, the
last times are the sends of the last day (`AllRecalled`), so that what `allow`
counts is what was sent (`WithinLimits`). A write that comes after that of `stop()`
is one that a dispatch awaits (`WritesOwned`): when no dispatch is left, nothing
overwrites the budget that was saved (`ExitSaves`).

*Turns.* The events of a run follow from the await it stands at
(`EventsFollow`): a failing write after "completed" leads to the sequence that
ends in "failed" (`WorseEnd`). That needs `QueuedOnce`, so that a started turn has
not been started before. `BranchInv`: a branch has a handle that the turn will
still see, or a write that failed has been noted. `GuardInv`: the turns of a
session id overlap when their profiles differ, so nothing is said of who runs: the guard
has counted exactly the equal failures at the end of what was told under the id
(`Counted`), and a run that has told a failure is over and tells no other (`FailedOnce`).

*Agent.* A child process has a timer from the step that starts it to the one that
sees its output end, and after that its turn waits for it (`WatchInv` adds only types). `FreshInv` gives a result in the file
and in the server's copy an age. A call's parts are done in order
and what it has still to do is what the request has left (`CallPlaced`), so an
interleaving of two calls leaves what one after the other would; a call with no failed
path loads after its last write, so what it is about to set has its own edits in every
file that only it has changed since (`SubstrateInv`), however other loads overlap. That a
change was approved rests on what a call at a part has been granted (`Needed`, and
`PartGranted` for the part's own program). The map from a plan to its
request is what the list of requests says (`LooksUp`), also after a restart that
reads both back. `BackedInv` lets every grant go back to an approval and bounds, for
each capability of a scope, the uses left (`Weight`, a sum) and the passes made by
the uses that approvals gave. It holds of the grants in memory and of the older
ones in the file, so that a restart, or a death between two grants of one
approval, gives nothing away. A record that was appended and is not exposed is in every
version of `MEMORY.md` that is, or may yet be written back by a trim or a compaction that
has read it, or it is safe: archived, on its way there, or among the gone (`Tracked`). So
two overlapping rewrites drop nothing that either had read. The two theorems
about prompts need a step of the model only for where the messages come from:
`PromptInv` says that a turn's system messages are about different things, those
of the parts it has been through (`Said`), so that with the conversation's no two
messages of a prompt are equal, and that the trimmed prompt is made of them; `AddedInv`
that follow-up rounds add none of the user's. The rest is
about the operators: the budget keeps what a message is about (`BoundedKeeps`); what
is left of the oldest fits and the message before it would not (`OldestGo`,
`CostOfRest`); and with priorities, after k choices, the total is what the kept
places cost, no message is left that was not looked at, and each that was passed over
is too large for what the total is now (`Keeping`, by induction over the choices;
`PriorityKeeps`).

*Services.* A connection has been given and is due exactly the events since it subscribed
(`StreamInv`). The limiter's window has the last of the
requests that were let pass (`Remembers`), so that these are `Spread`. No list of
messages, on either side, holds an answer that is still to come (`AskedFits`,
`ClientClean`, `FilesClean`, `HeldFits`), so an append meets none. The
configuration in memory is the file's, or a handler or the watcher is about to make it so
(`NothingRaced`). Scans that are queued or run are never none while
nothing failed (`IdleInv`, whose count of jobs is a sum over the runs).

*Induction over data.* What a recursive definition computes is proved where a
theorem needs it: `Inductions` derives, from the library's well-founded minimum
(`WFMin` and `NatLessThanWellFounded`), an induction over sets in place of operators,
and with it what `Filters.SelectIn` (the code's `filter`) keeps, drops, repeats and
preserves, and how the sum over a sequence (`Weight`) changes when it is joined,
filtered, lowered or raised at one place.

*Only model-checked.* Liveness (`EveryTurnSettles`, `EveryRunAnswered`,
`InterruptedEventuallyConsumed`, `EventuallyDelivered`, `JobEventuallyRuns`,
`ServerComesBack`), the fairness of the refinement, and ENABLED, which the prover
does not handle. Every safety property of a passing run is stated by a theorem:
`AtJobRepeats` of the run `autonomy` is `AtJobRepeatsOnlyIfOvertaken` of its second
instance of `CronService`, the property of `CronProofs.AtJobsOnce`.

## 6. Divergences from documents, comments and tests

With a run that shows them (`PROJECT.json`, findings):

- `runs_rerun`: `listInterruptedRuns` (`run-store.ts:152`) ignores `consumed`, so
  each later start runs the same user message again; `docs/resilience.md:83`
  says the original run is consumed.
- `runs_failedturn`: a failing turn with no blocked agent.wait is an unhandled
  rejection (`gateway.ts:520`) and ends the process; `docs/rpc-api-reference.md:191`
  describes polling for such a run.
- `cron_stuck`: `running` is saved with the record (`scheduler.ts:304`) and
  believed after the restart.

Stated in a module, in the words of a document or a comment, and refuted by TLC
when it is checked; no run has them:

| Statement | Code | Against |
|---|---|---|
| `CronService.AtJobSucceedsOnce` | a tick that awaited a long job comes to an "at" job another has run to its end, computes its time again from its own (`scheduler.ts:272`) and runs it again: the timer (`orchestrator.ts:59`) waits for no tick | `tests/scheduler-memory-runtime.test.ts:99`; `AtJobRepeats` says when it happens |
| `ModelAdapter.WatchdogHasNoGap` | the watchdog's timer is cleared when the child's output ends (`providers/cursor-agent-cli.ts:232`), before its `close` is awaited: a child that runs on is never terminated | `docs/cursor-agent-adapter.md:210` |
| `ModelAdapter.FailsOver` | an HTTP provider yields an error event before it throws (`providers/ollama.ts:238`, `openai-compatible.ts:260`), and the runtime leaves its loop at the event (`runtime.ts:1055`): the next model is never tried | `docs/PMR-provider-model-resilience.md:186` |
| `ModelAdapter.EveryTurnEnds` | the listener for `close` is put on when the lines are over (`providers/cursor-agent-cli.ts:233`): a child that ended while a tool ran is awaited for ever | `docs/cursor-agent-adapter.md:210` |
| `TurnExecution.RollbackSparesOthers` | `git reset --hard` takes back everybody's edits (`reliability/git-checkpoint.ts:65`) | its comment at :27 |
| `MemoryFiles.CompactionSparesOthers` | the file is read before the lock is taken (`continuity/memory-compaction.ts:79`) and appends take none: one in between is rewritten away, however new | `docs/LONG-TERM-MEMORY-AND-VECTOR-EXPERIENCES-IMPLEMENTATION.md:79` |
| `MemoryFiles.NewestSummariesAreLeft` | trimming reverses the blocks (`memory-compaction.ts:201`) | its comment at :27 |
| `ChatThreads.ThreadsAreSeparate`, `AnswersAreKept`, `ProactiveOnce` | the view is saved under whichever profile is selected, and by overlapping writes (`ui/src/contexts/ChatContext.tsx:289`, `thread-store.ts:82`) | `thread-store.ts:2`, `gateway.ts:504`, `ui/src/pages/Chat.tsx:142`, in that order |
| `ConfigStore.MemoryAgreesWithFile` | the watcher skips an edit made within its delay of the program's own write (`index.ts:1135`) | checked as `AgreesUnlessRaced` |
| `Heartbeat.SentMailArrives` | a file that does not parse yet is removed (`mailbox.ts:54`) | `docs/inter-agent-communication.md:23` |
| `Supervisor.CrashIsRebuilt` | server-down is written by the crash and looked at after the rebuild (`scripts/run-with-restart.js:224`) | `docs/resilience.md:13` |
| `GatewayDoor.IncidentStopsProactive` | the orchestrator and the heartbeats send without the gateway's check | `docs/rpc-api-reference.md:311` |
| `PromptAssembly.SentFitsTheContext` | tool results are put behind a trimmed prompt and sent with it (`runtime.ts:1143`, `:893`); the suffix against thinking (`runtime.ts:889`) goes over the limit by three tokens at most | `docs/configuration-reference.md:368` |
| `ToolCalls.AnyWriteIsLoaded` | an edit call with a file that failed returns before `onEditsApplied` (`tools.ts:1633`) | the comment at `tools.ts:1524` |
| `ToolCalls.LoadedEditsStay` | reloads of the substrate are not ordered (`substrate/store.ts:41`): an older one that ends last puts back what a finished edit had loaded | the comment at `tools.ts:1525`: "for the next turn" |
| `ToolCalls.MutationsNeedGrants` | a command with no listed word is read-only (`tools.ts:119`), and a program of the allowlist, `node` among them (`config.ts:452`), is run with nothing asked | `CURSORCLAW_LIMITATIONS_REMEDIATION_TECH_SPEC.md:182` |
| `PromptAssembly.NoticeIsShownOnce` | the notice is cleared by one turn while another has read it (`index.ts:720`) | `docs/continuity.md:29` |

Seen while modelling, by a counterexample of the same models with other
constants or by reading:

- Two submissions for a new session in one tick make two state objects and two
  drain loops (`runtime.ts:525`): `queue_serial` with `Burst = TRUE` violates
  `OneTurnPerSession`. No caller of the program does this.
- A turn that ends forgets the current run of its session id, also when another profile's
  turn of that id has taken the place (`runtime.ts:1312`), and is then not found by cancel.
- An edit call that meets a file it cannot read throws (`tools.ts:1608`): what it had
  written before is neither reported nor loaded.
- The cron service of a profile other than the default one accepts jobs through
  `cron.add` and is never ticked (`index.ts:1415`; `Wired = FALSE`).
- A blocking agent.wait that ends in an error does not consume the record
  (`gateway.ts:563`), against `docs/rpc-api-reference.md:200`.
- An intent queued while `start()` reads the file can be thrown away by the
  load that ends last (`autonomy-state.ts:76`), and an intent is delivered twice
  when dispatches overlap (`orchestrator.ts:198`): this is why
  `AcknowledgedIsKept` and `DeliveredOnce` name a timing.
- A call that read the file while `start()` did may end after `stop()` has saved
  the budget, and puts the old budget back (`autonomy-state.ts:79`): the next
  process grants the channels a new share. The attempt to prove `WithinBudget` met
  this; the property counts across shutdowns only when calls come after `start()`.
- An approved command uses up the one use of a default grant at the first of two
  questions and is denied at the second (`tools.ts:556`).
- A response that arrives while the thread is loading is appended a second time
  (`ChatContext.tsx:225`, `gateway.ts:170`).
- `HeartbeatRunner` keeps its interval when `everyMs` changes (`scheduler.ts:103`);
  cancelling reaches a heartbeat only while its model streams.
- BIRTH and notices count as shown before the prompt's budget may drop them
  (`runtime.ts:1677`).
- A torn workflow state file fails every later run of its key; a scan that fails
  ends the series until the next activity.
- `docs/resilience.md:14` names a file queue backend; the program never builds it.

## 7. What is not modelled

`PROJECT.json` gives each component's status and reason. The statements in the
modules that no run has are the `TypeOK`s of the modules whose runs check deeper
invariants (`TypeCorrect` proves the queue's, `RunTypes` that of the agent runs),
`NoStrandedTurn` and
`DepthWithinLimit` of the queue, which are proved, and those of section 6.

Left out of the modelled components: the queue's warnings, `RunStore.prune`
(beyond 10 000 consumed records), failing writes of the stores (but those of a
turn), malformed durations and dates, `AutonomyStateStore.replace` (no caller),
counters for display; the password and proxy modes of `authorize`; the parsing of
the providers' frames; the tools that only fetch; poll-only mode of the daemon.
Commits made while a checkpoint exists are left out of `TurnExecution`. The
contents of messages, threads and events are abstracted away everywhere; sizes
are kept where a budget compares them. A program the sandbox runs changes files in one
step; which program it is and what its words are is reduced to its intent.

Not modelled at all: the scrubbing of secrets and the address checks (string
processing without state), skills, substrate files and workspaces (one file at a
time), the MCP allow list, the settings pages of the web UI, parsing and defaults
of the configuration, and the file queue backend, which nothing instantiates.

## 8. Plan

Done: the queue with its abstract specification, agent runs, cron, intents, turns
and everything they call, the services around them, the supervisor.

Left, most useful first:

1. A composition of `SessionQueue` with `TurnExecution` by refinement: the queue's
   `ExecuteReturns` is implemented by a turn that reaches `done`.
2. The observation list and the journal's write chain.
