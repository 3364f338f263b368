--------------------------- MODULE AgentComponents ---------------------------
(***************************************************************************)
(* The components of a turn side by side: an instance of each for every    *)
(* value of its constants, and their properties by names of their own.     *)
(***************************************************************************)
EXTENDS Integers, Sequences, FiniteSets

CONSTANT None

-----------------------------------------------------------------------------
\* ModelAdapter.

CONSTANTS Providers, MaxEvents
VARIABLES consumer, at, lines, written, child, code, timer, seen, failure,
          registered, processes, cancelled, timeouts

A == INSTANCE ModelAdapter WITH pc <- consumer, Chain <- Providers

EveryChildIsWatched == A!EveryChildIsWatched
WatchdogHasNoGap == A!WatchdogHasNoGap

-----------------------------------------------------------------------------
\* ValidatedModels.

CONSTANTS Models, Order, Probes, Probed, FullSuite, Enabled, Paid, RunAgainstPaid, Ttl, Turns
VARIABLES probe, saw, copy, store, writers, broken, allowOne, cache, chain, notPassed

V == INSTANCE ValidatedModels WITH Chain <- Order

OnlyValidatedAreTried == V!OnlyValidatedAreTried

-----------------------------------------------------------------------------
\* ToolCalls.

CONSTANTS Calls, Requests, Files, NoFile, FirstFiles, Contents, AllowedBins, ConcurrencyCap, MaxWrites
VARIABLES call, callStep, questions, granted, segment, read, failed, answer, file, substrate,
          concurrentExecs, toolIsolation, recent, runCount, serial, raced, editor

T == INSTANCE ToolCalls WITH step <- callStep, at <- segment, outcome <- answer

FilesAreSerial == T!FilesAreSerial
ChangesAreApproved == T!ChangesAreApproved
MutationsNeedGrants == T!MutationsNeedGrants
EditsReachTheSubstrate == T!EditsReachTheSubstrate
AnyWriteIsLoaded == T!AnyWriteIsLoaded
LoadedEditsStay == T!LoadedEditsStay

-----------------------------------------------------------------------------
\* ApprovalGate.

CONSTANTS Askers, Tool, GrantTtl, StaleAfter, GrantUses, LastTime, MaxRequests, MaxRestarts
ASSUME GrantsAssumption == {GrantTtl, GrantUses} \subseteq Nat
VARIABLES asked, grants, requests, pendingOf, saved, clock, restarts, passes, approvals

G == INSTANCE ApprovalGate WITH Calls <- Askers

OnePendingPerPlan == G!OnePendingPerPlan
PassesAreCovered == G!PassesAreCovered

-----------------------------------------------------------------------------
\* MemoryFiles.

CONSTANTS Records, Compactable, Window, CompactOver, LongBlocks, MaxIndexed,
          MaxCompactions, MaxDeaths
VARIABLES archiving, adding, beforeTrim, memory, daily, archive, long, index, work, snapshot,
          lock, summary, exposed, gone, deaths

M == INSTANCE MemoryFiles WITH seen <- beforeTrim

EveryRecordIsKept == M!EveryRecordIsKept
CompactionSparesOthers == M!CompactionSparesOthers

-----------------------------------------------------------------------------
\* PromptAssembly.

CONSTANTS PromptTurns, SessionOf, PromptRequests, PartSize, UserSize, PerMessageMax, MaxRetained,
          AnyInterrupted, Replies, MaxAdded
VARIABLES step, request, system, prompt, added, artifacts, diagnosed, noticed, withTurn, notices

Prompt == INSTANCE PromptAssembly WITH
        Turns <- PromptTurns, Requests <- PromptRequests, Size <- PartSize

\* agent.run takes a turn without messages; the limits of a model's entry may be absent.
ASSUME PromptConstants ==
    /\ {UserSize, PerMessageMax} \subseteq Nat /\ MaxRetained \in Nat \ {0}
    /\ PartSize \in [Prompt!PartNames -> Nat]
    /\ \A r \in PromptRequests :
           /\ {r.messages, r.cap, r.summaryTokens} \subseteq Nat
           /\ r.priority \in Seq(Prompt!Roles)
    /\ \A reply \in Replies : reply.text \in Nat /\ reply.results \in Seq(Nat)

PromptFits == Prompt!PromptFits
SentFitsTheContext == Prompt!SentFitsTheContext
NothingIsDroppedInVain == Prompt!NothingIsDroppedInVain
=============================================================================
