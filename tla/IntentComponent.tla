--------------------------- MODULE IntentComponent ---------------------------
(***************************************************************************)
(* ProactiveIntents under names that leave room for the orchestrator's     *)
(* other components beside it, for every value of its constants, and its   *)
(* properties by names of their own.                                       *)
(***************************************************************************)
EXTENDS Naturals

CONSTANTS Intents, Channels, ChannelOf, NotBefore, Reachable, HeartbeatChannel, Dispatches,
          Timings, HourSpan, DaySpan, MaxPerHour, MaxPerDay, QuietTimes, LastTime, LastCall,
          MaxLosses, Nobody

\* The budget is one of numbers; the longer window is the day's.
ASSUME BudgetAssumption ==
    /\ {HourSpan, DaySpan, MaxPerHour, MaxPerDay} \subseteq Nat
    /\ HourSpan <= DaySpan

VARIABLES timing, wall, state, loaded, spent, store, chain, writing, storing, life, seen, call,
          read, dispatch, batch, sends, sent, losses, cut

I == INSTANCE ProactiveIntents WITH
        clock <- wall, file <- store, payload <- storing, tick <- dispatch, crashes <- losses,
        Ticks <- Dispatches, MaxTime <- LastTime, MaxCrashes <- MaxLosses, None <- Nobody

DeliveredOnce == I!DeliveredOnce
WithinBudget == I!WithinBudget
AcknowledgedIsKept == I!AcknowledgedIsKept
=============================================================================
