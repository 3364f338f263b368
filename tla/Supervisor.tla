----------------------------- MODULE Supervisor -----------------------------
(***************************************************************************)
(* npm run start:watch: the daemon keeps a wrapper running                 *)
(* (run-with-restart.js), the wrapper keeps the server running, and three  *)
(* files in tmp/ tie them to the recovery of a build: server-down,         *)
(* last-build-failure.log and recovery-done.                               *)
(*                                                                         *)
(* The daemon polls for the failure log and runs RECOVERY_CMD, which edits *)
(* the code; the wrapper's build-recovery-wait polls for recovery-done and *)
(* builds once more.  A wrapper that is older than its limit is killed,    *)
(* but its children, the server or the waiter, go on as orphans.           *)
(*                                                                         *)
(* Errors thrown in the wrapper's own loop, which it treats like a crash,  *)
(* and the daemon in poll-only mode are left out.                          *)
(***************************************************************************)
EXTENDS Naturals

CONSTANTS MaxCrashes, MaxBreaks, MaxKills, MaxRecoveries   \* bounds

VARIABLES wrapper,    \* "none", "checking", "serving", "delaying", "building", "waiting",
                      \* "polling" (waiting, having looked once) or "retrying"
          from,       \* who runs build-recovery-wait: "start" or "build"
          server,     \* the wrapper's server: "off", "starting" or "listening"
          down,       \* tmp/server-down
          failureLog, \* tmp/last-build-failure.log
          done,       \* tmp/recovery-done
          builds,     \* npm run build would succeed
          recoveries, \* recovery commands under way
          orphan,     \* a server whose wrapper was killed is listening
          waiter,     \* a build-recovery-wait whose wrapper was killed: "none", ...
          lastBuild,  \* history: how the wrapper's last build ended
          orphaned,   \* history: a waiter has lost its wrapper
          crashes, breaks, kills

fileVars == <<down, failureLog, done>>
orphanVars == <<orphan, waiter, orphaned, kills>>
supervisorVars == <<wrapper, from, server, fileVars, builds, recoveries, orphanVars, lastBuild,
                    crashes, breaks>>

Init ==
    /\ wrapper = "none" /\ from = "start" /\ server = "off"
    /\ down = FALSE /\ failureLog = FALSE /\ done = FALSE
    /\ builds = TRUE
    /\ recoveries = 0
    /\ orphan = FALSE /\ waiter = "none" /\ orphaned = FALSE /\ kills = 0
    /\ lastBuild = "none"
    /\ crashes = 0 /\ breaks = 0

\* A failure is written for the daemon and for whoever looks for the server.
WriteFailure == failureLog' = TRUE /\ down' = TRUE /\ UNCHANGED done
ClearFailure == failureLog' = FALSE /\ down' = FALSE /\ UNCHANGED done

-----------------------------------------------------------------------------
\* supervisorLoop and the wrapper.

StartWrapper ==
    /\ wrapper = "none"
    /\ wrapper' = "checking"
    /\ UNCHANGED <<from, server, fileVars, builds, recoveries, orphanVars, lastBuild, crashes,
                   breaks>>

\* The top of the wrapper's loop: recovery first if the server is down.
Check ==
    /\ wrapper = "checking"
    /\ IF down
       THEN wrapper' = "waiting" /\ from' = "start" /\ UNCHANGED server
       ELSE wrapper' = "serving" /\ server' = "starting" /\ UNCHANGED from
    /\ UNCHANGED <<fileVars, builds, recoveries, orphanVars, lastBuild, crashes, breaks>>

\* main() of the server: once it is bound it removes server-down.
Listen ==
    /\ server = "starting" /\ ~orphan
    /\ server' = "listening"
    /\ down' = FALSE
    /\ UNCHANGED <<wrapper, from, failureLog, done, builds, recoveries, orphanVars, lastBuild,
                   crashes, breaks>>

\* admin.restart: exit code 42.
RequestRestart ==
    /\ server = "listening"
    /\ server' = "off" /\ wrapper' = "building"
    /\ UNCHANGED <<from, fileVars, builds, recoveries, orphanVars, lastBuild, crashes, breaks>>

\* The server exits with 0, or is stopped: the wrapper does the same.
Stop ==
    /\ server = "listening" /\ crashes < MaxCrashes
    /\ crashes' = crashes + 1
    /\ server' = "off" /\ wrapper' = "none"
    /\ UNCHANGED <<from, fileVars, builds, recoveries, orphanVars, lastBuild, breaks>>

\* Any other exit, that of a server whose port an orphan holds among them.
Crash ==
    /\ \/ server # "off" /\ crashes < MaxCrashes /\ crashes' = crashes + 1
       \/ server = "starting" /\ orphan /\ UNCHANGED crashes
    /\ server' = "off" /\ wrapper' = "delaying"
    /\ WriteFailure
    /\ UNCHANGED <<from, builds, recoveries, orphanVars, lastBuild, breaks>>

Delay ==
    /\ wrapper = "delaying"
    /\ wrapper' = "building"
    /\ UNCHANGED <<from, server, fileVars, builds, recoveries, orphanVars, lastBuild, crashes,
                   breaks>>

\* buildAndRestart: after a good build the loop goes on,
BuildSucceeds ==
    /\ wrapper = "building" /\ builds
    /\ wrapper' = "checking"
    /\ lastBuild' = "ok"
    /\ UNCHANGED <<from, server, fileVars, builds, recoveries, orphanVars, crashes, breaks>>

\* after a bad one recovery is waited for.
BuildFails ==
    /\ wrapper = "building" /\ ~builds
    /\ WriteFailure
    /\ wrapper' = "waiting" /\ from' = "build"
    /\ lastBuild' = "failed"
    /\ UNCHANGED <<server, builds, recoveries, orphanVars, crashes, breaks>>

-----------------------------------------------------------------------------
\* Mutant: the waiter sleeps before it looks for the first time.
MutLook ==
    /\ wrapper = "waiting" \/ (wrapper = "polling" /\ done)
    /\ wrapper' = IF wrapper = "polling" THEN "retrying" ELSE "polling"
    /\ done' = (done /\ wrapper = "waiting")
    /\ UNCHANGED <<from, server, down, failureLog, builds, recoveries, orphanVars, lastBuild,
                   crashes, breaks>>

\* build-recovery-wait.js: it looks at once, then every two seconds.
Look ==
    /\ wrapper \in {"waiting", "polling"} /\ (done \/ wrapper = "waiting")
    /\ wrapper' = IF done THEN "retrying" ELSE "polling"
    /\ done' = FALSE
    /\ UNCHANGED <<from, server, down, failureLog, builds, recoveries, orphanVars, lastBuild,
                   crashes, breaks>>

\* The wrapper exits with the waiter's code.
TimeOut ==
    /\ wrapper = "polling"
    /\ wrapper' = "none"
    /\ UNCHANGED <<from, server, fileVars, builds, recoveries, orphanVars, lastBuild, crashes,
                   breaks>>

\* The wrapper clears the failure; at the top of its loop it starts the server next.
RetrySucceeds ==
    /\ wrapper = "retrying" /\ builds
    /\ ClearFailure
    /\ lastBuild' = "ok"
    /\ IF from = "start"
       THEN wrapper' = "serving" /\ server' = "starting"
       ELSE wrapper' = "checking" /\ UNCHANGED server
    /\ UNCHANGED <<from, builds, recoveries, orphanVars, crashes, breaks>>

\* Mutant: the failure of the second build is not written for the daemon.
MutRetryFails ==
    /\ wrapper = "retrying" /\ ~builds
    /\ wrapper' = "none"
    /\ lastBuild' = "failed"
    /\ UNCHANGED <<from, server, fileVars, builds, recoveries, orphanVars, crashes, breaks>>

RetryFails ==
    /\ wrapper = "retrying" /\ ~builds
    /\ WriteFailure
    /\ wrapper' = "none"
    /\ lastBuild' = "failed"
    /\ UNCHANGED <<from, server, builds, recoveries, orphanVars, crashes, breaks>>

-----------------------------------------------------------------------------
\* pollOnce: nothing keeps a poll from starting a command while one is running.
Poll ==
    /\ failureLog /\ recoveries < MaxRecoveries
    /\ recoveries' = recoveries + 1
    /\ UNCHANGED <<wrapper, from, server, fileVars, builds, orphanVars, lastBuild, crashes, breaks>>

\* RECOVERY_CMD exits with 0: the code builds, recovery-done is written and the
\* failure log removed, whichever failure it is about by now.
RecoverySucceeds ==
    /\ recoveries > 0
    /\ recoveries' = recoveries - 1
    /\ builds' = TRUE
    /\ done' = TRUE /\ failureLog' = FALSE
    /\ UNCHANGED <<wrapper, from, server, down, orphanVars, lastBuild, crashes, breaks>>

RecoveryFails ==
    /\ recoveries > 0
    /\ recoveries' = recoveries - 1
    /\ UNCHANGED <<wrapper, from, server, fileVars, builds, orphanVars, lastBuild, crashes, breaks>>

\* The agent, or anybody, edits the code and it builds no more.
Break ==
    /\ builds /\ breaks < MaxBreaks
    /\ builds' = FALSE /\ breaks' = breaks + 1
    /\ UNCHANGED <<wrapper, from, server, fileVars, recoveries, orphanVars, lastBuild, crashes>>

-----------------------------------------------------------------------------
\* runWrapper: after wrapperMaxAliveMs the wrapper gets SIGTERM and exits at once.
\* The server's output has nobody to read it: it may die of that or go on; one that
\* was starting binds before the next does.
Kill ==
    /\ wrapper # "none" /\ kills < MaxKills
    /\ kills' = kills + 1
    /\ wrapper' = "none" /\ server' = "off"
    /\ orphan' \in {orphan, orphan \/ server # "off"}
    /\ waiter' = IF wrapper \in {"waiting", "polling", "retrying"} THEN wrapper ELSE waiter
    /\ orphaned' = (orphaned \/ waiter' # "none")
    /\ UNCHANGED <<from, fileVars, builds, recoveries, lastBuild, crashes, breaks>>

OrphanEnds ==
    /\ orphan
    /\ orphan' = FALSE
    /\ UNCHANGED <<wrapper, from, server, fileVars, builds, recoveries, waiter, orphaned, kills,
                   lastBuild, crashes, breaks>>

\* A waiter without a wrapper takes recovery-done all the same, and nobody clears
\* the failure when its build succeeds.
OrphanLooks ==
    /\ waiter \in {"waiting", "polling"}
    /\ waiter' \in (IF done THEN {"retrying"} ELSE {"polling", "none"})
    /\ done' = FALSE
    /\ UNCHANGED <<wrapper, from, server, down, failureLog, builds, recoveries, orphan, orphaned,
                   kills, lastBuild, crashes, breaks>>

OrphanRetries ==
    /\ waiter = "retrying"
    /\ waiter' = "none"
    /\ IF builds THEN UNCHANGED fileVars ELSE WriteFailure
    /\ UNCHANGED <<wrapper, from, server, builds, recoveries, orphan, orphaned, kills, lastBuild,
                   crashes, breaks>>

-----------------------------------------------------------------------------
Wrap ==
    \/ StartWrapper \/ Check \/ Listen \/ Delay \/ BuildSucceeds \/ BuildFails
    \/ Look \/ RetrySucceeds \/ RetryFails

Next ==
    \/ Wrap \/ RequestRestart \/ Stop \/ Crash \/ TimeOut
    \/ Poll \/ RecoverySucceeds \/ RecoveryFails \/ Break
    \/ Kill \/ OrphanEnds \/ OrphanLooks \/ OrphanRetries

Spec == Init /\ [][Next]_supervisorVars

\* The processes run, the daemon polls, and recovery succeeds now and then.
FairSpec ==
    /\ Spec
    /\ WF_supervisorVars(Wrap) /\ WF_supervisorVars(Poll)
    /\ SF_supervisorVars(RecoverySucceeds)

-----------------------------------------------------------------------------
\* While the server is marked as down there is something that will end it: a
\* failure for the daemon, recovery-done for the waiter, or a build under way.
\* Only a waiter that has lost its wrapper can take that away.
RecoveryIsNotLost ==
    down /\ ~orphaned => failureLog \/ done \/ wrapper = "retrying"

\* However often it crashes or its code breaks, the server is back in the end.
ServerComesBack == []<>(server = "listening")

\* After a crash the server is started again if the build succeeds
\* (docs/resilience.md:13).
CrashIsRebuilt == wrapper = "waiting" => lastBuild # "ok"
=============================================================================
