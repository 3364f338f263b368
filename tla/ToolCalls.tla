------------------------------- MODULE ToolCalls -------------------------------
(***************************************************************************)
(* The tools a turn calls: the router with its guards, exec with its       *)
(* questions to the approval gate and the commands it runs itself on       *)
(* Windows, apply_edits, gh_pr_write with its limiter, and the substrate   *)
(* store that apply_edits reloads.                                         *)
(*                                                                         *)
(* Calls of different sessions interleave at every await.  A file is the   *)
(* set of its lines; a path that is not in Files is outside the profile.   *)
(* What the approval gate answers is free here (see ApprovalGate).  On     *)
(* other systems every command is of the form "run": a program on the      *)
(* host, which may leave anything in any file.                             *)
(***************************************************************************)
EXTENDS Naturals, Sequences, FiniteSets, SequencesExt, Filters

CONSTANTS Calls,
          Requests,      \* what a call can be: records, see the operators
          Files, NoFile, \* paths under the profile; the content of a missing one
          FirstFiles,    \* what is in them at first
          Contents,      \* what a program the sandbox runs may leave in a file
          AllowedBins, ConcurrencyCap,
          MaxWrites      \* maxWritesPerMinute and maxWritesPerRun of gh_pr_write

VARIABLES call,      \* per call: the request
          step,      \* per call: what it waits for
          questions, \* per call: what it has yet to ask the gate
          granted,   \* per call: what the gate has granted, "bin" for the part it is at
          at,        \* per call: the segment, path or substrate file it is at
          read,      \* per call: the content it has read and will change
          failed,    \* per call: paths it reports as failed
          outcome,   \* per call
          file, substrate,
          concurrentExecs, toolIsolation,
          recent, runCount,  \* the limiter's
          serial, raced, \* history: the files had every change been made alone;
                         \* files written over a change their writer had not read
          editor         \* history: per file, the edit call that wrote it last, if any
                         \* did and no command has changed it since

toolVars == <<call, step, questions, granted, at, read, failed, outcome, file, substrate,
              concurrentExecs, toolIsolation, recent, runCount, serial, raced, editor>>

Init ==
    /\ call \in [Calls -> Requests]
    /\ step = [c \in Calls |-> "new"]
    /\ questions = [c \in Calls |-> <<>>]
    /\ granted = [c \in Calls |-> {}]
    /\ at = [c \in Calls |-> 1]
    /\ read = [c \in Calls |-> NoFile]
    /\ failed = [c \in Calls |-> {}]
    /\ outcome = [c \in Calls |-> "none"]
    /\ file = FirstFiles /\ substrate = FirstFiles /\ serial = FirstFiles
    /\ concurrentExecs = 0 /\ toolIsolation = FALSE
    /\ recent = 0 /\ runCount = 0
    /\ raced = {} /\ editor = [f \in Files |-> {}]

Goes(c, where) == step' = [step EXCEPT ![c] = where]
Ends(c, how) == Goes(c, "done") /\ outcome' = [outcome EXCEPT ![c] = how]

limiterVars == <<recent, runCount>>
diskVars == <<file, serial, raced, editor>>
askVars == <<questions, granted>>

-----------------------------------------------------------------------------
\* What a command is.

\* Forms of the commands exec carries out itself; "read" stands for cat, ls, head,
\* tail, grep, wc, pwd, test, an echo to the output, and mkdir, whose intent is
\* "mutating"; "empty" for tee.
InTwoSteps == {"substitute", "change", "delete", "append", "add", "touch"}
InOneStep == {"write", "remove", "empty", "move", "copy"}

\* classifyCommandIntent; what a command not carried out here does to files does not show.
Intent(command) ==
    IF command.form \in InTwoSteps \cup InOneStep THEN "mutating" ELSE command.intent

\* It looks at all of the command, whatever part something is in.
ReadOnly(c) == \A i \in 1..Len(call[c].segments) : Intent(call[c].segments[i]) = "read-only"

\* Mutant: only the first part counts.
MutQuestionsOf(c) ==
    LET me == call[c] IN
    (IF me.destructive THEN <<"destructive">> ELSE <<>>)
    \o (IF Head(me.segments).bin \notin AllowedBins THEN <<"bin">> ELSE <<>>)
    \o (IF Intent(Head(me.segments)) # "read-only" THEN <<"intent">> ELSE <<>>)

\* What the gate is asked before anything runs.
QuestionsOf(c) ==
    LET me == call[c] IN
    (IF me.destructive THEN <<"destructive">> ELSE <<>>)
    \o (IF Head(me.segments).bin \notin AllowedBins THEN <<"bin">> ELSE <<>>)
    \o (IF ~ReadOnly(c) THEN <<"intent">> ELSE <<>>)

\* A line that matches is replaced, removed, or another one is put after it.
Sed(command, lines) ==
    IF command.old \notin lines THEN lines
    ELSE CASE command.form \in {"substitute", "change"} -> (lines \ {command.old}) \cup {command.new}
           [] command.form = "delete" -> lines \ {command.old}
           [] command.form = "append" -> lines \cup {command.new}

\* What a command makes of the content it has read.
Changed(command, content) ==
    CASE command.form = "add" -> (IF content = NoFile THEN {} ELSE content) \cup {command.new}
      [] command.form = "touch" -> {}
      [] OTHER -> Sed(command, content)

\* What a command that does not read first makes of the files.
Effect(command, files) ==
    CASE command.form = "write" -> [files EXCEPT ![command.path] = {command.new}]
      [] command.form = "empty" -> [files EXCEPT ![command.path] = {}]
      [] command.form = "remove" -> [files EXCEPT ![command.path] = NoFile]
      [] command.form = "copy" /\ files[command.path] # NoFile ->
             [files EXCEPT ![command.to] = files[command.path]]
      [] command.form = "move" /\ files[command.path] # NoFile ->
             [files EXCEPT ![command.to] = files[command.path], ![command.path] = NoFile]
      [] OTHER -> files

\* The files an edit call is about, in the order it names them, and the edits of one.
Paths(c) ==
    LET edits == call[c].edits
        upTo[n \in 0..Len(edits)] ==
            IF n = 0 THEN <<>>
            ELSE IF Contains(upTo[n - 1], edits[n].path) THEN upTo[n - 1]
            ELSE Append(upTo[n - 1], edits[n].path)
    IN  upTo[Len(edits)]
EditsOf(c, path) == SelectIn(call[c].edits, {e \in ToSet(call[c].edits) : e.path = path})

\* Mutant: an edit whose text is not there is passed over.
MutEdited(content, edits) ==
    LET upTo[n \in 0..Len(edits)] ==
            IF n = 0 THEN [lines |-> content, applied |-> TRUE]
            ELSE IF edits[n].old \in upTo[n - 1].lines
            THEN [lines |-> (upTo[n - 1].lines \ {edits[n].old}) \cup {edits[n].new},
                  applied |-> TRUE]
            ELSE upTo[n - 1]
    IN  upTo[Len(edits)]

\* Each edit is made to what the one before has left.
Edited(content, edits) ==
    LET upTo[n \in 0..Len(edits)] ==
            IF n = 0 THEN [lines |-> content, applied |-> TRUE]
            ELSE IF upTo[n - 1].applied /\ edits[n].old \in upTo[n - 1].lines
            THEN [lines |-> (upTo[n - 1].lines \ {edits[n].old}) \cup {edits[n].new},
                  applied |-> TRUE]
            ELSE [lines |-> upTo[n - 1].lines, applied |-> FALSE]
    IN  upTo[Len(edits)]

-----------------------------------------------------------------------------
\* ToolRouter.execute.

HighRisk(tool) == tool \in {"exec", "apply_edits", "gh_pr_write"}

Begins(c) == IF call[c].tool = "gh_pr_write" THEN "writeQuestion" ELSE "paths"

Route(c) ==
    LET me == call[c] IN
    /\ step[c] = "new"
    /\ \/ /\ me.tool = "unknown" /\ Ends(c, "unknown")
       \/ /\ HighRisk(me.tool) /\ toolIsolation /\ Ends(c, "isolated")
       \/ /\ me.tool # "unknown" /\ ~(HighRisk(me.tool) /\ toolIsolation)
          /\ \/ ~me.valid /\ Ends(c, "invalid")
             \/ me.valid /\ ~HighRisk(me.tool) /\ Ends(c, "ok")
             \/ /\ me.valid /\ HighRisk(me.tool)
                /\ Goes(c, IF me.tool = "exec" THEN "enter" ELSE "toolQuestion")
                /\ UNCHANGED outcome
    /\ UNCHANGED <<call, askVars, at, read, failed, diskVars, substrate, concurrentExecs,
                   toolIsolation, limiterVars>>

\* A high-risk tool other than exec is asked for by the router, gh_pr_write by itself, too.
AskForTool(c, yes) ==
    /\ step[c] \in {"toolQuestion", "writeQuestion"}
    /\ IF yes
       THEN /\ granted' = [granted EXCEPT ![c] = @ \cup {step[c]}]
            /\ Goes(c, IF step[c] = "toolQuestion" THEN Begins(c) ELSE "check")
            /\ UNCHANGED outcome
       ELSE Ends(c, "denied") /\ UNCHANGED granted
    /\ UNCHANGED <<call, questions, at, read, failed, diskVars, substrate, concurrentExecs,
                   toolIsolation, limiterVars>>

Isolate ==
    /\ ~toolIsolation /\ toolIsolation' = TRUE
    /\ UNCHANGED <<call, step, askVars, at, read, failed, outcome, diskVars, substrate,
                   concurrentExecs, limiterVars>>

-----------------------------------------------------------------------------
\* exec.

Leaves(c, how) == Ends(c, how) /\ concurrentExecs' = concurrentExecs - 1

Enter(c) ==
    /\ step[c] = "enter"
    /\ IF concurrentExecs >= ConcurrencyCap
       THEN Ends(c, "overCap") /\ UNCHANGED <<questions, concurrentExecs>>
       ELSE /\ concurrentExecs' = concurrentExecs + 1
            /\ questions' = [questions EXCEPT ![c] = QuestionsOf(c)]
            /\ Goes(c, "questions") /\ UNCHANGED outcome
    /\ UNCHANGED <<call, granted, at, read, failed, diskVars, substrate, toolIsolation, limiterVars>>

\* A binary that is not granted is an answer to the model, the others are errors.
Answer(c, yes) ==
    /\ step[c] = "questions" /\ questions[c] # <<>>
    /\ IF yes
       THEN /\ granted' = [granted EXCEPT ![c] = @ \cup {Head(questions[c])}]
            /\ questions' = [questions EXCEPT ![c] = Tail(@)]
            /\ UNCHANGED <<step, outcome, concurrentExecs>>
       ELSE /\ Leaves(c, IF Head(questions[c]) = "bin" THEN "refused" ELSE "denied")
            /\ UNCHANGED askVars
    /\ UNCHANGED <<call, at, read, failed, diskVars, substrate, toolIsolation, limiterVars>>

StartCommand(c) ==
    /\ step[c] = "questions" /\ questions[c] = <<>>
    /\ Goes(c, IF Len(call[c].segments) > 1 THEN "askBin" ELSE "command")
    /\ UNCHANGED <<call, askVars, at, read, failed, outcome, diskVars, substrate, concurrentExecs,
                   toolIsolation, limiterVars>>

Command(c) == call[c].segments[at[c]]

\* Each part of a compound command asks for its binary; a refusal ends the command.
AskForBin(c, yes) ==
    LET allowed == Command(c).bin \in AllowedBins IN
    /\ step[c] = "askBin"
    /\ IF at[c] > Len(call[c].segments)
       THEN Leaves(c, "ok") /\ UNCHANGED granted
       ELSE IF allowed \/ yes
            THEN /\ granted' = [granted EXCEPT ![c] =
                                  IF allowed THEN @ \ {"bin"} ELSE @ \cup {"bin"}]
                 /\ Goes(c, "command") /\ UNCHANGED <<outcome, concurrentExecs>>
            ELSE Leaves(c, "refused") /\ UNCHANGED granted
    /\ UNCHANGED <<call, questions, at, read, failed, diskVars, substrate, toolIsolation, limiterVars>>

\* On to the next part, also after one that did not find its file.
Following(c) ==
    IF Len(call[c].segments) > 1
    THEN /\ Goes(c, "askBin") /\ at' = [at EXCEPT ![c] = @ + 1]
         /\ UNCHANGED <<outcome, concurrentExecs>>
    ELSE Leaves(c, "ok") /\ UNCHANGED at

OutsideProfile(command) == \E p \in {command.path, command.to} : p \notin Files

\* A path outside the profile is an error.
Fail(c) ==
    /\ step[c] = "command" /\ OutsideProfile(Command(c))
    /\ Leaves(c, "error")
    /\ UNCHANGED <<call, askVars, at, read, failed, diskVars, substrate, toolIsolation, limiterVars>>

\* A command that only reads,
ReadFiles(c) ==
    /\ step[c] = "command" /\ ~OutsideProfile(Command(c)) /\ Command(c).form = "read"
    /\ Following(c)
    /\ UNCHANGED <<call, askVars, read, failed, diskVars, substrate, toolIsolation, limiterVars>>

\* No load of the substrate follows what a command changes.
ByCommand == editor' = [f \in Files |-> IF file'[f] = file[f] THEN editor[f] ELSE {}]

\* and any other, which the sandbox runs as a program of the host, or does not find:
\* it may change files, whatever its intent, and may fail after it has.
Run(c) ==
    /\ step[c] = "command" /\ ~OutsideProfile(Command(c)) /\ Command(c).form = "run"
    /\ \E touched \in SUBSET Files : \E left \in [touched -> Contents] :
           /\ file' = [f \in Files |-> IF f \in touched THEN left[f] ELSE file[f]]
           /\ serial' = [f \in Files |-> IF f \in touched THEN left[f] ELSE serial[f]]
    /\ ByCommand
    /\ \/ Following(c)
       \/ Leaves(c, "error") /\ UNCHANGED at
    /\ UNCHANGED <<call, askVars, read, failed, substrate, raced, toolIsolation, limiterVars>>

Overwrite(c) ==
    /\ step[c] = "command" /\ ~OutsideProfile(Command(c)) /\ Command(c).form \in InOneStep
    /\ file' = Effect(Command(c), file) /\ ByCommand
    /\ raced' = raced \cup (IF Command(c).path \in raced THEN {Command(c).to} ELSE {})
    /\ serial' = Effect(Command(c), serial)
    /\ Following(c)
    /\ UNCHANGED <<call, askVars, read, failed, substrate, toolIsolation, limiterVars>>

\* sed needs its file, echo >> and touch make it; touch leaves one that is there.
Look(c) ==
    LET content == file[Command(c).path] IN
    /\ step[c] = "command" /\ ~OutsideProfile(Command(c)) /\ Command(c).form \in InTwoSteps
    /\ IF \/ content = NoFile /\ Command(c).form \notin {"add", "touch"}
          \/ content # NoFile /\ Command(c).form = "touch"
       THEN Following(c) /\ UNCHANGED read
       ELSE /\ Goes(c, "write") /\ read' = [read EXCEPT ![c] = content]
            /\ UNCHANGED <<at, outcome, concurrentExecs>>
    /\ UNCHANGED <<call, askVars, failed, diskVars, substrate, toolIsolation, limiterVars>>

\* What was read may have been changed by another call; if it was not, what the call
\* would have made of the file alone is known.
Races(c, path, alone) ==
    /\ raced' = IF file[path] = read[c] THEN raced ELSE raced \cup {path}
    /\ serial' = IF path \in raced' THEN serial ELSE [serial EXCEPT ![path] = alone]

\* touch alone only makes a file that is missing.
Alone(command, content) ==
    IF command.form = "touch" /\ content # NoFile THEN content ELSE Changed(command, content)

Write(c) ==
    LET path == Command(c).path IN
    /\ step[c] = "write"
    /\ file' = [file EXCEPT ![path] = Changed(Command(c), read[c])]
    /\ ByCommand /\ Races(c, path, Alone(Command(c), serial[path]))
    /\ Following(c)
    /\ UNCHANGED <<call, askVars, read, failed, substrate, toolIsolation, limiterVars>>

-----------------------------------------------------------------------------
\* apply_edits.

Path(c) == Paths(c)[at[c]]
MorePaths(c) == at[c] <= Len(Paths(c))
NextPath(c) == at' = [at EXCEPT ![c] = @ + 1]

\* Every path is looked at before any file is.
CheckPaths(c) ==
    /\ step[c] = "paths"
    /\ IF ToSet(Paths(c)) \subseteq Files
       THEN Goes(c, "edit") /\ UNCHANGED outcome
       ELSE Ends(c, "error")
    /\ UNCHANGED <<call, askVars, at, read, failed, diskVars, substrate, concurrentExecs,
                   toolIsolation, limiterVars>>

\* A file that is missing, or lacks a text, is reported and the next one is read; one
\* that cannot be read ends the call, whatever it has written.
ReadForEdits(c, ok) ==
    /\ step[c] = "edit" /\ MorePaths(c)
    /\ IF ~ok THEN Ends(c, "error") /\ UNCHANGED <<at, read, failed>>
       ELSE IF file[Path(c)] # NoFile /\ Edited(file[Path(c)], EditsOf(c, Path(c))).applied
       THEN /\ read' = [read EXCEPT ![c] = file[Path(c)]] /\ Goes(c, "writeEdits")
            /\ UNCHANGED <<at, failed, outcome>>
       ELSE /\ failed' = [failed EXCEPT ![c] = @ \cup {Path(c)}] /\ NextPath(c)
            /\ UNCHANGED <<step, read, outcome>>
    /\ UNCHANGED <<call, askVars, diskVars, substrate, concurrentExecs, toolIsolation,
                   limiterVars>>

\* Either every edit of a file is made to it or none.
Wholly(content, edits) ==
    LET After[i \in 0..Len(edits)] ==
            IF i = 0 THEN content
            ELSE (After[i - 1] \ {edits[i].old}) \cup {edits[i].new}
    IN  IF \A i \in 1..Len(edits) : edits[i].old \in After[i - 1]
        THEN After[Len(edits)] ELSE content

WriteEdits(c, ok) ==
    LET edits == EditsOf(c, Path(c)) IN
    /\ step[c] = "writeEdits"
    /\ IF ok
       THEN /\ file' = [file EXCEPT ![Path(c)] = Edited(read[c], edits).lines]
            /\ editor' = [editor EXCEPT ![Path(c)] = {c}]
            /\ Races(c, Path(c), Wholly(serial[Path(c)], edits)) /\ UNCHANGED failed
       ELSE failed' = [failed EXCEPT ![c] = @ \cup {Path(c)}] /\ UNCHANGED diskVars
    /\ NextPath(c) /\ Goes(c, "edit")
    /\ UNCHANGED <<call, askVars, read, outcome, substrate, concurrentExecs, toolIsolation, limiterVars>>

\* Mutant: the substrate is not loaded again.
MutFinishEdits(c) ==
    /\ step[c] = "edit" /\ ~MorePaths(c)
    /\ Ends(c, IF failed[c] = {} THEN "ok" ELSE "failed")
    /\ UNCHANGED <<call, askVars, at, read, failed, diskVars, substrate, concurrentExecs,
                   toolIsolation, limiterVars>>

\* With a file that failed the call ends without loading the substrate.
FinishEdits(c) ==
    /\ step[c] = "edit" /\ ~MorePaths(c)
    /\ IF failed[c] = {}
       THEN Goes(c, "reload") /\ UNCHANGED outcome
       ELSE Ends(c, "failed")
    /\ UNCHANGED <<call, askVars, at, read, failed, diskVars, substrate, concurrentExecs,
                   toolIsolation, limiterVars>>

\* SubstrateStore.reload: the files are read, then they are the content.
LoadSubstrate(c) ==
    /\ step[c] = "reload"
    /\ read' = [read EXCEPT ![c] = file] /\ Goes(c, "set")
    /\ UNCHANGED <<call, askVars, at, failed, outcome, diskVars, substrate, concurrentExecs,
                   toolIsolation, limiterVars>>

SetSubstrate(c) ==
    /\ step[c] = "set"
    /\ substrate' = read[c] /\ Ends(c, "ok")
    /\ UNCHANGED <<call, askVars, at, read, failed, diskVars, concurrentExecs, toolIsolation,
                   limiterVars>>

-----------------------------------------------------------------------------
\* gh_pr_write.

CheckLimit(c) ==
    /\ step[c] = "check"
    /\ IF recent >= MaxWrites.perMinute \/ runCount >= MaxWrites.perRun
       THEN Ends(c, "limited")
       ELSE Goes(c, "post") /\ UNCHANGED outcome
    /\ UNCHANGED <<call, askVars, at, read, failed, diskVars, substrate, concurrentExecs,
                   toolIsolation, limiterVars>>

\* The sandbox either has the output or throws: there is no code to retry on.
Post(c, ok) ==
    /\ step[c] = "post"
    /\ IF ok
       THEN recent' = recent + 1 /\ runCount' = runCount + 1 /\ Ends(c, "ok")
       ELSE Ends(c, "error") /\ UNCHANGED limiterVars
    /\ UNCHANGED <<call, askVars, at, read, failed, diskVars, substrate, concurrentExecs, toolIsolation>>

\* A write is more than a minute ago.
MinutePasses ==
    /\ recent > 0 /\ recent' = recent - 1
    /\ UNCHANGED <<call, step, askVars, at, read, failed, outcome, diskVars, substrate,
                   concurrentExecs, toolIsolation, runCount>>

-----------------------------------------------------------------------------
Next ==
    \/ Isolate \/ MinutePasses
    \/ \E c \in Calls :
        \/ Route(c) \/ Enter(c) \/ StartCommand(c) \/ Fail(c)
        \/ ReadFiles(c) \/ Run(c) \/ Overwrite(c) \/ Look(c) \/ Write(c)
        \/ CheckPaths(c) \/ FinishEdits(c)
        \/ LoadSubstrate(c) \/ SetSubstrate(c) \/ CheckLimit(c)
        \/ \E yes \in BOOLEAN :
            \/ AskForTool(c, yes) \/ Answer(c, yes) \/ AskForBin(c, yes)
            \/ ReadForEdits(c, yes) \/ WriteEdits(c, yes) \/ Post(c, yes)

Spec == Init /\ [][Next]_toolVars

-----------------------------------------------------------------------------
\* A file that nobody wrote over an unread change holds what the calls would have
\* left had each of them run alone: no part of a failed edit, no half of a command.
FilesAreSerial == \A f \in Files \ raced : file[f] = serial[f]

ChangesFiles(c) == file' # file /\ <<step[c], at[c]>>' # <<step[c], at[c]>>

\* Whenever a call changes a file the gate has granted, for apply_edits the tool, for
\* exec a destructive signature and the intent of the whole command, even where only its
\* last part changes something.  What is not asked about is a program in the allowlist,
\* or granted for itself, in a command of which every part passes for reading.
ChangesAreApproved ==
    [][\A c \in Calls : ChangesFiles(c) =>
          IF call[c].tool = "exec"
          THEN /\ call[c].destructive => "destructive" \in granted[c]
               /\ \/ "intent" \in granted[c]
                  \/ /\ ReadOnly(c) /\ Command(c).form = "run"
                     /\ Command(c).bin \in AllowedBins \/ "bin" \in granted[c]
          ELSE "toolQuestion" \in granted[c]]_toolVars

\* "Any network-impacting, mutating, or privileged command requires explicit capability
\* grant": no command changes a file before the gate has granted something.
MutationsNeedGrants ==
    [][\A c \in Calls : ChangesFiles(c) => granted[c] # {}]_toolVars

\* The files of which the last change is an edit of this call are in the substrate.
Loaded(c) == \A f \in Files : editor[f] = {c} => substrate[f] = file[f]

EndsEdits(c) == call[c].tool = "apply_edits" /\ step[c] # "done" /\ step'[c] = "done"

\* An edit call that reports success has its edits in the substrate of the next prompt,
\* except where another call has changed the file since.
EditsReachTheSubstrate ==
    [][\A c \in Calls : EndsEdits(c) /\ outcome'[c] = "ok" => Loaded(c)']_toolVars

\* "When onEditsApplied is provided and any file was written, it is called": a call
\* that reports its results has its edits in the substrate, also if it failed in part.
AnyWriteIsLoaded ==
    [][\A c \in Calls : EndsEdits(c) /\ outcome'[c] \in {"ok", "failed"} => Loaded(c)']_toolVars

\* "so the caller can reload substrate (and other caches) for the next turn": with no
\* call under way, what a successful call has loaded has not been put back by an older load.
LoadedEditsStay ==
    (\A c \in Calls : step[c] \in {"new", "done"}) =>
        \A c \in Calls : call[c].tool = "apply_edits" /\ outcome[c] = "ok" => Loaded(c)
=============================================================================
