---------------------------- MODULE ConfigStore ----------------------------
(***************************************************************************)
(* The configuration: the object configRef.current points to, its file,    *)
(* the gateway methods that change both (config.patch, profile.create,     *)
(* profile.delete, config.reload) and the watcher that reloads the file    *)
(* when somebody edits it.                                                 *)
(*                                                                         *)
(* A configuration is the set of changes it has.  config.patch makes a new *)
(* object; the profile methods change the current one in place and write   *)
(* that object later, whether or not it still is the current one.          *)
(***************************************************************************)
EXTENDS Naturals, Sequences

CONSTANTS Changes,   \* requests, each with the change it makes
          KindOf,    \* [Changes -> "patch", "bind", "create" or "delete"]
          Edits,     \* changes made in an editor
          Reloads    \* reloads (bound)

VARIABLES doing,     \* per request: where its handler is
          held,      \* per request: the object it works on
          text,      \* per request: what it is about to write
          objects,   \* the configuration objects made so far
          current,   \* configRef.current
          file,      \* openclaw.json
          justWrote, \* less than two seconds since lastConfigWriteTime
          watcher,   \* the watcher's timer: "off", or set by an "own" write or an "edit"
          edited, reloads,
          raced      \* history: handlers overlapped, failed, or an editor was used

configVars == <<doing, held, text, objects, current, file, justWrote, watcher,
                edited, reloads, raced>>

Init ==
    /\ doing = [c \in Changes |-> "new"]
    /\ held = [c \in Changes |-> 1]
    /\ text = [c \in Changes |-> {}]
    /\ objects = <<{}>> /\ current = 1
    /\ file = {}
    /\ justWrote = FALSE /\ watcher = "off"
    /\ edited = {} /\ reloads = 0
    /\ raced = FALSE

-----------------------------------------------------------------------------
InFlight == {c \in Changes : doing[c] \in {"validating", "preparing", "writing"}}
Step(c, step) == doing' = [doing EXCEPT ![c] = step]
Races == raced' = (raced \/ InFlight # {})
Add(value) == objects' = Append(objects, value)

\* writeConfigToDisk: the text is made now, the file replaced at the end.
Serialize(c, value) == text' = [text EXCEPT ![c] = value]

\* config.patch: merged into a copy, which becomes the configuration at once.
Patch(c) ==
    LET merged == objects[current] \cup {c}
    IN  /\ doing[c] = "new" /\ KindOf[c] = "patch"
        /\ Step(c, "writing") /\ Races
        /\ Add(merged) /\ current' = Len(objects')
        /\ Serialize(c, merged)
        /\ UNCHANGED <<held, file, justWrote, watcher, edited, reloads>>

\* A patch of the bind address is merged before, and becomes the configuration
\* after, the address was looked up.
PatchBind(c) ==
    /\ doing[c] = "new" /\ KindOf[c] = "bind"
    /\ Step(c, "validating") /\ Races
    /\ Add(objects[current] \cup {c})
    /\ held' = [held EXCEPT ![c] = Len(objects')]
    /\ UNCHANGED <<text, current, file, justWrote, watcher, edited, reloads>>

AddressIsSafe(c) ==
    /\ doing[c] = "validating"
    /\ Step(c, "writing")
    /\ current' = held[c]
    /\ Serialize(c, objects[held[c]])
    /\ UNCHANGED <<held, objects, file, justWrote, watcher, edited, reloads, raced>>

AddressIsNot(c) ==
    /\ doing[c] = "validating"
    /\ Step(c, "failed")
    /\ UNCHANGED <<held, text, objects, current, file, justWrote, watcher, edited,
                   reloads, raced>>

\* profile.create and profile.delete assign to the current object.
ChangeInPlace(c) ==
    /\ doing[c] = "new" /\ KindOf[c] \in {"create", "delete"}
    /\ objects' = [objects EXCEPT ![current] = @ \cup {c}]
    /\ held' = [held EXCEPT ![c] = current]
    /\ Races
    /\ IF KindOf[c] = "create"
       THEN Step(c, "preparing") /\ UNCHANGED text
       ELSE Step(c, "writing") /\ Serialize(c, objects'[current])
    /\ UNCHANGED <<current, file, justWrote, watcher, edited, reloads>>

\* The profile's directory is there, with what was copied into it.
Prepared(c) ==
    /\ doing[c] = "preparing"
    /\ Step(c, "writing")
    /\ Serialize(c, objects[held[c]])
    /\ UNCHANGED <<held, objects, current, file, justWrote, watcher, edited, reloads, raced>>

\* Mutant: the file is written without telling the watcher.
MutWritten(c) ==
    /\ doing[c] = "writing"
    /\ Step(c, "done")
    /\ UNCHANGED file
    /\ justWrote' = TRUE /\ watcher' = "own"
    /\ UNCHANGED <<held, text, objects, current, edited, reloads, raced>>

\* The new file is in place, and onConfigWritten called.
Written(c) ==
    /\ doing[c] = "writing"
    /\ Step(c, "done")
    /\ file' = text[c]
    /\ justWrote' = TRUE /\ watcher' = "own"
    /\ UNCHANGED <<held, text, objects, current, edited, reloads, raced>>

\* A directory or the file cannot be made: the request fails, and what it did
\* to the configuration stays.
WriteFails(c) ==
    /\ doing[c] \in {"preparing", "writing"}
    /\ Step(c, "failed")
    /\ raced' = TRUE
    /\ UNCHANGED <<held, text, objects, current, file, justWrote, watcher, edited, reloads>>

-----------------------------------------------------------------------------
Load == Add(file) /\ current' = Len(objects')

\* config.reload.
Reload ==
    /\ reloads < Reloads
    /\ reloads' = reloads + 1
    /\ Load /\ Races
    /\ UNCHANGED <<doing, held, text, file, justWrote, watcher, edited>>

\* Somebody saves the file from an editor.
Edit(e) ==
    /\ e \notin edited
    /\ edited' = edited \cup {e}
    /\ file' = file \cup {e}
    /\ watcher' = "edit"
    /\ raced' = TRUE
    /\ UNCHANGED <<doing, held, text, objects, current, justWrote, reloads>>

\* The timer comes half a second after the last change of the file.
WatcherFires ==
    /\ watcher # "off"
    /\ watcher' = "off"
    /\ IF justWrote THEN UNCHANGED <<objects, current>> ELSE Load
    /\ UNCHANGED <<doing, held, text, file, justWrote, edited, reloads, raced>>

\* Two seconds pass; the timer a write of its own set has come by then.
WritePasses ==
    /\ justWrote /\ watcher # "own"
    /\ justWrote' = FALSE
    /\ UNCHANGED <<doing, held, text, objects, current, file, watcher, edited, reloads, raced>>

-----------------------------------------------------------------------------
Handle(c) ==
    \/ Patch(c) \/ PatchBind(c) \/ AddressIsSafe(c) \/ AddressIsNot(c)
    \/ ChangeInPlace(c) \/ Prepared(c) \/ Written(c) \/ WriteFails(c)

Next ==
    \/ \E c \in Changes : Handle(c)
    \/ Reload \/ WatcherFires \/ WritePasses
    \/ \E e \in Edits : Edit(e)

Spec == Init /\ [][Next]_configVars

-----------------------------------------------------------------------------
Quiet == InFlight = {} /\ watcher = "off"

\* When every handler has answered and the watcher rests, the program runs with
\* the configuration of its file (index.ts:1135-1136: the watcher is kept from
\* racing with the gateway's writes).
MemoryAgreesWithFile == Quiet => objects[current] = file

\* So it is as long as requests come one after another and nobody edits the file.
AgreesUnlessRaced == ~raced => MemoryAgreesWithFile
=============================================================================
