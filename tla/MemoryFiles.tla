---------------------------- MODULE MemoryFiles ----------------------------
(***************************************************************************)
(* The memory of one profile: MEMORY.md, which turns append records to,    *)
(* the rolling window that trims it after an append, the background        *)
(* compaction that merges old records into one and keeps summaries in      *)
(* LONGMEMORY.md, the archive, and the embedding index over MEMORY.md.     *)
(*                                                                         *)
(* Nothing but the compaction's own lock file coordinates them, and each   *)
(* file operation is awaited, so any other may come in between.  A record  *)
(* counts one towards the limits, whether they are given in records or in  *)
(* characters; how many texts fit into a summary is left open.  The daily  *)
(* files are only appended to; the backup of a compaction is never read.   *)
(***************************************************************************)
EXTENDS Naturals, Sequences, FiniteSets, SequencesExt, Filters

CONSTANTS Records,      \* 1..n, each appended by the turn that makes it
          Compactable,  \* notes and turn summaries older than memoryCompactionMinAgeDays
          Window,       \* continuity.memoryMaxRecords; 0 if not set
          CompactOver,  \* continuity.memoryCompactionMaxRecords
          LongBlocks,   \* summaries that fit into LONGMEMORY.md
          MaxIndexed,   \* memoryEmbeddingsMaxRecords
          MaxCompactions, MaxDeaths   \* bounds

VARIABLES archiving, \* whether memoryArchivePath is set
          adding,    \* per record: where its append is
          seen,      \* per record: what its append's trim read
          memory,    \* MEMORY.md: records, and summaries (SummaryNo)
          daily,     \* memory/<date>.md
          archive,   \* memoryArchivePath
          long,      \* LONGMEMORY.md: numbers of summaries
          index,     \* the embedding index
          work,      \* what the compaction is doing
          snapshot,  \* the MEMORY.md it read
          lock,      \* tmp/memory-compaction.lock exists
          summary,   \* history: the records each summary was made from
          exposed,   \* history: records appended while somebody who had read MEMORY.md
                     \* had not written it yet
          gone,      \* history: what was dropped with no archive to go to, and what a
                     \* death kept from the archive or tore with the file
          deaths

compactVars == <<work, snapshot, lock>>
fileVars == <<memory, daily, archive, long>>
lossVars == <<archiving, exposed, gone, deaths>>
memoryVars == <<adding, seen, fileVars, index, compactVars, summary, lossVars>>

\* The number a summary has among the records.
SummaryNo(k) == k + Cardinality(Records)

Init ==
    /\ archiving \in BOOLEAN
    /\ adding = [r \in Records |-> "new"]
    /\ seen = [r \in Records |-> <<>>]
    /\ memory = <<>> /\ daily = {} /\ archive = {} /\ long = <<>>
    /\ index = {}
    /\ work = "idle" /\ snapshot = <<>>
    /\ lock = FALSE
    /\ summary = <<>>
    /\ exposed = {} /\ gone = {}
    /\ deaths = 0

-----------------------------------------------------------------------------
\* upsertFromRecords: what MEMORY.md has, the last ones if there are too many.
Lasts(s, n) == IF Len(s) > n THEN SubSeq(s, Len(s) - n + 1, Len(s)) ELSE s
SyncIndex == index' = Range(Lasts(memory, MaxIndexed))

Steps(r, to) == adding' = [adding EXCEPT ![r] = to]

\* Somebody has read the file and will replace it.
Replacing == work \in {"lock", "rewrite"} \/ \E r \in Records : adding[r] = "rewrite"

\* MemoryStore.append: both files, then the window.
AppendPrimary(r) ==
    /\ adding[r] = "new"
    /\ memory' = Append(memory, r)
    /\ exposed' = IF Replacing THEN exposed \cup {r} ELSE exposed
    /\ Steps(r, "daily")
    /\ UNCHANGED <<seen, daily, archive, long, index, compactVars, summary, archiving, gone,
                   deaths>>

AppendDaily(r) ==
    /\ adding[r] = "daily"
    /\ daily' = daily \cup {r}
    /\ Steps(r, IF Window = 0 THEN "done" ELSE "trim")
    /\ UNCHANGED <<seen, memory, archive, long, index, compactVars, summary, lossVars>>

\* maybeTrimAfterAppend reads the file.
ReadForTrim(r) ==
    /\ adding[r] = "trim"
    /\ seen' = [seen EXCEPT ![r] = memory]
    /\ Steps(r, IF Len(memory) > Window THEN "rewrite" ELSE "done")
    /\ UNCHANGED <<fileVars, index, compactVars, summary, lossVars>>

\* Mutant: one record more is dropped than is archived.
MutKept(r) == Lasts(seen[r], Window - 1)

Kept(r) == Lasts(seen[r], Window)
Dropped(r) == SubSeq(seen[r], 1, Len(seen[r]) - Window)

\* ... and writes it without the oldest,
Trim(r) ==
    /\ adding[r] = "rewrite"
    /\ memory' = Kept(r)
    /\ Steps(r, "archive")
    /\ UNCHANGED <<seen, daily, archive, long, index, compactVars, summary, lossVars>>

\* Records go to the archive, or if there is none, those held nowhere else are gone.
ToArchive(records, loose) ==
    /\ archive' = IF archiving THEN archive \cup records ELSE archive
    /\ gone' = IF archiving THEN gone ELSE gone \cup loose
    /\ UNCHANGED <<archiving, exposed, deaths>>

\* which go to the archive; the index follows.
ArchiveTrimmed(r) ==
    /\ adding[r] = "archive"
    /\ ToArchive(Range(Dropped(r)), Range(Dropped(r)))
    /\ Steps(r, "sync")
    /\ UNCHANGED <<seen, memory, daily, long, index, compactVars, summary>>

SyncAfterTrim(r) ==
    /\ adding[r] = "sync"
    /\ SyncIndex
    /\ Steps(r, "done")
    /\ UNCHANGED <<seen, fileVars, compactVars, summary, lossVars>>

\* recall_memory brings the index up to date before it asks it.
Recall ==
    /\ index # Range(Lasts(memory, MaxIndexed))
    /\ SyncIndex
    /\ UNCHANGED <<adding, seen, fileVars, compactVars, summary, lossVars>>

-----------------------------------------------------------------------------
\* runMemoryCompaction, one at a time: the scheduler runs it for a profile when it
\* is done with the one before.

\* The file is read before the lock is looked at.
ReadForCompaction ==
    /\ work = "idle" /\ Len(summary) < MaxCompactions
    /\ Len(memory) > CompactOver
    /\ snapshot' = memory
    /\ work' = "lock"
    /\ UNCHANGED <<adding, seen, fileVars, index, lock, summary, lossVars>>

AcquireLock ==
    /\ work = "lock"
    /\ lock' = TRUE
    /\ work' = IF lock THEN "idle" ELSE "rewrite"
    /\ UNCHANGED <<adding, seen, fileVars, index, snapshot, summary, lossVars>>

ToCompact == Range(snapshot) \cap Compactable
ToKeep == SelectIn(snapshot, Range(snapshot) \ Compactable)

\* Their texts are joined and cut at 15000 characters: so many of them fit.
Merged(fit) == {SelectIn(snapshot, Compactable)[i] : i \in 1..fit}
Unmerged    == ToCompact \ summary[Len(summary)]

NothingToCompact ==
    /\ work = "rewrite" /\ ToCompact = {}
    /\ work' = "unlock"
    /\ UNCHANGED <<adding, seen, fileVars, index, snapshot, lock, summary, lossVars>>

\* The new file is written beside the old and renamed.
Rewrite ==
    /\ work = "rewrite" /\ ToCompact # {}
    /\ \E fit \in 0..Len(SelectIn(snapshot, Compactable)) :
           summary' = Append(summary, Merged(fit))
    /\ memory' = <<SummaryNo(Len(summary'))>> \o ToKeep
    /\ work' = "archive"
    /\ UNCHANGED <<adding, seen, daily, archive, long, index, snapshot, lock, lossVars>>

ArchiveCompacted ==
    /\ work = "archive"
    /\ ToArchive(ToCompact, Unmerged)
    /\ work' = "summarize"
    /\ UNCHANGED <<adding, seen, memory, daily, long, index, snapshot, lock, summary>>

\* The new summary is put at the end; if they are too long, they are taken over
\* from the end as far as they fit.
WithBlock(blocks, n) ==
    LET all == Append(blocks, n)
    IN  IF Len(all) > LongBlocks THEN SubSeq(Reverse(all), 1, LongBlocks) ELSE all

WriteLongMemory ==
    /\ work = "summarize"
    /\ long' = WithBlock(long, Len(summary))
    /\ work' = "sync"
    /\ UNCHANGED <<adding, seen, memory, daily, archive, index, snapshot, lock, summary,
                   lossVars>>

SyncAfterCompaction ==
    /\ work = "sync"
    /\ SyncIndex
    /\ work' = "unlock"
    /\ UNCHANGED <<adding, seen, fileVars, snapshot, lock, summary, lossVars>>

Unlock ==
    /\ work = "unlock"
    /\ lock' = FALSE
    /\ work' = "idle"
    /\ UNCHANGED <<adding, seen, fileVars, index, snapshot, summary, lossVars>>

-----------------------------------------------------------------------------
\* The process dies and starts again: the files stay, the lock file among them.
\* What was dropped and not archived yet is gone; a trim that dies while it
\* writes leaves nothing.
Interrupted == {r \in Records : adding[r] \in {"daily", "trim", "rewrite", "archive", "sync"}}

Unarchived ==
    (UNION {Range(Dropped(r)) : r \in {q \in Records : adding[q] = "archive"}})
        \cup (IF work = "archive" THEN Unmerged ELSE {})

Die ==
    /\ deaths < MaxDeaths
    /\ deaths' = deaths + 1
    /\ \/ UNCHANGED memory /\ gone' = gone \cup Unarchived
       \/ /\ \E r \in Records : adding[r] = "rewrite"
          /\ memory' = <<>>
          /\ gone' = gone \cup Unarchived \cup Range(memory)
    /\ adding' = [r \in Records |-> IF r \in Interrupted THEN "done" ELSE adding[r]]
    /\ work' = "idle"
    /\ UNCHANGED <<seen, daily, archive, long, index, snapshot, lock, summary,
                   archiving, exposed>>

-----------------------------------------------------------------------------
Add(r) ==
    \/ AppendPrimary(r) \/ AppendDaily(r) \/ ReadForTrim(r) \/ Trim(r) \/ ArchiveTrimmed(r)
    \/ SyncAfterTrim(r)

Compact ==
    \/ ReadForCompaction \/ AcquireLock \/ NothingToCompact \/ Rewrite \/ ArchiveCompacted
    \/ WriteLongMemory \/ SyncAfterCompaction \/ Unlock

Next ==
    \/ \E r \in Records : Add(r)
    \/ Compact \/ Recall \/ Die

Spec == Init /\ [][Next]_memoryVars

-----------------------------------------------------------------------------
\* Whatever trims, compactions and deaths follow and overlap each other, a record is lost
\* in three ways only: it was appended between a trim's or a compaction's reading of
\* MEMORY.md and its writing; there is no archive, and the window dropped it or its text
\* did not fit into the summary; or a death came between a rewrite and its archive, or tore
\* the file.  Every other record is in MEMORY.md, in the archive or on its way there, itself
\* or in one of the summaries: nothing is lost to two rewrites that overlap.
Holds(places, r) ==
    r \in places \/ \E k \in DOMAIN summary : SummaryNo(k) \in places /\ r \in summary[k]

EveryRecordIsKept ==
    \A r \in Records \ exposed :
        adding[r] = "done" => Holds(Range(memory) \cup archive \cup Unarchived \cup gone, r)

\* Compaction removes no recent record, and none of a category that is kept: what
\* docs/LONG-TERM-MEMORY-AND-VECTOR-EXPERIENCES-IMPLEMENTATION.md:79 says of it ("no
\* recent or high-value records removed").
CompactionSparesOthers ==
    [][work = "rewrite" /\ work' = "archive" =>
          Range(memory) \ Range(memory') \subseteq Compactable]_memoryVars

\* The summaries that are left are the newest (memory-compaction.ts:27, "trim
\* oldest blocks when over").
NewestSummariesAreLeft ==
    work = "idle" /\ deaths = 0 =>
        \A i \in DOMAIN long : long[i]..Len(summary) \subseteq Range(long)
=============================================================================
