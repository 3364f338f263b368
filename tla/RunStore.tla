------------------------------ MODULE RunStore ------------------------------
(***************************************************************************)
(* RunStore of src/src/run-store.ts: the records of runs in memory, the    *)
(* state file, and the chain of writes between them.  Each operation       *)
(* changes the records at once and awaits a write of its own; a write      *)
(* serialises the records when its turn comes and lands with a rename, so  *)
(* the file is always some earlier value of the records.                   *)
(*                                                                         *)
(* `prune` is left out: it only acts beyond maxCompletedRuns = 10 000      *)
(* consumed records.  So are failing writes.                               *)
(***************************************************************************)
EXTENDS Naturals, Sequences

CONSTANTS Runs  \* run ids: bounds how many are ever created

VARIABLES
    mem,      \* this.records
    disk,     \* the state file
    chain,    \* this.writeChain: who awaits the writes not yet done, in order
    writing,  \* the write at the head of the chain has serialised its payload
    payload   \* that payload

storeVars == <<mem, disk, chain, writing, payload>>

Statuses == {"absent", "pending", "completed", "failed", "interrupted"}
Records  == [status : Statuses, consumed : BOOLEAN]
Absent   == [status |-> "absent", consumed |-> FALSE]
NoRuns   == [r \in Runs |-> Absent]

StoreInit ==
    /\ mem = NoRuns
    /\ disk = NoRuns
    /\ chain = <<>>
    /\ writing = FALSE
    /\ payload = NoRuns

\* o awaits persist(): its write joins the chain.
Persist(o) ==
    /\ chain' = Append(chain, o)
    /\ UNCHANGED <<disk, writing, payload>>

\* o is not, or no longer, waiting for a write.
Saved(o) == \A i \in DOMAIN chain : chain[i] # o

SetStatus(r, status) == mem' = [mem EXCEPT ![r].status = status]

CreatePending(r, o) ==
    /\ mem' = [mem EXCEPT ![r] = [status |-> "pending", consumed |-> FALSE]]
    /\ Persist(o)

MarkCompleted(r, o) == SetStatus(r, "completed") /\ Persist(o)

MarkFailed(r, o) == SetStatus(r, "failed") /\ Persist(o)

\* Without a record consume returns without a write.
Consume(r, o) ==
    IF mem[r].status = "absent"
    THEN UNCHANGED storeVars
    ELSE mem' = [mem EXCEPT ![r].consumed = TRUE] /\ Persist(o)

\* What get(r) finds: nothing once the record is consumed.
Visible(r) == mem[r].status # "absent" /\ ~mem[r].consumed

Interrupted == {r \in Runs : mem[r].status = "interrupted"}

\* Mutant: records in flight stay pending.
MutInterruptInFlight(rs) == rs

\* markInFlightInterrupted on the records `rs` just loaded.
InterruptInFlight(rs) ==
    [r \in Runs |-> IF rs[r].status = "pending"
                    THEN [rs[r] EXCEPT !.status = "interrupted"]
                    ELSE rs[r]]

\* load() and markInFlightInterrupted() when the process starts: a write only
\* when some record changed.
Load(o) ==
    /\ mem' = InterruptInFlight(disk)
    /\ chain' = IF mem' = disk THEN <<>> ELSE <<o>>
    /\ UNCHANGED <<disk, writing, payload>>

\* The process dies: the file survives, the records and the chain do not.
Lose ==
    /\ mem' = disk
    /\ chain' = <<>>
    /\ writing' = FALSE
    /\ payload' = NoRuns
    /\ UNCHANGED disk

\* The write at the head of the chain serialises the records ...
StartWrite ==
    /\ chain # <<>>
    /\ ~writing
    /\ writing' = TRUE
    /\ payload' = mem
    /\ UNCHANGED <<mem, disk, chain>>

\* ... and later renames the temporary file over the state file.
FinishWrite ==
    /\ writing
    /\ disk' = payload
    /\ chain' = Tail(chain)
    /\ writing' = FALSE
    /\ payload' = NoRuns
    /\ UNCHANGED mem
=============================================================================
