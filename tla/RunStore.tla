------------------------------ MODULE RunStore ------------------------------
(***************************************************************************)
(* The local benchmark history (benchmark/store): one journal per run,     *)
(* tombstones of deleted runs, receipts of accepted uploads and the        *)
(* markers of the cache of recent ones.  Several application instances     *)
(* share the directory; any of them can be killed between two file         *)
(* operations, an operation can fail, and the machine can lose power.      *)
(*                                                                         *)
(* A store operation holds the store lock, so what it will do is decided   *)
(* by what it finds: it is a plan of file operations, carried out one by   *)
(* one.  A file exists in two places, where processes see it and on the    *)
(* disk; a rename or removal reaches the disk at the latest when its       *)
(* directory is synced.                                                    *)
(***************************************************************************)
EXTENDS Naturals, Sequences, FiniteSets

CONSTANTS Runs, Procs, Receipts,
          CacheLimit, \* RECENT_CACHE_LIMIT
          MaxRows,    \* bound of the model: measurements of a run
          MaxFaults,  \* bound of the model: failures, kills and power losses
          NoFile

VARIABLES
    file,    \* file[r]: the files of run r as processes see them
    disk,    \* disk[r]: the same after a power loss
    active,  \* active[p]: the run process p measures, its run lock held
    marker,  \* active-runs: the markers of running measurements
    op,      \* the operation holding the store lock, NoFile if none
    faults,  \* failures, kills and power losses so far
    kept,    \* history: measurements of r reported as persisted
    deleted, \* history: runs whose deletion was reported done
    asked,   \* history: runs the user asked to delete
    shaky,   \* history: runs whose deletion once stopped before its tombstone was synced
    acked,   \* history: acked[r], the receipt reported as recorded
    evicted  \* history: runs evicted from the recent cache

storeFiles   == <<file, disk>>
storeHistory == <<kept, deleted, asked, shaky, acked, evicted>>
storeVars    == <<storeFiles, active, marker, op, faults, storeHistory>>

Journals == [origin : {"native", "legacy"}, rows : 0..MaxRows,
             end : {"open", "good", "bad"}]
Accepted == [receipt : Receipts, print : Journals \cup {NoFile}]
Files    == [journal : Journals \cup {NoFile}, tomb : BOOLEAN,
             receipt : Accepted \cup {NoFile}, cand : Accepted \cup {NoFile}]
Names    == {"journal", "tomb", "receipt", "cand"}

\* File operations, and the operations of the store made of them.
Steps == [do : {"sync"}, name : Names, run : Runs, value : {NoFile}]
    \cup [do : {"put"}, name : {"journal"}, run : Runs, value : Journals \cup {NoFile}]
    \cup [do : {"put"}, name : {"tomb"}, run : Runs, value : {TRUE}]
    \cup [do : {"put"}, name : {"receipt", "cand"}, run : Runs, value : Accepted \cup {NoFile}]
Operations == [proc : Procs, kind : {"begin", "import", "delete", "ack", "prune"}, run : Runs,
               receipt : Receipts \cup {NoFile}, todo : Seq(Steps), left : SUBSET Runs]

ASSUME StoreBounds ==
    /\ {CacheLimit, MaxRows, MaxFaults} \subseteq Nat
    /\ NoFile \notin Procs \cup Runs \cup Receipts \cup Journals \cup Accepted \cup Operations

StoreTypeOK ==
    /\ file \in [Runs -> Files] /\ disk \in [Runs -> Files]
    /\ active \in [Procs -> Runs \cup {NoFile}]
    /\ marker \subseteq Runs
    /\ op \in Operations \cup {NoFile}
    /\ kept \in [Runs -> 0..MaxRows]
    /\ acked \in [Runs -> Receipts \cup {NoFile}]
    /\ {deleted, asked, shaky, evicted} \subseteq SUBSET Runs

NoFiles == [journal |-> NoFile, tomb |-> FALSE, receipt |-> NoFile, cand |-> NoFile]

StoreInit ==
    /\ file = [r \in Runs |-> NoFiles] /\ disk = file
    /\ active = [p \in Procs |-> NoFile]
    /\ marker = {} /\ op = NoFile /\ faults = 0
    /\ kept = [r \in Runs |-> 0]
    /\ acked = [r \in Runs |-> NoFile]
    /\ deleted = {} /\ asked = {} /\ shaky = {} /\ evicted = {}

-----------------------------------------------------------------------------
(* File operations *)

Put(f, r, v) == [do |-> "put", name |-> f, run |-> r, value |-> v]
Cut(f, r)    == Put(f, r, NoFile)
\* sync_parent: a directory is synced with all its entries.
Sync(f, r)   == [do |-> "sync", name |-> f, run |-> r, value |-> NoFile]

\* Assumed of the file system: the directories of the store (runs,
\* receipts, deletions) exist and survive a power loss, so that one sync makes a file
\* durable.  begin creates a missing runs directory without syncing its parent.  Outside
\* Unix sync_parent does nothing, and the file system's journal has to do its work.
Durably(f, r, v) == <<Put(f, r, v), Sync(f, r)>>

Seen(step) ==
    IF step.do = "put" THEN [file EXCEPT ![step.run][step.name] = step.value] ELSE file
Synced(step) ==
    IF step.do = "sync"
    THEN [r \in Runs |-> [disk[r] EXCEPT ![step.name] = file[r][step.name]]]
    ELSE disk

-----------------------------------------------------------------------------
(* Locks *)

\* The run lock of r is taken: outside store operations only measurements hold one.
Measured(r) == \E p \in Procs : active[p] = r

\* A store operation of process p on run r begins with the store lock.
Starts(p, kind, r, x, steps) ==
    /\ op = NoFile
    /\ op' = [proc |-> p, kind |-> kind, run |-> r, receipt |-> x, todo |-> steps, left |-> {}]
    /\ UNCHANGED faults

\* path_for: an id is used once, also after its journal is gone.
FreshWithoutReceipt(r) == file[r].journal = NoFile /\ ~file[r].tomb
Fresh(r) == file[r].journal = NoFile /\ ~file[r].tomb /\ file[r].receipt = NoFile

-----------------------------------------------------------------------------
(* Measurements *)

Opened == [origin |-> "native", rows |-> 0, end |-> "open"]

\* The window draws a fresh id for every measurement.
BeginRun(p, r) ==
    /\ active[p] = NoFile
    /\ r \notin asked
    /\ Fresh(r) /\ ~Measured(r)
    /\ Starts(p, "begin", r, NoFile, Durably("journal", r, Opened))
    /\ UNCHANGED <<storeFiles, active, marker, storeHistory>>

\* A write to the journal ends with a sync, and is rolled back when it fails.
Written(r, entry) ==
    /\ file' = [file EXCEPT ![r].journal = entry]
    /\ disk' = [disk EXCEPT ![r].journal = entry]

Checkpoint(p) ==
    \E r \in Runs :
        /\ active[p] = r
        /\ file[r].journal.rows < MaxRows
        /\ LET entry == [file[r].journal EXCEPT !.rows = @ + 1, !.end = "open"]
           IN  Written(r, entry) /\ kept' = [kept EXCEPT ![r] = entry.rows]
        /\ UNCHANGED <<active, marker, op, faults, deleted, asked, shaky, acked, evicted>>

FinishRun(p) ==
    \E r \in Runs, end \in {"good", "bad"} :
        /\ active[p] = r
        /\ Written(r, [file[r].journal EXCEPT !.end = end])
        /\ UNCHANGED <<active, marker, op, faults, storeHistory>>

\* RunJournal is dropped: lock and marker go together unless the store lock fails.
EndRun(p) ==
    /\ active[p] # NoFile
    /\ active' = [active EXCEPT ![p] = NoFile]
    /\ \/ op = NoFile /\ marker' = marker \ {active[p]}
       \/ UNCHANGED marker
    /\ UNCHANGED <<storeFiles, op, faults, storeHistory>>

-----------------------------------------------------------------------------
(* History *)

ImportRun(p, r) ==
    /\ Fresh(r)
    /\ Starts(p, "import", r, NoFile,
              Durably("journal", r, [origin |-> "legacy", rows |-> 0, end |-> "good"]))
    /\ UNCHANGED <<storeFiles, active, marker, storeHistory>>

\* list drops the markers whose run lock is free.
Marked == {r \in marker : Measured(r)}

ListRuns ==
    /\ op = NoFile
    /\ marker' = Marked
    /\ UNCHANGED <<storeFiles, active, op, faults, storeHistory>>

\* What list shows.
Visible(r) == file[r].journal # NoFile /\ ~file[r].tomb /\ ~Measured(r)

\* delete: the tombstone is written unless there is one, then the journal goes.
UnlockedDelete(r) == TRUE
Deletable(r) == ~Measured(r)

RemovalUnsynced(r) ==
    (IF file[r].tomb THEN << >> ELSE <<Put("tomb", r, TRUE)>>)
    \o (IF file[r].journal = NoFile THEN << >> ELSE <<Cut("journal", r), Sync("journal", r)>>)
Removal(r) ==
    (IF file[r].tomb THEN << >> ELSE Durably("tomb", r, TRUE))
    \o (IF file[r].journal = NoFile THEN << >> ELSE <<Cut("journal", r), Sync("journal", r)>>)

DeleteRun(p, r) ==
    /\ Deletable(r)
    /\ Starts(p, "delete", r, NoFile, Removal(r))
    /\ asked' = asked \cup {r}
    /\ UNCHANGED <<storeFiles, active, marker, kept, deleted, shaky, acked, evicted>>

-----------------------------------------------------------------------------
(* Accepted uploads *)

\* Only a native run that came to a good end may ever be evicted.
Evictable(j) == j # NoFile /\ j.origin = "native" /\ j.end = "good"

Acceptance(r, x) ==
    [receipt |-> x, print |-> IF Evictable(file[r].journal) THEN file[r].journal ELSE NoFile]

\* The cache marker exists before the acceptance; a receipt that is there already is
\* only synced again.
RecordUnsynced(r, x) == <<Put("receipt", r, Acceptance(r, x))>>
Record(r, x) ==
    IF file[r].receipt # NoFile THEN <<Sync("receipt", r)>>
    ELSE (IF Acceptance(r, x).print = NoFile THEN << >>
          ELSE Durably("cand", r, Acceptance(r, x)))
         \o Durably("receipt", r, Acceptance(r, x))

\* acknowledge: refused for another receipt, for a run that runs, and for a run that is
\* unknown; a deleted run is still accepted.
Acknowledge(p, r, x) ==
    /\ IF file[r].receipt # NoFile THEN file[r].receipt.receipt = x
       ELSE IF file[r].journal = NoFile THEN file[r].tomb ELSE ~Measured(r)
    /\ Starts(p, "ack", r, x, Record(r, x))
    /\ UNCHANGED <<storeFiles, active, marker, storeHistory>>

\* prune_cache: markers that agree with the receipt of a run nobody holds.
Unaccepted == {r \in Runs : file[r].cand # NoFile /\ ~Measured(r)}
Settled == {r \in Runs : file[r].cand # NoFile /\ file[r].cand = file[r].receipt
                         /\ ~Measured(r)}
Cached == {r \in Settled : file[r].journal # NoFile}

Evict(r) == <<Sync("receipt", r), Cut("journal", r), Sync("journal", r),
              Cut("cand", r), Sync("cand", r)>>
Orphan(r) == <<Cut("cand", r), Sync("cand", r)>>

\* A journal that no longer is what was accepted is preserved.
Unchanged(r) == file[r].journal = file[r].cand.print

Eviction(r) ==
    IF file[r].journal = NoFile THEN Orphan(r)
    ELSE IF ~Measured(r) /\ Unchanged(r) THEN Evict(r)
    ELSE << >>

\* The markers to work on are chosen once.  Which accepted runs are the most recent is a
\* matter of clocks: any choice.
Prune ==
    /\ op # NoFile /\ op.kind = "ack" /\ op.todo = << >>
    /\ \E spared \in SUBSET Cached :
          /\ Cardinality(spared) = IF Cardinality(Cached) <= CacheLimit
                                   THEN Cardinality(Cached) ELSE CacheLimit
          /\ op' = [op EXCEPT !.kind = "prune", !.left = Settled \ spared]
    /\ UNCHANGED <<storeFiles, active, marker, faults, storeHistory>>

\* They are worked on one after the other, those whose journal is gone first.
PruneNext ==
    /\ op # NoFile /\ op.kind = "prune" /\ op.todo = << >>
    /\ \E r \in op.left :
          /\ file[r].journal = NoFile \/ \A s \in op.left : file[s].journal # NoFile
          /\ op' = [op EXCEPT !.todo = Eviction(r), !.left = @ \ {r}]
    /\ UNCHANGED <<storeFiles, active, marker, faults, storeHistory>>

-----------------------------------------------------------------------------
(* Carrying out and ending a store operation *)

Carry ==
    /\ op # NoFile /\ op.todo # << >>
    /\ LET step == Head(op.todo)
       IN  /\ file' = Seen(step)
           /\ disk' = Synced(step)
           /\ evicted' = IF op.kind = "prune" /\ step = Sync("journal", step.run)
                         THEN evicted \cup {step.run} ELSE evicted
    /\ op' = [op EXCEPT !.todo = Tail(@)]
    /\ UNCHANGED <<active, marker, faults, kept, deleted, asked, shaky, acked>>

\* The operation is done and reports success; a measurement keeps its run lock.
Done ==
    /\ op # NoFile /\ op.todo = << >> /\ op.kind # "ack" /\ op.left = {}
    /\ op' = NoFile
    /\ IF op.kind = "begin"
       THEN active' = [active EXCEPT ![op.proc] = op.run] /\ marker' = marker \cup {op.run}
       ELSE UNCHANGED <<active, marker>>
    /\ deleted' = IF op.kind = "delete" THEN deleted \cup {op.run} ELSE deleted
    /\ acked' = IF op.kind = "prune" THEN [acked EXCEPT ![op.run] = op.receipt] ELSE acked
    /\ UNCHANGED <<storeFiles, faults, kept, asked, shaky, evicted>>

\* A tombstone is there, and the operation stops before it is synced.
Unsettled ==
    IF op # NoFile /\ op.todo # << >> /\ Head(op.todo) = Sync("tomb", op.run)
    THEN shaky \cup {op.run} ELSE shaky

Fault == faults < MaxFaults /\ faults' = faults + 1

\* A file operation fails: the operation reports an error ...
OpFails ==
    /\ Fault
    /\ op # NoFile /\ op.kind # "prune" /\ op.todo # << >>
    /\ op' = NoFile
    /\ shaky' = Unsettled
    /\ UNCHANGED <<storeFiles, active, marker, kept, deleted, asked, acked, evicted>>

\* ... but a failed eviction only warns and leaves the run alone.
EvictionFails ==
    /\ Fault
    /\ op # NoFile /\ op.kind = "prune" /\ op.todo # << >>
    /\ op' = [op EXCEPT !.todo = << >>]
    /\ UNCHANGED <<storeFiles, active, marker, storeHistory>>

-----------------------------------------------------------------------------
(* Faults *)

\* A measurement that was being written is there or not.
Torn(r) ==
    {file[r].journal} \cup
    {j \in {[file[r].journal EXCEPT !.rows = @ + 1, !.end = "open"]} : j.rows <= MaxRows}

\* The locks of a dead process are free; its markers stay.
Kill(p) ==
    /\ Fault
    /\ active[p] # NoFile \/ (op # NoFile /\ op.proc = p)
    /\ active' = [active EXCEPT ![p] = NoFile]
    /\ op' = IF op # NoFile /\ op.proc = p THEN NoFile ELSE op
    /\ shaky' = IF op # NoFile /\ op.proc = p THEN Unsettled ELSE shaky
    /\ IF active[p] = NoFile THEN UNCHANGED storeFiles
       ELSE \E j \in Torn(active[p]) : Written(active[p], j)
    /\ UNCHANGED <<marker, kept, deleted, asked, acked, evicted>>

\* Every change the disk has not seen is lost or not.
PowerLoss ==
    /\ Fault
    /\ \E lost \in SUBSET {x \in Runs \X Names : file[x[1]][x[2]] # disk[x[1]][x[2]]} :
          file' = [r \in Runs |-> [f \in Names |->
                      IF <<r, f>> \in lost THEN disk[r][f] ELSE file[r][f]]]
    /\ disk' = file'
    /\ active' = [p \in Procs |-> NoFile]
    /\ op' = NoFile
    /\ UNCHANGED <<marker, storeHistory>>

StoreNext ==
    \/ \E p \in Procs, r \in Runs : BeginRun(p, r) \/ ImportRun(p, r) \/ DeleteRun(p, r)
    \/ \E p \in Procs, r \in Runs, x \in Receipts : Acknowledge(p, r, x)
    \/ \E p \in Procs : Checkpoint(p) \/ FinishRun(p) \/ EndRun(p) \/ Kill(p)
    \/ ListRuns \/ Prune \/ PruneNext \/ Carry \/ Done \/ OpFails \/ EvictionFails \/ PowerLoss

StoreSpec == StoreInit /\ [][StoreNext]_storeVars

-----------------------------------------------------------------------------
(* Properties *)

\* A run is measured by one process, which finds its own journal whatever deletions,
\* evictions and crashes of others happen, and listings know it is live
\* (store/deletions.rs:100-104, locks.rs:116-122).
LiveRunsAreSafe ==
    \A p \in Procs : active[p] # NoFile =>
        /\ file[active[p]].journal # NoFile
        /\ file[active[p]].journal.origin = "native"
        /\ active[p] \in marker
        /\ \A q \in Procs \ {p} : active[q] # active[p]

\* A persisted measurement is in its journal until the user deletes the run or the
\* server's acceptance is on the disk, crashes, failed evictions and power losses
\* included (store/receipts.rs:505-507).
NoMeasurementLost ==
    \A r \in Runs \ asked :
        IF file[r].journal # NoFile THEN file[r].journal.rows >= kept[r]
        ELSE kept[r] > 0 => disk[r].receipt # NoFile

\* A recorded acceptance is never lost or replaced.
AcceptanceIsForever ==
    \A r \in Runs : acked[r] # NoFile =>
        file[r].receipt # NoFile /\ file[r].receipt.receipt = acked[r]

\* A run evicted from the cache never comes back, by import or after a power loss
\* (store/receipts.rs:2-3).
EvictedStaysGone == \A r \in evicted : file[r].journal = NoFile

\* A deleted run is never shown again, unless a deletion of it once stopped between the
\* renaming and the syncing of its tombstone.
DeletionIsFinal == \A r \in deleted \ shaky : ~Visible(r)
=============================================================================
