--------------------------- MODULE StorageProofs ---------------------------
(***************************************************************************)
(* Proofs about what is kept on disk: the benchmark history, for any       *)
(* number of runs, processes, faults and measurements, and a folder of the *)
(* model library, for any revisions and files, any edits of the user and   *)
(* kills anywhere.                                                         *)
(*                                                                         *)
(* A store operation holds the store lock, so what is left of its plan     *)
(* tells which files it found and which it has changed; that, and how a    *)
(* file on the disk may lag behind the file that processes see, is the     *)
(* inductive invariant of the history.  What is left of the list of a      *)
(* download, a look or a commit, and what the commit journal has, is that  *)
(* of the model folder.                                                    *)
(***************************************************************************)
EXTENDS RunStore, ModelSnapshots, SequenceLemmas, TLAPS

-----------------------------------------------------------------------------
(* The benchmark history: the inductive invariant                          *)

\* What is left of creating the journal v of run r, which is nobody's and new.
Writing(r, v) ==
    /\ ~Measured(r) /\ file[r].receipt = NoFile
    /\ kept[r] = 0 \/ r \in asked
    /\ \/ op.todo = <<Put("journal", r, v), Sync("journal", r)>> /\ file[r].journal = NoFile
       \/ op.todo \in {<<Sync("journal", r)>>, << >>} /\ file[r].journal = v

\* What is left of deleting run r: once its tombstone is seen, only the journal remains.
Deleting(r) ==
    /\ ~Measured(r) /\ r \in asked
    /\ \/ op.todo \in {<<Put("tomb", r, TRUE), Sync("tomb", r)>>,
                       <<Put("tomb", r, TRUE), Sync("tomb", r), Cut("journal", r), Sync("journal", r)>>}
       \/ /\ op.todo \in {<<Sync("tomb", r)>>,
                          <<Sync("tomb", r), Cut("journal", r), Sync("journal", r)>>,
                          <<Cut("journal", r), Sync("journal", r)>>,
                          <<Sync("journal", r)>>, << >>}
          /\ file[r].tomb

\* What is left of recording the acceptance of run r with receipt x.
Acking(r, x) ==
    \/ /\ file[r].receipt = NoFile
       /\ \E a \in Accepted :
             /\ a.receipt = x
             /\ op.todo \in {<<Put("cand", r, a), Sync("cand", r), Put("receipt", r, a), Sync("receipt", r)>>,
                             <<Sync("cand", r), Put("receipt", r, a), Sync("receipt", r)>>,
                             <<Put("receipt", r, a), Sync("receipt", r)>>}
    \/ /\ file[r].receipt # NoFile /\ file[r].receipt.receipt = x
       /\ \/ op.todo = <<Sync("receipt", r)>>
          \/ op.todo = << >> /\ disk[r].receipt = file[r].receipt

\* What is left of evicting run r: its journal goes when its receipt is on the disk.
Evicting(r) ==
    \/ /\ ~Measured(r)
       /\ \/ /\ op.todo = <<Sync("receipt", r), Cut("journal", r), Sync("journal", r),
                            Cut("cand", r), Sync("cand", r)>>
             /\ file[r].receipt # NoFile
          \/ /\ op.todo = <<Cut("journal", r), Sync("journal", r), Cut("cand", r), Sync("cand", r)>>
             /\ disk[r].receipt # NoFile
          \/ /\ op.todo = <<Sync("journal", r), Cut("cand", r), Sync("cand", r)>>
             /\ disk[r].receipt # NoFile /\ file[r].journal = NoFile
    \/ op.todo \in {<<Cut("cand", r), Sync("cand", r)>>, <<Sync("cand", r)>>}

Imported == [origin |-> "legacy", rows |-> 0, end |-> "good"]

\* What the operation that holds the store lock still has to do fits what is on file.
PlansFit ==
    op # NoFile =>
    /\ op.kind = "begin" => Writing(op.run, Opened)
    /\ op.kind = "import" => Writing(op.run, Imported)
    /\ op.kind = "delete" => Deleting(op.run)
    /\ op.kind = "ack" => Acking(op.run, op.receipt)
    /\ op.kind = "prune" =>
          /\ disk[op.run].receipt # NoFile /\ disk[op.run].receipt.receipt = op.receipt
          /\ op.todo = << >> \/ \E r \in Runs : Evicting(r)
          /\ \A r \in op.left : file[r].receipt # NoFile

\* A receipt on the disk is the one processes see, and is there for every acceptance
\* that was reported.
ReceiptsLast ==
    \A r \in Runs :
    /\ disk[r].receipt # NoFile => file[r].receipt = disk[r].receipt
    /\ acked[r] # NoFile => disk[r].receipt # NoFile /\ disk[r].receipt.receipt = acked[r]

\* An evicted run has no journal anywhere, and a receipt that keeps it from coming back.
EvictionsLast ==
    \A r \in evicted :
    file[r].journal = NoFile /\ disk[r].journal = NoFile /\ disk[r].receipt # NoFile

\* A journal with all that was reported as persisted, or a run that is accepted.
Covers(j, r) ==
    IF j # NoFile THEN j.rows >= kept[r] ELSE kept[r] > 0 => disk[r].receipt # NoFile

\* This holds of the journal processes see and of the one a power loss would leave.
MeasurementsLast ==
    \A r \in Runs \ asked : Covers(file[r].journal, r) /\ Covers(disk[r].journal, r)

\* A deletion has put the tombstone of r there and is about to sync it.
Awaits(r) ==
    /\ op # NoFile /\ op.kind = "delete" /\ op.run = r /\ op.todo # << >>
    /\ Head(op.todo) = Sync("tomb", r)

TombstonesLast ==
    \A r \in Runs :
    /\ disk[r].tomb => file[r].tomb
    /\ r \notin shaky => file[r].tomb = disk[r].tomb \/ Awaits(r)
    /\ r \in deleted \ shaky => disk[r].tomb

StoreInv ==
    /\ StoreTypeOK /\ LiveRunsAreSafe /\ PlansFit
    /\ ReceiptsLast /\ EvictionsLast /\ MeasurementsLast /\ TombstonesLast

-----------------------------------------------------------------------------
(* Plans                                                                   *)

\* What the steps of a plan are.
LEMMA StepsAre ==
  ASSUME NEW r \in Runs
  PROVE /\ \A f \in Names : Sync(f, r) \in Steps
        /\ \A j \in Journals \cup {NoFile} : Put("journal", r, j) \in Steps
        /\ Put("tomb", r, TRUE) \in Steps
        /\ \A a \in Accepted \cup {NoFile} : Put("receipt", r, a) \in Steps /\ Put("cand", r, a) \in Steps
  BY DEF Steps, Sync, Put

\* The journals a run may start with.
LEMMA NewJournals ==
  /\ Opened \in Journals /\ Imported \in Journals
  /\ Opened.rows = 0 /\ Imported.rows = 0 /\ Opened.origin = "native"
  /\ \A j \in Journals : j # NoFile /\ j.rows \in Nat /\ j.rows <= MaxRows
  /\ MaxRows \in Nat
  BY StoreBounds DEF Opened, Imported, Journals

\* An operation begins with its plan.
LEMMA OperationStarts ==
  ASSUME NEW p \in Procs, NEW kind \in {"begin", "import", "delete", "ack"}, NEW r \in Runs,
         NEW x \in Receipts \cup {NoFile}, NEW steps \in Seq(Steps), Starts(p, kind, r, x, steps)
  PROVE /\ op = NoFile /\ op' \in Operations /\ op' # NoFile
        /\ op'.proc = p /\ op'.kind = kind /\ op'.run = r /\ op'.receipt = x
        /\ op'.todo = steps /\ op'.left = {}
<1>1. /\ op = NoFile
      /\ op' = [proc |-> p, kind |-> kind, run |-> r, receipt |-> x, todo |-> steps, left |-> {}]
  BY DEF Starts
<1>2. op' \in Operations
  BY <1>1 DEF Operations
<1> QED BY <1>1, <1>2, StoreBounds

\* An operation goes on with another plan.
LEMMA OperationGoesOn ==
  ASSUME op \in Operations, NEW kind \in {op.kind, "prune"}, NEW steps \in Seq(Steps),
         NEW left \in SUBSET Runs,
         op' = [op EXCEPT !.kind = kind, !.todo = steps, !.left = left]
  PROVE /\ op' \in Operations /\ op' # NoFile
        /\ op'.proc = op.proc /\ op'.kind = kind /\ op'.run = op.run
        /\ op'.receipt = op.receipt /\ op'.todo = steps /\ op'.left = left
<1>1. op' \in Operations
  BY DEF Operations
<1>2. /\ op'.proc = op.proc /\ op'.kind = kind /\ op'.run = op.run
      /\ op'.receipt = op.receipt /\ op'.todo = steps /\ op'.left = left
  BY DEF Operations
<1> QED BY <1>1, <1>2, StoreBounds

-----------------------------------------------------------------------------
(* Operations begin                                                        *)

\* A new operation finds the files as they were, and no deletion under way.
LEMMA FilesAsFound ==
  ASSUME StoreInv, op = NoFile, UNCHANGED <<storeFiles, active, marker, kept, deleted, shaky, acked, evicted>>,
         asked \subseteq asked'
  PROVE LiveRunsAreSafe' /\ ReceiptsLast' /\ EvictionsLast' /\ MeasurementsLast' /\ TombstonesLast'
<1> USE DEF StoreInv, storeFiles
<1>1. LiveRunsAreSafe'   BY DEF LiveRunsAreSafe
<1>2. ReceiptsLast'      BY DEF ReceiptsLast
<1>3. EvictionsLast'     BY DEF EvictionsLast
<1>4. MeasurementsLast'  BY DEF MeasurementsLast, Covers
<1>5. TombstonesLast'    BY DEF TombstonesLast, Awaits
<1> QED BY <1>1, <1>2, <1>3, <1>4, <1>5

\* A measurement begins: its run is new, so nothing was reported of it.
LEMMA BeginKeepsInv ==
  ASSUME StoreInv, NEW p \in Procs, NEW r \in Runs, BeginRun(p, r)
  PROVE StoreInv'
<1> DEFINE plan == <<Put("journal", r, Opened), Sync("journal", r)>>
<1>1. /\ Fresh(r) /\ ~Measured(r) /\ r \notin asked /\ Starts(p, "begin", r, NoFile, plan)
      /\ UNCHANGED <<storeFiles, active, marker, storeHistory>>
  BY DEF BeginRun, Durably
<1>2. plan \in Seq(Steps)
  <2>1. Put("journal", r, Opened) \in Steps /\ Sync("journal", r) \in Steps
    BY StepsAre, NewJournals DEF Names
  <2> QED BY <2>1, ListsOf
<1> HIDE DEF plan
<1>3. /\ op = NoFile /\ op' \in Operations /\ op' # NoFile /\ op'.kind = "begin"
      /\ op'.run = r /\ op'.todo = plan /\ op'.left = {}
  BY <1>1, <1>2, OperationStarts
<1>4. LiveRunsAreSafe' /\ ReceiptsLast' /\ EvictionsLast' /\ MeasurementsLast' /\ TombstonesLast'
  BY <1>1, <1>3, FilesAsFound DEF storeHistory, StoreInv, StoreTypeOK
<1>5. StoreTypeOK'
  BY <1>1, <1>3 DEF StoreInv, StoreTypeOK, storeHistory, storeFiles
<1>6. kept[r] = 0
  <2>1. kept[r] \in Nat
    BY StoreBounds DEF StoreInv, StoreTypeOK
  <2>2. Covers(file[r].journal, r) /\ file[r].journal = NoFile /\ file[r].receipt = NoFile
    BY <1>1 DEF StoreInv, MeasurementsLast, Fresh
  <2> QED BY <2>1, <2>2 DEF StoreInv, ReceiptsLast, Covers
<1>7. PlansFit'
  BY <1>1, <1>3, <1>6 DEF PlansFit, Writing, Fresh, Measured, storeHistory, storeFiles, plan
<1> QED BY <1>4, <1>5, <1>7 DEF StoreInv

\* An import: the run is unknown, so it is neither measured nor accepted.
LEMMA ImportKeepsInv ==
  ASSUME StoreInv, NEW p \in Procs, NEW r \in Runs, ImportRun(p, r)
  PROVE StoreInv'
<1> DEFINE plan == <<Put("journal", r, Imported), Sync("journal", r)>>
<1>1. /\ Fresh(r) /\ Starts(p, "import", r, NoFile, plan)
      /\ UNCHANGED <<storeFiles, active, marker, storeHistory>>
  BY DEF ImportRun, Durably, Imported
<1>2. plan \in Seq(Steps)
  <2>1. Put("journal", r, Imported) \in Steps /\ Sync("journal", r) \in Steps
    BY StepsAre, NewJournals DEF Names
  <2> QED BY <2>1, ListsOf
<1> HIDE DEF plan
<1>3. /\ op = NoFile /\ op' \in Operations /\ op' # NoFile /\ op'.kind = "import"
      /\ op'.run = r /\ op'.todo = plan /\ op'.left = {}
  BY <1>1, <1>2, OperationStarts
<1>4. LiveRunsAreSafe' /\ ReceiptsLast' /\ EvictionsLast' /\ MeasurementsLast' /\ TombstonesLast'
  BY <1>1, <1>3, FilesAsFound DEF storeHistory, StoreInv, StoreTypeOK
<1>5. StoreTypeOK'
  BY <1>1, <1>3 DEF StoreInv, StoreTypeOK, storeHistory, storeFiles
<1>6. kept[r] = 0 \/ r \in asked
  <2> SUFFICES ASSUME r \notin asked PROVE kept[r] = 0
    OBVIOUS
  <2>1. kept[r] \in Nat
    BY StoreBounds DEF StoreInv, StoreTypeOK
  <2>2. Covers(file[r].journal, r) /\ file[r].journal = NoFile /\ file[r].receipt = NoFile
    BY <1>1 DEF StoreInv, MeasurementsLast, Fresh
  <2> QED BY <2>1, <2>2 DEF StoreInv, ReceiptsLast, Covers
<1>7. ~Measured(r)
  <2>1. NoFile # r
    BY StoreBounds
  <2> QED BY <1>1, <2>1 DEF StoreInv, LiveRunsAreSafe, Measured, Fresh
<1>8. PlansFit'
  BY <1>1, <1>3, <1>6, <1>7 DEF PlansFit, Writing, Fresh, Measured, storeHistory, storeFiles, plan
<1> QED BY <1>4, <1>5, <1>8 DEF StoreInv

\* A deletion: nobody measures the run, and its steps depend on what is there.
LEMMA DeleteKeepsInv ==
  ASSUME StoreInv, NEW p \in Procs, NEW r \in Runs, DeleteRun(p, r)
  PROVE StoreInv'
<1> DEFINE plan == Removal(r)
<1>1. /\ ~Measured(r) /\ Starts(p, "delete", r, NoFile, plan) /\ asked' = asked \cup {r}
      /\ UNCHANGED <<storeFiles, active, marker, kept, deleted, shaky, acked, evicted>>
  BY DEF DeleteRun, Deletable
<1>a. \/ plan \in {<<Put("tomb", r, TRUE), Sync("tomb", r)>>,
                   <<Put("tomb", r, TRUE), Sync("tomb", r), Cut("journal", r), Sync("journal", r)>>}
      \/ file[r].tomb /\ plan \in {<<Cut("journal", r), Sync("journal", r)>>, << >>}
  <2>1. << >> \o << >> = << >>
    OBVIOUS
  <2> QED BY Joined, <2>1 DEF Removal, Durably
<1>2. plan \in Seq(Steps)
  <2>1. Sync("tomb", r) \in Steps /\ Sync("journal", r) \in Steps
        /\ Put("tomb", r, TRUE) \in Steps /\ Cut("journal", r) \in Steps
    BY StepsAre DEF Names, Cut
  <2> QED BY <1>a, <2>1, ListsOf
<1> HIDE DEF plan
<1>3. /\ op = NoFile /\ op' \in Operations /\ op' # NoFile /\ op'.kind = "delete"
      /\ op'.run = r /\ op'.todo = plan /\ op'.left = {}
  BY <1>1, <1>2, OperationStarts
<1>4. LiveRunsAreSafe' /\ ReceiptsLast' /\ EvictionsLast' /\ MeasurementsLast' /\ TombstonesLast'
  BY <1>1, <1>3, FilesAsFound DEF StoreInv, StoreTypeOK
<1>5. StoreTypeOK'
  BY <1>1, <1>3 DEF StoreInv, StoreTypeOK, storeFiles
<1>6. Deleting(r)'
  BY <1>1, <1>3, <1>a DEF Deleting, Measured, storeFiles
<1>8. PlansFit'
  BY <1>3, <1>6 DEF PlansFit
<1> QED BY <1>4, <1>5, <1>8 DEF StoreInv

\* An acceptance: recorded in a receipt, or found in one that is only synced again.
LEMMA AcknowledgeKeepsInv ==
  ASSUME StoreInv, NEW p \in Procs, NEW r \in Runs, NEW x \in Receipts, Acknowledge(p, r, x)
  PROVE StoreInv'
<1> DEFINE plan == Record(r, x)
           a == Acceptance(r, x)
<1>1. /\ file[r].receipt # NoFile => file[r].receipt.receipt = x
      /\ Starts(p, "ack", r, x, plan)
      /\ UNCHANGED <<storeFiles, active, marker, storeHistory>>
  BY DEF Acknowledge
<1>a. a \in Accepted /\ a.receipt = x
  <2>1. file[r].journal \in Journals \cup {NoFile}
    BY DEF StoreInv, StoreTypeOK, Files
  <2> QED BY <2>1 DEF Acceptance, Accepted
<1>b. \/ /\ file[r].receipt = NoFile
         /\ plan \in {<<Put("cand", r, a), Sync("cand", r), Put("receipt", r, a), Sync("receipt", r)>>,
                      <<Put("receipt", r, a), Sync("receipt", r)>>}
      \/ file[r].receipt # NoFile /\ plan = <<Sync("receipt", r)>>
  <2>1. CASE file[r].receipt # NoFile
    BY <2>1 DEF Record
  <2>2. CASE file[r].receipt = NoFile /\ a.print = NoFile
    <3>1. plan = << >> \o <<Put("receipt", r, a), Sync("receipt", r)>>
      BY <2>2 DEF Record, Durably
    <3> QED BY <2>2, <3>1, Joined
  <2>3. CASE file[r].receipt = NoFile /\ a.print # NoFile
    <3>1. plan = <<Put("cand", r, a), Sync("cand", r)>> \o <<Put("receipt", r, a), Sync("receipt", r)>>
      BY <2>3 DEF Record, Durably
    <3> QED BY <2>3, <3>1, Joined
  <2> QED BY <2>1, <2>2, <2>3
<1> HIDE DEF plan, a
<1>2. plan \in Seq(Steps)
  <2>1. Sync("cand", r) \in Steps /\ Sync("receipt", r) \in Steps
        /\ Put("cand", r, a) \in Steps /\ Put("receipt", r, a) \in Steps
    BY <1>a, StepsAre DEF Names
  <2> QED BY <1>b, <2>1, ListsOf
<1>3. /\ op = NoFile /\ op' \in Operations /\ op' # NoFile /\ op'.kind = "ack"
      /\ op'.run = r /\ op'.receipt = x /\ op'.todo = plan /\ op'.left = {}
  BY <1>1, <1>2, OperationStarts
<1>4. LiveRunsAreSafe' /\ ReceiptsLast' /\ EvictionsLast' /\ MeasurementsLast' /\ TombstonesLast'
  BY <1>1, <1>3, FilesAsFound DEF storeHistory, StoreInv, StoreTypeOK
<1>5. StoreTypeOK'
  BY <1>1, <1>3 DEF StoreInv, StoreTypeOK, storeHistory, storeFiles
<1>6. Acking(r, x)'
  BY <1>1, <1>3, <1>a, <1>b DEF Acking, storeFiles
<1>8. PlansFit'
  BY <1>3, <1>6 DEF PlansFit
<1> QED BY <1>4, <1>5, <1>8 DEF StoreInv

-----------------------------------------------------------------------------
(* Operations end, and the store is pruned                                 *)

\* The operation ends: a measurement finds its journal, a deletion its tombstone synced,
\* and an acknowledgement its receipt on the disk.
LEMMA DoneKeepsInv ==
  ASSUME StoreInv, Done
  PROVE StoreInv'
<1>1. /\ op # NoFile /\ op.todo = << >> /\ op.kind # "ack" /\ op' = NoFile
      /\ UNCHANGED <<storeFiles, faults, kept, asked, shaky, evicted>>
  BY DEF Done
<1>2. op \in Operations
  BY <1>1 DEF StoreInv, StoreTypeOK
<1>3. op.proc \in Procs /\ op.run \in Runs /\ op.receipt \in Receipts \cup {NoFile}
  BY <1>2 DEF Operations
<1>4. StoreTypeOK'
  BY <1>1, <1>3 DEF Done, StoreInv, StoreTypeOK, storeFiles
<1>5. LiveRunsAreSafe'
  <2>1. CASE op.kind = "begin"
    <3>1. Writing(op.run, Opened)
      BY <1>1, <2>1 DEF StoreInv, PlansFit
    <3>2. file[op.run].journal = Opened /\ ~Measured(op.run)
      BY <1>1, <3>1, HeadAndTail DEF Writing
    <3>3. Opened # NoFile /\ Opened.origin = "native"
      BY NewJournals
    <3>4. active' = [active EXCEPT ![op.proc] = op.run] /\ marker' = marker \cup {op.run}
      BY <2>1 DEF Done
    <3>5. active \in [Procs -> Runs \cup {NoFile}]
      BY DEF StoreInv, StoreTypeOK
    <3> QED BY <1>1, <1>3, <3>2, <3>3, <3>4, <3>5 DEF StoreInv, LiveRunsAreSafe, Measured, storeFiles
  <2>2. CASE op.kind # "begin"
    BY <1>1, <2>2 DEF Done, StoreInv, LiveRunsAreSafe, storeFiles
  <2> QED BY <2>1, <2>2
<1>6. PlansFit'
  BY <1>1 DEF PlansFit
<1>7. ReceiptsLast'
  <2>1. op.kind = "prune" => disk[op.run].receipt # NoFile /\ disk[op.run].receipt.receipt = op.receipt
    BY <1>1 DEF StoreInv, PlansFit
  <2>2. acked' = IF op.kind = "prune" THEN [acked EXCEPT ![op.run] = op.receipt] ELSE acked
    BY DEF Done
  <2>3. acked \in [Runs -> Receipts \cup {NoFile}]
    BY DEF StoreInv, StoreTypeOK
  <2> QED BY <1>1, <1>3, <2>1, <2>2, <2>3 DEF StoreInv, ReceiptsLast, storeFiles
<1>8. EvictionsLast' /\ MeasurementsLast'
  BY <1>1 DEF StoreInv, EvictionsLast, MeasurementsLast, Covers, storeFiles
<1>9. TombstonesLast'
  <2>1. \A r \in Runs : ~Awaits(r)
    BY <1>1 DEF Awaits
  <2>2. op.kind = "delete" => file[op.run].tomb
    <3>1. op.kind = "delete" => Deleting(op.run)
      BY <1>1 DEF StoreInv, PlansFit
    <3> QED BY <1>1, <3>1, HeadAndTail DEF Deleting
  <2>3. deleted' = IF op.kind = "delete" THEN deleted \cup {op.run} ELSE deleted
    BY DEF Done
  <2> QED BY <1>1, <1>3, <2>1, <2>2, <2>3 DEF StoreInv, TombstonesLast, storeFiles
<1> QED BY <1>4, <1>5, <1>6, <1>7, <1>8, <1>9 DEF StoreInv

\* An operation that stops, with an error or with its process, leaves the files as they
\* are; a tombstone that waits to be synced makes its run one of the shaky ones.
LEMMA StoppedKeepsInv ==
  ASSUME StoreInv, op' = NoFile, shaky' = Unsettled,
         UNCHANGED <<storeFiles, kept, deleted, asked, acked, evicted>>
  PROVE /\ PlansFit' /\ ReceiptsLast' /\ EvictionsLast' /\ MeasurementsLast' /\ TombstonesLast'
        /\ shaky' \subseteq Runs
<1>1. PlansFit'
  BY DEF PlansFit
<1>2. ReceiptsLast' /\ EvictionsLast' /\ MeasurementsLast'
  BY DEF StoreInv, ReceiptsLast, EvictionsLast, MeasurementsLast, Covers, storeFiles
<1>3. \A r \in Runs : Awaits(r) => r \in shaky'
  BY DEF Awaits, Unsettled
<1>4. shaky \subseteq shaky'
  BY DEF Unsettled
<1>5. TombstonesLast'
  BY <1>3, <1>4 DEF StoreInv, TombstonesLast, storeFiles
<1>6. shaky' \subseteq Runs
  <2>1. op # NoFile => op.run \in Runs
    BY DEF StoreInv, StoreTypeOK, Operations
  <2> QED BY <2>1 DEF Unsettled, StoreInv, StoreTypeOK
<1> QED BY <1>1, <1>2, <1>5, <1>6

LEMMA FailureKeepsInv ==
  ASSUME StoreInv, OpFails
  PROVE StoreInv'
<1>1. /\ op' = NoFile /\ shaky' = Unsettled
      /\ UNCHANGED <<storeFiles, active, marker, kept, deleted, asked, acked, evicted>>
  BY DEF OpFails
<1>2. /\ PlansFit' /\ ReceiptsLast' /\ EvictionsLast' /\ MeasurementsLast' /\ TombstonesLast'
      /\ shaky' \subseteq Runs
  BY <1>1, StoppedKeepsInv
<1>3. StoreTypeOK'
  BY <1>1, <1>2 DEF StoreInv, StoreTypeOK, storeFiles
<1>4. LiveRunsAreSafe'
  BY <1>1 DEF StoreInv, LiveRunsAreSafe, storeFiles
<1> QED BY <1>2, <1>3, <1>4 DEF StoreInv

\* Pruning goes on: the files stay, no deletion is under way, and the plan changes.
LEMMA PruningKeepsInv ==
  ASSUME StoreInv, op # NoFile, op.kind \in {"ack", "prune"},
         NEW steps \in Seq(Steps), NEW left \in SUBSET Runs,
         op' = [op EXCEPT !.kind = "prune", !.todo = steps, !.left = left],
         UNCHANGED <<storeFiles, active, marker, storeHistory>>,
         disk[op.run].receipt # NoFile, disk[op.run].receipt.receipt = op.receipt,
         steps = << >> \/ \E r \in Runs : Evicting(r)',
         \A r \in left : file[r].receipt # NoFile
  PROVE StoreInv'
<1>1. op \in Operations
  BY DEF StoreInv, StoreTypeOK
<1>2. /\ op' \in Operations /\ op' # NoFile /\ op'.kind = "prune" /\ op'.run = op.run
      /\ op'.receipt = op.receipt /\ op'.todo = steps /\ op'.left = left
  BY <1>1, OperationGoesOn
<1>3. StoreTypeOK'
  BY <1>2 DEF StoreInv, StoreTypeOK, storeFiles, storeHistory
<1>4. PlansFit'
  <2>1. \A r \in op'.left : file'[r].receipt # NoFile
    BY <1>2 DEF storeFiles
  <2>2. disk'[op'.run].receipt # NoFile /\ disk'[op'.run].receipt.receipt = op'.receipt
    BY <1>2 DEF storeFiles
  <2>3. op'.todo = << >> \/ \E r \in Runs : Evicting(r)'
    BY <1>2
  <2> QED BY <1>2, <2>1, <2>2, <2>3 DEF PlansFit
<1>5. LiveRunsAreSafe' /\ ReceiptsLast' /\ EvictionsLast' /\ MeasurementsLast'
  BY DEF StoreInv, LiveRunsAreSafe, ReceiptsLast, EvictionsLast, MeasurementsLast, Covers,
         storeFiles, storeHistory
<1>6. TombstonesLast'
  BY DEF StoreInv, TombstonesLast, Awaits, storeFiles, storeHistory
<1> QED BY <1>3, <1>4, <1>5, <1>6 DEF StoreInv

LEMMA PruneKeepsInv ==
  ASSUME StoreInv, Prune
  PROVE StoreInv'
<1>1. /\ op # NoFile /\ op.kind = "ack" /\ op.todo = << >>
      /\ UNCHANGED <<storeFiles, active, marker, faults, storeHistory>>
  BY DEF Prune
<1>2. PICK spared : op' = [op EXCEPT !.kind = "prune", !.left = Settled \ spared]
  BY DEF Prune
<1> DEFINE left == Settled \ spared
<1>3. op \in Operations
  BY <1>1 DEF StoreInv, StoreTypeOK
<1>4. left \in SUBSET Runs /\ \A r \in left : file[r].receipt # NoFile
  BY DEF Settled
<1> HIDE DEF left
<1>5. op' = [op EXCEPT !.kind = "prune", !.todo = << >>, !.left = left]
  BY <1>1, <1>2, <1>3 DEF Operations, left
<1>6. disk[op.run].receipt # NoFile /\ disk[op.run].receipt.receipt = op.receipt
  <2>1. Acking(op.run, op.receipt)
    BY <1>1 DEF StoreInv, PlansFit
  <2> QED BY <1>1, <2>1, HeadAndTail DEF Acking
<1>7. << >> \in Seq(Steps)
  OBVIOUS
<1> QED BY <1>1, <1>4, <1>5, <1>6, <1>7, PruningKeepsInv

\* The next marker: the run to evict is nobody's, and accepted.
LEMMA PruneNextKeepsInv ==
  ASSUME StoreInv, PruneNext
  PROVE StoreInv'
<1>1. /\ op # NoFile /\ op.kind = "prune" /\ op.todo = << >>
      /\ UNCHANGED <<storeFiles, active, marker, faults, storeHistory>>
  BY DEF PruneNext
<1>2. PICK r \in op.left : op' = [op EXCEPT !.todo = Eviction(r), !.left = @ \ {r}]
  BY DEF PruneNext
<1>3. op \in Operations
  BY <1>1 DEF StoreInv, StoreTypeOK
<1> DEFINE left == op.left \ {r}
           steps == Eviction(r)
<1>4. r \in Runs /\ left \in SUBSET Runs
  BY <1>3 DEF Operations
<1>5. /\ disk[op.run].receipt # NoFile /\ disk[op.run].receipt.receipt = op.receipt
      /\ \A s \in op.left : file[s].receipt # NoFile
  BY <1>1 DEF StoreInv, PlansFit
<1>6. \/ steps = << >> \/ steps = <<Cut("cand", r), Sync("cand", r)>>
      \/ /\ ~Measured(r)
         /\ steps = <<Sync("receipt", r), Cut("journal", r), Sync("journal", r),
                      Cut("cand", r), Sync("cand", r)>>
  BY DEF Eviction, Orphan, Evict
<1>7. steps \in Seq(Steps)
  <2>1. Sync("receipt", r) \in Steps /\ Sync("journal", r) \in Steps /\ Sync("cand", r) \in Steps
    BY <1>4, StepsAre DEF Names
  <2>2. Cut("journal", r) \in Steps /\ Cut("cand", r) \in Steps
    BY <1>4, StepsAre DEF Cut
  <2>3. /\ << >> \in Seq(Steps) /\ <<Cut("cand", r), Sync("cand", r)>> \in Seq(Steps)
        /\ <<Sync("receipt", r), Cut("journal", r), Sync("journal", r), Cut("cand", r), Sync("cand", r)>>
             \in Seq(Steps)
    BY <2>1, <2>2, ListsOf
  <2> QED BY <1>6, <2>3
<1> HIDE DEF left, steps
<1>8. op' = [op EXCEPT !.kind = "prune", !.todo = steps, !.left = left]
  BY <1>1, <1>2, <1>3 DEF Operations, left, steps
<1>9. steps = << >> \/ Evicting(r)'
  <2>1. op'.todo = steps
    BY <1>3, <1>8 DEF Operations
  <2> QED BY <1>1, <1>5, <1>6, <2>1 DEF Evicting, Measured, storeFiles
<1>10. \A s \in left : file[s].receipt # NoFile
  BY <1>5 DEF left
<1> QED BY <1>1, <1>4, <1>5, <1>7, <1>8, <1>9, <1>10, PruningKeepsInv

LEMMA EvictionFailureKeepsInv ==
  ASSUME StoreInv, EvictionFails
  PROVE StoreInv'
<1>1. /\ op # NoFile /\ op.kind = "prune" /\ op' = [op EXCEPT !.todo = << >>]
      /\ UNCHANGED <<storeFiles, active, marker, storeHistory>>
  BY DEF EvictionFails
<1>2. op \in Operations
  BY <1>1 DEF StoreInv, StoreTypeOK
<1>3. op' = [op EXCEPT !.kind = "prune", !.todo = << >>, !.left = op.left] /\ op.left \in SUBSET Runs
  BY <1>1, <1>2 DEF Operations
<1>4. /\ disk[op.run].receipt # NoFile /\ disk[op.run].receipt.receipt = op.receipt
      /\ \A s \in op.left : file[s].receipt # NoFile
  BY <1>1 DEF StoreInv, PlansFit
<1>5. << >> \in Seq(Steps)
  OBVIOUS
<1> QED BY <1>1, <1>3, <1>4, <1>5, PruningKeepsInv

-----------------------------------------------------------------------------
(* Measurements and faults                                                 *)

\* A measurement added to a journal.
LEMMA OneMoreRow ==
  ASSUME NEW j \in Journals, NEW entry, entry = [j EXCEPT !.rows = @ + 1, !.end = "open"],
         j.rows + 1 <= MaxRows
  PROVE entry \in Journals /\ entry.origin = j.origin /\ entry.rows = j.rows + 1 /\ entry.rows >= j.rows
<1> DEFINE n == j.rows + 1
<1>1. n \in 0..MaxRows /\ n >= j.rows
  BY NewJournals
<1>2. entry = [j EXCEPT !.rows = n, !.end = "open"]
  BY DEF Journals
<1> HIDE DEF n
<1>3. entry \in Journals /\ entry.origin = j.origin /\ entry.rows = n
  BY <1>1, <1>2 DEF Journals
<1> QED BY <1>1, <1>3 DEF n

\* The journal of a measured run is written: nobody else's plan is about that run.
LEMMA WrittenKeepsFiles ==
  ASSUME StoreInv, NEW p \in Procs, NEW r \in Runs, active[p] = r, NEW entry \in Journals,
         Written(r, entry), entry.origin = file[r].journal.origin,
         entry.rows >= file[r].journal.rows, UNCHANGED <<deleted, asked, acked, evicted>>,
         kept' = kept \/ kept' = [kept EXCEPT ![r] = entry.rows]
  PROVE /\ file' \in [Runs -> Files] /\ disk' \in [Runs -> Files] /\ kept' \in [Runs -> 0..MaxRows]
        /\ \A s \in Runs : /\ file'[s].receipt = file[s].receipt /\ disk'[s].receipt = disk[s].receipt
                           /\ file'[s].tomb = file[s].tomb /\ disk'[s].tomb = disk[s].tomb
                           /\ s # r => file'[s] = file[s] /\ disk'[s] = disk[s] /\ kept'[s] = kept[s]
        /\ file'[r].journal = entry /\ disk'[r].journal = entry
        /\ ReceiptsLast' /\ EvictionsLast' /\ MeasurementsLast'
<1>1. /\ file \in [Runs -> Files] /\ disk \in [Runs -> Files] /\ kept \in [Runs -> 0..MaxRows]
      /\ evicted \subseteq Runs
  BY DEF StoreInv, StoreTypeOK
<1>2. file[r].journal # NoFile
  BY StoreBounds DEF StoreInv, LiveRunsAreSafe
<1>3. file[r].journal \in Journals
  BY <1>1, <1>2 DEF Files
<1>4. /\ file' \in [Runs -> Files] /\ disk' \in [Runs -> Files]
      /\ \A s \in Runs : /\ file'[s].receipt = file[s].receipt /\ disk'[s].receipt = disk[s].receipt
                         /\ file'[s].tomb = file[s].tomb /\ disk'[s].tomb = disk[s].tomb
                         /\ s # r => file'[s] = file[s] /\ disk'[s] = disk[s]
      /\ file'[r].journal = entry /\ disk'[r].journal = entry
  <2>1. file' = [file EXCEPT ![r].journal = entry] /\ disk' = [disk EXCEPT ![r].journal = entry]
    BY DEF Written
  <2>2. ASSUME NEW f, f \in [Runs -> Files]
        PROVE LET g == [f EXCEPT ![r].journal = entry]
              IN  /\ g \in [Runs -> Files] /\ g[r].journal = entry
                  /\ \A s \in Runs : /\ g[s].receipt = f[s].receipt /\ g[s].tomb = f[s].tomb
                                     /\ s # r => g[s] = f[s]
    BY <2>2 DEF Files
  <2> QED BY <1>1, <2>1, <2>2
<1>5. entry # NoFile /\ entry.rows \in 0..MaxRows
  BY NewJournals DEF Journals
<1>6. /\ kept' \in [Runs -> 0..MaxRows]
      /\ \A s \in Runs : s # r => kept'[s] = kept[s]
      /\ kept'[r] = kept[r] \/ kept'[r] = entry.rows
  BY <1>1, <1>5
<1>7. ReceiptsLast'
  BY <1>4 DEF StoreInv, ReceiptsLast
<1>8. EvictionsLast'
  <2>1. r \notin evicted
    BY <1>2 DEF StoreInv, EvictionsLast
  <2> QED BY <1>1, <1>4, <2>1 DEF StoreInv, EvictionsLast
<1>9. MeasurementsLast'
  <2> SUFFICES ASSUME NEW s \in Runs \ asked
               PROVE Covers(file[s].journal, s)' /\ Covers(disk[s].journal, s)'
    BY DEF MeasurementsLast
  <2>1. CASE s = r
    <3>1. file[r].journal.rows >= kept[r]
      BY <1>2, <2>1 DEF StoreInv, MeasurementsLast, Covers
    <3>2. entry.rows >= kept'[r]
      <4>1. file[r].journal.rows \in Nat /\ entry.rows \in Nat /\ kept[r] \in Nat
        BY <1>1, <1>3, NewJournals, StoreBounds
      <4> QED BY <1>6, <3>1, <4>1
    <3> QED BY <1>4, <1>5, <2>1, <3>2 DEF Covers
  <2>2. CASE s # r
    <3>1. Covers(file[s].journal, s) /\ Covers(disk[s].journal, s)
      BY DEF StoreInv, MeasurementsLast
    <3> QED BY <1>4, <1>6, <2>2, <3>1 DEF Covers
  <2> QED BY <2>1, <2>2
<1> QED BY <1>4, <1>6, <1>7, <1>8, <1>9

\* A measurement goes on while an operation may hold the store lock for another run.
LEMMA MeasuringKeepsInv ==
  ASSUME StoreInv, NEW p \in Procs, NEW r \in Runs, active[p] = r, NEW entry \in Journals,
         Written(r, entry), entry.origin = file[r].journal.origin,
         entry.rows >= file[r].journal.rows,
         kept' = kept \/ kept' = [kept EXCEPT ![r] = entry.rows],
         UNCHANGED <<active, marker, op, deleted, asked, shaky, acked, evicted>>
  PROVE StoreInv'
<1>1. /\ file' \in [Runs -> Files] /\ disk' \in [Runs -> Files] /\ kept' \in [Runs -> 0..MaxRows]
      /\ \A s \in Runs : /\ file'[s].receipt = file[s].receipt /\ disk'[s].receipt = disk[s].receipt
                         /\ file'[s].tomb = file[s].tomb /\ disk'[s].tomb = disk[s].tomb
                         /\ s # r => file'[s] = file[s] /\ disk'[s] = disk[s] /\ kept'[s] = kept[s]
      /\ file'[r].journal = entry /\ disk'[r].journal = entry
      /\ ReceiptsLast' /\ EvictionsLast' /\ MeasurementsLast'
  BY WrittenKeepsFiles
<1>2. StoreTypeOK'
  BY <1>1 DEF StoreInv, StoreTypeOK
<1>3. Measured(r)
  BY DEF Measured
<1>4. LiveRunsAreSafe'
  <2>1. entry # NoFile
    BY NewJournals
  <2>2. active \in [Procs -> Runs \cup {NoFile}]
    BY DEF StoreInv, StoreTypeOK
  <2>3. file[r].journal.origin = "native"
    BY StoreBounds DEF StoreInv, LiveRunsAreSafe
  <2> QED BY <1>1, <2>1, <2>2, <2>3 DEF StoreInv, LiveRunsAreSafe
<1>5. TombstonesLast'
  BY <1>1 DEF StoreInv, TombstonesLast, Awaits
<1>6. PlansFit'
  <2> SUFFICES ASSUME op # NoFile PROVE PlansFit'
    BY DEF PlansFit
  <2>1. op.run \in Runs /\ op.left \subseteq Runs
    BY DEF StoreInv, StoreTypeOK, Operations
  <2>2. \A s \in Runs : \A v : Writing(s, v) => s # r /\ Writing(s, v)'
    BY <1>1, <1>3 DEF Writing, Measured
  <2>3. \A s \in Runs : Deleting(s) => Deleting(s)'
    BY <1>1 DEF Deleting, Measured
  <2>4. \A s \in Runs : \A x : Acking(s, x) => Acking(s, x)'
    BY <1>1 DEF Acking
  <2>5. \A s \in Runs : Evicting(s) => Evicting(s)'
    BY <1>1, <1>3 DEF Evicting, Measured
  <2> QED BY <1>1, <2>1, <2>2, <2>3, <2>4, <2>5 DEF StoreInv, PlansFit
<1> QED BY <1>1, <1>2, <1>4, <1>5, <1>6 DEF StoreInv

LEMMA CheckpointKeepsInv ==
  ASSUME StoreInv, NEW p \in Procs, Checkpoint(p)
  PROVE StoreInv'
<1>1. PICK r \in Runs :
        /\ active[p] = r /\ file[r].journal.rows < MaxRows
        /\ LET entry == [file[r].journal EXCEPT !.rows = @ + 1, !.end = "open"]
           IN  Written(r, entry) /\ kept' = [kept EXCEPT ![r] = entry.rows]
        /\ UNCHANGED <<active, marker, op, faults, deleted, asked, shaky, acked, evicted>>
  BY DEF Checkpoint
<1> DEFINE j == file[r].journal
           entry == [j EXCEPT !.rows = @ + 1, !.end = "open"]
<1>2. j \in Journals
  <2>1. j # NoFile
    BY <1>1, StoreBounds DEF StoreInv, LiveRunsAreSafe
  <2> QED BY <2>1 DEF StoreInv, StoreTypeOK, Files
<1>3. Written(r, entry) /\ kept' = [kept EXCEPT ![r] = entry.rows] /\ j.rows < MaxRows
  BY <1>1
<1> HIDE DEF j
<1>4. entry \in Journals /\ entry.origin = j.origin /\ entry.rows >= j.rows
  <2>1. j.rows + 1 <= MaxRows
    BY <1>2, <1>3, NewJournals
  <2> QED BY <1>2, <2>1, OneMoreRow
<1> HIDE DEF entry
<1> QED BY <1>1, <1>3, <1>4, MeasuringKeepsInv DEF j

LEMMA FinishKeepsInv ==
  ASSUME StoreInv, NEW p \in Procs, FinishRun(p)
  PROVE StoreInv'
<1>1. PICK r \in Runs, end \in {"good", "bad"} :
        /\ active[p] = r
        /\ Written(r, [file[r].journal EXCEPT !.end = end])
        /\ UNCHANGED <<active, marker, op, faults, storeHistory>>
  BY DEF FinishRun
<1> DEFINE j == file[r].journal
           entry == [j EXCEPT !.end = end]
<1>2. j \in Journals
  <2>1. j # NoFile
    BY <1>1, StoreBounds DEF StoreInv, LiveRunsAreSafe
  <2> QED BY <2>1 DEF StoreInv, StoreTypeOK, Files
<1>3. Written(r, entry)
  BY <1>1
<1> HIDE DEF j
<1>4. entry \in Journals /\ entry.origin = j.origin /\ entry.rows >= j.rows
  BY <1>2, NewJournals DEF Journals
<1> HIDE DEF entry
<1>5. UNCHANGED <<active, marker, op, kept, deleted, asked, shaky, acked, evicted>>
  BY <1>1 DEF storeHistory
<1> QED BY <1>1, <1>3, <1>4, <1>5, MeasuringKeepsInv DEF j

\* The lock of a run is released.
LEMMA EndKeepsInv ==
  ASSUME StoreInv, NEW p \in Procs, EndRun(p)
  PROVE StoreInv'
<1>1. /\ active[p] # NoFile /\ active' = [active EXCEPT ![p] = NoFile]
      /\ marker' = marker \ {active[p]} \/ marker' = marker
      /\ UNCHANGED <<storeFiles, op, faults, storeHistory>>
  BY DEF EndRun
<1>2. active \in [Procs -> Runs \cup {NoFile}]
  BY DEF StoreInv, StoreTypeOK
<1>3. \A r \in Runs : ~Measured(r) => ~Measured(r)'
  BY <1>1, <1>2, StoreBounds DEF Measured
<1>4. StoreTypeOK'
  BY <1>1, <1>2 DEF StoreInv, StoreTypeOK, storeFiles, storeHistory
<1>5. LiveRunsAreSafe'
  BY <1>1, <1>2 DEF StoreInv, LiveRunsAreSafe, storeFiles
<1>6. ReceiptsLast' /\ EvictionsLast' /\ MeasurementsLast'
  BY <1>1 DEF StoreInv, ReceiptsLast, EvictionsLast, MeasurementsLast, Covers, storeFiles, storeHistory
<1>7. TombstonesLast'
  BY <1>1 DEF StoreInv, TombstonesLast, Awaits, storeFiles, storeHistory
<1>8. PlansFit'
  <2> SUFFICES ASSUME op # NoFile PROVE PlansFit'
    BY <1>1 DEF PlansFit
  <2>1. op.run \in Runs
    BY DEF StoreInv, StoreTypeOK, Operations
  <2>2. \A s \in Runs : \A v : Writing(s, v) => Writing(s, v)'
    BY <1>1, <1>3 DEF Writing, storeFiles, storeHistory
  <2>3. \A s \in Runs : Deleting(s) => Deleting(s)'
    BY <1>1, <1>3 DEF Deleting, storeFiles, storeHistory
  <2>4. \A s \in Runs : \A x : Acking(s, x) => Acking(s, x)'
    BY <1>1 DEF Acking, storeFiles
  <2>5. \A s \in Runs : Evicting(s) => Evicting(s)'
    BY <1>1, <1>3 DEF Evicting, storeFiles
  <2> QED BY <1>1, <2>1, <2>2, <2>3, <2>4, <2>5 DEF StoreInv, PlansFit, storeFiles
<1> QED BY <1>4, <1>5, <1>6, <1>7, <1>8 DEF StoreInv

\* A listing drops the markers of runs nobody measures.
LEMMA ListKeepsInv ==
  ASSUME StoreInv, ListRuns
  PROVE StoreInv'
<1>1. /\ op = NoFile /\ marker' = Marked
      /\ UNCHANGED <<storeFiles, active, op, faults, storeHistory>>
  BY DEF ListRuns
<1>2. LiveRunsAreSafe'
  <2>1. \A p \in Procs : active[p] # NoFile => active[p] \in marker'
    BY <1>1 DEF StoreInv, LiveRunsAreSafe, Marked, Measured
  <2> QED BY <1>1, <2>1 DEF StoreInv, LiveRunsAreSafe, storeFiles
<1>3. StoreTypeOK'
  BY <1>1 DEF StoreInv, StoreTypeOK, Marked, storeFiles, storeHistory
<1>4. ReceiptsLast' /\ EvictionsLast' /\ MeasurementsLast'
  BY <1>1 DEF StoreInv, ReceiptsLast, EvictionsLast, MeasurementsLast, Covers, storeFiles, storeHistory
<1>5. TombstonesLast'
  BY <1>1 DEF StoreInv, TombstonesLast, Awaits, storeFiles, storeHistory
<1>6. PlansFit'
  BY <1>1 DEF PlansFit
<1> QED BY <1>2, <1>3, <1>4, <1>5, <1>6 DEF StoreInv

\* A process dies, maybe while it writes a measurement; its operation stops.
LEMMA KillKeepsInv ==
  ASSUME StoreInv, NEW p \in Procs, Kill(p)
  PROVE StoreInv'
<1> DEFINE mine == op # NoFile /\ op.proc = p
<1>1. /\ active' = [active EXCEPT ![p] = NoFile]
      /\ op' = IF mine THEN NoFile ELSE op
      /\ shaky' = IF mine THEN Unsettled ELSE shaky
      /\ UNCHANGED <<marker, kept, deleted, asked, acked, evicted>>
  BY DEF Kill
<1>t. active \in [Procs -> Runs \cup {NoFile}]
  BY DEF StoreInv, StoreTypeOK
<1>2. \A r \in Runs : ~Measured(r) => ~Measured(r)'
  BY <1>1, <1>t, StoreBounds DEF Measured
<1> HIDE DEF mine
\* First the operation stops, then the journal is as the process left it.
<1>3. /\ \A r \in Runs : r \notin shaky' =>
            file[r].tomb = disk[r].tomb \/ (~mine /\ Awaits(r))
      /\ shaky \subseteq shaky' /\ shaky' \subseteq Runs
  <2>1. CASE mine
    <3>1. op \in Operations
      BY <2>1 DEF mine, StoreInv, StoreTypeOK
    <3>2. op.run \in Runs
      BY <3>1 DEF Operations
    <3>3. \A r \in Runs : Awaits(r) => r \in Unsettled
      BY DEF Awaits, Unsettled
    <3>4. shaky \subseteq Unsettled /\ Unsettled \subseteq Runs
      BY <3>2 DEF Unsettled, StoreInv, StoreTypeOK
    <3> QED BY <1>1, <2>1, <3>3, <3>4 DEF StoreInv, TombstonesLast
  <2>2. CASE ~mine
    BY <1>1, <2>2 DEF StoreInv, TombstonesLast, StoreTypeOK
  <2> QED BY <2>1, <2>2
<1>4. CASE active[p] = NoFile
  <2>1. UNCHANGED storeFiles
    BY <1>4 DEF Kill
  <2>2. active' = active
    BY <1>1, <1>4, <1>t
  <2>3. LiveRunsAreSafe' /\ ReceiptsLast' /\ EvictionsLast' /\ MeasurementsLast'
    BY <1>1, <2>1, <2>2 DEF StoreInv, LiveRunsAreSafe, ReceiptsLast, EvictionsLast, MeasurementsLast, Covers, storeFiles
  <2>4. TombstonesLast'
    BY <1>1, <1>3, <2>1 DEF StoreInv, TombstonesLast, Awaits, storeFiles
  <2>5. PlansFit'
    <3>1. CASE mine
      BY <1>1, <3>1 DEF PlansFit
    <3>2. CASE ~mine
      BY <1>1, <3>2, <2>1, <2>2 DEF StoreInv, PlansFit, Writing, Deleting, Acking, Evicting, Measured, storeFiles
    <3> QED BY <3>1, <3>2
  <2>6. StoreTypeOK'
    BY <1>1, <1>3, <2>1, <2>2 DEF StoreInv, StoreTypeOK, storeFiles
  <2> QED BY <2>3, <2>4, <2>5, <2>6 DEF StoreInv
<1>5. CASE active[p] # NoFile
  <2> DEFINE r == active[p]
  <2>1. r \in Runs
    BY <1>5, <1>t
  <2>2. PICK entry \in Torn(r) : Written(r, entry)
    BY <1>5 DEF Kill
  <2>3. file[r].journal \in Journals
    <3>1. file[r].journal # NoFile
      BY <1>5 DEF StoreInv, LiveRunsAreSafe
    <3> QED BY <2>1, <3>1 DEF StoreInv, StoreTypeOK, Files
  <2>4. /\ entry \in Journals /\ entry.origin = file[r].journal.origin
        /\ entry.rows >= file[r].journal.rows
    <3> DEFINE j == file[r].journal
    <3>1. j \in Journals /\ (entry = j \/ (entry = [j EXCEPT !.rows = @ + 1, !.end = "open"] /\ entry.rows <= MaxRows))
      BY <2>2, <2>3 DEF Torn
    <3> HIDE DEF j
    <3>2. entry \in Journals /\ entry.origin = j.origin /\ entry.rows >= j.rows
      <4>1. CASE entry = j
        BY <3>1, <4>1, NewJournals
      <4>2. CASE entry = [j EXCEPT !.rows = @ + 1, !.end = "open"] /\ entry.rows <= MaxRows
        <5>1. entry.rows = j.rows + 1
          BY <3>1, <4>2 DEF Journals
        <5> QED BY <3>1, <4>2, <5>1, OneMoreRow
      <4> QED BY <3>1, <4>1, <4>2
    <3> QED BY <3>2 DEF j
  <2> HIDE DEF r
  <2>5. active[p] = r
    BY DEF r
  <2>6. /\ file' \in [Runs -> Files] /\ disk' \in [Runs -> Files] /\ kept' \in [Runs -> 0..MaxRows]
        /\ \A s \in Runs : /\ file'[s].receipt = file[s].receipt /\ disk'[s].receipt = disk[s].receipt
                           /\ file'[s].tomb = file[s].tomb /\ disk'[s].tomb = disk[s].tomb
                           /\ s # r => file'[s] = file[s] /\ disk'[s] = disk[s] /\ kept'[s] = kept[s]
        /\ file'[r].journal = entry /\ disk'[r].journal = entry
        /\ ReceiptsLast' /\ EvictionsLast' /\ MeasurementsLast'
    BY <1>1, <2>1, <2>2, <2>4, <2>5, WrittenKeepsFiles
  <2>7. StoreTypeOK'
    BY <1>1, <1>t, <1>3, <2>6 DEF StoreInv, StoreTypeOK
  <2>8. LiveRunsAreSafe'
    <3>1. \A q \in Procs : active'[q] # NoFile => q # p /\ active'[q] = active[q] /\ active[q] # r
      BY <1>1, <1>t, <1>5, <2>5 DEF StoreInv, LiveRunsAreSafe
    <3> QED BY <1>1, <1>t, <2>6, <3>1 DEF StoreInv, LiveRunsAreSafe
  <2>9. TombstonesLast'
    BY <1>1, <1>3, <2>6 DEF StoreInv, TombstonesLast, Awaits
  <2>10. PlansFit'
    <3> SUFFICES ASSUME op # NoFile, ~mine PROVE PlansFit'
      BY <1>1 DEF PlansFit
    <3>1. op.run \in Runs /\ op.left \subseteq Runs /\ op' = op
      BY <1>1 DEF StoreInv, StoreTypeOK, Operations
    <3>2. Measured(r)
      BY <2>5 DEF Measured
    <3>3. \A s \in Runs : \A v : Writing(s, v) => s # r /\ Writing(s, v)'
      BY <1>1, <1>2, <2>6, <3>1, <3>2 DEF Writing
    <3>4. \A s \in Runs : Deleting(s) => Deleting(s)'
      BY <1>1, <1>2, <2>6, <3>1 DEF Deleting
    <3>5. \A s \in Runs : \A x : Acking(s, x) => Acking(s, x)'
      BY <2>6, <3>1 DEF Acking
    <3>6. \A s \in Runs : Evicting(s) => Evicting(s)'
      BY <1>2, <2>6, <3>1, <3>2 DEF Evicting
    <3> QED BY <2>6, <3>1, <3>3, <3>4, <3>5, <3>6 DEF StoreInv, PlansFit
  <2> QED BY <2>6, <2>7, <2>8, <2>9, <2>10 DEF StoreInv
<1> QED BY <1>4, <1>5

\* The machine loses power: every file is the one processes saw or the one on the disk.
LEMMA PowerLossKeepsInv ==
  ASSUME StoreInv, PowerLoss
  PROVE StoreInv'
<1>1. PICK lost : file' = [r \in Runs |-> [f \in Names |->
                              IF <<r, f>> \in lost THEN disk[r][f] ELSE file[r][f]]]
  BY DEF PowerLoss
<1>2. /\ disk' = file' /\ active' = [p \in Procs |-> NoFile] /\ op' = NoFile
      /\ UNCHANGED <<marker, storeHistory>>
  BY DEF PowerLoss
<1>3. file \in [Runs -> Files] /\ disk \in [Runs -> Files]
  BY DEF StoreInv, StoreTypeOK
<1>4. file' \in [Runs -> Files]
  BY <1>1, <1>3 DEF Files, Names
<1>5. \A r \in Runs : /\ file'[r].journal \in {file[r].journal, disk[r].journal}
                      /\ file'[r].receipt \in {file[r].receipt, disk[r].receipt}
                      /\ file'[r].tomb \in {file[r].tomb, disk[r].tomb}
  BY <1>1 DEF Names
<1>6. StoreTypeOK'
  BY <1>2, <1>4 DEF StoreInv, StoreTypeOK, storeHistory
<1>7. LiveRunsAreSafe' /\ PlansFit'
  BY <1>2 DEF LiveRunsAreSafe, PlansFit
<1>8. ReceiptsLast'
  BY <1>2, <1>5 DEF StoreInv, ReceiptsLast, storeHistory
<1>r. \A r \in Runs : disk[r].receipt # NoFile => disk'[r].receipt # NoFile
  BY <1>2, <1>5 DEF StoreInv, ReceiptsLast
<1>9. EvictionsLast'
  BY <1>2, <1>5, <1>r DEF StoreInv, EvictionsLast, storeHistory, StoreTypeOK
<1>10. MeasurementsLast'
  <2> SUFFICES ASSUME NEW r \in Runs \ asked PROVE Covers(file[r].journal, r)'
    BY <1>2 DEF MeasurementsLast, storeHistory
  <2>1. Covers(file[r].journal, r) /\ Covers(disk[r].journal, r)
    BY DEF StoreInv, MeasurementsLast
  <2> QED BY <1>2, <1>5, <1>r, <2>1 DEF Covers, storeHistory
<1>11. TombstonesLast'
  BY <1>2, <1>5 DEF StoreInv, TombstonesLast, storeHistory
<1> QED BY <1>6, <1>7, <1>8, <1>9, <1>10, <1>11 DEF StoreInv

-----------------------------------------------------------------------------
(* File operations                                                         *)

\* What a file operation must keep, whatever the plan it belongs to.
FilesInv ==
    /\ file \in [Runs -> Files] /\ disk \in [Runs -> Files]
    /\ LiveRunsAreSafe /\ ReceiptsLast /\ EvictionsLast /\ MeasurementsLast /\ TombstonesLast

\* A directory is synced: one file of every run reaches the disk.
LEMMA SyncKeepsFiles ==
  ASSUME StoreInv, NEW f \in Names, file' = file,
         disk' = [r \in Runs |-> [disk[r] EXCEPT ![f] = file[r][f]]],
         UNCHANGED <<active, marker, kept, deleted, asked, shaky, acked>>,
         evicted \subseteq evicted', evicted' \subseteq Runs,
         \A r \in evicted' \ evicted :
            f = "journal" /\ file[r].journal = NoFile /\ disk[r].receipt # NoFile,
         \A r \in Runs : Awaits(r) => f = "tomb"
  PROVE /\ FilesInv'
        /\ \A r \in Runs : /\ disk[r].receipt # NoFile => disk'[r].receipt = disk[r].receipt
                           /\ f = "receipt" => disk'[r].receipt = file[r].receipt
<1>1. file \in [Runs -> Files] /\ disk \in [Runs -> Files] /\ evicted \subseteq Runs
  BY DEF StoreInv, StoreTypeOK
<1>2. /\ disk' \in [Runs -> Files]
      /\ \A r \in Runs : /\ disk'[r][f] = file[r][f]
                         /\ \A g \in Names \ {f} : disk'[r][g] = disk[r][g]
  BY <1>1 DEF Files, Names
<1>3. \A r \in Runs :
        /\ disk'[r].journal = IF f = "journal" THEN file[r].journal ELSE disk[r].journal
        /\ disk'[r].receipt = IF f = "receipt" THEN file[r].receipt ELSE disk[r].receipt
        /\ disk'[r].tomb = IF f = "tomb" THEN file[r].tomb ELSE disk[r].tomb
  BY <1>2 DEF Names
<1>4. LiveRunsAreSafe'
  BY DEF StoreInv, LiveRunsAreSafe
<1>5. ReceiptsLast'
  BY <1>3 DEF StoreInv, ReceiptsLast
<1>6. \A r \in Runs : /\ disk[r].receipt # NoFile => disk'[r].receipt = disk[r].receipt
                      /\ f = "receipt" => disk'[r].receipt = file[r].receipt
  BY <1>3 DEF StoreInv, ReceiptsLast
<1>7. EvictionsLast'
  BY <1>1, <1>3, <1>6 DEF StoreInv, EvictionsLast
<1>8. MeasurementsLast'
  BY <1>3, <1>6 DEF StoreInv, MeasurementsLast, Covers
<1>9. TombstonesLast'
  BY <1>3 DEF StoreInv, TombstonesLast
<1> QED BY <1>1, <1>2, <1>4, <1>5, <1>6, <1>7, <1>8, <1>9 DEF FilesInv

\* A file is replaced or removed, where processes see it: the others stay.
LEMMA PutChanges ==
  ASSUME StoreInv, NEW r \in Runs, NEW f \in Names, NEW v, file' = Seen(Put(f, r, v))
  PROVE \A s \in Runs, g \in Names : file'[s][g] = IF s = r /\ g = f THEN v ELSE file[s][g]
  BY DEF StoreInv, StoreTypeOK, Seen, Put, Files, Names

\* What a plan may put there keeps what the files promise.
LEMMA PutKeepsFiles ==
  ASSUME StoreInv, NEW r \in Runs, NEW f \in Names, NEW v,
         file' = Seen(Put(f, r, v)), disk' = disk,
         UNCHANGED <<active, marker, kept, deleted, asked, shaky, acked, evicted>>,
         f = "journal" => /\ v \in Journals \cup {NoFile} /\ ~Measured(r)
                          /\ r \notin asked => Covers(v, r)
                          /\ r \in evicted => v = NoFile,
         f = "receipt" => v \in Accepted /\ file[r].receipt = NoFile,
         f = "cand" => v \in Accepted \cup {NoFile},
         f = "tomb" => v = TRUE /\ Awaits(r)',
         \A s \in Runs : ~Awaits(s)
  PROVE FilesInv'
<1>1. file \in [Runs -> Files] /\ disk \in [Runs -> Files] /\ evicted \subseteq Runs
      /\ active \in [Procs -> Runs \cup {NoFile}]
  BY DEF StoreInv, StoreTypeOK
<1>2. v \in CASE f = "journal" -> Journals \cup {NoFile} [] f = "tomb" -> BOOLEAN
              [] OTHER -> Accepted \cup {NoFile}
  BY DEF Names
<1>3. /\ file' \in [Runs -> Files]
      /\ file'[r][f] = v /\ \A g \in Names \ {f} : file'[r][g] = file[r][g]
      /\ \A s \in Runs \ {r} : file'[s] = file[s]
  <2>1. file' = [file EXCEPT ![r][f] = v]
    BY DEF Seen, Put
  <2> QED BY <1>1, <1>2, <2>1 DEF Files, Names
<1>4. /\ f # "journal" => file'[r].journal = file[r].journal
      /\ f # "receipt" => file'[r].receipt = file[r].receipt
      /\ f # "tomb" => file'[r].tomb = file[r].tomb
      /\ f = "journal" => file'[r].journal = v
      /\ f = "receipt" => file'[r].receipt = v
      /\ f = "tomb" => file'[r].tomb = v
  BY <1>3 DEF Names
<1>5. LiveRunsAreSafe'
  <2> SUFFICES ASSUME NEW p \in Procs, active[p] # NoFile
               PROVE file'[active[p]].journal = file[active[p]].journal
    BY DEF StoreInv, LiveRunsAreSafe
  <2> QED BY <1>1, <1>3, <1>4 DEF Measured
<1>6. ReceiptsLast'
  BY <1>3, <1>4 DEF StoreInv, ReceiptsLast
<1>7. EvictionsLast'
  BY <1>1, <1>3, <1>4 DEF StoreInv, EvictionsLast
<1>8. MeasurementsLast'
  BY <1>3, <1>4 DEF StoreInv, MeasurementsLast, Covers
<1>9. TombstonesLast'
  BY <1>3, <1>4 DEF StoreInv, TombstonesLast
<1> QED BY <1>1, <1>3, <1>5, <1>6, <1>7, <1>8, <1>9 DEF FilesInv

-----------------------------------------------------------------------------
(* An operation is carried out                                             *)

\* One step of the plan: what it does to the files, and that the rest remains to be done.
LEMMA StepCarried ==
  ASSUME StoreInv, Carry
  PROVE /\ op \in Operations /\ op # NoFile /\ op' \in Operations /\ op' # NoFile
        /\ op'.kind = op.kind /\ op'.run = op.run /\ op'.receipt = op.receipt
        /\ op'.left = op.left /\ op'.todo = Tail(op.todo) /\ op.todo # << >>
        /\ UNCHANGED <<active, marker, kept, deleted, asked, shaky, acked>>
        /\ \A f, r, v : Head(op.todo) = Put(f, r, v) =>
              file' = Seen(Put(f, r, v)) /\ disk' = disk /\ evicted' = evicted
        /\ \A f, r : Head(op.todo) = Sync(f, r) =>
              /\ file' = file /\ disk' = [s \in Runs |-> [disk[s] EXCEPT ![f] = file[s][f]]]
              /\ evicted' = IF op.kind = "prune" /\ f = "journal" THEN evicted \cup {r} ELSE evicted
        /\ \A s \in Runs : \A f, r, v : Head(op.todo) = Put(f, r, v) => ~Awaits(s)
        /\ \A s \in Runs : \A f, r : Head(op.todo) = Sync(f, r) /\ Awaits(s) => f = "tomb"
<1>1. /\ op # NoFile /\ op.todo # << >> /\ op' = [op EXCEPT !.todo = Tail(@)]
      /\ UNCHANGED <<active, marker, kept, deleted, asked, shaky, acked>>
      /\ file' = Seen(Head(op.todo)) /\ disk' = Synced(Head(op.todo))
      /\ evicted' = IF op.kind = "prune" /\ Head(op.todo) = Sync("journal", Head(op.todo).run)
                    THEN evicted \cup {Head(op.todo).run} ELSE evicted
  BY DEF Carry
<1>2. op \in Operations /\ op.todo \in Seq(Steps)
  BY <1>1 DEF StoreInv, StoreTypeOK, Operations
<1>3. Tail(op.todo) \in Seq(Steps) /\ op.left \in SUBSET Runs
  BY <1>1, <1>2 DEF Operations
<1> DEFINE kind == op.kind
           rest == Tail(op.todo)
           left == op.left
<1>4. /\ op' = [op EXCEPT !.kind = kind, !.todo = rest, !.left = left]
      /\ kind \in {op.kind, "prune"} /\ rest \in Seq(Steps) /\ left \in SUBSET Runs
  BY <1>1, <1>2, <1>3 DEF Operations
<1> HIDE DEF kind, rest, left
<1>g. /\ op' \in Operations /\ op' # NoFile /\ op'.kind = kind /\ op'.run = op.run
      /\ op'.receipt = op.receipt /\ op'.left = left /\ op'.todo = rest
  BY <1>2, <1>4, OperationGoesOn
<1>5. /\ op' \in Operations /\ op' # NoFile /\ op'.kind = op.kind /\ op'.run = op.run
      /\ op'.receipt = op.receipt /\ op'.left = op.left /\ op'.todo = Tail(op.todo)
  BY <1>g DEF kind, rest, left
<1>6. \A f, r, v : Head(op.todo) = Put(f, r, v) =>
         file' = Seen(Put(f, r, v)) /\ disk' = disk /\ evicted' = evicted
  <2> DEFINE h == Head(op.todo)
  <2>1. /\ file' = Seen(h) /\ disk' = Synced(h)
        /\ evicted' = IF op.kind = "prune" /\ h = Sync("journal", h.run)
                      THEN evicted \cup {h.run} ELSE evicted
    BY <1>1
  <2> HIDE DEF h
  <2> SUFFICES ASSUME NEW f, NEW r, NEW v, h = Put(f, r, v)
               PROVE file' = Seen(Put(f, r, v)) /\ disk' = disk /\ evicted' = evicted
    BY DEF h
  <2>2. h.do = "put"
    BY DEF Put
  <2>3. h # Sync("journal", h.run)
    BY <2>2 DEF Sync
  <2> QED BY <2>1, <2>2, <2>3 DEF Synced
<1>7. \A f, r : Head(op.todo) = Sync(f, r) =>
         /\ file' = file /\ disk' = [s \in Runs |-> [disk[s] EXCEPT ![f] = file[s][f]]]
         /\ evicted' = IF op.kind = "prune" /\ f = "journal" THEN evicted \cup {r} ELSE evicted
  <2> DEFINE h == Head(op.todo)
  <2>1. /\ file' = Seen(h) /\ disk' = Synced(h)
        /\ evicted' = IF op.kind = "prune" /\ h = Sync("journal", h.run)
                      THEN evicted \cup {h.run} ELSE evicted
    BY <1>1
  <2> HIDE DEF h
  <2> SUFFICES ASSUME NEW f, NEW r, h = Sync(f, r)
               PROVE /\ file' = file /\ disk' = [s \in Runs |-> [disk[s] EXCEPT ![f] = file[s][f]]]
                     /\ evicted' = IF op.kind = "prune" /\ f = "journal" THEN evicted \cup {r} ELSE evicted
    BY DEF h
  <2>2. h.do = "sync" /\ h.name = f /\ h.run = r
    BY DEF Sync
  <2>3. h = Sync("journal", h.run) <=> f = "journal"
    BY <2>2 DEF Sync
  <2> QED BY <2>1, <2>2, <2>3 DEF Seen, Synced
<1>8. \A s \in Runs : \A f, r, v : Head(op.todo) = Put(f, r, v) => ~Awaits(s)
  BY DEF Awaits, Put, Sync
<1>9. \A s \in Runs : \A f, r : Head(op.todo) = Sync(f, r) /\ Awaits(s) => f = "tomb"
  BY DEF Awaits, Sync
<1> QED BY <1>1, <1>2, <1>5, <1>6, <1>7, <1>8, <1>9

\* The files and the rest of the plan are all a step of it changes.
LEMMA FilesAndPlan ==
  ASSUME StoreInv, Carry, FilesInv', PlansFit'
  PROVE StoreInv'
<1>1. /\ op' \in Operations /\ op.todo # << >> /\ op \in Operations
      /\ UNCHANGED <<active, marker, kept, deleted, asked, shaky, acked>>
  BY StepCarried
<1>2. evicted' \subseteq Runs
  <2>1. Head(op.todo) \in Steps
    BY <1>1 DEF Operations
  <2>2. Head(op.todo).run \in Runs
    BY <2>1 DEF Steps
  <2> QED BY <2>2 DEF Carry, StoreInv, StoreTypeOK
<1>3. StoreTypeOK'
  BY <1>1, <1>2 DEF StoreInv, StoreTypeOK, FilesInv
<1> QED BY <1>3 DEF StoreInv, FilesInv

\* The journal of a new run is written, then synced.
LEMMA WritingKeepsInv ==
  ASSUME StoreInv, Carry, NEW v \in {Opened, Imported}, Writing(op.run, v),
         op.kind = IF v = Opened THEN "begin" ELSE "import"
  PROVE StoreInv'
<1>1. /\ op \in Operations /\ op # NoFile /\ op' \in Operations /\ op' # NoFile
      /\ op'.kind = op.kind /\ op'.run = op.run /\ op'.left = op.left
      /\ op'.todo = Tail(op.todo) /\ op.todo # << >>
      /\ UNCHANGED <<active, marker, kept, deleted, asked, shaky, acked>>
  BY StepCarried
<1>2. PICK r \in Runs : r = op.run
  BY <1>1 DEF Operations
<1>3. /\ Writing(r, v) /\ v \in Journals /\ v.rows = 0 /\ op.kind # "prune"
      /\ op'.run = r
  BY <1>1, <1>2, NewJournals
<1>a. /\ ~Measured(r) /\ ~Measured(r)' /\ kept'[r] = kept[r] /\ asked' = asked
      /\ file[r].receipt = NoFile
  BY <1>1, <1>3 DEF Writing, Measured
<1>b. kept[r] = 0 \/ r \in asked
  BY <1>3 DEF Writing
<1>4. CASE op.todo = <<Put("journal", r, v), Sync("journal", r)>> /\ file[r].journal = NoFile
  <2>1. Head(op.todo) = Put("journal", r, v) /\ Tail(op.todo) = <<Sync("journal", r)>>
    BY <1>4, HeadAndTail
  <2>2. /\ file' = Seen(Put("journal", r, v)) /\ disk' = disk /\ evicted' = evicted
        /\ \A s \in Runs : ~Awaits(s)
    BY <2>1, StepCarried
  <2>3. r \notin asked => Covers(v, r)
    BY <1>3, <1>b, NewJournals DEF Covers
  <2>4. r \notin evicted
    BY <1>a DEF StoreInv, EvictionsLast, ReceiptsLast, StoreTypeOK
  <2>5. "journal" \in Names
    BY DEF Names
  <2>6. disk' = disk /\ evicted' = evicted
        /\ UNCHANGED <<active, marker, kept, deleted, asked, shaky, acked>>
    BY <1>1, <2>2
  <2>7. FilesInv'
    BY <1>3, <1>a, <2>2, <2>3, <2>4, <2>5, <2>6, PutKeepsFiles
  <2>8. Writing(r, v)'
    <3>1. file'[r].journal = v /\ file'[r].receipt = NoFile
      BY <1>a, <2>2, PutChanges DEF Names
    <3> QED BY <1>1, <1>3, <1>a, <1>b, <2>1, <3>1 DEF Writing
  <2>9. PlansFit'
    BY <1>1, <1>3, <2>8, NewJournals DEF PlansFit
  <2> QED BY <1>1, <2>2, <2>7, <2>9, FilesAndPlan
<1>5. CASE op.todo = <<Sync("journal", r)>> /\ file[r].journal = v
  <2>1. Head(op.todo) = Sync("journal", r) /\ Tail(op.todo) = << >>
    BY <1>5, HeadAndTail
  <2> DEFINE f == "journal"
  <2>2. /\ file' = file /\ disk' = [s \in Runs |-> [disk[s] EXCEPT ![f] = file[s][f]]]
        /\ evicted' = evicted /\ f \in Names
        /\ \A s \in Runs : Awaits(s) => f = "tomb"
    BY <1>3, <2>1, StepCarried DEF Names
  <2> HIDE DEF f
  <2>3. evicted \subseteq Runs
    BY DEF StoreInv, StoreTypeOK
  <2>6. FilesInv'
    BY <1>1, <2>2, <2>3, SyncKeepsFiles
  <2>8. Writing(r, v)'
    BY <1>1, <1>5, <1>a, <1>b, <2>1, <2>2 DEF Writing
  <2>9. PlansFit'
    BY <1>1, <1>3, <2>8, NewJournals DEF PlansFit
  <2> QED BY <1>1, <2>2, <2>6, <2>9, FilesAndPlan
<1> QED BY <1>1, <1>3, <1>4, <1>5 DEF Writing

\* A tombstone is put there and synced, then the journal is removed and that synced.
LEMMA DeletingKeepsInv ==
  ASSUME StoreInv, Carry, op.kind = "delete"
  PROVE StoreInv'
<1>1. /\ op \in Operations /\ op # NoFile /\ op' \in Operations /\ op' # NoFile
      /\ op'.kind = op.kind /\ op'.run = op.run /\ op'.left = op.left
      /\ op'.todo = Tail(op.todo) /\ op.todo # << >>
      /\ UNCHANGED <<active, marker, kept, deleted, asked, shaky, acked>>
  BY StepCarried
<1>2. PICK r \in Runs : r = op.run
  BY <1>1 DEF Operations
<1>3. Deleting(r)
  BY <1>1, <1>2 DEF StoreInv, PlansFit
<1>4. ~Measured(r) /\ ~Measured(r)' /\ r \in asked /\ asked' = asked
  BY <1>1, <1>3 DEF Deleting, Measured
<1>5. SUFFICES FilesInv' /\ Deleting(r)'
  <2>1. ASSUME Deleting(r)' PROVE PlansFit'
    BY <1>1, <1>2, <2>1 DEF PlansFit
  <2> QED BY <2>1, FilesAndPlan
<1>6. evicted \subseteq Runs
  BY DEF StoreInv, StoreTypeOK
\* The tombstone is renamed into place.
<1>7. CASE op.todo \in {<<Put("tomb", r, TRUE), Sync("tomb", r)>>,
                        <<Put("tomb", r, TRUE), Sync("tomb", r), Cut("journal", r), Sync("journal", r)>>}
  <2>a. /\ Head(op.todo) = Put("tomb", r, TRUE)
        /\ Tail(op.todo) = <<Sync("tomb", r)>>
           \/ Tail(op.todo) = <<Sync("tomb", r), Cut("journal", r), Sync("journal", r)>>
    <3> DEFINE t == Put("tomb", r, TRUE)
    <3>0. \/ op.todo = <<t, Sync("tomb", r)>>
          \/ op.todo = <<t, Sync("tomb", r), Cut("journal", r), Sync("journal", r)>>
      BY <1>7
    <3> HIDE DEF t
    <3>1. CASE op.todo = <<t, Sync("tomb", r)>>
      BY <3>1, HeadAndTail DEF t
    <3>2. CASE op.todo = <<t, Sync("tomb", r), Cut("journal", r), Sync("journal", r)>>
      <4>1. Head(op.todo) = t /\ Tail(op.todo) = <<Sync("tomb", r), Cut("journal", r), Sync("journal", r)>>
        BY <3>2, HeadAndTail
      <4> QED BY <4>1 DEF t
    <3> QED BY <3>0, <3>1, <3>2
  <2>b. PICK v \in BOOLEAN : v = TRUE
    OBVIOUS
  <2>1. Head(op.todo) = Put("tomb", r, v)
    BY <2>a, <2>b, Zenon
  <2>2. /\ file' = Seen(Put("tomb", r, v)) /\ disk' = disk /\ evicted' = evicted
        /\ \A s \in Runs : ~Awaits(s)
    BY <2>1, StepCarried
  <2>3. Awaits(r)'
    <3>1. op'.todo # << >> /\ Head(op'.todo) = Sync("tomb", r)
      <4>1. CASE op'.todo = <<Sync("tomb", r)>>
        BY <4>1, HeadAndTail
      <4>2. CASE op'.todo = <<Sync("tomb", r), Cut("journal", r), Sync("journal", r)>>
        BY <4>2, HeadAndTail
      <4> QED BY <1>1, <2>a, <4>1, <4>2
    <3> QED BY <1>1, <1>2, <3>1 DEF Awaits
  <2>4. "tomb" \in Names
    BY DEF Names
  <2>5. disk' = disk /\ evicted' = evicted
        /\ UNCHANGED <<active, marker, kept, deleted, asked, shaky, acked>>
    BY <1>1, <2>2
  <2>6. FilesInv'
    BY <2>b, <2>2, <2>3, <2>4, <2>5, PutKeepsFiles
  <2>7. file'[r].tomb
    <3>1. file'[r].tomb = v
      BY <2>2, PutChanges DEF Names
    <3> QED BY <2>b, <3>1
  <2>8. Deleting(r)'
    BY <1>1, <1>4, <2>a, <2>7 DEF Deleting
  <2> QED BY <2>6, <2>8
\* The directory of tombstones is synced.
<1>8. CASE /\ file[r].tomb
           /\ op.todo \in {<<Sync("tomb", r)>>, <<Sync("tomb", r), Cut("journal", r), Sync("journal", r)>>}
  <2>1. /\ Head(op.todo) = Sync("tomb", r)
        /\ Tail(op.todo) = << >> \/ Tail(op.todo) = <<Cut("journal", r), Sync("journal", r)>>
    <3>1. CASE op.todo = <<Sync("tomb", r)>>
      BY <3>1, HeadAndTail
    <3>2. CASE op.todo = <<Sync("tomb", r), Cut("journal", r), Sync("journal", r)>>
      BY <3>2, HeadAndTail
    <3> QED BY <1>8, <3>1, <3>2
  <2>2. /\ file' = file /\ disk' = [s \in Runs |-> [disk[s] EXCEPT !["tomb"] = file[s]["tomb"]]]
        /\ evicted' = evicted
        /\ \A s \in Runs : Awaits(s) => "tomb" = "tomb"
    BY <1>1, <2>1, StepCarried
  <2>3. "tomb" \in Names
    BY DEF Names
  <2>4. FilesInv'
    BY <1>1, <1>6, <2>2, <2>3, SyncKeepsFiles
  <2>5. Deleting(r)'
    BY <1>1, <1>4, <1>8, <2>1, <2>2 DEF Deleting
  <2> QED BY <2>4, <2>5
\* The journal is removed: the user asked for it.
<1>9. CASE file[r].tomb /\ op.todo = <<Cut("journal", r), Sync("journal", r)>>
  <2>1. Head(op.todo) = Put("journal", r, NoFile) /\ Tail(op.todo) = <<Sync("journal", r)>>
    BY <1>9, HeadAndTail DEF Cut
  <2>2. /\ file' = Seen(Put("journal", r, NoFile)) /\ disk' = disk /\ evicted' = evicted
        /\ \A s \in Runs : ~Awaits(s)
    BY <2>1, StepCarried
  <2>3. "journal" \in Names
    BY DEF Names
  <2>4. disk' = disk /\ evicted' = evicted
        /\ UNCHANGED <<active, marker, kept, deleted, asked, shaky, acked>>
    BY <1>1, <2>2
  <2>5. FilesInv'
    BY <1>4, <2>2, <2>3, <2>4, PutKeepsFiles
  <2>6. file'[r].tomb
    BY <1>9, <2>2, PutChanges DEF Names
  <2>7. Deleting(r)'
    BY <1>1, <1>4, <2>1, <2>6 DEF Deleting
  <2> QED BY <2>5, <2>7
\* The directory of journals is synced.
<1>10. CASE file[r].tomb /\ op.todo = <<Sync("journal", r)>>
  <2>1. Head(op.todo) = Sync("journal", r) /\ Tail(op.todo) = << >>
    BY <1>10, HeadAndTail
  <2>2. /\ file' = file /\ disk' = [s \in Runs |-> [disk[s] EXCEPT !["journal"] = file[s]["journal"]]]
        /\ evicted' = evicted
        /\ \A s \in Runs : Awaits(s) => "journal" = "tomb"
    BY <1>1, <2>1, StepCarried
  <2>3. "journal" \in Names
    BY DEF Names
  <2>4. FilesInv'
    BY <1>1, <1>6, <2>2, <2>3, SyncKeepsFiles
  <2>5. Deleting(r)'
    BY <1>1, <1>4, <1>10, <2>1, <2>2 DEF Deleting
  <2> QED BY <2>4, <2>5
<1> QED BY <1>1, <1>3, <1>7, <1>8, <1>9, <1>10 DEF Deleting

\* The cache marker of an acceptance is put there and synced, then the receipt.
LEMMA AckingKeepsInv ==
  ASSUME StoreInv, Carry, op.kind = "ack"
  PROVE StoreInv'
<1>1. /\ op \in Operations /\ op # NoFile /\ op' \in Operations /\ op' # NoFile
      /\ op'.kind = op.kind /\ op'.run = op.run /\ op'.receipt = op.receipt
      /\ op'.todo = Tail(op.todo) /\ op.todo # << >>
      /\ UNCHANGED <<active, marker, kept, deleted, asked, shaky, acked>>
  BY StepCarried
<1>2. PICK r \in Runs, x \in Receipts \cup {NoFile} : r = op.run /\ x = op.receipt
  BY <1>1 DEF Operations
<1>3. Acking(r, x)
  BY <1>1, <1>2 DEF StoreInv, PlansFit
<1>5. SUFFICES FilesInv' /\ Acking(r, x)'
  <2>1. ASSUME Acking(r, x)' PROVE PlansFit'
    BY <1>1, <1>2, <2>1 DEF PlansFit
  <2> QED BY <2>1, FilesAndPlan
<1>6. evicted \subseteq Runs
  BY DEF StoreInv, StoreTypeOK
<1>7. ASSUME NEW a \in Accepted, a.receipt = x, file[r].receipt = NoFile,
             op.todo = <<Put("cand", r, a), Sync("cand", r), Put("receipt", r, a), Sync("receipt", r)>>
      PROVE FilesInv' /\ Acking(r, x)'
  <2>1. /\ Head(op.todo) = Put("cand", r, a)
        /\ Tail(op.todo) = <<Sync("cand", r), Put("receipt", r, a), Sync("receipt", r)>>
    BY <1>7, HeadAndTail
  <2>2. /\ file' = Seen(Put("cand", r, a)) /\ disk' = disk /\ evicted' = evicted
        /\ \A s \in Runs : ~Awaits(s)
    BY <2>1, StepCarried
  <2>3. "cand" \in Names
    BY DEF Names
  <2>4. disk' = disk /\ evicted' = evicted
        /\ UNCHANGED <<active, marker, kept, deleted, asked, shaky, acked>>
    BY <1>1, <2>2
  <2>5. FilesInv'
    BY <2>2, <2>3, <2>4, PutKeepsFiles
  <2>6. file'[r].receipt = NoFile
    BY <1>7, <2>2, PutChanges DEF Names
  <2>7. Acking(r, x)'
    BY <1>1, <1>7, <2>1, <2>6 DEF Acking
  <2> QED BY <2>5, <2>7
<1>8. ASSUME NEW a \in Accepted, a.receipt = x, file[r].receipt = NoFile,
             op.todo = <<Sync("cand", r), Put("receipt", r, a), Sync("receipt", r)>>
      PROVE FilesInv' /\ Acking(r, x)'
  <2>1. Head(op.todo) = Sync("cand", r) /\ Tail(op.todo) = <<Put("receipt", r, a), Sync("receipt", r)>>
    BY <1>8, HeadAndTail
  <2>2. /\ file' = file /\ disk' = [s \in Runs |-> [disk[s] EXCEPT !["cand"] = file[s]["cand"]]]
        /\ evicted' = evicted
        /\ \A s \in Runs : Awaits(s) => "cand" = "tomb"
    BY <1>1, <2>1, StepCarried
  <2>3. "cand" \in Names
    BY DEF Names
  <2>4. FilesInv'
    BY <1>1, <1>6, <2>2, <2>3, SyncKeepsFiles
  <2>5. Acking(r, x)'
    BY <1>1, <1>8, <2>1, <2>2 DEF Acking
  <2> QED BY <2>4, <2>5
<1>9. ASSUME NEW a \in Accepted, a.receipt = x, file[r].receipt = NoFile,
             op.todo = <<Put("receipt", r, a), Sync("receipt", r)>>
      PROVE FilesInv' /\ Acking(r, x)'
  <2>1. Head(op.todo) = Put("receipt", r, a) /\ Tail(op.todo) = <<Sync("receipt", r)>>
    BY <1>9, HeadAndTail
  <2>2. /\ file' = Seen(Put("receipt", r, a)) /\ disk' = disk /\ evicted' = evicted
        /\ \A s \in Runs : ~Awaits(s)
    BY <2>1, StepCarried
  <2>3. "receipt" \in Names
    BY DEF Names
  <2>4. disk' = disk /\ evicted' = evicted
        /\ UNCHANGED <<active, marker, kept, deleted, asked, shaky, acked>>
    BY <1>1, <2>2
  <2>5. FilesInv'
    BY <1>9, <2>2, <2>3, <2>4, PutKeepsFiles
  <2>6. file'[r].receipt = a /\ a # NoFile
    BY <2>2, PutChanges, StoreBounds DEF Names
  <2>7. Acking(r, x)'
    BY <1>1, <1>9, <2>1, <2>6 DEF Acking
  <2> QED BY <2>5, <2>7
<1>10. CASE file[r].receipt # NoFile /\ file[r].receipt.receipt = x /\ op.todo = <<Sync("receipt", r)>>
  <2>1. Head(op.todo) = Sync("receipt", r) /\ Tail(op.todo) = << >>
    BY <1>10, HeadAndTail
  <2>2. /\ file' = file /\ disk' = [s \in Runs |-> [disk[s] EXCEPT !["receipt"] = file[s]["receipt"]]]
        /\ evicted' = evicted
        /\ \A s \in Runs : Awaits(s) => "receipt" = "tomb"
    BY <1>1, <2>1, StepCarried
  <2>3. "receipt" \in Names
    BY DEF Names
  <2>4. FilesInv' /\ disk'[r].receipt = file[r].receipt
    BY <1>1, <1>6, <2>2, <2>3, SyncKeepsFiles
  <2>5. Acking(r, x)'
    BY <1>1, <1>10, <2>1, <2>2, <2>4 DEF Acking
  <2> QED BY <2>4, <2>5
<1> QED BY <1>1, <1>3, <1>7, <1>8, <1>9, <1>10 DEF Acking

\* A run is evicted: receipt synced, journal removed and that synced, marker removed and
\* that synced.
LEMMA EvictingKeepsInv ==
  ASSUME StoreInv, Carry, op.kind = "prune"
  PROVE StoreInv'
<1>1. /\ op \in Operations /\ op # NoFile /\ op' \in Operations /\ op' # NoFile
      /\ op'.kind = op.kind /\ op'.run = op.run /\ op'.left = op.left /\ op'.receipt = op.receipt
      /\ op'.todo = Tail(op.todo) /\ op.todo # << >>
      /\ UNCHANGED <<active, marker, kept, deleted, asked, shaky, acked>>
  BY StepCarried
<1>2. /\ disk[op.run].receipt # NoFile /\ disk[op.run].receipt.receipt = op.receipt
      /\ \A s \in op.left : file[s].receipt # NoFile
      /\ op.run \in Runs /\ op.left \subseteq Runs
  BY <1>1 DEF StoreInv, PlansFit, Operations
<1>3. PICK r \in Runs : Evicting(r)
  BY <1>1 DEF StoreInv, PlansFit
<1>4. ~Measured(r) => ~Measured(r)'
  BY <1>1 DEF Measured
\* Receipts stay, so the plan fits when the eviction of r does.
<1>5. SUFFICES /\ FilesInv' /\ (Evicting(r)' \/ op'.todo = << >>)
               /\ \A s \in Runs : file'[s].receipt = file[s].receipt
               /\ \A s \in Runs : disk[s].receipt # NoFile => disk'[s].receipt = disk[s].receipt
  <2>1. ASSUME Evicting(r)' \/ op'.todo = << >>,
               \A s \in Runs : file'[s].receipt = file[s].receipt,
               \A s \in Runs : disk[s].receipt # NoFile => disk'[s].receipt = disk[s].receipt
        PROVE PlansFit'
    <3>1. \A s \in op'.left : file'[s].receipt # NoFile
      BY <1>1, <1>2, <2>1
    <3>2. disk'[op'.run].receipt # NoFile /\ disk'[op'.run].receipt.receipt = op'.receipt
      BY <1>1, <1>2, <2>1
    <3>3. op'.todo = << >> \/ \E s \in Runs : Evicting(s)'
      BY <2>1
    <3> QED BY <1>1, <3>1, <3>2, <3>3 DEF PlansFit
  <2> QED BY <2>1, FilesAndPlan
<1>6. evicted \subseteq Runs
  BY DEF StoreInv, StoreTypeOK
\* The receipt is synced.
<1>7. CASE /\ ~Measured(r) /\ file[r].receipt # NoFile
           /\ op.todo = <<Sync("receipt", r), Cut("journal", r), Sync("journal", r),
                          Cut("cand", r), Sync("cand", r)>>
  <2>1. /\ Head(op.todo) = Sync("receipt", r)
        /\ Tail(op.todo) = <<Cut("journal", r), Sync("journal", r), Cut("cand", r), Sync("cand", r)>>
    BY <1>7, HeadAndTail
  <2>2. /\ file' = file /\ disk' = [s \in Runs |-> [disk[s] EXCEPT !["receipt"] = file[s]["receipt"]]]
        /\ evicted' = evicted
        /\ \A s \in Runs : Awaits(s) => "receipt" = "tomb"
    BY <2>1, StepCarried
  <2>3. "receipt" \in Names
    BY DEF Names
  <2>4. FilesInv'
    BY <1>1, <1>6, <2>2, <2>3, SyncKeepsFiles
  <2>5. \A s \in Runs : /\ disk[s].receipt # NoFile => disk'[s].receipt = disk[s].receipt
                        /\ disk'[s].receipt = file[s].receipt
    BY <1>1, <1>6, <2>2, <2>3, SyncKeepsFiles
  <2>6. Evicting(r)'
    BY <1>1, <1>4, <1>7, <2>1, <2>5 DEF Evicting
  <2> QED BY <2>2, <2>4, <2>5, <2>6
\* The journal is removed: the run is accepted, on the disk too.
<1>8. CASE /\ ~Measured(r) /\ disk[r].receipt # NoFile
           /\ op.todo = <<Cut("journal", r), Sync("journal", r), Cut("cand", r), Sync("cand", r)>>
  <2>1. /\ Head(op.todo) = Put("journal", r, NoFile)
        /\ Tail(op.todo) = <<Sync("journal", r), Cut("cand", r), Sync("cand", r)>>
    BY <1>8, HeadAndTail DEF Cut
  <2>2. /\ file' = Seen(Put("journal", r, NoFile)) /\ disk' = disk /\ evicted' = evicted
        /\ \A s \in Runs : ~Awaits(s)
    BY <2>1, StepCarried
  <2>3. "journal" \in Names /\ Covers(NoFile, r)
    BY <1>8 DEF Names, Covers
  <2>4. disk' = disk /\ evicted' = evicted
        /\ UNCHANGED <<active, marker, kept, deleted, asked, shaky, acked>>
    BY <1>1, <2>2
  <2>5. FilesInv'
    BY <1>8, <2>2, <2>3, <2>4, PutKeepsFiles
  <2>6. file'[r].journal = NoFile /\ \A s \in Runs : file'[s].receipt = file[s].receipt
    BY <2>2, PutChanges DEF Names
  <2>7. Evicting(r)'
    BY <1>1, <1>4, <1>8, <2>1, <2>2, <2>6 DEF Evicting
  <2> QED BY <2>2, <2>5, <2>6, <2>7
\* The directory of journals is synced: now the run is evicted.
<1>9. CASE /\ ~Measured(r) /\ disk[r].receipt # NoFile /\ file[r].journal = NoFile
           /\ op.todo = <<Sync("journal", r), Cut("cand", r), Sync("cand", r)>>
  <2>1. Head(op.todo) = Sync("journal", r) /\ Tail(op.todo) = <<Cut("cand", r), Sync("cand", r)>>
    BY <1>9, HeadAndTail
  <2>2. /\ file' = file /\ disk' = [s \in Runs |-> [disk[s] EXCEPT !["journal"] = file[s]["journal"]]]
        /\ evicted' = evicted \cup {r}
        /\ \A s \in Runs : Awaits(s) => "journal" = "tomb"
    BY <2>1, StepCarried
  <2>3. "journal" \in Names /\ evicted' \subseteq Runs
    BY <1>6, <2>2 DEF Names
  <2>4. \A s \in evicted' \ evicted : file[s].journal = NoFile /\ disk[s].receipt # NoFile
    BY <1>9, <2>2
  <2>5. FilesInv' /\ \A s \in Runs : disk[s].receipt # NoFile => disk'[s].receipt = disk[s].receipt
    <3>1. evicted \subseteq evicted'
      BY <2>2
    <3> QED BY <1>1, <2>2, <2>3, <2>4, <3>1, SyncKeepsFiles
  <2>6. Evicting(r)'
    BY <1>1, <2>1 DEF Evicting
  <2> QED BY <2>2, <2>5, <2>6
\* The cache marker is removed.
<1>10. CASE op.todo = <<Cut("cand", r), Sync("cand", r)>>
  <2>1. Head(op.todo) = Put("cand", r, NoFile) /\ Tail(op.todo) = <<Sync("cand", r)>>
    BY <1>10, HeadAndTail DEF Cut
  <2>2. /\ file' = Seen(Put("cand", r, NoFile)) /\ disk' = disk /\ evicted' = evicted
        /\ \A s \in Runs : ~Awaits(s)
    BY <2>1, StepCarried
  <2>3. "cand" \in Names
    BY DEF Names
  <2>4. disk' = disk /\ evicted' = evicted
        /\ UNCHANGED <<active, marker, kept, deleted, asked, shaky, acked>>
    BY <1>1, <2>2
  <2>5. FilesInv'
    BY <2>2, <2>3, <2>4, PutKeepsFiles
  <2>6. \A s \in Runs : file'[s].receipt = file[s].receipt
    BY <2>2, PutChanges DEF Names
  <2>7. Evicting(r)'
    BY <1>1, <2>1 DEF Evicting
  <2> QED BY <2>2, <2>5, <2>6, <2>7
\* The directory of markers is synced.
<1>11. CASE op.todo = <<Sync("cand", r)>>
  <2>1. Head(op.todo) = Sync("cand", r) /\ Tail(op.todo) = << >>
    BY <1>11, HeadAndTail
  <2>2. /\ file' = file /\ disk' = [s \in Runs |-> [disk[s] EXCEPT !["cand"] = file[s]["cand"]]]
        /\ evicted' = evicted
        /\ \A s \in Runs : Awaits(s) => "cand" = "tomb"
    BY <2>1, StepCarried
  <2>3. "cand" \in Names
    BY DEF Names
  <2>4. FilesInv'
    BY <1>1, <1>6, <2>2, <2>3, SyncKeepsFiles
  <2>5. \A s \in Runs : disk[s].receipt # NoFile => disk'[s].receipt = disk[s].receipt
    BY <1>1, <1>6, <2>2, <2>3, SyncKeepsFiles
  <2> QED BY <1>1, <2>1, <2>2, <2>4, <2>5
<1> QED BY <1>3, <1>7, <1>8, <1>9, <1>10, <1>11 DEF Evicting

LEMMA CarryKeepsInv ==
  ASSUME StoreInv, Carry
  PROVE StoreInv'
<1>1. op # NoFile /\ op.kind \in {"begin", "import", "delete", "ack", "prune"}
  BY StepCarried DEF Operations
<1>2. CASE op.kind = "begin"
  <2>1. Writing(op.run, Opened)
    BY <1>1, <1>2 DEF StoreInv, PlansFit
  <2> QED BY <1>2, <2>1, WritingKeepsInv
<1>3. CASE op.kind = "import"
  <2>1. Writing(op.run, Imported) /\ Imported # Opened
    BY <1>1, <1>3 DEF StoreInv, PlansFit, Imported, Opened
  <2> QED BY <1>3, <2>1, WritingKeepsInv
<1> QED BY <1>1, <1>2, <1>3, DeletingKeepsInv, AckingKeepsInv, EvictingKeepsInv

-----------------------------------------------------------------------------
(* Theorems                                                                *)

LEMMA InitEstablishesInv == StoreInit => StoreInv
<1> SUFFICES ASSUME StoreInit PROVE StoreInv
  OBVIOUS
<1>1. MaxRows \in Nat
  BY StoreBounds
<1>2. NoFiles \in Files
  BY DEF NoFiles, Files
<1>3. StoreTypeOK
  BY <1>1, <1>2 DEF StoreInit, StoreTypeOK
<1>4. LiveRunsAreSafe /\ PlansFit
  BY DEF StoreInit, LiveRunsAreSafe, PlansFit
<1>5. ReceiptsLast /\ EvictionsLast /\ MeasurementsLast /\ TombstonesLast
  BY DEF StoreInit, NoFiles, ReceiptsLast, EvictionsLast, MeasurementsLast, Covers, TombstonesLast
<1> QED BY <1>3, <1>4, <1>5 DEF StoreInv

LEMMA NextKeepsInv == StoreInv /\ [StoreNext]_storeVars => StoreInv'
<1> SUFFICES ASSUME StoreInv, [StoreNext]_storeVars PROVE StoreInv'
  OBVIOUS
<1>1. ASSUME NEW p \in Procs, NEW r \in Runs, BeginRun(p, r) \/ ImportRun(p, r) \/ DeleteRun(p, r)
      PROVE StoreInv'
  BY <1>1, BeginKeepsInv, ImportKeepsInv, DeleteKeepsInv
<1>2. ASSUME NEW p \in Procs, NEW r \in Runs, NEW x \in Receipts, Acknowledge(p, r, x)
      PROVE StoreInv'
  BY <1>2, AcknowledgeKeepsInv
<1>3. ASSUME NEW p \in Procs, Checkpoint(p) \/ FinishRun(p) \/ EndRun(p) \/ Kill(p)
      PROVE StoreInv'
  BY <1>3, CheckpointKeepsInv, FinishKeepsInv, EndKeepsInv, KillKeepsInv
<1>4. CASE ListRuns \/ Prune \/ PruneNext \/ Carry \/ Done \/ OpFails \/ EvictionFails \/ PowerLoss
  BY <1>4, ListKeepsInv, PruneKeepsInv, PruneNextKeepsInv, CarryKeepsInv, DoneKeepsInv,
     FailureKeepsInv, EvictionFailureKeepsInv, PowerLossKeepsInv
<1>5. CASE UNCHANGED storeVars
  <2>1. UNCHANGED <<file, disk, active, marker, op, kept, deleted, asked, shaky, acked, evicted>>
    BY <1>5 DEF storeVars, storeFiles, storeHistory
  <2>2. StoreTypeOK' /\ LiveRunsAreSafe'
    BY <2>1 DEF StoreInv, StoreTypeOK, LiveRunsAreSafe
  <2>3. ReceiptsLast' /\ EvictionsLast' /\ MeasurementsLast'
    BY <2>1 DEF StoreInv, ReceiptsLast, EvictionsLast, MeasurementsLast, Covers
  <2>4. TombstonesLast'
    BY <2>1 DEF StoreInv, TombstonesLast, Awaits
  <2>5. PlansFit'
    BY <2>1 DEF StoreInv, PlansFit, Writing, Deleting, Acking, Evicting, Measured
  <2> QED BY <2>2, <2>3, <2>4, <2>5 DEF StoreInv
<1> QED BY <1>1, <1>2, <1>3, <1>4, <1>5 DEF StoreNext

THEOREM StoreInvHolds == StoreSpec => []StoreInv
  BY InitEstablishesInv, NextKeepsInv, PTL DEF StoreSpec

\* The files of a run and the operation that holds the store lock stay what the store
\* writes: no journal without the fields it is read by, no plan with another step.
THEOREM StoreIsTyped == StoreSpec => []StoreTypeOK
<1>1. StoreInv => StoreTypeOK
  BY DEF StoreInv
<1> QED BY <1>1, StoreInvHolds, PTL

\* However many instances share the directory, a run that is measured keeps its own
\* journal and its marker (store/deletions.rs:100-104, locks.rs:116-122).
THEOREM MeasuredRunsAreSafe == StoreSpec => []LiveRunsAreSafe
<1>1. StoreInv => LiveRunsAreSafe
  BY DEF StoreInv
<1> QED BY <1>1, StoreInvHolds, PTL

\* A measurement that was reported as persisted is in its journal, or the acceptance of
\* its run is on the disk, or the user asked to delete it: after any number of kills,
\* failures and power losses (store/receipts.rs:505-507).
THEOREM MeasurementsAreKept == StoreSpec => []NoMeasurementLost
<1>1. StoreInv => NoMeasurementLost
  BY DEF StoreInv, MeasurementsLast, NoMeasurementLost, Covers
<1> QED BY <1>1, StoreInvHolds, PTL

\* The receipt that was reported as recorded stays (store/receipts.rs:215-235).
THEOREM AcceptancesAreKept == StoreSpec => []AcceptanceIsForever
<1>1. StoreInv => AcceptanceIsForever
  BY DEF StoreInv, ReceiptsLast, AcceptanceIsForever
<1> QED BY <1>1, StoreInvHolds, PTL

\* A run evicted from the cache never comes back (store/receipts.rs:2-3).
THEOREM EvictionsAreFinal == StoreSpec => []EvictedStaysGone
<1>1. StoreInv => EvictedStaysGone
  BY DEF StoreInv, EvictionsLast, EvictedStaysGone
<1> QED BY <1>1, StoreInvHolds, PTL

\* A run whose deletion was reported is not shown again, unless one deletion of it
\* stopped before its tombstone was synced (store/deletions.rs:73-115).
THEOREM DeletionsAreFinal == StoreSpec => []DeletionIsFinal
<1>1. StoreInv => DeletionIsFinal
  BY DEF StoreInv, StoreTypeOK, TombstonesLast, DeletionIsFinal, Visible
<1> QED BY <1>1, StoreInvHolds, PTL


-----------------------------------------------------------------------------
(* The model folder: what is installed is verified, and edits survive *)

AllFiles == SnapFiles \cup {Manifest}
Values == Contents \cup {Mine, Garbage, Gone}

\* What may be found under a name.
Kinds(f) == IF f = Manifest THEN Manifests \cup {Gone} ELSE Values

Snaps == [at : SnapSteps, rev : Revisions, todo : Seq(AllFiles), failed : BOOLEAN]
Moves == [file : AllFiles, backup : Values \cup Manifests, active : BOOLEAN, stamped : BOOLEAN]

FolderTyped == /\ tree \in [AllFiles -> Values \cup Manifests]
               /\ \A f \in AllFiles : tree[f] \in Kinds(f)
JournalTyped == /\ journal \in Seq(Moves)
                /\ \A n \in DOMAIN journal : journal[n].backup \in Kinds(journal[n].file)
SnapRestTyped == /\ parts \subseteq SnapFiles /\ edits \in 0..MaxEdits /\ kills \in 0..MaxKills
                 /\ doubtful \subseteq AllFiles /\ late \subseteq SnapFiles

SnapTyped == /\ FolderTyped /\ JournalTyped /\ SnapRestTyped
             /\ snap \in Snaps /\ NoDuplicates(snap.todo)

Due == Elements(snap.todo)
Moved == {journal[n].file : n \in DOMAIN journal}

\* The files of revision r outside set have its bytes.
HasAllBut(r, set) == \A f \in FilesOf(r) \ set : tree[f] = Published[r][f]

Downloading == snap.at \in {"verify", "transfer", "receiving"}
Planning == snap.at \in {"plan", "stage", "baseline"}
Moving == snap.at \in {"commit", "link"}

\* A download has what it is past, and its manifest is of its revision.
DownloadInv ==
    Downloading =>
        /\ Owner # Gone /\ Owner.rev = snap.rev
        /\ Due \subseteq FilesOf(snap.rev)
        /\ snap.at # "verify" => snap.todo # << >>
        /\ HasAllBut(snap.rev, Due \cup doubtful)

\* An update knows of an edit since its look at the file.
PlanInv ==
    Planning =>
        /\ Owner # Gone /\ Owner.complete
        /\ late \subseteq doubtful
        /\ snap.at = "baseline" => Old \cap doubtful \subseteq Due \cup late

\* What the commit found, but for edits it did not see.
OriginalInv ==
    /\ original[Manifest] \in Manifests
    /\ \A f \in FilesOf(original[Manifest].rev) \ late :
          original[f] = Published[original[Manifest].rev][f]
    /\ late \subseteq doubtful \cup Moved
    /\ \A f \in (Due \cup Moved) \ (late \cup {Manifest}) : original[f] # Mine

\* The journal has what was moved, once, and everything else is where it was.
JournalInv ==
    /\ \A f \in AllFiles \ (late \cup Moved) : tree[f] = original[f]
    /\ \A n \in DOMAIN journal : journal[n].file \notin late =>
          /\ journal[n].backup = original[journal[n].file]
          /\ ~journal[n].active => tree[journal[n].file] = Gone
    /\ \A m, n \in DOMAIN journal : journal[m].file = journal[n].file => m = n

\* The commit has installed what it is past.
InstalledInv ==
    Moving =>
        /\ HasAllBut(snap.rev, Due \cup doubtful)
        /\ Manifest \in Due \/ Owner = [rev |-> snap.rev, complete |-> TRUE]
        /\ snap.at = "commit" => Due \cap Moved = {}
        /\ snap.at = "link" =>
              /\ snap.todo # << >> /\ journal # << >>
              /\ journal[Len(journal)].file = Head(snap.todo)
              /\ Due \cap Moved = {Head(snap.todo)}

\* The rollback has undone what it is past, or failed.
UndoneInv ==
    /\ snap.at = "rollback" =>
          /\ Due \subseteq Moved
          /\ ~snap.failed => Moved \subseteq Due
    /\ snap.at = "undone" => journal = << >> \/ snap.failed

CommitInv == IF Committing THEN OriginalInv /\ JournalInv /\ InstalledInv /\ UndoneInv
                           ELSE journal = << >>

SnapInv == SnapTyped /\ CompleteIsVerified /\ DownloadInv /\ PlanInv /\ CommitInv

-----------------------------------------------------------------------------
(* Lists of files *)

\* Two lists joined: their elements, and no duplicates when they share none.
LEMMA JoinedElements ==
    ASSUME NEW T, NEW s \in Seq(T), NEW t \in Seq(T)
    PROVE  /\ s \o t \in Seq(T) /\ Elements(s \o t) = Elements(s) \cup Elements(t)
           /\ NoDuplicates(s) /\ NoDuplicates(t) /\ Elements(s) \cap Elements(t) = {} =>
                 NoDuplicates(s \o t)
<1> DEFINE q == s \o t
<1>1. /\ q \in Seq(T) /\ Len(q) = Len(s) + Len(t) /\ Len(s) \in Nat /\ Len(t) \in Nat
      /\ \A i \in 1..Len(s) : q[i] = s[i]
      /\ \A i \in 1..Len(t) : q[Len(s) + i] = t[i]
  OBVIOUS
<1> HIDE DEF q
<1>2. \A i \in 1..Len(q) : \/ i \in 1..Len(s) /\ q[i] = s[i]
                           \/ i - Len(s) \in 1..Len(t) /\ q[i] = t[i - Len(s)]
  <2> SUFFICES ASSUME NEW i \in 1..Len(q), i \notin 1..Len(s)
               PROVE  i - Len(s) \in 1..Len(t) /\ q[i] = t[i - Len(s)]
    BY <1>1
  <2>1. i - Len(s) \in 1..Len(t) /\ Len(s) + (i - Len(s)) = i
    BY <1>1
  <2> QED
    BY <1>1, <2>1
<1>3. Elements(q) = Elements(s) \cup Elements(t)
  <2>1. Elements(q) \subseteq Elements(s) \cup Elements(t)
    BY <1>2 DEF Elements
  <2>2. \A i \in 1..Len(s) : i \in 1..Len(q) /\ s[i] = q[i]
    BY <1>1
  <2>3. \A i \in 1..Len(t) : Len(s) + i \in 1..Len(q) /\ t[i] = q[Len(s) + i]
    BY <1>1
  <2>4. Elements(s) \subseteq Elements(q)
    BY <2>2 DEF Elements
  <2>5. Elements(t) \subseteq Elements(q)
    BY <2>3 DEF Elements
  <2> QED
    BY <2>1, <2>4, <2>5
<1>4. ASSUME NoDuplicates(s), NoDuplicates(t), Elements(s) \cap Elements(t) = {}
      PROVE  NoDuplicates(q)
  <2> SUFFICES ASSUME NEW i \in 1..Len(q), NEW j \in 1..Len(q), q[i] = q[j] PROVE i = j
    BY DEF NoDuplicates
  <2>1. CASE i \in 1..Len(s) /\ j \in 1..Len(s)
    BY <1>1, <1>4, <2>1 DEF NoDuplicates
  <2>2. CASE i \notin 1..Len(s) /\ j \notin 1..Len(s)
    <3>1. i - Len(s) = j - Len(s)
      BY <1>2, <1>4, <2>2 DEF NoDuplicates
    <3> QED
      BY <1>1, <3>1
  <2>3. ASSUME NEW m \in 1..Len(q), NEW n \in 1..Len(q), m \in 1..Len(s), n \notin 1..Len(s)
        PROVE  q[m] # q[n]
    <3>1. q[m] \in Elements(s) /\ q[n] \in Elements(t)
      BY <1>1, <1>2, <2>3 DEF Elements
    <3> QED
      BY <1>4, <3>1
  <2> QED
    BY <2>1, <2>2, <2>3
<1> QED
  BY <1>1, <1>3, <1>4 DEF q

\* A list backwards.
LEMMA ReverseElements ==
    ASSUME NEW T, NEW s \in Seq(T)
    PROVE  /\ Reverse(s) \in Seq(T) /\ Elements(Reverse(s)) = Elements(s)
           /\ NoDuplicates(s) => NoDuplicates(Reverse(s))
<1> DEFINE q == Reverse(s)
<1>1. /\ q \in Seq(T) /\ Len(q) = Len(s) /\ Len(s) \in Nat
      /\ \A i \in 1..Len(s) : q[i] = s[(Len(s) - i) + 1]
  BY DEF Reverse
<1> HIDE DEF q
<1>2. \A i \in 1..Len(s) : (Len(s) - i) + 1 \in 1..Len(s) /\ q[(Len(s) - i) + 1] = s[i]
  <2> TAKE i \in 1..Len(s)
  <2>1. /\ (Len(s) - i) + 1 \in 1..Len(s)
        /\ (Len(s) - ((Len(s) - i) + 1)) + 1 = i
    BY <1>1
  <2> QED
    BY <1>1, <2>1
<1>3. Elements(q) = Elements(s)
  <2>1. Elements(q) \subseteq Elements(s)
    BY <1>1, <1>2 DEF Elements
  <2>2. Elements(s) \subseteq Elements(q)
    BY <1>1, <1>2 DEF Elements
  <2> QED
    BY <2>1, <2>2
<1>4. ASSUME NoDuplicates(s) PROVE NoDuplicates(q)
  <2> SUFFICES ASSUME NEW i \in 1..Len(s), NEW j \in 1..Len(s), q[i] = q[j] PROVE i = j
    BY <1>1 DEF NoDuplicates
  <2>1. (Len(s) - i) + 1 = (Len(s) - j) + 1
    BY <1>1, <1>2, <1>4 DEF NoDuplicates
  <2> QED
    BY <1>1, <2>1
<1> QED
  BY <1>1, <1>3, <1>4 DEF q

\* A list without its n-th element.
LEMMA RemovedAt ==
    ASSUME NEW T, NEW s \in Seq(T), NEW n \in 1..Len(s)
    PROVE  /\ RemoveAt(s, n) \in Seq(T) /\ Len(RemoveAt(s, n)) = Len(s) - 1
           /\ \A i \in 1..Len(s) - 1 :
                 RemoveAt(s, n)[i] = IF i < n THEN s[i] ELSE s[i + 1]
<1> DEFINE a == SubSeq(s, 1, n - 1)
           b == SubSeq(s, n + 1, Len(s))
<1>1. /\ a \in Seq(T) /\ Len(a) = n - 1 /\ \A i \in 1..n - 1 : a[i] = s[i]
      /\ Len(s) \in Nat /\ n \in Nat /\ n >= 1
  OBVIOUS
<1>2. /\ b \in Seq(T) /\ Len(b) = Len(s) - n
      /\ \A i \in 1..Len(s) - n : b[i] = s[n + i]
  OBVIOUS
<1> HIDE DEF a, b
<1>3. /\ a \o b \in Seq(T) /\ Len(a \o b) = Len(s) - 1
      /\ \A i \in 1..Len(s) - 1 : (a \o b)[i] = IF i < n THEN s[i] ELSE s[i + 1]
  <2>0. /\ a \o b \in Seq(T) /\ Len(a \o b) = Len(a) + Len(b)
        /\ \A i \in 1..Len(a) + Len(b) :
              (a \o b)[i] = IF i <= Len(a) THEN a[i] ELSE b[i - Len(a)]
    <3>1. a \in Seq(T) /\ b \in Seq(T)
      BY <1>1, <1>2
    <3> QED
      BY <3>1
  <2>1. /\ a \o b \in Seq(T) /\ Len(a \o b) = Len(s) - 1
        /\ \A i \in 1..Len(s) - 1 : (a \o b)[i] = IF i <= n - 1 THEN a[i] ELSE b[i - (n - 1)]
    <3>1. Len(a) + Len(b) = Len(s) - 1
      BY <1>1, <1>2
    <3> QED
      BY <1>1, <2>0, <3>1
  <2>2. ASSUME NEW i \in 1..Len(s) - 1
        PROVE  (a \o b)[i] = IF i < n THEN s[i] ELSE s[i + 1]
    <3>1. CASE i < n
      BY <1>1, <2>1, <3>1
    <3>2. CASE ~(i < n)
      <4>1. i - (n - 1) \in 1..Len(s) - n /\ n + (i - (n - 1)) = i + 1 /\ ~(i <= n - 1)
        BY <1>1, <3>2
      <4> QED
        BY <1>2, <2>1, <3>2, <4>1
    <3> QED
      BY <3>1, <3>2
  <2> QED
    BY <2>1, <2>2
<1> QED
  BY <1>3 DEF a, b, RemoveAt

\* A list with another n-th element.
LEMMA ReplacedAt ==
    ASSUME NEW T, NEW s \in Seq(T), NEW n \in 1..Len(s), NEW e \in T
    PROVE  LET t == [s EXCEPT ![n] = e]
           IN  /\ t \in Seq(T) /\ Len(t) = Len(s) /\ DOMAIN t = 1..Len(s) /\ t[n] = e
               /\ \A i \in 1..Len(s) : i # n => t[i] = s[i]
  OBVIOUS

\* The files of a set in the order of the listing.
LEMMA InOrderLists ==
    ASSUME NEW S
    PROVE  /\ InOrder(S) \in Seq(SnapFiles) /\ InOrder(S) \in Seq(AllFiles)
           /\ Elements(InOrder(S)) = SnapFiles \cap S
           /\ NoDuplicates(InOrder(S))
<1>1. FileOrder \in Seq(SnapFiles) /\ NoDuplicates(FileOrder) /\ Elements(FileOrder) = SnapFiles
  BY SnapshotNames DEF NoDuplicates, Elements, SnapFiles, ToSet
<1>2. \A s \in Seq(SnapFiles) : s \in Seq(AllFiles)
  BY DEF AllFiles
<1> QED
  BY <1>1, <1>2, RetainElements DEF InOrder

-----------------------------------------------------------------------------
(* What the helpers do *)

\* What a revision publishes is no edit, and neither is the manifest a file of it.
LEMMA PublishedFiles ==
    ASSUME NEW r \in Revisions, NEW f \in FilesOf(r)
    PROVE  /\ f \in SnapFiles /\ f \in AllFiles /\ f # Manifest
           /\ Published[r][f] \in Values /\ Published[r][f] \notin {Mine, Gone}
<1>1. f \in SnapFiles /\ f \in DOMAIN Published[r]
  BY SnapshotNames DEF FilesOf
<1>2. Published[r][f] \in Contents
  BY <1>1 DEF Contents
<1> QED
  BY <1>1, <1>2, SnapshotNames DEF Values, AllFiles

\* The files of a revision are files, and the manifest is none.
LEMMA FolderNames ==
    /\ Manifest \notin SnapFiles /\ Manifest \in AllFiles /\ SnapFiles \subseteq AllFiles
    /\ Mine # Gone
    /\ \A r \in Revisions : FilesOf(r) \subseteq SnapFiles
    /\ \A r \in Revisions, b \in BOOLEAN : [rev |-> r, complete |-> b] \in Manifests \ {Gone}
  BY SnapshotNames DEF AllFiles, FilesOf, Manifests

\* The operation is at another place of its plan.
At(at, todo) == /\ snap' \in Snaps /\ snap'.at = at /\ snap'.todo = todo
                /\ snap'.rev = snap.rev /\ snap'.failed = snap.failed

LEMMA GoToMoves ==
    ASSUME snap \in Snaps, NEW at \in SnapSteps, NEW todo \in Seq(AllFiles), GoTo(at, todo)
    PROVE  At(at, todo)
  BY DEF GoTo, Snaps, At

\* The next file of the list, which the rest does not have.
LEMMA HeadOfTodo ==
    ASSUME SnapTyped, snap.todo # << >>
    PROVE  /\ Head(snap.todo) \in AllFiles /\ Head(snap.todo) \in Due
           /\ Tail(snap.todo) \in Seq(AllFiles) /\ NoDuplicates(Tail(snap.todo))
           /\ Elements(Tail(snap.todo)) = Due \ {Head(snap.todo)}
<1>1. snap.todo \in Seq(AllFiles) /\ NoDuplicates(snap.todo)
  BY DEF SnapTyped, Snaps
<1>2. Head(snap.todo) \in AllFiles
  BY <1>1
<1>3. Tail(snap.todo) \in Seq(AllFiles)
  BY <1>1
<1> QED
  BY <1>1, <1>2, <1>3, TailElements DEF Due

LEMMA ProceedMoves ==
    ASSUME SnapTyped, snap.todo # << >>, Proceed
    PROVE  At(snap.at, Tail(snap.todo))
<1>1. Tail(snap.todo) \in Seq(AllFiles) /\ snap \in Snaps
  BY HeadOfTodo DEF SnapTyped
<1> QED
  BY <1>1 DEF Proceed, Snaps, At

\* Nothing is at work.
LEMMA StopRests ==
    ASSUME Stop
    PROVE  /\ snap' \in Snaps /\ NoDuplicates(snap'.todo) /\ snap'.at = "idle"
           /\ ~Downloading' /\ ~Planning' /\ ~Committing'
<1>1. snap' = Resting /\ Resting.at = "idle" /\ Resting.todo = << >>
  BY DEF Stop, Resting
<1>2. Resting \in Snaps
  BY SnapshotNames DEF Resting, Snaps, SnapSteps
<1>3. NoDuplicates(<< >>)
  BY DEF NoDuplicates
<1> QED
  BY <1>1, <1>2, <1>3 DEF Downloading, Planning, Committing

\* A file is written, the others stay.
Puts(f, c) == /\ FolderTyped' /\ tree'[f] = c
              /\ \A g \in AllFiles \ {f} : tree'[g] = tree[g]

LEMMA WritePuts ==
    ASSUME FolderTyped, NEW f \in AllFiles, NEW c \in Kinds(f), tree' = [tree EXCEPT ![f] = c]
    PROVE  Puts(f, c)
<1>1. c \in Values \cup Manifests
  BY DEF Kinds, Values
<1>2. /\ tree' \in [AllFiles -> Values \cup Manifests] /\ tree'[f] = c
      /\ \A g \in AllFiles \ {f} : tree'[g] = tree[g]
  BY <1>1 DEF FolderTyped
<1>3. \A g \in AllFiles : tree'[g] \in Kinds(g)
  BY <1>2 DEF FolderTyped
<1>4. FolderTyped'
  BY <1>2, <1>3 DEF FolderTyped, Kinds
<1> QED
  BY <1>2, <1>4 DEF Puts

\* The manifest is a manifest or gone.
LEMMA ManifestTyped ==
    ASSUME FolderTyped, Owner # Gone
    PROVE  Owner \in Manifests /\ Owner.rev \in Revisions /\ Old \subseteq SnapFiles
<1>1. Owner \in Manifests
  BY FolderNames DEF FolderTyped, Owner, Kinds
<1>2. Owner.rev \in Revisions
  BY <1>1 DEF Manifests
<1> QED
  BY <1>1, <1>2, FolderNames DEF Old

-----------------------------------------------------------------------------
(* Every step keeps the invariant *)

\* Outside a commit nothing is moved.
LEMMA NotInCommit ==
    ASSUME SnapInv, ~Committing, ~Committing', journal' = journal,
           FolderTyped', SnapRestTyped', snap' \in Snaps, NoDuplicates(snap'.todo),
           CompleteIsVerified', DownloadInv', PlanInv'
    PROVE  SnapInv'
<1>1. CommitInv'
  BY DEF SnapInv, CommitInv
<1>2. JournalTyped'
  BY DEF SnapInv, SnapTyped, JournalTyped, Kinds
<1>3. SnapTyped'
  BY <1>2 DEF SnapTyped
<1> QED
  BY <1>1, <1>3 DEF SnapInv

\* A download never calls anything complete that it has not verified.
LEMMA DownloadSteps ==
    ASSUME SnapInv,
           \/ \E r \in Revisions : StartDownload(r)
           \/ VerifyFile \/ BeginTransfer \/ ActivateFile \/ DownloadFails
           \/ InspectFails \/ FinishDownload
    PROVE  SnapInv'
<1>1. /\ SnapTyped /\ FolderTyped /\ snap \in Snaps /\ snap.rev \in Revisions
      /\ snap.todo \in Seq(AllFiles) /\ NoDuplicates(snap.todo) /\ doubtful \subseteq AllFiles
      /\ CompleteIsVerified /\ DownloadInv /\ SnapRestTyped
  BY DEF SnapInv, SnapTyped, Snaps, SnapRestTyped
<1>2. Incomplete(snap.rev) \in Manifests \ {Gone} /\ ~Incomplete(snap.rev).complete
      /\ Incomplete(snap.rev).rev = snap.rev
  BY <1>1, FolderNames DEF Incomplete
<1>3. Downloading => ~Committing
  BY DEF Downloading, Committing
<1> DEFINE Undisturbed == UNCHANGED <<parts, journal>> /\ NoNews
<1>0. Undisturbed /\ doubtful' \subseteq AllFiles => SnapRestTyped'
  BY <1>1 DEF SnapRestTyped, NoNews
\* A download that stops leaves its manifest as it was, or takes it back.
<1>4. ASSUME Downloading, Stop, Undisturbed, UNCHANGED doubtful,
             tree' = tree \/ Invalidate
      PROVE  SnapInv'
  <2>1. /\ snap' \in Snaps /\ NoDuplicates(snap'.todo) /\ ~Downloading' /\ ~Planning'
        /\ ~Committing'
    BY <1>4, StopRests
  <2>2. DownloadInv' /\ PlanInv'
    BY <2>1 DEF DownloadInv, PlanInv
  <2>3. FolderTyped' /\ CompleteIsVerified'
    <3>1. CASE tree' = tree
      BY <1>1, <1>3, <1>4, <3>1 DEF FolderTyped, CompleteIsVerified, Owner, Old, Kinds
    <3>2. CASE Invalidate
      <4>1. Puts(Manifest, Incomplete(snap.rev))
        BY <1>1, <1>2, <3>2, FolderNames, WritePuts DEF Invalidate, Write, Kinds
      <4>2. ~Owner'.complete
        BY <1>2, <4>1 DEF Puts, Owner
      <4> QED
        BY <4>1, <4>2 DEF Puts, CompleteIsVerified
    <3> QED
      BY <1>4, <3>1, <3>2
  <2> QED
    BY <1>1, <1>3, <1>4, <2>1, <2>2, <2>3, <1>0, NotInCommit
\* A step of a download to another of its steps.
<1>5. ASSUME NEW at \in {"verify", "transfer", "receiving"}, NEW todo \in Seq(AllFiles),
             Downloading, At(at, todo), NoDuplicates(todo), Undisturbed,
             FolderTyped', doubtful' \subseteq AllFiles, CompleteIsVerified',
             Owner' # Gone, Owner'.rev = snap.rev, Elements(todo) \subseteq FilesOf(snap.rev),
             at # "verify" => todo # << >>,
             \A f \in FilesOf(snap.rev) \ (Elements(todo) \cup doubtful') :
                tree'[f] = Published[snap.rev][f]
      PROVE  SnapInv'
  <2>1. Downloading' /\ ~Planning' /\ ~Committing'
    BY <1>5 DEF At, Downloading, Planning, Committing
  <2>2. Due' = Elements(todo)
    BY <1>5 DEF At, Due
  <2>3. DownloadInv'
    BY <1>5, <2>2 DEF DownloadInv, At, HasAllBut
  <2> QED
    BY <1>3, <1>5, <2>1, <2>3, <1>0, NotInCommit DEF PlanInv, At
<1>6. ASSUME NEW r \in Revisions, StartDownload(r) PROVE SnapInv'
  <2> DEFINE todo == InOrder(FilesOf(r))
             m == IF Owner = Gone THEN Incomplete(r) ELSE Owner
  <2>1. /\ todo \in Seq(AllFiles) /\ NoDuplicates(todo) /\ Elements(todo) = FilesOf(r)
    BY InOrderLists, FolderNames
  <2>2. /\ snap' = [at |-> "verify", rev |-> r, todo |-> todo, failed |-> FALSE]
        /\ snap.at = "idle" /\ UNCHANGED doubtful /\ Undisturbed
    BY <1>6 DEF StartDownload
  <2> HIDE DEF todo
  <2>3. /\ snap' \in Snaps /\ snap'.at = "verify" /\ snap'.rev = r /\ snap'.todo = todo
        /\ Due' = FilesOf(r)
    BY <2>1, <2>2 DEF Snaps, SnapSteps, Due
  <2>4. Incomplete(r) \in Manifests \ {Gone} /\ Incomplete(r).rev = r /\ ~Incomplete(r).complete
    BY FolderNames DEF Incomplete
  <2>5. m \in Manifests \ {Gone} /\ m.rev = r
    BY <1>1, <1>6, <2>4, ManifestTyped DEF StartDownload
  <2>6. Puts(Manifest, m)
    BY <1>1, <1>6, <2>5, FolderNames, WritePuts DEF StartDownload, Kinds
  <2>7. CompleteIsVerified'
    <3>1. CASE Owner = Gone
      BY <2>4, <2>6, <3>1 DEF Puts, CompleteIsVerified, Owner
    <3>2. CASE Owner # Gone
      <4>1. Owner' = Owner /\ ~Committing
        BY <2>2, <2>6, <3>2 DEF Puts, Owner, Committing
      <4>2. \A f \in Old : tree'[f] = tree[f]
        BY <1>1, <2>6, <3>2, ManifestTyped, FolderNames DEF Puts
      <4> QED
        BY <1>1, <2>2, <3>2, <4>1, <4>2 DEF CompleteIsVerified, Old
    <3> QED
      BY <3>1, <3>2
  <2>8. DownloadInv' /\ PlanInv' /\ ~Committing' /\ ~Committing
    BY <2>2, <2>3, <2>5, <2>6 DEF DownloadInv, PlanInv, Planning, Committing, HasAllBut, Puts,
       Owner
  <2> QED
    BY <1>1, <2>1, <2>2, <2>3, <2>6, <2>7, <2>8, <1>0, NotInCommit DEF Puts
<1>7. CASE VerifyFile
  <2> DEFINE f == Head(snap.todo)
  <2>1. /\ Downloading /\ ~Committing /\ snap.at = "verify" /\ snap.todo # << >>
        /\ Undisturbed
    BY <1>7 DEF VerifyFile, Downloading, Committing
  <2>2. /\ Owner # Gone /\ Owner.rev = snap.rev /\ Due \subseteq FilesOf(snap.rev)
        /\ HasAllBut(snap.rev, Due \cup doubtful)
    BY <1>1, <2>1 DEF DownloadInv
  <2>3. /\ f \in AllFiles /\ f \in Due /\ Tail(snap.todo) \in Seq(AllFiles)
        /\ NoDuplicates(Tail(snap.todo)) /\ Elements(Tail(snap.todo)) = Due \ {f}
    BY <1>1, <2>1, HeadOfTodo
  <2>4. CASE tree[f] = Published[snap.rev][f] /\ Proceed /\ doubtful' = doubtful \ {f}
             /\ UNCHANGED tree
    <3>1. At("verify", Tail(snap.todo))
      BY <1>1, <2>1, <2>4, ProceedMoves
    <3>2. FolderTyped' /\ Owner' = Owner /\ doubtful' \subseteq AllFiles
      BY <1>1, <2>4 DEF FolderTyped, Owner, Kinds
    <3>3. CompleteIsVerified'
      BY <1>1, <2>1, <2>2, <2>4 DEF CompleteIsVerified, Owner, Old
    <3>4. \A g \in FilesOf(snap.rev) \ (Elements(Tail(snap.todo)) \cup doubtful') :
             tree'[g] = Published[snap.rev][g]
      BY <2>2, <2>3, <2>4 DEF HasAllBut
    <3> QED
      BY <1>5, <2>1, <2>2, <2>3, <3>1, <3>2, <3>3, <3>4
  <2>5. CASE GoTo("transfer", snap.todo) /\ Invalidate /\ UNCHANGED doubtful
    <3>1. At("transfer", snap.todo)
      BY <1>1, <2>5, GoToMoves DEF SnapSteps
    <3>2. Puts(Manifest, Incomplete(snap.rev))
      BY <1>1, <1>2, <2>5, FolderNames, WritePuts DEF Invalidate, Write, Kinds
    <3>3. Owner' = Incomplete(snap.rev) /\ FolderTyped' /\ CompleteIsVerified'
      BY <1>2, <3>2 DEF Puts, Owner, CompleteIsVerified
    <3>4. \A g \in FilesOf(snap.rev) : tree'[g] = tree[g]
      BY <1>1, <3>2, FolderNames DEF Puts
    <3>5. Elements(snap.todo) = Due
      BY DEF Due
    <3> QED
      BY <1>1, <1>2, <1>5, <2>1, <2>2, <2>5, <3>1, <3>3, <3>4, <3>5 DEF HasAllBut
  <2>6. CASE Stop /\ Invalidate /\ UNCHANGED doubtful
    BY <1>4, <2>1, <2>6
  <2> QED
    BY <1>7, <2>4, <2>5, <2>6 DEF VerifyFile
<1>8. CASE BeginTransfer
  <2>1. /\ Downloading /\ ~Committing /\ snap.at = "transfer" /\ Undisturbed
        /\ UNCHANGED <<tree, doubtful>> /\ GoTo("receiving", snap.todo)
    BY <1>8 DEF BeginTransfer, Downloading, Committing, folder
  <2>2. At("receiving", snap.todo)
    BY <1>1, <2>1, GoToMoves DEF SnapSteps
  <2>3. /\ FolderTyped' /\ CompleteIsVerified' /\ Owner' = Owner /\ Elements(snap.todo) = Due
    BY <1>1, <2>1 DEF FolderTyped, CompleteIsVerified, Owner, Old, Due, Kinds
  <2> QED
    BY <1>1, <1>5, <2>1, <2>2, <2>3 DEF DownloadInv, HasAllBut
<1>9. CASE ActivateFile
  <2> DEFINE f == Head(snap.todo)
  <2>1. /\ Downloading /\ ~Committing /\ snap.at = "receiving" /\ Undisturbed
        /\ Write(f, Published[snap.rev][f])
        /\ GoTo("verify", Tail(snap.todo)) /\ doubtful' = doubtful \ {f}
    BY <1>9 DEF ActivateFile, Authentic, Downloading, Committing
  <2>2. /\ Owner # Gone /\ Owner.rev = snap.rev /\ Due \subseteq FilesOf(snap.rev)
        /\ HasAllBut(snap.rev, Due \cup doubtful) /\ snap.todo # << >>
    BY <1>1, <2>1 DEF DownloadInv
  <2>3. /\ f \in Due /\ Tail(snap.todo) \in Seq(AllFiles)
        /\ NoDuplicates(Tail(snap.todo)) /\ Elements(Tail(snap.todo)) = Due \ {f}
    BY <1>1, <2>2, HeadOfTodo
  <2> HIDE DEF f
  <2>4. /\ f \in AllFiles /\ f # Manifest /\ Published[snap.rev][f] \in Values
    BY <1>1, <2>2, <2>3, PublishedFiles
  <2>5. Puts(f, Published[snap.rev][f])
    BY <1>1, <2>1, <2>4, WritePuts DEF Write, Kinds
  <2>6. At("verify", Tail(snap.todo))
    BY <1>1, <2>1, <2>3, GoToMoves DEF SnapSteps
  <2>7. Owner' = Owner /\ FolderTyped' /\ doubtful' \subseteq AllFiles
    BY <1>1, <2>1, <2>4, <2>5, FolderNames DEF Puts, Owner
  <2>8. \A g \in FilesOf(snap.rev) : g \in AllFiles
    BY <1>1, PublishedFiles
  <2>9. CompleteIsVerified'
    BY <1>1, <2>1, <2>2, <2>5, <2>7, <2>8 DEF CompleteIsVerified, Puts, Old
  <2>10. \A g \in FilesOf(snap.rev) \ (Elements(Tail(snap.todo)) \cup doubtful') :
            tree'[g] = Published[snap.rev][g]
    BY <2>1, <2>2, <2>3, <2>5, <2>8 DEF HasAllBut, Puts
  <2> QED
    BY <1>5, <2>1, <2>2, <2>3, <2>6, <2>7, <2>9, <2>10
<1>10. CASE DownloadFails \/ InspectFails
  BY <1>4, <1>10 DEF DownloadFails, InspectFails, Downloading, folder
<1>11. CASE FinishDownload
  <2> DEFINE m == [rev |-> snap.rev, complete |-> TRUE]
  <2>1. /\ Downloading /\ ~Committing /\ snap.todo = << >> /\ Stop /\ Undisturbed
        /\ UNCHANGED doubtful /\ Write(Manifest, m)
    BY <1>11 DEF FinishDownload, Downloading, Committing
  <2>2. m \in Manifests \ {Gone} /\ m.rev = snap.rev
    BY <1>1, FolderNames
  <2> HIDE DEF m
  <2>3. Puts(Manifest, m)
    BY <1>1, <2>1, <2>2, FolderNames, WritePuts DEF Write, Kinds
  <2>4. Due = {}
    BY <2>1 DEF Due, Elements
  <2>5. HasAllBut(snap.rev, doubtful)
    BY <1>1, <2>1, <2>4 DEF DownloadInv, HasAllBut
  <2>6. \A g \in FilesOf(snap.rev) : g \in AllFiles /\ g # Manifest
    BY <1>1, PublishedFiles
  <2>7. CompleteIsVerified'
    BY <2>1, <2>2, <2>3, <2>5, <2>6 DEF CompleteIsVerified, Puts, Owner, Old, HasAllBut
  <2>8. /\ snap' \in Snaps /\ NoDuplicates(snap'.todo) /\ ~Downloading' /\ ~Planning'
        /\ ~Committing'
    BY <2>1, StopRests
  <2>9. DownloadInv' /\ PlanInv'
    BY <2>8 DEF DownloadInv, PlanInv
  <2> QED
    BY <1>1, <2>1, <2>3, <2>7, <2>8, <2>9, <1>0, NotInCommit DEF Puts
<1> QED
  BY <1>6, <1>7, <1>8, <1>9, <1>10, <1>11

\* The files a commit moves, each once: retired ones, replaced ones, the manifest.
LEMMA CommitOrderLists ==
    ASSUME NEW r \in Revisions, Old \subseteq SnapFiles
    PROVE  /\ CommitOrder(r) \in Seq(AllFiles) /\ NoDuplicates(CommitOrder(r))
           /\ Elements(CommitOrder(r)) = Retired(r) \cup Replaced(r) \cup {Manifest}
<1> DEFINE s == InOrder(Retired(r))
           t == InOrder(Replaced(r))
           m == <<Manifest>>
<1>1. /\ s \in Seq(AllFiles) /\ NoDuplicates(s) /\ Elements(s) = Retired(r)
      /\ t \in Seq(AllFiles) /\ NoDuplicates(t) /\ Elements(t) = Replaced(r)
  BY InOrderLists, FolderNames DEF Retired, Replaced
<1>2. m \in Seq(AllFiles) /\ NoDuplicates(m) /\ Elements(m) = {Manifest}
  BY FolderNames DEF NoDuplicates, Elements
<1>3. Elements(s) \cap Elements(t) = {} /\ Manifest \notin Elements(s) \cup Elements(t)
  BY <1>1, FolderNames DEF Retired, Replaced
<1> HIDE DEF s, t, m
<1>4. /\ s \o t \in Seq(AllFiles) /\ NoDuplicates(s \o t)
      /\ Elements(s \o t) = Elements(s) \cup Elements(t)
  BY <1>1, <1>3, JoinedElements
<1> DEFINE u == s \o t
<1>5. /\ u \o m \in Seq(AllFiles) /\ NoDuplicates(u \o m)
      /\ Elements(u \o m) = Elements(u) \cup {Manifest}
  <2>1. u \in Seq(AllFiles) /\ NoDuplicates(u) /\ Elements(u) \cap Elements(m) = {}
    BY <1>2, <1>3, <1>4
  <2> HIDE DEF u
  <2> QED
    BY <1>2, <2>1, JoinedElements
<1> QED
  BY <1>1, <1>4, <1>5 DEF CommitOrder, s, t, m

\* An update that has not begun its commit changes nothing but what it knows.
LEMMA PlanSteps ==
    ASSUME SnapInv,
           \/ \E r \in Revisions : StartUpdate(r)
           \/ LookAt \/ PlanDone \/ StageFile \/ ValidateStaged \/ UpdateStops
    PROVE  SnapInv'
<1>1. /\ SnapTyped /\ FolderTyped /\ snap \in Snaps /\ snap.rev \in Revisions
      /\ snap.todo \in Seq(AllFiles) /\ NoDuplicates(snap.todo) /\ SnapRestTyped
      /\ CompleteIsVerified /\ PlanInv
  BY DEF SnapInv, SnapTyped, Snaps
<1>2. Planning => ~Committing /\ ~Downloading
  BY DEF Planning, Downloading, Committing
<1>3. ASSUME UNCHANGED tree PROVE FolderTyped' /\ Owner' = Owner /\ Old' = Old
  BY <1>1, <1>3 DEF FolderTyped, Owner, Old, Kinds
\* A step that looks at the folder only.
<1>4. ASSUME NEW at \in {"plan", "stage", "baseline"}, NEW todo \in Seq(AllFiles),
             NoDuplicates(todo), Planning, At(at, todo), NoNews,
             UNCHANGED <<folder, journal, doubtful>>,
             at = "baseline" => Old \cap doubtful \subseteq Elements(todo) \cup late
      PROVE  SnapInv'
  <2>1. Planning' /\ ~Committing' /\ ~Downloading' /\ Due' = Elements(todo)
    BY <1>4 DEF At, Planning, Downloading, Committing, Due
  <2>2. UNCHANGED <<tree, parts, journal, doubtful, late, edits, kills>>
    BY <1>4 DEF NoNews, folder
  <2>3. SnapRestTyped' /\ FolderTyped' /\ Owner' = Owner /\ Old' = Old
    BY <1>1, <1>3, <2>2 DEF SnapRestTyped
  <2>4. CompleteIsVerified' /\ DownloadInv'
    BY <1>1, <1>2, <1>4, <2>1, <2>2, <2>3 DEF CompleteIsVerified, DownloadInv
  <2>5. PlanInv'
    BY <1>1, <1>4, <2>1, <2>2, <2>3 DEF PlanInv, At
  <2> QED
    BY <1>2, <1>4, <2>1, <2>2, <2>3, <2>4, <2>5, NotInCommit DEF At
<1>5. ASSUME NEW r \in Revisions, StartUpdate(r) PROVE SnapInv'
  <2> DEFINE todo == InOrder(Old)
  <2>1. /\ snap.at = "idle" /\ Owner # Gone /\ Owner.complete
        /\ snap' = [at |-> "plan", rev |-> r, todo |-> todo, failed |-> FALSE]
        /\ late' = {} /\ UNCHANGED <<tree, parts, journal, edits, kills, doubtful>>
    BY <1>5 DEF StartUpdate, folder
  <2>2. todo \in Seq(AllFiles) /\ NoDuplicates(todo)
    BY InOrderLists
  <2> HIDE DEF todo
  <2>3. /\ snap' \in Snaps /\ NoDuplicates(snap'.todo) /\ snap'.at = "plan"
        /\ ~Committing /\ ~Committing' /\ ~Downloading'
    BY <2>1, <2>2 DEF Snaps, SnapSteps, Committing, Downloading
  <2>4. SnapRestTyped' /\ FolderTyped' /\ Owner' = Owner /\ Old' = Old
    BY <1>1, <1>3, <2>1 DEF SnapRestTyped
  <2>5. CompleteIsVerified' /\ DownloadInv' /\ PlanInv'
    BY <1>1, <2>1, <2>3, <2>4 DEF CompleteIsVerified, DownloadInv, PlanInv
  <2> QED
    BY <2>1, <2>3, <2>4, <2>5, NotInCommit
<1>6. CASE LookAt
  <2> DEFINE f == Head(snap.todo)
  <2>1. /\ snap.at \in {"plan", "baseline"} /\ Planning /\ snap.todo # << >> /\ Proceed
        /\ tree[f] = Published[Owner.rev][f]
        /\ doubtful' = doubtful \ {f} /\ late' = late \ {f}
        /\ UNCHANGED <<tree, parts, journal, edits, kills>>
    BY <1>6 DEF LookAt, Unmodified, Planning, folder
  <2>2. /\ NoDuplicates(Tail(snap.todo)) /\ Elements(Tail(snap.todo)) = Due \ {f}
        /\ At(snap.at, Tail(snap.todo))
    BY <1>1, <2>1, HeadOfTodo, ProceedMoves
  <2> HIDE DEF f
  <2>3. /\ Planning' /\ ~Committing' /\ ~Downloading' /\ Due' = Due \ {f}
        /\ snap' \in Snaps /\ NoDuplicates(snap'.todo)
    BY <2>1, <2>2 DEF At, Planning, Downloading, Committing, Due
  <2>4. SnapRestTyped' /\ FolderTyped' /\ Owner' = Owner /\ Old' = Old
    BY <1>1, <1>3, <2>1 DEF SnapRestTyped
  <2>5. CompleteIsVerified' /\ DownloadInv'
    BY <1>1, <1>2, <2>1, <2>3, <2>4 DEF CompleteIsVerified, DownloadInv
  <2>6. PlanInv'
    BY <1>1, <2>1, <2>2, <2>3, <2>4 DEF PlanInv, At
  <2> QED
    BY <1>2, <2>1, <2>3, <2>4, <2>5, <2>6, NotInCommit
<1>7. CASE PlanDone
  <2> DEFINE todo == InOrder(Replaced(snap.rev))
  <2>1. /\ Planning /\ GoTo("stage", todo) /\ NoNews /\ UNCHANGED <<folder, journal, doubtful>>
        /\ todo \in Seq(AllFiles) /\ NoDuplicates(todo)
    BY <1>7, InOrderLists DEF PlanDone, Planning
  <2> HIDE DEF todo
  <2>2. At("stage", todo)
    BY <1>1, <2>1, GoToMoves DEF SnapSteps
  <2> QED
    BY <1>4, <2>1, <2>2
<1>8. CASE StageFile
  <2>1. /\ Planning /\ snap.at = "stage" /\ Proceed /\ snap.todo # << >> /\ NoNews
        /\ UNCHANGED <<folder, journal, doubtful>>
    BY <1>8 DEF StageFile, Planning
  <2>2. /\ At("stage", Tail(snap.todo)) /\ NoDuplicates(Tail(snap.todo))
        /\ Tail(snap.todo) \in Seq(AllFiles)
    BY <1>1, <2>1, HeadOfTodo, ProceedMoves
  <2> QED
    BY <1>4, <2>1, <2>2
<1>9. CASE ValidateStaged
  <2> DEFINE todo == InOrder(Old)
  <2>1. /\ Planning /\ GoTo("baseline", todo) /\ NoNews /\ UNCHANGED <<folder, journal, doubtful>>
    BY <1>9 DEF ValidateStaged, Planning
  <2>2. Old \subseteq SnapFiles
    BY <1>1, <2>1, ManifestTyped DEF PlanInv
  <2>3. todo \in Seq(AllFiles) /\ NoDuplicates(todo) /\ Elements(todo) = Old
    BY <2>2, InOrderLists
  <2> HIDE DEF todo
  <2>4. At("baseline", todo)
    BY <1>1, <2>1, <2>3, GoToMoves DEF SnapSteps
  <2> QED
    BY <1>4, <2>1, <2>3, <2>4
<1>10. CASE UpdateStops
  <2>1. /\ Planning /\ Stop /\ UNCHANGED <<tree, parts, journal, doubtful, late, edits, kills>>
    BY <1>10 DEF UpdateStops, Planning, folder, NoNews
  <2>2. /\ snap' \in Snaps /\ NoDuplicates(snap'.todo) /\ ~Downloading' /\ ~Planning'
        /\ ~Committing'
    BY <2>1, StopRests
  <2>3. SnapRestTyped' /\ FolderTyped' /\ Owner' = Owner /\ Old' = Old
    BY <1>1, <1>3, <2>1 DEF SnapRestTyped
  <2>4. CompleteIsVerified' /\ DownloadInv' /\ PlanInv'
    BY <1>1, <1>2, <2>1, <2>2, <2>3 DEF CompleteIsVerified, DownloadInv, PlanInv
  <2> QED
    BY <1>2, <2>1, <2>2, <2>3, <2>4, NotInCommit
<1> QED
  BY <1>5, <1>6, <1>7, <1>8, <1>9, <1>10

\* The last look sees every file of the old model as published, or its edit is known.
LEMMA CommitBegins == SnapInv /\ BeginCommit => SnapInv'
<1> SUFFICES ASSUME SnapInv, BeginCommit PROVE SnapInv'
  OBVIOUS
<1> DEFINE r == snap.rev
           todo == CommitOrder(snap.rev)
<1>1. /\ SnapTyped /\ FolderTyped /\ snap \in Snaps /\ r \in Revisions /\ SnapRestTyped
      /\ CompleteIsVerified /\ PlanInv /\ JournalTyped
  BY DEF SnapInv, SnapTyped, Snaps
<1>2. /\ snap.at = "baseline" /\ snap.todo = << >> /\ NoCollision(r) /\ GoTo("commit", todo)
      /\ original' = tree
      /\ UNCHANGED <<tree, parts, journal, edits, kills, doubtful, late>>
  BY DEF BeginCommit, folder
<1>3. /\ Owner # Gone /\ Owner.complete /\ late \subseteq doubtful
      /\ Old \cap doubtful \subseteq late /\ journal = << >>
  <2>1. Due = {}
    BY <1>2 DEF Due, Elements
  <2>2. Planning /\ ~Committing
    BY <1>2 DEF Planning, Committing
  <2> QED
    BY <1>1, <1>2, <2>1, <2>2 DEF PlanInv, SnapInv, CommitInv
<1>4. Owner \in Manifests /\ Owner.rev \in Revisions /\ Old \subseteq SnapFiles
  BY <1>1, <1>3, ManifestTyped
<1>5. \A f \in Old \ doubtful : tree[f] = Published[Owner.rev][f]
  BY <1>1, <1>2, <1>3 DEF CompleteIsVerified, Committing
<1>6. /\ todo \in Seq(AllFiles) /\ NoDuplicates(todo)
      /\ Elements(todo) = Retired(r) \cup Replaced(r) \cup {Manifest}
  BY <1>1, <1>4, CommitOrderLists
<1> HIDE DEF todo
<1>7. At("commit", todo)
  BY <1>1, <1>2, <1>6, GoToMoves DEF SnapSteps
<1>8. /\ Due' = Retired(r) \cup Replaced(r) \cup {Manifest} /\ snap'.rev = r /\ Moved' = {}
      /\ snap'.at = "commit" /\ Moving' /\ Committing' /\ ~Downloading' /\ ~Planning'
  BY <1>2, <1>3, <1>6, <1>7 DEF At, Due, Moved, Moving, Committing, Downloading, Planning
<1>9. SnapTyped'
  BY <1>1, <1>2, <1>6, <1>7 DEF SnapTyped, FolderTyped, Kinds, JournalTyped, SnapRestTyped, At
<1>10. \A f \in Old : Published[Owner.rev][f] # Mine
  BY <1>4, PublishedFiles DEF Old
<1>11. OriginalInv'
  <2>1. original'[Manifest] = Owner
    BY <1>2 DEF Owner
  <2>2. \A f \in Old \ late : original'[f] = Published[Owner.rev][f]
    BY <1>2, <1>3, <1>5
  <2>3. ASSUME NEW f \in Due' \ (late \cup {Manifest}) PROVE original'[f] # Mine
    <3>1. CASE f \in Old
      BY <1>10, <2>2, <2>3, <3>1
    <3>2. CASE f \notin Old
      <4>1. f \in FilesOf(r)
        BY <1>8, <2>3, <3>2 DEF Retired, Replaced
      <4> QED
        BY <1>2, <3>2, <4>1, FolderNames DEF NoCollision
    <3> QED
      BY <3>1, <3>2
  <2> QED
    BY <1>2, <1>3, <1>4, <1>8, <2>1, <2>2, <2>3 DEF OriginalInv, Old
<1>12. JournalInv'
  BY <1>2, <1>3, <1>8 DEF JournalInv
<1>13. InstalledInv'
  <2>1. ASSUME NEW f \in FilesOf(r), f \notin Replaced(r), f \notin doubtful
        PROVE  tree[f] = Published[r][f]
    BY <1>5, <2>1 DEF Replaced
  <2> QED
    BY <1>2, <1>8, <2>1 DEF InstalledInv, HasAllBut
<1>14. UndoneInv' /\ DownloadInv' /\ PlanInv' /\ CompleteIsVerified'
  BY <1>8 DEF UndoneInv, DownloadInv, PlanInv, CompleteIsVerified
<1> QED
  BY <1>8, <1>9, <1>11, <1>12, <1>13, <1>14 DEF SnapInv, CommitInv

\* The entries of the journal.
LEMMA JournalEntries ==
    ASSUME JournalTyped
    PROVE  /\ journal \in Seq(Moves) /\ Len(journal) \in Nat
           /\ DOMAIN journal = 1..Len(journal) /\ Moved \subseteq AllFiles
           /\ \A n \in 1..Len(journal) :
                 /\ journal[n] \in Moves /\ journal[n].file \in AllFiles
                 /\ journal[n].file \in Moved
                 /\ journal[n].backup \in Kinds(journal[n].file)
<1>1. /\ journal \in Seq(Moves) /\ Len(journal) \in Nat
      /\ DOMAIN journal = 1..Len(journal)
  BY DEF JournalTyped
<1>2. \A n \in 1..Len(journal) : journal[n] \in Moves
  BY <1>1
<1>3. \A m \in Moves : m.file \in AllFiles
  BY DEF Moves
<1> QED
  BY <1>1, <1>2, <1>3 DEF JournalTyped, Moved

\* The journal backwards has every file that was moved, once.
LEMMA BackwardsLists ==
    ASSUME JournalTyped, JournalInv
    PROVE  /\ Backwards \in Seq(AllFiles) /\ NoDuplicates(Backwards)
           /\ Elements(Backwards) = Moved
<1> DEFINE s == [n \in DOMAIN journal |-> journal[n].file]
<1>1. /\ journal \in Seq(Moves) /\ DOMAIN journal = 1..Len(journal) /\ Len(journal) \in Nat
      /\ \A n \in DOMAIN journal : journal[n].file \in AllFiles
  BY JournalEntries
<1>2. s \in Seq(AllFiles) /\ Len(s) = Len(journal)
  BY <1>1
<1>3. Elements(s) = Moved
  BY <1>1, <1>2 DEF Elements, Moved
<1>4. NoDuplicates(s)
  BY <1>1, <1>2 DEF NoDuplicates, JournalInv
<1> HIDE DEF s
<1>5. /\ Reverse(s) \in Seq(AllFiles) /\ NoDuplicates(Reverse(s))
      /\ Elements(Reverse(s)) = Moved
  BY <1>2, <1>3, <1>4, ReverseElements
<1> QED
  BY <1>5 DEF Backwards, s

\* What is installed is what the new revision has.
LEMMA Sources ==
    ASSUME snap \in Snaps, NEW f \in AllFiles
    PROVE  /\ Source(f) \in Kinds(f) /\ (f # Manifest => Source(f) # Mine)
           /\ f = Manifest => /\ Source(f) = [rev |-> snap.rev, complete |-> TRUE]
                              /\ Source(f) # Gone
           /\ f \in FilesOf(snap.rev) => /\ f # Manifest /\ Source(f) # Gone
                                         /\ Source(f) = Published[snap.rev][f]
<1>1. snap.rev \in Revisions
  BY DEF Snaps
<1>2. CASE f = Manifest
  BY <1>1, <1>2, FolderNames DEF Source, Kinds
<1>3. CASE f # Manifest /\ f \in FilesOf(snap.rev)
  BY <1>1, <1>3, PublishedFiles DEF Source, Kinds
<1>4. CASE f # Manifest /\ f \notin FilesOf(snap.rev)
  BY <1>4, FolderNames DEF Source, Kinds, Values
<1> QED
  BY <1>2, <1>3, <1>4

\* A file is moved aside: the journal has it now.
LEMMA BackUpStep == SnapInv /\ BackUp => SnapInv'
<1> SUFFICES ASSUME SnapInv, BackUp PROVE SnapInv'
  OBVIOUS
<1> DEFINE f == Head(snap.todo)
           L == Len(journal)
           e == [file |-> f, backup |-> tree[f], active |-> FALSE, stamped |-> FALSE]
<1>1. /\ snap.at = "commit" /\ snap.todo # << >> /\ journal' = Append(journal, e)
      /\ Write(f, Gone) /\ IF Source(f) = Gone THEN Proceed ELSE GoTo("link", snap.todo)
      /\ UNCHANGED <<parts, doubtful, edits, kills, late, original>>
  BY DEF BackUp, NoNews
<1>2. /\ SnapTyped /\ FolderTyped /\ snap \in Snaps /\ snap.todo \in Seq(AllFiles)
      /\ NoDuplicates(snap.todo) /\ SnapRestTyped /\ JournalTyped
      /\ OriginalInv /\ JournalInv /\ InstalledInv
  BY <1>1 DEF SnapInv, SnapTyped, Snaps, CommitInv, Committing
<1>3. /\ HasAllBut(snap.rev, Due \cup doubtful)
      /\ Manifest \in Due \/ Owner = [rev |-> snap.rev, complete |-> TRUE]
      /\ Due \cap Moved = {}
  BY <1>1, <1>2 DEF InstalledInv, Moving
<1>4. /\ f \in AllFiles /\ f \in Due /\ Tail(snap.todo) \in Seq(AllFiles)
      /\ NoDuplicates(Tail(snap.todo)) /\ Elements(Tail(snap.todo)) = Due \ {f}
  BY <1>1, <1>2, HeadOfTodo
<1> HIDE DEF f
<1>5. Puts(f, Gone)
  BY <1>1, <1>2, <1>4, WritePuts DEF Write, Kinds, Values
<1>6. e \in Moves /\ e.backup \in Kinds(e.file)
  BY <1>2, <1>4 DEF Moves, FolderTyped
<1>7. e.file = f /\ e.backup = tree[f] /\ ~e.active
  OBVIOUS
<1> HIDE DEF e
<1>8. /\ L \in Nat /\ journal' \in Seq(Moves) /\ Len(journal') = L + 1 /\ journal'[L + 1] = e
      /\ DOMAIN journal = 1..L /\ DOMAIN journal' = 1..L + 1
      /\ \A n \in 1..L : journal'[n] = journal[n]
  BY <1>1, <1>2, <1>6 DEF JournalTyped
<1>9. Moved' = Moved \cup {f} /\ f \notin Moved /\ \A n \in 1..L : journal[n].file # f
  <2>1. Moved' = {journal'[n].file : n \in 1..L + 1} /\ Moved = {journal[n].file : n \in 1..L}
    BY <1>8 DEF Moved
  <2>2. \A n \in 1..L + 1 : n \in 1..L \/ n = L + 1
    BY <1>8
  <2>3. f \in Moved'
    BY <1>7, <1>8, <2>1
  <2>4. Moved \subseteq Moved'
    BY <1>8, <2>1
  <2>5. Moved' \subseteq Moved \cup {f}
    BY <1>7, <1>8, <2>1, <2>2
  <2> QED
    BY <1>3, <1>4, <2>1, <2>3, <2>4, <2>5
<1>10. /\ snap' \in Snaps /\ NoDuplicates(snap'.todo) /\ snap'.rev = snap.rev
       /\ \/ snap'.at = "commit" /\ Due' = Due \ {f} /\ Source(f) = Gone
          \/ snap'.at = "link" /\ snap'.todo = snap.todo /\ Due' = Due
  <2>1. CASE Source(f) = Gone
    <3>1. At("commit", Tail(snap.todo))
      BY <1>1, <1>2, <2>1, ProceedMoves
    <3> QED
      BY <1>4, <2>1, <3>1 DEF At, Due
  <2>2. CASE Source(f) # Gone
    <3>1. At("link", snap.todo)
      BY <1>1, <1>2, <2>2, GoToMoves DEF SnapSteps
    <3> QED
      BY <1>2, <3>1 DEF At, Due
  <2> QED
    BY <2>1, <2>2
<1>11. Moving' /\ Committing' /\ ~Downloading' /\ ~Planning'
  BY <1>10 DEF Moving, Committing, Downloading, Planning
<1>12. JournalTyped'
  <2>1. \A n \in 1..L + 1 : n \in 1..L \/ n = L + 1
    BY <1>8
  <2>2. \A n \in DOMAIN journal' : journal'[n].backup \in Kinds(journal'[n].file)
    BY <1>2, <1>6, <1>8, <2>1 DEF JournalTyped
  <2> QED
    BY <1>8, <2>2 DEF JournalTyped, Kinds
<1>13. SnapTyped'
  BY <1>1, <1>2, <1>5, <1>10, <1>12 DEF SnapTyped, SnapRestTyped, Puts
<1>14. OriginalInv'
  <2>1. Due' \cup Moved' \subseteq Due \cup Moved
    BY <1>4, <1>9, <1>10
  <2> QED
    BY <1>1, <1>2, <1>9, <2>1 DEF OriginalInv
<1>15. JournalInv'
  <2>1. \A g \in AllFiles \ (late \cup Moved') : tree'[g] = original[g]
    BY <1>2, <1>5, <1>9 DEF JournalInv, Puts
  <2>2. ASSUME NEW n \in 1..L, journal[n].file \notin late
        PROVE  /\ journal[n].backup = original[journal[n].file]
               /\ ~journal[n].active => tree'[journal[n].file] = Gone
    <3>1. journal[n].file \in AllFiles \ {f}
      BY <1>2, <1>8, <1>9, JournalEntries
    <3> QED
      BY <1>2, <1>5, <1>8, <2>2, <3>1 DEF JournalInv, Puts
  <2>3. f \notin late => tree[f] = original[f] /\ tree'[f] = Gone
    BY <1>2, <1>4, <1>5, <1>9 DEF JournalInv, Puts
  <2>4. \A n \in 1..L + 1 : n \in 1..L \/ n = L + 1
    BY <1>8
  <2>5. ASSUME NEW n \in DOMAIN journal', journal'[n].file \notin late
        PROVE  /\ journal'[n].backup = original[journal'[n].file]
               /\ ~journal'[n].active => tree'[journal'[n].file] = Gone
    BY <1>7, <1>8, <2>2, <2>3, <2>4, <2>5
  <2>6. \A m, n \in DOMAIN journal' : journal'[m].file = journal'[n].file => m = n
    BY <1>2, <1>7, <1>8, <1>9, <2>4 DEF JournalInv
  <2> QED
    BY <1>1, <2>1, <2>5, <2>6 DEF JournalInv
<1>16. InstalledInv'
  <2>1. \A g \in FilesOf(snap.rev) : g \in AllFiles
    BY <1>2, PublishedFiles DEF Snaps
  <2>2. Source(f) = Gone => f \notin FilesOf(snap.rev) /\ f # Manifest
    BY <1>2, <1>4, Sources
  <2>3. \A g \in FilesOf(snap.rev) \ (Due' \cup doubtful') : tree'[g] = Published[snap.rev][g]
    BY <1>1, <1>3, <1>4, <1>5, <1>10, <2>1, <2>2 DEF HasAllBut, Puts
  <2>4. (Manifest \in Due \/ Owner = [rev |-> snap.rev, complete |-> TRUE])'
    BY <1>3, <1>4, <1>5, <1>10, <2>2, FolderNames DEF Puts, Owner
  <2>5. snap'.at = "commit" => Due' \cap Moved' = {}
    BY <1>3, <1>9, <1>10
  <2>6. snap'.at = "link" =>
           /\ snap'.todo # << >> /\ journal' # << >>
           /\ journal'[Len(journal')].file = Head(snap'.todo)
           /\ Due' \cap Moved' = {Head(snap'.todo)}
    BY <1>1, <1>3, <1>4, <1>7, <1>8, <1>9, <1>10 DEF f
  <2> QED
    BY <1>10, <2>3, <2>4, <2>5, <2>6 DEF InstalledInv, HasAllBut
<1>17. UndoneInv' /\ DownloadInv' /\ PlanInv' /\ CompleteIsVerified'
  BY <1>10, <1>11 DEF UndoneInv, DownloadInv, PlanInv, CompleteIsVerified
<1> QED
  BY <1>11, <1>13, <1>14, <1>15, <1>16, <1>17 DEF SnapInv, CommitInv

\* The new file is linked where the old one was; without its stamp it is taken back.
LEMMA ActivateStep == SnapInv /\ Activate => SnapInv'
<1> SUFFICES ASSUME SnapInv, Activate PROVE SnapInv'
  OBVIOUS
<1> DEFINE f == Head(snap.todo)
           L == Len(journal)
<1>0. PICK stamped \in BOOLEAN :
         /\ snap.at = "link" /\ Write(f, Source(f)) /\ doubtful' = doubtful \ {f}
         /\ journal' = [journal EXCEPT ![L].active = TRUE, ![L].stamped = stamped]
         /\ IF stamped THEN GoTo("commit", Tail(snap.todo)) ELSE GoTo("rollback", Backwards)
         /\ UNCHANGED <<parts, edits, kills, late, original>>
  BY DEF Activate, NoNews
<1>2. /\ SnapTyped /\ FolderTyped /\ snap \in Snaps /\ snap.todo \in Seq(AllFiles)
      /\ NoDuplicates(snap.todo) /\ SnapRestTyped /\ JournalTyped
      /\ OriginalInv /\ JournalInv /\ InstalledInv
  BY <1>0 DEF SnapInv, SnapTyped, Snaps, CommitInv, Committing
<1>3. /\ HasAllBut(snap.rev, Due \cup doubtful)
      /\ Manifest \in Due \/ Owner = [rev |-> snap.rev, complete |-> TRUE]
      /\ snap.todo # << >> /\ journal # << >> /\ journal[L].file = f /\ Due \cap Moved = {f}
  BY <1>0, <1>2 DEF InstalledInv, Moving
<1>4. /\ f \in AllFiles /\ f \in Due /\ Tail(snap.todo) \in Seq(AllFiles)
      /\ NoDuplicates(Tail(snap.todo)) /\ Elements(Tail(snap.todo)) = Due \ {f}
  BY <1>2, <1>3, HeadOfTodo
<1>5. /\ journal \in Seq(Moves) /\ L \in Nat /\ L \in 1..L /\ DOMAIN journal = 1..L
      /\ \A n \in 1..L : journal[n] \in Moves /\ journal[n].file \in Moved
  BY <1>2, <1>3, JournalEntries
<1> HIDE DEF f, L
<1> DEFINE e == [journal[L] EXCEPT !.active = TRUE, !.stamped = stamped]
<1>6. e \in Moves /\ e.file = f /\ e.backup = journal[L].backup /\ e.active
  BY <1>3, <1>5 DEF Moves
<1>7. /\ journal' = [journal EXCEPT ![L] = e]
  <2>1. [journal EXCEPT ![L].active = TRUE, ![L].stamped = stamped] = [journal EXCEPT ![L] = e]
    BY <1>5
  <2> QED
    BY <1>0, <2>1
<1> HIDE DEF e
<1>8. /\ journal' \in Seq(Moves) /\ Len(journal') = L /\ DOMAIN journal' = 1..L
      /\ journal'[L] = e /\ \A n \in 1..L : n # L => journal'[n] = journal[n]
  <2>1. L = Len(journal) /\ journal \in Seq(Moves) /\ L \in 1..Len(journal) /\ e \in Moves
    BY <1>5, <1>6 DEF L
  <2>2. /\ [journal EXCEPT ![L] = e] \in Seq(Moves)
        /\ Len([journal EXCEPT ![L] = e]) = Len(journal)
        /\ DOMAIN [journal EXCEPT ![L] = e] = 1..Len(journal)
        /\ [journal EXCEPT ![L] = e][L] = e
        /\ \A n \in 1..Len(journal) : n # L => [journal EXCEPT ![L] = e][n] = journal[n]
    BY <2>1, ReplacedAt
  <2> QED
    BY <1>7, <2>1, <2>2
<1>9. \A n \in 1..L : /\ journal'[n].file = journal[n].file
                      /\ journal'[n].backup = journal[n].backup
  BY <1>3, <1>6, <1>8
<1>10. Moved' = Moved /\ f \in Moved
  BY <1>3, <1>5, <1>8, <1>9 DEF Moved
<1>11. Puts(f, Source(f))
  BY <1>0, <1>2, <1>4, Sources, WritePuts DEF Write
<1>12. /\ snap' \in Snaps /\ NoDuplicates(snap'.todo) /\ snap'.rev = snap.rev
       /\ \/ snap'.at = "commit" /\ Due' = Due \ {f}
          \/ snap'.at = "rollback" /\ Due' = Moved
  <2>1. CASE stamped
    <3>1. At("commit", Tail(snap.todo))
      BY <1>0, <1>2, <1>4, <2>1, GoToMoves DEF SnapSteps
    <3> QED
      BY <1>4, <3>1 DEF At, Due
  <2>2. CASE ~stamped
    <3>1. At("rollback", Backwards) /\ NoDuplicates(Backwards) /\ Elements(Backwards) = Moved
      BY <1>0, <1>2, <2>2, BackwardsLists, GoToMoves DEF SnapSteps
    <3> QED
      BY <3>1 DEF At, Due
  <2> QED
    BY <2>1, <2>2
<1>13. Committing' /\ ~Downloading' /\ ~Planning'
  BY <1>12 DEF Committing, Downloading, Planning
<1>14. JournalTyped'
  <2>1. \A n \in DOMAIN journal' : journal'[n].backup \in Kinds(journal'[n].file)
    BY <1>2, <1>5, <1>8, <1>9 DEF JournalTyped
  <2> QED
    BY <1>8, <2>1 DEF JournalTyped, Kinds
<1>15. SnapTyped'
  BY <1>0, <1>2, <1>11, <1>12, <1>14 DEF SnapTyped, SnapRestTyped, Puts
<1>16. OriginalInv'
  <2>1. late \subseteq doubtful' \cup Moved'
    BY <1>0, <1>2, <1>10 DEF OriginalInv
  <2>2. Due' \cup Moved' \subseteq Due \cup Moved
    BY <1>10, <1>12
  <2> QED
    BY <1>0, <1>2, <2>1, <2>2 DEF OriginalInv
<1>17. JournalInv'
  <2>1. \A g \in AllFiles \ (late \cup Moved') : tree'[g] = original[g]
    BY <1>2, <1>10, <1>11 DEF JournalInv, Puts
  <2>2. ASSUME NEW n \in 1..L, journal'[n].file \notin late
        PROVE  /\ journal'[n].backup = original[journal'[n].file]
               /\ ~journal'[n].active => tree'[journal'[n].file] = Gone
    <3>1. journal'[n].backup = original[journal'[n].file]
      BY <1>2, <1>5, <1>9, <2>2 DEF JournalInv
    <3>2. CASE n = L
      BY <1>6, <1>8, <3>1, <3>2
    <3>3. CASE n # L
      <4>1. journal[n].file # f
        BY <1>2, <1>3, <1>5, <3>3 DEF JournalInv
      <4>2. journal[n].file \in AllFiles
        BY <1>2, JournalEntries DEF L
      <4> QED
        BY <1>2, <1>5, <1>8, <1>11, <2>2, <3>1, <3>3, <4>1, <4>2 DEF JournalInv, Puts
    <3> QED
      BY <3>2, <3>3
  <2>3. \A m, n \in 1..L : journal'[m].file = journal'[n].file => m = n
    BY <1>2, <1>5, <1>9 DEF JournalInv
  <2> QED
    BY <1>0, <1>8, <2>1, <2>2, <2>3 DEF JournalInv
<1>18. InstalledInv'
  <2>1. \A g \in FilesOf(snap.rev) : g \in AllFiles
    BY <1>2, PublishedFiles DEF Snaps
  <2>2. ASSUME snap'.at = "commit"
        PROVE  \A g \in FilesOf(snap.rev) \ (Due' \cup doubtful') :
                  tree'[g] = Published[snap.rev][g]
    <3>1. ASSUME NEW g \in FilesOf(snap.rev) \ (Due' \cup doubtful')
          PROVE  tree'[g] = Published[snap.rev][g]
      <4>1. CASE g = f
        BY <1>2, <1>4, <1>11, <3>1, <4>1, Sources DEF Puts
      <4>2. CASE g # f
        BY <1>0, <1>3, <1>11, <1>12, <2>1, <2>2, <3>1, <4>2 DEF Puts, HasAllBut
      <4> QED
        BY <4>1, <4>2
    <3> QED
      BY <3>1
  <2>3. ASSUME snap'.at = "commit"
        PROVE  Manifest \in Due' \/ Owner' = [rev |-> snap.rev, complete |-> TRUE]
    <3>1. CASE f = Manifest
      BY <1>2, <1>4, <1>11, <3>1, Sources DEF Puts, Owner
    <3>2. CASE f # Manifest
      BY <1>3, <1>11, <1>12, <2>3, <3>2, FolderNames DEF Puts, Owner
    <3> QED
      BY <3>1, <3>2
  <2>4. snap'.at = "commit" => Due' \cap Moved' = {}
    BY <1>3, <1>10, <1>12
  <2> QED
    BY <1>12, <2>2, <2>3, <2>4 DEF InstalledInv, Moving, HasAllBut
<1>19. UndoneInv'
  BY <1>10, <1>12 DEF UndoneInv
<1>20. DownloadInv' /\ PlanInv' /\ CompleteIsVerified'
  BY <1>13 DEF DownloadInv, PlanInv, CompleteIsVerified
<1> QED
  BY <1>13, <1>15, <1>16, <1>17, <1>18, <1>19, <1>20 DEF SnapInv, CommitInv

\* A commit that fails goes back over everything it moved.
LEMMA CommitFailsStep == SnapInv /\ CommitFails => SnapInv'
<1> SUFFICES ASSUME SnapInv, CommitFails PROVE SnapInv'
  OBVIOUS
<1>1. /\ snap.at \in {"commit", "link"}
      /\ snap' = [snap EXCEPT !.at = "rollback", !.todo = Backwards]
      /\ UNCHANGED <<tree, parts, journal, doubtful, edits, kills, late, original>>
  BY DEF CommitFails, folder, NoNews
<1>2. /\ SnapTyped /\ snap \in Snaps /\ JournalTyped /\ OriginalInv /\ JournalInv
  BY <1>1 DEF SnapInv, SnapTyped, CommitInv, Committing
<1>3. Backwards \in Seq(AllFiles) /\ NoDuplicates(Backwards) /\ Elements(Backwards) = Moved
  BY <1>2, BackwardsLists
<1>4. /\ snap' \in Snaps /\ snap'.at = "rollback" /\ NoDuplicates(snap'.todo)
      /\ Due' = Moved /\ Moved' = Moved
  BY <1>1, <1>2, <1>3 DEF Snaps, SnapSteps, Due, Moved
<1>5. Committing' /\ ~Downloading' /\ ~Planning' /\ ~Moving'
  BY <1>4 DEF Committing, Downloading, Planning, Moving
<1>6. SnapTyped'
  BY <1>1, <1>2, <1>4 DEF SnapTyped, FolderTyped, JournalTyped, SnapRestTyped, Kinds
<1>7. OriginalInv' /\ JournalInv'
  BY <1>1, <1>2, <1>4 DEF OriginalInv, JournalInv
<1>8. InstalledInv' /\ UndoneInv' /\ DownloadInv' /\ PlanInv' /\ CompleteIsVerified'
  BY <1>4, <1>5 DEF InstalledInv, UndoneInv, DownloadInv, PlanInv, CompleteIsVerified
<1> QED
  BY <1>5, <1>6, <1>7, <1>8 DEF SnapInv, CommitInv

\* A commit that is done has installed the new revision, and says so.
LEMMA CommitDoneStep == SnapInv /\ CommitDone => SnapInv'
<1> SUFFICES ASSUME SnapInv, CommitDone PROVE SnapInv'
  OBVIOUS
<1>1. /\ snap.at = "commit" /\ snap.todo = << >> /\ Stop /\ journal' = << >>
      /\ UNCHANGED <<tree, parts, doubtful, edits, kills, late, original>>
  BY DEF CommitDone, folder, NoNews
<1>2. /\ SnapTyped /\ FolderTyped /\ SnapRestTyped /\ InstalledInv /\ Due = {}
  BY <1>1 DEF SnapInv, SnapTyped, CommitInv, Committing, Due, Elements
<1>3. /\ HasAllBut(snap.rev, doubtful) /\ Owner = [rev |-> snap.rev, complete |-> TRUE]
  BY <1>1, <1>2 DEF InstalledInv, Moving, HasAllBut
<1>4. /\ snap' \in Snaps /\ NoDuplicates(snap'.todo) /\ ~Downloading' /\ ~Planning'
      /\ ~Committing'
  BY <1>1, StopRests
<1>5. CompleteIsVerified' /\ DownloadInv' /\ PlanInv' /\ CommitInv'
  BY <1>1, <1>3, <1>4 DEF CompleteIsVerified, DownloadInv, PlanInv, CommitInv, HasAllBut, Owner,
     Old
<1>6. SnapTyped'
  <2>1. << >> \in Seq(Moves) /\ DOMAIN << >> = {}
    OBVIOUS
  <2>2. JournalTyped'
    BY <1>1, <2>1 DEF JournalTyped
  <2> QED
    BY <1>1, <1>2, <1>4, <2>2 DEF SnapTyped, FolderTyped, SnapRestTyped, Kinds
<1> QED
  BY <1>5, <1>6 DEF SnapInv

\* The journal without an entry: the file of the entry is no longer moved.
LEMMA EntryRemoved ==
    ASSUME JournalTyped, JournalInv, NEW n \in 1..Len(journal), journal' = RemoveAt(journal, n)
    PROVE  /\ JournalTyped' /\ Moved' = Moved \ {journal[n].file}
           /\ \A i \in DOMAIN journal' :
                 \E k \in DOMAIN journal : k # n /\ journal'[i] = journal[k]
           /\ \A k \in DOMAIN journal :
                 k # n => \E i \in DOMAIN journal' : journal'[i] = journal[k]
           /\ \A i, j \in DOMAIN journal' : journal'[i].file = journal'[j].file => i = j
<1> DEFINE L == Len(journal)
           From(i) == IF i < n THEN i ELSE i + 1
<1>1. /\ journal \in Seq(Moves) /\ L \in Nat /\ DOMAIN journal = 1..L /\ n \in 1..L /\ n \in Nat
  BY JournalEntries
<1>2. /\ journal' \in Seq(Moves) /\ Len(journal') = L - 1
      /\ \A i \in 1..L - 1 : journal'[i] = IF i < n THEN journal[i] ELSE journal[i + 1]
  <2>1. /\ RemoveAt(journal, n) \in Seq(Moves) /\ Len(RemoveAt(journal, n)) = L - 1
        /\ \A i \in 1..L - 1 :
              RemoveAt(journal, n)[i] = IF i < n THEN journal[i] ELSE journal[i + 1]
    BY <1>1, RemovedAt
  <2> QED
    BY <2>1
<1>3. DOMAIN journal' = 1..L - 1
  BY <1>2
<1> HIDE DEF L
<1>4. \A i \in 1..L - 1 : From(i) \in 1..L /\ From(i) # n /\ journal'[i] = journal[From(i)]
  BY <1>1, <1>2
<1>5. \A i, j \in 1..L - 1 : From(i) = From(j) => i = j
  BY <1>1
<1>6. \A k \in 1..L : k # n => \E i \in 1..L - 1 : From(i) = k
  <2> SUFFICES ASSUME NEW k \in 1..L, k # n PROVE \E i \in 1..L - 1 : From(i) = k
    OBVIOUS
  <2>1. CASE k < n
    <3>1. k \in 1..L - 1 /\ From(k) = k
      BY <1>1, <2>1
    <3> QED
      BY <3>1
  <2>2. CASE ~(k < n)
    <3>1. k - 1 \in 1..L - 1 /\ From(k - 1) = k
      BY <1>1, <2>2
    <3> QED
      BY <3>1
  <2> QED
    BY <2>1, <2>2
<1> HIDE DEF From
<1>7. \A i \in DOMAIN journal' : \E k \in DOMAIN journal : k # n /\ journal'[i] = journal[k]
  BY <1>1, <1>3, <1>4
<1>8. \A i, j \in DOMAIN journal' : journal'[i].file = journal'[j].file => i = j
  <2> SUFFICES ASSUME NEW i \in 1..L - 1, NEW j \in 1..L - 1, journal'[i].file = journal'[j].file
               PROVE  i = j
    BY <1>3
  <2>1. From(i) = From(j)
    BY <1>1, <1>4 DEF JournalInv
  <2> QED
    BY <1>5, <2>1
<1>9. Moved' = Moved \ {journal[n].file}
  <2>1. \A k \in 1..L : k # n => journal[k].file # journal[n].file
    BY <1>1 DEF JournalInv
  <2>2. Moved' \subseteq Moved \ {journal[n].file}
    BY <1>1, <1>7, <2>1 DEF Moved
  <2>3. ASSUME NEW k \in 1..L, k # n PROVE journal[k].file \in Moved'
    <3>1. PICK i \in 1..L - 1 : From(i) = k
      BY <1>6, <2>3
    <3> QED
      BY <1>3, <1>4, <3>1 DEF Moved
  <2>4. Moved \ {journal[n].file} \subseteq Moved'
    BY <1>1, <2>3 DEF Moved
  <2> QED
    BY <2>2, <2>4
<1>10. JournalTyped'
  <2>1. \A i \in DOMAIN journal' : journal'[i].backup \in Kinds(journal'[i].file)
    BY <1>7 DEF JournalTyped
  <2> QED
    BY <1>2, <2>1 DEF JournalTyped, Kinds
<1>11. \A k \in DOMAIN journal :
          k # n => \E i \in DOMAIN journal' : journal'[i] = journal[k]
  <2> SUFFICES ASSUME NEW k \in 1..L, k # n
               PROVE  \E i \in 1..L - 1 : journal'[i] = journal[k]
    BY <1>1, <1>3
  <2>1. PICK i \in 1..L - 1 : From(i) = k
    BY <1>6
  <2> QED
    BY <1>4, <2>1
<1> QED
  BY <1>7, <1>8, <1>9, <1>10, <1>11

\* The rest of a rollback that has failed.
Failing == snap' = [snap EXCEPT !.todo = Tail(@), !.failed = TRUE]

\* What becomes of the n-th entry: undone, left with its backup, or only taken away.
Undoes(n, f) ==
    \/ /\ journal[n].active => tree[f] = Source(f)
       /\ journal[n].active \/ tree[f] = Gone \/ journal[n].backup = Gone
       /\ IF journal[n].active \/ journal[n].backup # Gone THEN Write(f, journal[n].backup)
          ELSE UNCHANGED tree
       /\ journal' = RemoveAt(journal, n)
       /\ doubtful' = IF f \in late THEN doubtful \cup {f} ELSE doubtful
       /\ Proceed
    \/ Failing /\ UNCHANGED <<tree, journal, doubtful>>
    \/ /\ tree[f] = Source(f) /\ Write(f, Gone)
       /\ journal' = [journal EXCEPT ![n].active = FALSE]
       /\ Failing /\ UNCHANGED doubtful

\* The rollback finds the entry of its next file in the journal.
LEMMA UndoFinds ==
    ASSUME SnapInv, UndoEntry
    PROVE  /\ snap.at = "rollback" /\ snap.todo # << >>
           /\ UNCHANGED <<parts, edits, kills, late, original>>
           /\ Due \subseteq Moved /\ (~snap.failed => Moved \subseteq Due)
           /\ \E n \in 1..Len(journal) :
                 journal[n].file = Head(snap.todo) /\ Undoes(n, Head(snap.todo))
<1> DEFINE f == Head(snap.todo)
           n == Entry(f)
<1>1. /\ snap.at = "rollback" /\ snap.todo # << >>
      /\ UNCHANGED <<parts, edits, kills, late, original>>
  BY DEF UndoEntry, NoNews
<1>2. SnapTyped /\ JournalTyped /\ UndoneInv
  BY <1>1 DEF SnapInv, SnapTyped, CommitInv, Committing
<1>3. Due \subseteq Moved /\ (~snap.failed => Moved \subseteq Due)
  BY <1>1, <1>2 DEF UndoneInv
<1>4. f \in Due /\ DOMAIN journal = 1..Len(journal)
  BY <1>1, <1>2, HeadOfTodo, JournalEntries
<1>5. n \in 1..Len(journal) /\ journal[n].file = f
  <2>1. \E k \in DOMAIN journal : journal[k].file = f
    BY <1>3, <1>4 DEF Moved
  <2> HIDE DEF f
  <2> QED
    BY <1>4, <2>1 DEF Entry
<1>6. Undoes(n, f)
  BY <1>5 DEF UndoEntry, Undoes, Failing, StillOurs
<1> QED
  BY <1>1, <1>3, <1>5, <1>6

\* An entry is undone, or its backup is kept.
LEMMA UndoStep == SnapInv /\ UndoEntry => SnapInv'
<1> SUFFICES ASSUME SnapInv, UndoEntry PROVE SnapInv'
  OBVIOUS
<1> DEFINE f == Head(snap.todo)
<1>1. /\ snap.at = "rollback" /\ snap.todo # << >>
      /\ UNCHANGED <<parts, edits, kills, late, original>>
      /\ Due \subseteq Moved /\ (~snap.failed => Moved \subseteq Due)
  BY UndoFinds
<1>2. /\ SnapTyped /\ FolderTyped /\ snap \in Snaps /\ snap.todo \in Seq(AllFiles)
      /\ NoDuplicates(snap.todo) /\ SnapRestTyped /\ JournalTyped
      /\ OriginalInv /\ JournalInv
  BY <1>1 DEF SnapInv, SnapTyped, Snaps, CommitInv, Committing
<1>3. PICK n \in 1..Len(journal) : journal[n].file = f /\ Undoes(n, f)
  BY UndoFinds
<1> DEFINE e == journal[n]
<1>4. /\ f \in AllFiles /\ f \in Due /\ Tail(snap.todo) \in Seq(AllFiles)
      /\ NoDuplicates(Tail(snap.todo)) /\ Elements(Tail(snap.todo)) = Due \ {f}
  BY <1>1, <1>2, HeadOfTodo
<1>5. DOMAIN journal = 1..Len(journal) /\ journal \in Seq(Moves)
  BY <1>2, JournalEntries
<1>6. n \in 1..Len(journal) /\ e.file = f
  BY <1>3
<1>7. e \in Moves /\ e.backup \in Kinds(f) /\ f \in Moved
  BY <1>2, <1>6, JournalEntries
<1>8. \/ /\ e.active \/ tree[f] = Gone \/ e.backup = Gone
         /\ IF e.active \/ e.backup # Gone THEN Write(f, e.backup) ELSE UNCHANGED tree
         /\ journal' = RemoveAt(journal, n)
         /\ doubtful' = IF f \in late THEN doubtful \cup {f} ELSE doubtful
         /\ Proceed
      \/ Failing /\ UNCHANGED <<tree, journal, doubtful>>
      \/ /\ Write(f, Gone)
         /\ journal' = [journal EXCEPT ![n].active = FALSE]
         /\ Failing /\ UNCHANGED doubtful
  BY <1>3 DEF Undoes
<1>9. \A k \in DOMAIN journal : k # n => journal[k].file # f
  BY <1>2, <1>5, <1>6 DEF JournalInv
<1>10. Failing => /\ snap' \in Snaps /\ snap'.at = "rollback" /\ NoDuplicates(snap'.todo)
                  /\ Due' = Due \ {f} /\ snap'.failed
  BY <1>1, <1>2, <1>4 DEF Snaps, Due, Failing
<1> HIDE DEF f, e
\* What is left to show of each of the three.
<1>11. ASSUME snap' \in Snaps, snap'.at = "rollback", NoDuplicates(snap'.todo), Due' = Due \ {f},
              snap'.failed \/ (~snap.failed /\ Moved' = Moved \ {f}),
              Moved' = Moved \/ Moved' = Moved \ {f},
              FolderTyped', JournalTyped', JournalInv', doubtful' \subseteq AllFiles,
              late \subseteq doubtful' \cup Moved'
       PROVE  SnapInv'
  <2>1. Committing' /\ ~Downloading' /\ ~Planning' /\ ~Moving'
    BY <1>11 DEF Committing, Downloading, Planning, Moving
  <2>2. SnapTyped'
    BY <1>1, <1>2, <1>11 DEF SnapTyped, SnapRestTyped
  <2>3. OriginalInv'
    <3>1. Due' \cup Moved' \subseteq Due \cup Moved
      BY <1>11
    <3> QED
      BY <1>1, <1>2, <1>11, <3>1 DEF OriginalInv
  <2>4. UndoneInv'
    BY <1>1, <1>11 DEF UndoneInv
  <2>5. InstalledInv' /\ DownloadInv' /\ PlanInv' /\ CompleteIsVerified'
    BY <2>1 DEF InstalledInv, DownloadInv, PlanInv, CompleteIsVerified
  <2> QED
    BY <1>11, <2>1, <2>2, <2>3, <2>4, <2>5 DEF SnapInv, CommitInv
<1>12. CASE /\ e.active \/ tree[f] = Gone \/ e.backup = Gone
            /\ IF e.active \/ e.backup # Gone THEN Write(f, e.backup) ELSE UNCHANGED tree
            /\ journal' = RemoveAt(journal, n)
            /\ doubtful' = IF f \in late THEN doubtful \cup {f} ELSE doubtful
            /\ Proceed
  <2>1. At("rollback", Tail(snap.todo))
    BY <1>1, <1>2, <1>12, ProceedMoves
  <2>2. /\ JournalTyped' /\ Moved' = Moved \ {f}
        /\ \A i \in DOMAIN journal' :
              \E k \in DOMAIN journal : k # n /\ journal'[i] = journal[k]
        /\ \A i, j \in DOMAIN journal' : journal'[i].file = journal'[j].file => i = j
    <3>1. journal[n].file = f
      BY <1>6 DEF e
    <3> QED
      BY <1>2, <1>6, <1>12, <3>1, EntryRemoved
  <2>3. FolderTyped' /\ \A g \in AllFiles \ {f} : tree'[g] = tree[g]
    <3>1. CASE Write(f, e.backup)
      <4>1. Puts(f, e.backup)
        BY <1>2, <1>4, <1>7, <3>1, WritePuts DEF Write
      <4> QED
        BY <4>1 DEF Puts
    <3>2. CASE UNCHANGED tree
      BY <1>2, <3>2 DEF FolderTyped, Kinds
    <3> QED
      BY <1>12, <3>1, <3>2
  <2>4. f \notin late => tree'[f] = original[f]
    <3> SUFFICES ASSUME f \notin late PROVE tree'[f] = original[f]
      OBVIOUS
    <3>1. e.backup = original[f] /\ (~e.active => tree[f] = Gone)
      BY <1>2, <1>5, <1>6 DEF JournalInv, e
    <3>2. CASE Write(f, e.backup)
      <4>1. Puts(f, e.backup)
        BY <1>2, <1>4, <1>7, <3>2, WritePuts DEF Write
      <4> QED
        BY <3>1, <4>1 DEF Puts
    <3>3. CASE ~(e.active \/ e.backup # Gone) /\ UNCHANGED tree
      BY <3>1, <3>3
    <3> QED
      BY <1>12, <3>2, <3>3
  <2>5. JournalInv'
    <3>1. \A g \in AllFiles \ (late \cup Moved') : tree'[g] = original[g]
      BY <1>2, <2>2, <2>3, <2>4 DEF JournalInv
    <3>2. ASSUME NEW i \in DOMAIN journal', journal'[i].file \notin late
          PROVE  /\ journal'[i].backup = original[journal'[i].file]
                 /\ ~journal'[i].active => tree'[journal'[i].file] = Gone
      <4>1. PICK k \in DOMAIN journal : k # n /\ journal'[i] = journal[k]
        BY <2>2
      <4>2. journal[k].file \in AllFiles \ {f}
        BY <1>2, <1>5, <1>9, <4>1, JournalEntries
      <4> QED
        BY <1>2, <2>3, <3>2, <4>1, <4>2 DEF JournalInv
    <3> QED
      BY <1>1, <2>2, <3>1, <3>2 DEF JournalInv
  <2>6. doubtful' \subseteq AllFiles /\ late \subseteq doubtful' \cup Moved'
    BY <1>2, <1>4, <1>12, <2>2 DEF SnapRestTyped, OriginalInv
  <2>7. /\ snap' \in Snaps /\ snap'.at = "rollback" /\ NoDuplicates(snap'.todo)
        /\ Due' = Due \ {f} /\ snap'.failed = snap.failed
    BY <1>4, <2>1 DEF At, Due
  <2>8. snap'.failed \/ ~snap.failed
    BY <1>2, <2>7 DEF Snaps
  <2> QED
    BY <1>11, <2>2, <2>3, <2>5, <2>6, <2>7, <2>8
<1>13. CASE Failing /\ UNCHANGED <<tree, journal, doubtful>>
  <2>1. FolderTyped' /\ JournalTyped' /\ JournalInv' /\ Moved' = Moved
    BY <1>1, <1>2, <1>13 DEF FolderTyped, JournalTyped, JournalInv, Moved, Kinds
  <2>2. doubtful' \subseteq AllFiles /\ late \subseteq doubtful' \cup Moved'
    BY <1>2, <1>13, <2>1 DEF SnapRestTyped, OriginalInv
  <2> QED
    BY <1>10, <1>11, <1>13, <2>1, <2>2
<1>14. CASE /\ Write(f, Gone)
            /\ journal' = [journal EXCEPT ![n].active = FALSE]
            /\ Failing /\ UNCHANGED doubtful
  <2>1. Puts(f, Gone)
    BY <1>2, <1>4, <1>14, WritePuts DEF Write, Kinds, Values
  <2> DEFINE d == [e EXCEPT !.active = FALSE]
  <2>2. d \in Moves /\ d.file = f /\ d.backup = e.backup
    BY <1>6, <1>7 DEF Moves
  <2>3. journal' = [journal EXCEPT ![n] = d]
    BY <1>5, <1>6, <1>14 DEF e
  <2> HIDE DEF d
  <2>4. /\ [journal EXCEPT ![n] = d] \in Seq(Moves)
        /\ DOMAIN [journal EXCEPT ![n] = d] = 1..Len(journal)
        /\ [journal EXCEPT ![n] = d][n] = d
        /\ \A k \in 1..Len(journal) : k # n => [journal EXCEPT ![n] = d][k] = journal[k]
    BY <1>5, <1>6, <2>2, ReplacedAt
  <2>5. /\ journal' \in Seq(Moves) /\ DOMAIN journal' = DOMAIN journal /\ journal'[n] = d
        /\ \A k \in DOMAIN journal : k # n => journal'[k] = journal[k]
    BY <1>5, <2>3, <2>4
  <2>6. \A k \in DOMAIN journal : /\ journal'[k].file = journal[k].file
                                  /\ journal'[k].backup = journal[k].backup
    BY <1>6, <2>2, <2>5 DEF e
  <2>7. Moved' = Moved
    BY <2>5, <2>6 DEF Moved
  <2>8. JournalTyped'
    <3>1. \A k \in DOMAIN journal' : journal'[k].backup \in Kinds(journal'[k].file)
      BY <1>2, <2>5, <2>6 DEF JournalTyped
    <3> QED
      BY <2>5, <3>1 DEF JournalTyped, Kinds
  <2>9. JournalInv'
    <3>1. \A g \in AllFiles \ (late \cup Moved') : tree'[g] = original[g]
      BY <1>2, <1>7, <2>1, <2>7 DEF JournalInv, Puts
    <3>2. ASSUME NEW k \in DOMAIN journal', journal'[k].file \notin late
          PROVE  /\ journal'[k].backup = original[journal'[k].file]
                 /\ ~journal'[k].active => tree'[journal'[k].file] = Gone
      <4>1. journal'[k].backup = original[journal'[k].file]
        BY <1>2, <2>5, <2>6, <3>2 DEF JournalInv
      <4>2. CASE k = n
        BY <2>1, <2>2, <2>5, <4>1, <4>2 DEF Puts
      <4>3. CASE k # n
        <5>1. journal[k].file \in AllFiles \ {f}
          BY <1>2, <1>5, <1>9, <2>5, <4>3, JournalEntries
        <5> QED
          BY <1>2, <2>1, <2>5, <3>2, <4>1, <4>3, <5>1 DEF JournalInv, Puts
      <4> QED
        BY <4>2, <4>3
    <3>3. \A i, j \in DOMAIN journal' : journal'[i].file = journal'[j].file => i = j
      BY <1>2, <2>5, <2>6 DEF JournalInv
    <3> QED
      BY <1>1, <3>1, <3>2, <3>3 DEF JournalInv
  <2>10. doubtful' \subseteq AllFiles /\ late \subseteq doubtful' \cup Moved'
    BY <1>2, <1>14, <2>7 DEF SnapRestTyped, OriginalInv
  <2> QED
    BY <1>10, <1>11, <1>14, <2>1, <2>7, <2>8, <2>9, <2>10 DEF Puts
<1> QED
  BY <1>8, <1>12, <1>13, <1>14

\* A rollback that did not fail has nothing left in its journal.
LEMMA UndoneKeepsJournal == SnapInv /\ Undone => journal' = journal
<1> SUFFICES ASSUME SnapInv, Undone, ~snap.failed PROVE journal = << >>
  BY DEF Undone
<1>1. snap.at = "rollback" /\ JournalTyped /\ UndoneInv
  BY DEF Undone, SnapInv, SnapTyped, CommitInv, Committing
<1>2. Due = {}
  BY DEF Undone, Due, Elements
<1>3. Moved = {}
  BY <1>1, <1>2 DEF UndoneInv
<1>4. DOMAIN journal = 1..Len(journal) /\ Len(journal) \in Nat /\ journal \in Seq(Moves)
  BY <1>1, JournalEntries
<1>5. 1 \notin 1..Len(journal)
  BY <1>3, <1>4 DEF Moved
<1> QED
  BY <1>4, <1>5

\* The error of the update is returned.
LEMMA UndoneStep == SnapInv /\ Undone => SnapInv'
<1> SUFFICES ASSUME SnapInv, Undone PROVE SnapInv'
  OBVIOUS
<1>1. /\ snap.at = "rollback" /\ snap.todo = << >> /\ snap' = [snap EXCEPT !.at = "undone"]
      /\ journal' = IF snap.failed THEN journal ELSE << >>
      /\ UNCHANGED <<tree, parts, doubtful, edits, kills, late, original>>
  BY DEF Undone, folder, NoNews
<1>2. /\ SnapTyped /\ snap \in Snaps /\ NoDuplicates(snap.todo) /\ JournalTyped
      /\ OriginalInv /\ JournalInv /\ UndoneInv
  BY <1>1 DEF SnapInv, SnapTyped, CommitInv, Committing
<1>4. journal' = journal
  BY UndoneKeepsJournal
<1>3. snap.failed \/ journal = << >>
  BY <1>1, <1>4
<1>5. /\ snap' \in Snaps /\ snap'.at = "undone" /\ snap'.todo = snap.todo
      /\ snap'.failed = snap.failed
  BY <1>1, <1>2 DEF Snaps, SnapSteps
<1>6. Due' = Due /\ Moved' = Moved
  BY <1>4, <1>5 DEF Due, Moved
<1>7. SnapTyped'
  BY <1>1, <1>2, <1>4, <1>5 DEF SnapTyped, FolderTyped, JournalTyped, SnapRestTyped, Kinds
<1>8. OriginalInv' /\ JournalInv'
  BY <1>1, <1>2, <1>4, <1>6 DEF OriginalInv, JournalInv
<1>9. UndoneInv'
  BY <1>2, <1>3, <1>4, <1>5 DEF UndoneInv
<1>10. /\ Committing' /\ InstalledInv' /\ DownloadInv' /\ PlanInv' /\ CompleteIsVerified'
  BY <1>5 DEF InstalledInv, DownloadInv, PlanInv, CompleteIsVerified, Committing, Downloading,
     Planning, Moving
<1> QED
  BY <1>7, <1>8, <1>9, <1>10 DEF SnapInv, CommitInv

\* A commit that left nothing in its journal left the folder as it found it.
LEMMA CommitLeft ==
    ASSUME SnapInv, Committing, journal = << >>
    PROVE  Owner # Gone /\ Old \subseteq SnapFiles
           /\ \A f \in Old \ doubtful : tree[f] = Published[Owner.rev][f]
<1>1. SnapTyped /\ FolderTyped /\ SnapRestTyped /\ OriginalInv /\ JournalInv
  BY DEF SnapInv, SnapTyped, CommitInv
<1>2. Moved = {}
  BY DEF Moved
<1>3. \A f \in AllFiles \ late : tree[f] = original[f]
  BY <1>1, <1>2 DEF JournalInv
<1>4. Owner = original[Manifest]
  BY <1>1, <1>3, FolderNames DEF SnapRestTyped, Owner
<1>5. Owner \in Manifests /\ Owner # Gone
  BY <1>1, <1>4, SnapshotNames DEF OriginalInv
<1>6. Old \subseteq SnapFiles
  BY <1>1, <1>5, ManifestTyped
<1>7. \A f \in Old \ doubtful : f \in AllFiles \ late
  BY <1>1, <1>2, <1>6, FolderNames DEF OriginalInv
<1> QED
  BY <1>1, <1>3, <1>4, <1>5, <1>6, <1>7 DEF OriginalInv, Old

\* The end of an operation, or of the application: nothing is at work, and the files of a
\* commit cut short are in doubt.
LEMMA EndSteps == SnapInv /\ (EndUpdate \/ EndDelete \/ KillApp) => SnapInv'
<1> SUFFICES ASSUME SnapInv, EndUpdate \/ EndDelete \/ KillApp PROVE SnapInv'
  OBVIOUS
<1>1. /\ SnapTyped /\ FolderTyped /\ SnapRestTyped /\ CompleteIsVerified /\ DownloadInv
      /\ snap \in Snaps /\ snap.rev \in Revisions
  BY DEF SnapInv, SnapTyped, Snaps
<1>2. Stop /\ UNCHANGED <<tree, late>>
  BY DEF EndUpdate, EndDelete, KillApp, folder, NoNews
<1>3. /\ snap' \in Snaps /\ NoDuplicates(snap'.todo) /\ ~Downloading' /\ ~Planning'
      /\ ~Committing'
  BY <1>2, StopRests
<1>4. ~Committing => journal = << >>
  BY DEF SnapInv, CommitInv
<1>5. journal' = << >> /\ ((doubtful' = doubtful /\ journal = << >>) \/ doubtful' = SnapFiles)
  <2>1. CASE EndUpdate
    <3>1. journal = << >> \/ snap.failed
      BY <2>1 DEF EndUpdate, SnapInv, CommitInv, Committing, UndoneInv
    <3> QED
      BY <2>1, <3>1 DEF EndUpdate
  <2>2. CASE EndDelete
    BY <1>4, <2>2 DEF EndDelete, Committing
  <2>3. CASE KillApp
    BY <2>3 DEF KillApp
  <2> QED
    BY <2>1, <2>2, <2>3
<1>6. SnapRestTyped'
  <2>1. snap.at = "receiving" => Head(snap.todo) \in SnapFiles
    <3> SUFFICES ASSUME snap.at = "receiving" PROVE Head(snap.todo) \in SnapFiles
      OBVIOUS
    <3>1. Due \subseteq FilesOf(snap.rev) /\ snap.todo # << >>
      BY <1>1 DEF DownloadInv, Downloading
    <3> QED
      BY <1>1, <3>1, HeadOfTodo, FolderNames
  <2>2. parts' \subseteq SnapFiles
    BY <1>1, <2>1 DEF EndUpdate, EndDelete, KillApp, folder, SnapRestTyped
  <2>3. edits' \in 0..MaxEdits /\ kills' \in 0..MaxKills
    <3>1. CASE KillApp
      <4>1. MaxKills \in Nat /\ kills \in 0..MaxKills /\ kills < MaxKills /\ kills' = kills + 1
        BY <1>1, <3>1, SnapshotNames DEF KillApp, SnapRestTyped
      <4>2. kills' \in 0..MaxKills
        BY <4>1
      <4> QED
        BY <1>1, <3>1, <4>2 DEF KillApp, SnapRestTyped
    <3>2. CASE EndUpdate \/ EndDelete
      BY <1>1, <3>2 DEF EndUpdate, EndDelete, NoNews, SnapRestTyped
    <3> QED
      BY <3>1, <3>2
  <2>4. doubtful' \subseteq AllFiles /\ late' \subseteq SnapFiles
    BY <1>1, <1>2, <1>5, FolderNames DEF SnapRestTyped
  <2> QED
    BY <2>2, <2>3, <2>4 DEF SnapRestTyped
<1>7. SnapTyped'
  <2>1. << >> \in Seq(Moves) /\ DOMAIN << >> = {}
    OBVIOUS
  <2>2. JournalTyped'
    BY <1>5, <2>1 DEF JournalTyped
  <2> QED
    BY <1>1, <1>2, <1>3, <1>6, <2>2 DEF SnapTyped, FolderTyped, Kinds
<1>8. CompleteIsVerified'
  <2>1. Owner' = Owner /\ Old' = Old
    BY <1>2 DEF Owner, Old
  <2>2. CASE doubtful' = SnapFiles
    <3>1. Owner # Gone => Old \subseteq SnapFiles
      BY <1>1, ManifestTyped
    <3> QED
      BY <2>1, <2>2, <3>1 DEF CompleteIsVerified
  <2>3. CASE doubtful' = doubtful /\ journal = << >>
    <3>1. CASE Committing
      BY <1>2, <2>1, <2>3, <3>1, CommitLeft DEF CompleteIsVerified
    <3>2. CASE ~Committing
      BY <1>1, <1>2, <2>1, <2>3, <3>2 DEF CompleteIsVerified
    <3> QED
      BY <3>1, <3>2
  <2> QED
    BY <1>5, <2>2, <2>3
<1>9. DownloadInv' /\ PlanInv' /\ CommitInv'
  BY <1>3, <1>5 DEF DownloadInv, PlanInv, CommitInv
<1> QED
  BY <1>7, <1>8, <1>9 DEF SnapInv

\* What a deletion has taken away is in doubt.
LEMMA DeleteSteps == SnapInv /\ (StartDelete \/ DeleteFile) => SnapInv'
<1> SUFFICES ASSUME SnapInv, StartDelete \/ DeleteFile PROVE SnapInv'
  OBVIOUS
<1>1. /\ SnapTyped /\ FolderTyped /\ SnapRestTyped /\ CompleteIsVerified
      /\ snap \in Snaps /\ NoDuplicates(snap.todo)
  BY DEF SnapInv, SnapTyped
<1>2. ASSUME NEW todo \in Seq(AllFiles), NoDuplicates(todo), At("delete", todo),
             snap.at \in {"idle", "delete"}, UNCHANGED <<journal, edits, kills, late>>,
             parts' \subseteq SnapFiles, doubtful' \subseteq AllFiles, FolderTyped',
             CompleteIsVerified'
      PROVE  SnapInv'
  <2>1. ~Committing /\ ~Committing' /\ ~Downloading' /\ ~Planning'
    BY <1>2 DEF At, Committing, Downloading, Planning
  <2>2. SnapRestTyped' /\ DownloadInv' /\ PlanInv'
    BY <1>1, <1>2, <2>1 DEF SnapRestTyped, DownloadInv, PlanInv
  <2> QED
    BY <1>2, <2>1, <2>2, NotInCommit DEF At
<1>3. CASE StartDelete
  <2> DEFINE s == InOrder({f \in Old : tree[f] # Gone})
  <2>1. s \in Seq(AllFiles) /\ NoDuplicates(s) /\ Elements(s) \subseteq SnapFiles
    BY InOrderLists
  <2>2. <<Manifest>> \in Seq(AllFiles) /\ NoDuplicates(<<Manifest>>)
        /\ Elements(<<Manifest>>) = {Manifest}
    BY FolderNames DEF NoDuplicates, Elements
  <2>3. /\ snap.at = "idle" /\ GoTo("delete", s \o <<Manifest>>)
        /\ UNCHANGED <<tree, parts, journal, doubtful, edits, kills, late>>
    BY <1>3 DEF StartDelete, ManifestLast, folder, NoNews
  <2> HIDE DEF s
  <2>4. s \o <<Manifest>> \in Seq(AllFiles) /\ NoDuplicates(s \o <<Manifest>>)
    BY <2>1, <2>2, JoinedElements, FolderNames
  <2>5. At("delete", s \o <<Manifest>>)
    BY <1>1, <2>3, <2>4, GoToMoves DEF SnapSteps
  <2>6. FolderTyped' /\ CompleteIsVerified'
    BY <1>1, <2>3 DEF FolderTyped, Kinds, CompleteIsVerified, Owner, Old, Committing
  <2> QED
    BY <1>1, <1>2, <2>3, <2>4, <2>5, <2>6 DEF SnapRestTyped
<1>4. CASE DeleteFile
  <2> DEFINE f == Head(snap.todo)
  <2>1. /\ snap.at = "delete" /\ snap.todo # << >> /\ ~Committing
        /\ UNCHANGED <<journal, edits, kills, late>>
    BY <1>4 DEF DeleteFile, NoNews, Committing
  <2>2. CASE \E p \in parts : parts' = parts \ {p} /\ UNCHANGED <<tree, snap, doubtful>>
    <3>1. At("delete", snap.todo) /\ snap.todo \in Seq(AllFiles)
      BY <1>1, <2>1, <2>2 DEF At, Snaps
    <3>2. FolderTyped' /\ CompleteIsVerified'
      BY <1>1, <2>1, <2>2 DEF FolderTyped, Kinds, CompleteIsVerified, Owner, Old
    <3> QED
      BY <1>1, <1>2, <2>1, <2>2, <3>1, <3>2 DEF SnapRestTyped
  <2>3. CASE /\ Write(f, Gone) /\ doubtful' = doubtful \cup {f} /\ Proceed /\ UNCHANGED parts
    <3>1. f \in AllFiles /\ Tail(snap.todo) \in Seq(AllFiles) /\ NoDuplicates(Tail(snap.todo))
      BY <1>1, <2>1, HeadOfTodo
    <3>2. At("delete", Tail(snap.todo))
      BY <1>1, <2>1, <2>3, ProceedMoves
    <3> HIDE DEF f
    <3>3. Puts(f, Gone)
      BY <1>1, <2>3, <3>1, WritePuts DEF Write, Kinds, Values
    <3>4. CompleteIsVerified'
      <4>1. CASE f = Manifest
        BY <3>3, <4>1 DEF Puts, CompleteIsVerified, Owner
      <4>2. CASE f # Manifest
        <5>1. Owner' = Owner /\ Old' = Old
          BY <3>3, <4>2, FolderNames DEF Puts, Owner, Old
        <5>2. Owner # Gone => Old \subseteq AllFiles
          BY <1>1, ManifestTyped, FolderNames
        <5> QED
          BY <1>1, <2>1, <2>3, <3>3, <5>1, <5>2 DEF Puts, CompleteIsVerified
      <4> QED
        BY <4>1, <4>2
    <3> QED
      BY <1>1, <1>2, <2>1, <2>3, <3>1, <3>2, <3>3, <3>4 DEF Puts, SnapRestTyped
  <2> QED
    BY <1>4, <2>2, <2>3 DEF DeleteFile
<1> QED
  BY <1>3, <1>4

\* An edit is in doubt until somebody looks at the file.
LEMMA UserEditStep == ASSUME NEW f \in SnapFiles PROVE SnapInv /\ UserEdit(f) => SnapInv'
<1> SUFFICES ASSUME SnapInv, UserEdit(f) PROVE SnapInv'
  OBVIOUS
<1>1. /\ SnapTyped /\ FolderTyped /\ SnapRestTyped /\ CompleteIsVerified /\ DownloadInv
      /\ PlanInv /\ snap \in Snaps /\ snap.rev \in Revisions /\ JournalTyped
      /\ NoDuplicates(snap.todo)
  BY DEF SnapInv, SnapTyped, Snaps
<1>2. PICK c \in {Mine, Gone} : Write(f, c)
  BY DEF UserEdit
<1>3. /\ edits < MaxEdits /\ edits' = edits + 1 /\ doubtful' = doubtful \cup {f}
      /\ late' = IF Updating THEN late \cup {f} ELSE late
      /\ UNCHANGED <<parts, snap, journal, kills, original>>
  BY DEF UserEdit
<1>4. f \in AllFiles /\ f # Manifest /\ Manifest \in AllFiles
  BY FolderNames
<1>5. Puts(f, c)
  BY <1>1, <1>2, <1>4, WritePuts DEF Write, Kinds, Values
<1>6. /\ Owner' = Owner /\ Old' = Old /\ Due' = Due /\ Moved' = Moved
      /\ Planning' = Planning /\ Downloading' = Downloading /\ Committing' = Committing
      /\ Moving' = Moving
  BY <1>3, <1>4, <1>5 DEF Puts, Owner, Old, Due, Moved, Planning, Downloading, Committing, Moving
<1>7. SnapTyped'
  <2>1. edits' \in 0..MaxEdits
    <3>1. MaxEdits \in Nat /\ edits \in 0..MaxEdits
      BY <1>1, SnapshotNames DEF SnapRestTyped
    <3> QED
      BY <1>3, <3>1
  <2>2. SnapRestTyped'
    BY <1>1, <1>3, <1>4, <2>1 DEF SnapRestTyped
  <2> QED
    BY <1>1, <1>3, <1>5, <2>2 DEF SnapTyped, JournalTyped, Puts, Kinds
<1>8. CompleteIsVerified'
  <2>1. Owner # Gone => Old \subseteq AllFiles
    BY <1>1, ManifestTyped, FolderNames
  <2> QED
    BY <1>1, <1>3, <1>5, <1>6, <2>1 DEF CompleteIsVerified, Puts
<1>9. \A r \in Revisions : \A g \in FilesOf(r) : g \in AllFiles
  BY PublishedFiles
<1>10. DownloadInv'
  BY <1>1, <1>3, <1>5, <1>6, <1>9 DEF DownloadInv, HasAllBut, Puts
<1>11. PlanInv'
  <2>1. Planning => Updating
    BY DEF Planning, Updating
  <2> QED
    BY <1>1, <1>3, <1>6, <2>1 DEF PlanInv
<1>12. CommitInv'
  <2>1. CASE ~Committing
    BY <1>3, <1>6, <2>1 DEF SnapInv, CommitInv
  <2>2. CASE Committing
    <3>1. late' = late \cup {f}
      BY <1>3, <2>2 DEF Updating, Committing
    <3>2. OriginalInv /\ JournalInv /\ InstalledInv /\ UndoneInv
      BY <2>2 DEF SnapInv, CommitInv
    <3>3. OriginalInv'
      BY <1>3, <1>6, <3>1, <3>2 DEF OriginalInv
    <3>4. JournalInv'
      <4>1. \A g \in AllFiles \ (late' \cup Moved) : tree'[g] = original[g]
        BY <1>5, <3>1, <3>2 DEF JournalInv, Puts
      <4>2. ASSUME NEW n \in DOMAIN journal, journal[n].file \notin late'
            PROVE  /\ journal[n].backup = original[journal[n].file]
                   /\ ~journal[n].active => tree'[journal[n].file] = Gone
        <5>1. journal[n].file \in AllFiles \ {f}
          BY <1>1, <3>1, <4>2, JournalEntries
        <5> QED
          BY <1>5, <3>1, <3>2, <4>2, <5>1 DEF JournalInv, Puts
      <4> QED
        BY <1>3, <1>6, <3>2, <4>1, <4>2 DEF JournalInv
    <3>5. InstalledInv'
      <4>1. HasAllBut(snap.rev, Due \cup doubtful)
            => \A g \in FilesOf(snap.rev) \ (Due \cup doubtful') :
                  tree'[g] = Published[snap.rev][g]
        BY <1>1, <1>3, <1>5, <1>9 DEF HasAllBut, Puts
      <4> QED
        BY <1>3, <1>6, <3>2, <4>1 DEF InstalledInv, HasAllBut
    <3>6. UndoneInv'
      BY <1>3, <1>6, <3>2 DEF UndoneInv
    <3> QED
      BY <1>6, <2>2, <3>3, <3>4, <3>5, <3>6 DEF CommitInv
  <2> QED
    BY <2>1, <2>2
<1> QED
  BY <1>7, <1>8, <1>10, <1>11, <1>12 DEF SnapInv

\* The invariant holds at the start.
LEMMA SnapInvInit == SnapInit => SnapInv
<1> SUFFICES ASSUME SnapInit PROVE SnapInv
  OBVIOUS
<1>1. /\ tree = [f \in AllFiles |-> Gone] /\ snap = Resting /\ journal = << >>
      /\ parts = {} /\ edits = 0 /\ kills = 0 /\ doubtful = {} /\ late = {}
  BY DEF SnapInit, AllFiles
<1>2. /\ Resting \in Snaps /\ Resting.at = "idle" /\ Resting.todo = << >>
  BY SnapshotNames DEF Resting, Snaps, SnapSteps
<1>3. NoDuplicates(<< >>) /\ << >> \in Seq(Moves) /\ DOMAIN << >> = {}
  BY DEF NoDuplicates
<1>4. FolderTyped /\ Owner = Gone
  BY <1>1, FolderNames DEF FolderTyped, Kinds, Values, Owner
<1>5. JournalTyped
  BY <1>1, <1>3 DEF JournalTyped
<1>6. SnapRestTyped
  <2>1. 0 \in 0..MaxEdits /\ 0 \in 0..MaxKills
    BY SnapshotNames
  <2> QED
    BY <1>1, <2>1 DEF SnapRestTyped
<1>7. ~Committing /\ ~Planning /\ ~Downloading
  BY <1>1, <1>2 DEF Committing, Planning, Downloading
<1> QED
  BY <1>1, <1>2, <1>3, <1>4, <1>5, <1>6, <1>7 DEF SnapInv, SnapTyped, CompleteIsVerified,
     DownloadInv, PlanInv, CommitInv

\* Every step keeps the invariant.
LEMMA SnapInvNext == SnapInv /\ [SnapNext]_snapVars => SnapInv'
<1> SUFFICES ASSUME SnapInv, [SnapNext]_snapVars PROVE SnapInv'
  OBVIOUS
<1>1. CASE \/ \E r \in Revisions : StartDownload(r)
           \/ VerifyFile \/ BeginTransfer \/ ActivateFile \/ DownloadFails
           \/ InspectFails \/ FinishDownload
  BY <1>1, DownloadSteps
<1>2. CASE \/ \E r \in Revisions : StartUpdate(r)
           \/ LookAt \/ PlanDone \/ StageFile \/ ValidateStaged \/ UpdateStops
  BY <1>2, PlanSteps
<1>3. CASE BeginCommit \/ BackUp \/ Activate \/ CommitFails \/ CommitDone
  BY <1>3, CommitBegins, BackUpStep, ActivateStep, CommitFailsStep, CommitDoneStep
<1>4. CASE UndoEntry \/ Undone
  BY <1>4, UndoStep, UndoneStep
<1>5. CASE EndUpdate \/ EndDelete \/ KillApp
  BY <1>5, EndSteps
<1>6. CASE StartDelete \/ DeleteFile
  BY <1>6, DeleteSteps
<1>7. CASE \E f \in SnapFiles : UserEdit(f)
  BY <1>7, UserEditStep
<1>8. CASE UNCHANGED snapVars
  <2>1. UNCHANGED <<tree, parts, snap, journal, edits, kills, doubtful, late, original>>
    BY <1>8 DEF snapVars, folder, snapHistory
  <2>2. /\ Owner' = Owner /\ Old' = Old /\ Due' = Due /\ Moved' = Moved
        /\ Planning' = Planning /\ Downloading' = Downloading /\ Committing' = Committing
        /\ Moving' = Moving
    BY <2>1 DEF Owner, Old, Due, Moved, Planning, Downloading, Committing, Moving
  <2>3. SnapTyped' = SnapTyped
    BY <2>1 DEF SnapTyped, FolderTyped, JournalTyped, SnapRestTyped, Kinds
  <2>4. CompleteIsVerified' /\ DownloadInv' /\ PlanInv'
    BY <2>1, <2>2 DEF SnapInv, CompleteIsVerified, DownloadInv, PlanInv, HasAllBut
  <2>5. CommitInv'
    BY <2>1, <2>2 DEF SnapInv, CommitInv, OriginalInv, JournalInv, InstalledInv, UndoneInv,
       HasAllBut
  <2> QED
    BY <2>3, <2>4, <2>5 DEF SnapInv
<1> QED
  BY <1>1, <1>2, <1>3, <1>4, <1>5, <1>6, <1>7, <1>8 DEF SnapNext

\* The invariant of the model folder.
LEMMA SnapInvAlways == SnapSpec => []SnapInv
  BY SnapInvInit, SnapInvNext, PTL DEF SnapSpec

\* The type invariant of the model folder (discover/snapshots.rs, discover/updates.rs).
THEOREM SnapTypesKept == SnapSpec => []SnapTypeOK
<1>1. SnapInv => SnapTypeOK
  <2> SUFFICES ASSUME SnapInv PROVE SnapTypeOK
    OBVIOUS
  <2>1. FolderTyped /\ JournalTyped /\ SnapRestTyped /\ snap \in Snaps
    BY DEF SnapInv, SnapTyped
  <2>2. /\ \A f \in SnapFiles : tree[f] \in Values
        /\ tree[Manifest] \in Manifests \cup {Gone}
    BY <2>1, FolderNames DEF FolderTyped, Kinds
  <2>3. ToSet(snap.todo) \subseteq AllFiles
    BY <2>1 DEF Snaps, ToSet
  <2>4. \A n \in DOMAIN journal : /\ journal[n].file \in AllFiles
                                  /\ {journal[n].active, journal[n].stamped} \subseteq BOOLEAN
    BY <2>1, JournalEntries DEF Moves
  <2>5. doubtful \cup late \subseteq AllFiles
    BY <2>1, FolderNames DEF SnapRestTyped
  <2> QED
    BY <2>1, <2>2, <2>3, <2>4, <2>5 DEF SnapTypeOK, SnapRestTyped, Snaps, Values, AllFiles
<1> QED
  BY <1>1, SnapInvAlways, PTL

\* What the manifest calls complete has its published bytes, whatever downloads, updates and
\* deletions did before and wherever the application was killed.
THEOREM InstalledIsVerified == SnapSpec => []CompleteIsVerified
<1>1. SnapInv => CompleteIsVerified
  BY DEF SnapInv
<1> QED
  BY <1>1, SnapInvAlways, PTL

\* An update that failed has put every file back, or names its backup.
THEOREM FailedUpdatesKeepModels == SnapSpec => []FailedUpdateKeepsModel
<1>1. SnapInv => FailedUpdateKeepsModel
  <2> SUFFICES ASSUME SnapInv, snap.at = "undone", NEW f \in AllFiles \ late
               PROVE  \/ tree[f] = original[f]
                      \/ snap.failed /\ \E n \in DOMAIN journal :
                            journal[n].file = f /\ journal[n].backup = original[f]
    BY DEF FailedUpdateKeepsModel, AllFiles
  <2>1. JournalTyped /\ JournalInv /\ UndoneInv
    BY DEF SnapInv, SnapTyped, CommitInv, Committing
  <2>2. CASE f \notin Moved
    BY <2>1, <2>2 DEF JournalInv
  <2>3. CASE f \in Moved
    <3>1. PICK n \in DOMAIN journal : journal[n].file = f
      BY <2>3 DEF Moved
    <3>2. journal[n].backup = original[f]
      BY <2>1, <3>1 DEF JournalInv
    <3>3. snap.failed
      BY <2>1, <3>1 DEF UndoneInv
    <3> QED
      BY <3>1, <3>2, <3>3
  <2> QED
    BY <2>2, <2>3
<1> QED
  BY <1>1, SnapInvAlways, PTL

\* A step that leaves the journal, and writes no file but one that is not the user's.
LEMMA NoEditWritten ==
    ASSUME NEW f \in SnapFiles, FolderTyped, journal' = journal,
           tree' = tree \/ \E g \in AllFiles, c \in Values \cup Manifests :
                              Write(g, c) /\ (g = Manifest \/ tree[g] # Mine)
    PROVE  HasMine(f) => HasMine(f)'
<1>1. f \in AllFiles /\ f # Manifest
  BY FolderNames
<1>2. tree[f] = Mine => tree'[f] = Mine
  BY <1>1 DEF Write, FolderTyped
<1> QED
  BY <1>2 DEF HasMine

\* What a rollback does with an entry loses nothing of the user's.
LEMMA UndoKeepsEdits ==
    ASSUME NEW f \in SnapFiles, SnapInv, UndoEntry
    PROVE  HasMine(f) => HasMine(f)'
<1> DEFINE h == Head(snap.todo)
<1>1. /\ SnapTyped /\ FolderTyped /\ JournalTyped /\ JournalInv /\ snap \in Snaps
      /\ h \in AllFiles
  BY UndoFinds, HeadOfTodo DEF SnapInv, SnapTyped, CommitInv, Committing
<1>2. PICK n \in 1..Len(journal) : journal[n].file = h /\ Undoes(n, h)
  BY UndoFinds
<1> HIDE DEF h
<1>3. DOMAIN journal = 1..Len(journal) /\ journal[n].backup \in Kinds(h)
  BY <1>1, <1>2, JournalEntries
<1>4. /\ f \in AllFiles /\ f # Manifest /\ Mine # Gone
      /\ tree[f] = Source(f) => tree[f] # Mine
  BY <1>1, FolderNames, Sources
<1>5. CASE /\ journal[n].active => tree[h] = Source(h)
           /\ journal[n].active \/ tree[h] = Gone \/ journal[n].backup = Gone
           /\ IF journal[n].active \/ journal[n].backup # Gone THEN Write(h, journal[n].backup)
              ELSE UNCHANGED tree
           /\ journal' = RemoveAt(journal, n)
  <2>1. \A k \in DOMAIN journal :
           k # n => \E i \in DOMAIN journal' : journal'[i] = journal[k]
    BY <1>1, <1>2, <1>5, EntryRemoved
  <2>2. Write(h, journal[n].backup) => Puts(h, journal[n].backup)
    BY <1>1, <1>3, WritePuts DEF Write
  <2>3. tree[f] = Mine => tree'[f] = Mine
    BY <1>4, <1>5, <2>2 DEF Puts
  <2>4. ASSUME NEW k \in DOMAIN journal, journal[k].file = f, journal[k].backup = Mine
        PROVE  HasMine(f)'
    <3>1. CASE k = n
      BY <1>2, <1>4, <1>5, <2>2, <2>4, <3>1 DEF Puts, HasMine
    <3>2. CASE k # n
      BY <2>1, <2>4, <3>2 DEF HasMine
    <3> QED
      BY <3>1, <3>2
  <2> QED
    BY <2>3, <2>4 DEF HasMine
<1>6. CASE UNCHANGED <<tree, journal>>
  BY <1>6 DEF HasMine
<1>7. CASE /\ tree[h] = Source(h) /\ Write(h, Gone)
           /\ journal' = [journal EXCEPT ![n].active = FALSE]
  <2>1. Puts(h, Gone)
    BY <1>1, <1>7, WritePuts DEF Write, Kinds, Values
  <2>2. tree[f] = Mine => tree'[f] = Mine
    BY <1>4, <1>7, <2>1 DEF Puts
  <2>3. DOMAIN journal' = DOMAIN journal
    BY <1>7
  <2>4. \A k \in DOMAIN journal : /\ journal'[k].file = journal[k].file
                                  /\ journal'[k].backup = journal[k].backup
    <3>1. \A k \in 1..Len(journal) : journal[k] \in Moves
      BY <1>1, JournalEntries
    <3> QED
      BY <1>2, <1>3, <1>7, <3>1 DEF Moves
  <2> QED
    BY <2>2, <2>3, <2>4 DEF HasMine
<1> QED
  BY <1>2, <1>5, <1>6, <1>7 DEF Undoes

\* What a commit moves and installs loses nothing of the user's.
LEMMA CommitKeepsEdits ==
    ASSUME NEW f \in SnapFiles, SnapInv, BackUp \/ Activate
    PROVE  HasMine(f) => HasMine(f)'
<1> DEFINE h == Head(snap.todo)
           L == Len(journal)
<1>1. /\ SnapTyped /\ FolderTyped /\ JournalTyped /\ snap \in Snaps /\ snap.todo # << >>
      /\ snap.at = "link" => journal # << >>
  BY DEF BackUp, Activate, SnapInv, SnapTyped, CommitInv, Committing, InstalledInv, Moving
<1>2. /\ h \in AllFiles /\ f \in AllFiles /\ Mine # Gone
      /\ journal \in Seq(Moves) /\ L \in Nat /\ DOMAIN journal = 1..L
      /\ \A n \in 1..L : journal[n] \in Moves
  BY <1>1, HeadOfTodo, JournalEntries, FolderNames
<1>3. CASE BackUp
  <2> DEFINE e == [file |-> h, backup |-> tree[h], active |-> FALSE, stamped |-> FALSE]
  <2>1. journal' = Append(journal, e) /\ Write(h, Gone)
    BY <1>3 DEF BackUp
  <2>2. e.file = h /\ e.backup = tree[h]
    OBVIOUS
  <2> HIDE DEF e
  <2>3. /\ DOMAIN journal' = 1..L + 1 /\ journal'[L + 1] = e /\ L + 1 \in 1..L + 1
        /\ \A n \in 1..L : n \in 1..L + 1 /\ journal'[n] = journal[n]
    BY <1>2, <2>1
  <2>4. f # h => tree'[f] = tree[f]
    BY <1>1, <1>2, <2>1 DEF Write, FolderTyped
  <2> HIDE DEF h, L
  <2> QED
    BY <1>2, <2>2, <2>3, <2>4 DEF HasMine
<1>4. CASE Activate
  <2>1. PICK stamped \in BOOLEAN :
           /\ snap.at = "link" /\ tree[h] = Gone /\ Write(h, Source(h))
           /\ journal' = [journal EXCEPT ![L].active = TRUE, ![L].stamped = stamped]
    BY <1>4 DEF Activate
  <2>2. tree[f] = Mine => tree'[f] = Mine
    BY <1>1, <1>2, <2>1 DEF Write, FolderTyped
  <2>3. DOMAIN journal' = DOMAIN journal
    BY <2>1
  <2>4. \A n \in DOMAIN journal : /\ journal'[n].file = journal[n].file
                                  /\ journal'[n].backup = journal[n].backup
    BY <1>2, <2>1 DEF Moves
  <2> QED
    BY <2>2, <2>3, <2>4 DEF HasMine
<1> QED
  BY <1>3, <1>4

\* A commit that is done drops no edit but those made after its last look.
LEMMA CommitDoneKeepsEdits ==
    ASSUME NEW f \in SnapFiles, SnapInv, CommitDone, HasMine(f), ~HasMine(f)'
    PROVE  f \in late
<1>1. JournalTyped /\ OriginalInv /\ JournalInv /\ tree' = tree
  BY DEF CommitDone, SnapInv, SnapTyped, CommitInv, Committing, folder
<1>2. PICK n \in DOMAIN journal : journal[n].file = f /\ journal[n].backup = Mine
  BY <1>1 DEF HasMine
<1>3. f \in Moved /\ f # Manifest
  BY <1>2, FolderNames DEF Moved
<1> QED
  BY <1>1, <1>2, <1>3 DEF OriginalInv, JournalInv

\* An edit of the user is lost to the user or a deletion only, or to an update that succeeds
\* and had looked at the file for the last time before the edit.
THEOREM EditsAreKept == SnapSpec => EditsSurvive
<1> DEFINE Survive == \A f \in SnapFiles :
              HasMine(f) /\ ~HasMine(f)' /\ edits' = edits /\ kills' = kills
              => \/ snap.at \in {"delete", "undone"}
                 \/ CommitDone /\ f \in late
<1>1. SnapInv /\ [SnapNext]_snapVars => [Survive]_snapVars
  <2> SUFFICES ASSUME SnapInv, SnapNext, NEW f \in SnapFiles,
                      HasMine(f), ~HasMine(f)', edits' = edits, kills' = kills,
                      snap.at \notin {"delete", "undone"}
               PROVE  CommitDone /\ f \in late
    OBVIOUS
  <2>1. /\ FolderTyped /\ SnapRestTyped /\ snap \in Snaps /\ snap.rev \in Revisions
        /\ SnapTyped
    BY DEF SnapInv, SnapTyped, Snaps
  <2>2. /\ Manifest \in AllFiles
        /\ \A r \in Revisions, b \in BOOLEAN :
              [rev |-> r, complete |-> b] \in Values \cup Manifests
    BY FolderNames
  <2>3. CASE VerifyFile \/ InspectFails \/ FinishDownload
    <3>1. /\ journal' = journal
          /\ tree' = tree \/ \E c \in Values \cup Manifests : Write(Manifest, c)
      BY <2>1, <2>2, <2>3 DEF VerifyFile, InspectFails, FinishDownload, Invalidate, Incomplete
    <3> QED
      BY <2>1, <2>2, <3>1, NoEditWritten
  <2>4. ASSUME NEW r \in Revisions, StartDownload(r) PROVE FALSE
    <3>1. \E c \in Values \cup Manifests : Write(Manifest, c)
      <4>1. Owner \in Values \cup Manifests /\ Incomplete(r) \in Values \cup Manifests
        BY <2>1, <2>2 DEF FolderTyped, Owner, Incomplete
      <4> QED
        BY <2>4, <4>1 DEF StartDownload, Write
    <3> QED
      BY <2>1, <2>2, <2>4, <3>1, NoEditWritten DEF StartDownload
  <2>5. CASE ActivateFile
    <3> DEFINE g == Head(snap.todo)
    <3>1. snap.todo # << >> /\ Due \subseteq FilesOf(snap.rev)
      BY <2>5 DEF SnapInv, DownloadInv, Downloading, ActivateFile
    <3>2. g \in AllFiles /\ Published[snap.rev][g] \in Values
      BY <2>1, <3>1, HeadOfTodo, PublishedFiles
    <3>3. journal' = journal /\ Write(g, Published[snap.rev][g]) /\ tree[g] # Mine
      BY <2>5, FolderNames DEF ActivateFile, Authentic, Vacant
    <3> QED
      BY <2>1, <3>2, <3>3, NoEditWritten
  <2>6. CASE \/ BeginTransfer \/ DownloadFails \/ LookAt \/ PlanDone \/ StageFile
             \/ ValidateStaged \/ UpdateStops \/ BeginCommit \/ CommitFails \/ StartDelete
             \/ \E r \in Revisions : StartUpdate(r)
    <3>1. journal' = journal /\ tree' = tree
      BY <2>6 DEF BeginTransfer, DownloadFails, LookAt, PlanDone, StageFile, ValidateStaged,
         UpdateStops, BeginCommit, CommitFails, StartDelete, StartUpdate, folder
    <3> QED
      BY <2>1, <3>1, NoEditWritten
  <2>7. CASE BackUp \/ Activate
    BY <2>7, CommitKeepsEdits
  <2>8. CASE CommitDone
    BY <2>8, CommitDoneKeepsEdits
  <2>9. CASE UndoEntry
    BY <2>9, UndoKeepsEdits
  <2>10. CASE Undone
    <3>1. journal' = journal /\ tree' = tree
      BY <2>10, UndoneKeepsJournal DEF Undone, folder
    <3> QED
      BY <2>1, <3>1, NoEditWritten
  <2>11. CASE EndUpdate \/ DeleteFile \/ EndDelete
    BY <2>11 DEF EndUpdate, DeleteFile, EndDelete
  <2>12. CASE KillApp \/ \E g \in SnapFiles : UserEdit(g)
    <3>1. edits \in Nat /\ kills \in Nat
      BY <2>1 DEF SnapRestTyped
    <3>2. kills' = kills + 1 \/ edits' = edits + 1
      BY <2>12 DEF KillApp, UserEdit
    <3> QED
      BY <3>1, <3>2
  <2> QED
    BY <2>3, <2>4, <2>5, <2>6, <2>7, <2>8, <2>9, <2>10, <2>11, <2>12 DEF SnapNext
<1>2. SnapSpec => [][Survive]_snapVars
  BY <1>1, SnapInvAlways, PTL DEF SnapSpec
<1> QED
  BY <1>2 DEF EditsSurvive
=============================================================================
