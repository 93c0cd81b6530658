--------------------------- MODULE ModelSnapshots ---------------------------
(***************************************************************************)
(* One snapshot folder of the model library: the download that fills and   *)
(* resumes it (discover/snapshots.rs), the in-place update to another      *)
(* revision with its staged commit and rollback (discover/updates.rs) and  *)
(* the deletion of what its manifest owns (commands/models.rs).  The three *)
(* exclude each other by the operation lock.  The user edits the folder at *)
(* any time, and the application can be killed between any two steps.      *)
(***************************************************************************)
EXTENDS Naturals, Sequences, FiniteSets, SequencesExt, Retain

CONSTANTS Revisions,
          Home,      \* the revision the folder is named after
          Published, \* Published[r]: the content of each file of revision r
          FileOrder, \* all files, in the order of the repository listing
          Loading,   \* files inspect_snapshot looks for
          Mine, Garbage, Gone,
          MaxEdits, MaxKills \* bounds of the model

Manifest == "manifest"
SnapFiles == ToSet(FileOrder)
Manifests == [rev : Revisions, complete : BOOLEAN]
Contents == UNION {{Published[r][f] : f \in DOMAIN Published[r]} : r \in Revisions}

ASSUME SnapshotNames ==
    /\ Home \in Revisions /\ Loading \subseteq SnapFiles /\ Manifest \notin SnapFiles
    /\ \A r \in Revisions : DOMAIN Published[r] \subseteq SnapFiles
    /\ {Mine, Garbage, Gone} \cap Contents = {} /\ Mine # Gone /\ Gone \notin Manifests
    /\ FileOrder \in Seq(SnapFiles)
    /\ \A m, n \in DOMAIN FileOrder : FileOrder[m] = FileOrder[n] => m = n
    /\ {MaxEdits, MaxKills} \subseteq Nat

VARIABLES
    tree,     \* tree[f]: the files of the folder and the manifest
    parts,    \* files with a .part of an earlier, interrupted download beside them
    snap,     \* the operation at work
    journal,  \* CommitEntry: what the commit has moved and activated
    edits, kills,
    doubtful, \* history: files not written or verified since somebody else changed them
    late,     \* history: files edited since the last look of the update at them
    original, \* history: the folder when the commit began
    finished  \* history: the last download reported completion, nothing touched since

folder      == <<tree, parts>>
snapHistory == <<doubtful, late, original, finished>>
snapVars    == <<folder, snap, journal, edits, kills, snapHistory>>

SnapSteps == {"idle", "verify", "transfer", "receiving", "plan", "stage", "baseline",
              "commit", "link", "rollback", "undone", "delete"}

SnapTypeOK ==
    /\ \A f \in SnapFiles : tree[f] \in Contents \cup {Mine, Garbage, Gone}
    /\ tree[Manifest] \in Manifests \cup {Gone}
    /\ parts \subseteq SnapFiles
    /\ snap.at \in SnapSteps /\ snap.rev \in Revisions
    /\ ToSet(snap.todo) \subseteq SnapFiles \cup {Manifest} /\ snap.failed \in BOOLEAN
    /\ \A n \in DOMAIN journal :
          /\ journal[n].file \in SnapFiles \cup {Manifest}
          /\ {journal[n].active, journal[n].stamped} \subseteq BOOLEAN
    /\ edits \in 0..MaxEdits /\ kills \in 0..MaxKills
    /\ doubtful \cup late \subseteq SnapFiles \cup {Manifest}

Resting == [at |-> "idle", rev |-> Home, todo |-> << >>, failed |-> FALSE]

SnapInit ==
    /\ tree = [f \in SnapFiles \cup {Manifest} |-> Gone]
    /\ parts = {} /\ snap = Resting /\ journal = << >>
    /\ edits = 0 /\ kills = 0
    /\ doubtful = {} /\ late = {} /\ original = tree /\ finished = FALSE

-----------------------------------------------------------------------------
(* Helpers *)

FilesOf(r) == DOMAIN Published[r]
InOrder(set) == Retain(FileOrder, set)
Owner == tree[Manifest]
Old == FilesOf(Owner.rev)

Retired(r) == Old \ FilesOf(r)
Replaced(r) == {f \in FilesOf(r) : f \notin Old \/ Published[r][f] # Published[Owner.rev][f]}

\* inspect_snapshot: any partial file in the folder counts as an unfinished download.
Ready == /\ Owner # Gone
         /\ Owner.complete /\ parts = {}
         /\ \A f \in Loading \cap Old : tree[f] # Gone

GoTo(at, todo) == snap' = [snap EXCEPT !.at = at, !.todo = todo]
Stop == snap' = Resting
Proceed == snap' = [snap EXCEPT !.todo = Tail(@)]

Write(f, c) == tree' = [tree EXCEPT ![f] = c]
Incomplete(r) == [rev |-> r, complete |-> FALSE]

\* invalidate: a ready manifest is taken back before anything else happens.
Invalidate == Write(Manifest, Incomplete(snap.rev))

NoNews == UNCHANGED <<edits, kills, late, original>>

-----------------------------------------------------------------------------
(* Download *)

\* snapshot_directory picks this folder, and its manifest is of this revision or absent.
StartDownload(r) ==
    /\ snap.at = "idle"
    /\ IF Owner = Gone THEN r = Home ELSE Owner.rev = r /\ (r = Home \/ Ready)
    /\ tree' = [tree EXCEPT ![Manifest] =
                  IF Owner = Gone THEN Incomplete(r) ELSE Owner]
    /\ snap' = [at |-> "verify", rev |-> r, todo |-> InOrder(FilesOf(r)), failed |-> FALSE]
    /\ finished' = FALSE
    /\ UNCHANGED <<parts, journal, doubtful>> /\ NoNews

\* verify_existing accepts what it finds or reports it; it never replaces it.
VerifyFile ==
    /\ snap.at = "verify" /\ snap.todo # << >>
    /\ LET f == Head(snap.todo)
       IN  \/ /\ tree[f] = Published[snap.rev][f]
              /\ Proceed
              /\ doubtful' = doubtful \ {f}
              /\ UNCHANGED tree
           \/ /\ tree[f] = Gone
              /\ GoTo("transfer", snap.todo)
              /\ Invalidate
              /\ UNCHANGED doubtful
           \/ /\ tree[f] \notin {Gone, Published[snap.rev][f]}
              /\ Stop
              /\ Invalidate
              /\ UNCHANGED doubtful
    /\ UNCHANGED <<parts, journal, finished>> /\ NoNews

\* create_staging_file: a part with a name of its own.
BeginTransfer ==
    /\ snap.at = "transfer"
    /\ GoTo("receiving", snap.todo)
    /\ UNCHANGED <<folder, journal, doubtful, finished>> /\ NoNews

\* Length and digest of what was received.
LengthOnly(f, c) == TRUE
Authentic(f, c) == c = Published[snap.rev][f]

\* activate_download: a hard link, which never replaces a file.
Overwrites(f) == TRUE
Vacant(f) == tree[f] = Gone

ActivateFile ==
    /\ snap.at = "receiving"
    /\ LET f == Head(snap.todo)
       IN  \E c \in {Published[snap.rev][f], Garbage} :
              /\ Authentic(f, c) /\ Vacant(f)
              /\ Write(f, c)
              /\ GoTo("verify", Tail(snap.todo))
              /\ doubtful' = doubtful \ {f}
    /\ UNCHANGED <<parts, journal, finished>> /\ NoNews

\* Cancelled, refused or broken off: the part being received goes, verified files stay.
DownloadFails ==
    /\ snap.at \in {"verify", "transfer", "receiving"}
    /\ Stop
    /\ UNCHANGED <<folder, journal, doubtful, finished>> /\ NoNews

\* inspect_snapshot refuses what cannot be loaded.
InspectFails ==
    /\ snap.at = "verify" /\ snap.todo = << >>
    /\ Stop
    /\ Invalidate
    /\ UNCHANGED <<parts, journal, doubtful, finished>> /\ NoNews

FinishDownload ==
    /\ snap.at = "verify" /\ snap.todo = << >>
    /\ \A f \in Loading \cap FilesOf(snap.rev) : tree[f] # Gone
    /\ Write(Manifest, [rev |-> snap.rev, complete |-> TRUE])
    /\ finished' = TRUE
    /\ Stop
    /\ UNCHANGED <<parts, journal, doubtful>> /\ NoNews

-----------------------------------------------------------------------------
(* Update: plan, stage, last look *)

StartUpdate(r) ==
    /\ snap.at = "idle"
    /\ Owner # Gone
    /\ Owner.complete /\ r # Owner.rev
    /\ snap' = [at |-> "plan", rev |-> r, todo |-> InOrder(Old), failed |-> FALSE]
    /\ late' = {} /\ finished' = FALSE
    /\ UNCHANGED <<folder, journal, edits, kills, doubtful, original>>

\* An old file as the manifest records it; a local modification stops the update.
Unmodified(f) == tree[f] = Published[Owner.rev][f]

LookAt ==
    /\ snap.at \in {"plan", "baseline"} /\ snap.todo # << >>
    /\ Unmodified(Head(snap.todo))
    /\ Proceed
    /\ doubtful' = doubtful \ {Head(snap.todo)}
    /\ late' = late \ {Head(snap.todo)}
    /\ UNCHANGED <<folder, journal, edits, kills, original, finished>>

NoCollision(r) == \A f \in FilesOf(r) \ Old : tree[f] = Gone

PlanDone ==
    /\ snap.at = "plan" /\ snap.todo = << >>
    /\ NoCollision(snap.rev)
    /\ GoTo("stage", InOrder(Replaced(snap.rev)))
    /\ UNCHANGED <<folder, journal, doubtful, finished>> /\ NoNews

StageFile ==
    /\ snap.at = "stage" /\ snap.todo # << >>
    /\ Proceed
    /\ UNCHANGED <<folder, journal, doubtful, finished>> /\ NoNews

\* validate_staged_model links what stays into a view of the new model.
ValidateStaged ==
    /\ snap.at = "stage" /\ snap.todo = << >>
    /\ \A f \in FilesOf(snap.rev) \ Replaced(snap.rev) : tree[f] # Gone
    /\ GoTo("baseline", InOrder(Old))
    /\ UNCHANGED <<folder, journal, doubtful, finished>> /\ NoNews

\* Nothing is committed yet: Staging is dropped with all it holds.
UpdateStops ==
    /\ snap.at \in {"plan", "stage", "baseline"}
    /\ Stop
    /\ UNCHANGED <<folder, journal, doubtful, finished>> /\ NoNews

-----------------------------------------------------------------------------
(* Update: commit and rollback *)

CommitOrder(r) == InOrder(Retired(r)) \o InOrder(Replaced(r)) \o <<Manifest>>

BeginCommit ==
    /\ snap.at = "baseline" /\ snap.todo = << >>
    /\ NoCollision(snap.rev)
    /\ GoTo("commit", CommitOrder(snap.rev))
    /\ original' = tree
    /\ UNCHANGED <<folder, journal, edits, kills, doubtful, late, finished>>

ActivatedOnly == Reverse(LET moved == SelectSeq(journal, LAMBDA e : e.active)
                         IN  [n \in DOMAIN moved |-> moved[n].file])
Backwards == Reverse([n \in DOMAIN journal |-> journal[n].file])

Expected(f) == original[f] # Gone
Source(f) == IF f = Manifest THEN [rev |-> snap.rev, complete |-> TRUE]
             ELSE IF f \in FilesOf(snap.rev) THEN Published[snap.rev][f] ELSE Gone

\* commit_file: the old file is renamed into the backup directory ...
BackUp ==
    /\ snap.at = "commit" /\ snap.todo # << >>
    /\ LET f == Head(snap.todo)
       IN  /\ (tree[f] # Gone) = Expected(f)
           /\ journal' = Append(journal, [file |-> f, backup |-> tree[f],
                                          active |-> FALSE, stamped |-> FALSE])
           /\ Write(f, Gone)
           /\ IF Source(f) = Gone THEN Proceed ELSE GoTo("link", snap.todo)
    /\ UNCHANGED <<parts, doubtful, finished>> /\ NoNews

\* ... and the new one linked where nothing is, and stamped if that succeeds.
Activate ==
    /\ snap.at = "link"
    /\ LET f == Head(snap.todo)
       IN  /\ tree[f] = Gone
           /\ Write(f, Source(f))
           /\ doubtful' = doubtful \ {f}
           /\ \E stamped \in BOOLEAN :
                 /\ journal' = [journal EXCEPT ![Len(journal)].active = TRUE,
                                               ![Len(journal)].stamped = stamped]
                 /\ IF stamped THEN GoTo("commit", Tail(snap.todo))
                    ELSE GoTo("rollback", Backwards)
    /\ UNCHANGED <<parts, finished>> /\ NoNews

CommitFails ==
    /\ snap.at \in {"commit", "link"} /\ snap.todo # << >>
    /\ snap' = [snap EXCEPT !.at = "rollback", !.todo = Backwards]
    /\ UNCHANGED <<folder, journal, doubtful, finished>> /\ NoNews

CommitDone ==
    /\ snap.at = "commit" /\ snap.todo = << >>
    /\ Stop
    /\ journal' = << >>
    /\ UNCHANGED <<folder, doubtful, finished>> /\ NoNews

Entry(f) == CHOOSE n \in DOMAIN journal : journal[n].file = f

\* The activated file is still the one that was stamped.
StillOurs(e) == e.stamped /\ tree[e.file] = Source(e.file)

\* rollback, last entry first: the activated file is taken away, the old one put back
\* unless something else is there; an entry that cannot be undone stays, with its backup.
UndoEntry ==
    /\ snap.at = "rollback" /\ snap.todo # << >>
    /\ LET n == Entry(Head(snap.todo))
           e == journal[n]
       IN  \/ /\ e.active => StillOurs(e)
              /\ e.active \/ tree[e.file] = Gone \/ e.backup = Gone
              /\ IF e.active \/ e.backup # Gone THEN Write(e.file, e.backup)
                 ELSE UNCHANGED tree
              /\ journal' = RemoveAt(journal, n)
              /\ doubtful' = IF e.file \in late THEN doubtful \cup {e.file} ELSE doubtful
              /\ Proceed
           \/ /\ snap' = [snap EXCEPT !.todo = Tail(@), !.failed = TRUE]
              /\ UNCHANGED <<tree, journal, doubtful>>
           \/ /\ e.active /\ StillOurs(e) /\ e.backup # Gone
              /\ Write(e.file, Gone)
              /\ journal' = [journal EXCEPT ![n].active = FALSE]
              /\ snap' = [snap EXCEPT !.todo = Tail(@), !.failed = TRUE]
              /\ UNCHANGED doubtful
    /\ UNCHANGED <<parts, finished>> /\ NoNews

\* The error is returned; a rollback that failed keeps the backups.
Undone ==
    /\ snap.at = "rollback" /\ snap.todo = << >>
    /\ snap' = [snap EXCEPT !.at = "undone"]
    /\ journal' = IF snap.failed THEN journal ELSE << >>
    /\ UNCHANGED <<folder, doubtful, finished>> /\ NoNews

EndUpdate ==
    /\ snap.at = "undone"
    /\ Stop
    /\ journal' = << >>
    /\ doubtful' = IF snap.failed THEN SnapFiles ELSE doubtful
    /\ UNCHANGED <<folder, finished>> /\ NoNews

-----------------------------------------------------------------------------
(* Deletion *)

\* snapshot_deletion_plan: the files the manifest lists, staged parts of those and of no
\* others, and the manifest last.
ManifestLast(files) == files \o <<Manifest>>

StartDelete ==
    /\ snap.at = "idle" /\ Owner # Gone
    /\ GoTo("delete", ManifestLast(InOrder({f \in Old : tree[f] # Gone})))
    /\ finished' = FALSE
    /\ UNCHANGED <<folder, journal, doubtful>> /\ NoNews

DeleteFile ==
    /\ snap.at = "delete" /\ snap.todo # << >>
    /\ LET f == Head(snap.todo)
       IN  \/ /\ f = Manifest
              /\ \E p \in parts \cap Old : parts' = parts \ {p}
              /\ UNCHANGED <<tree, snap, doubtful>>
           \/ /\ f = Manifest => parts \cap Old = {}
              /\ tree[f] # Gone
              /\ Write(f, Gone)
              /\ doubtful' = doubtful \cup {f}
              /\ Proceed
              /\ UNCHANGED parts
    /\ UNCHANGED <<journal, finished>> /\ NoNews

\* Also when a file is no longer there; the next deletion goes on.
EndDelete ==
    /\ snap.at = "delete"
    /\ Stop
    /\ UNCHANGED <<folder, journal, doubtful, finished>> /\ NoNews

-----------------------------------------------------------------------------
(* The user and the faults *)

Updating ==
    snap.at \in {"plan", "stage", "baseline", "commit", "link", "rollback", "undone"}

\* A file of the folder is edited, added or removed with another program.
UserEdit(f) ==
    /\ edits < MaxEdits /\ edits' = edits + 1
    /\ \E c \in {Mine, Gone} : c # tree[f] /\ Write(f, c)
    /\ doubtful' = doubtful \cup {f}
    /\ late' = IF Updating THEN late \cup {f} ELSE late
    /\ finished' = FALSE
    /\ UNCHANGED <<parts, snap, journal, kills, original>>

Committing == snap.at \in {"commit", "link", "rollback", "undone"}

\* The application is killed, or the command's future dropped: no staged part is
\* removed, no commit undone.
KillApp ==
    /\ kills < MaxKills /\ kills' = kills + 1
    /\ snap.at # "idle"
    /\ Stop
    /\ parts' = IF snap.at = "receiving" THEN parts \cup {Head(snap.todo)} ELSE parts
    /\ doubtful' = IF journal # << >> THEN SnapFiles ELSE doubtful
    /\ journal' = << >>
    /\ UNCHANGED <<tree, edits, late, original, finished>>

SnapNext ==
    \/ \E r \in Revisions : StartDownload(r) \/ StartUpdate(r)
    \/ VerifyFile \/ BeginTransfer \/ ActivateFile \/ DownloadFails
    \/ InspectFails \/ FinishDownload
    \/ LookAt \/ PlanDone \/ StageFile \/ ValidateStaged \/ UpdateStops
    \/ BeginCommit \/ BackUp \/ Activate \/ CommitFails \/ CommitDone
    \/ UndoEntry \/ Undone \/ EndUpdate
    \/ StartDelete \/ DeleteFile \/ EndDelete
    \/ KillApp
    \/ \E f \in SnapFiles : UserEdit(f)

SnapSpec == SnapInit /\ [][SnapNext]_snapVars

-----------------------------------------------------------------------------
(* Properties *)

\* A manifest that says complete has every file it lists, with the published bytes, also
\* after an update in place; except what somebody else touched since the file was verified,
\* and what a commit cut short left behind (inference-runtimes.md:72, 88).
CompleteIsVerified ==
    Owner # Gone /\ ~Committing =>
        (Owner.complete => \A f \in Old \ doubtful : tree[f] = Published[Owner.rev][f])

\* An update that failed in its commit left every file as it was, or has the old one in a
\* backup it names; only what the user changed since the last look may differ.
FailedUpdateKeepsModel ==
    snap.at = "undone" =>
        \A f \in (SnapFiles \cup {Manifest}) \ late :
            \/ tree[f] = original[f]
            \/ snap.failed /\ \E n \in DOMAIN journal :
                                 journal[n].file = f /\ journal[n].backup = original[f]

HasMine(f) == tree[f] = Mine \/ \E n \in DOMAIN journal :
                                   journal[n].file = f /\ journal[n].backup = Mine

\* An edit of the user is destroyed by the user or a deletion only, or by an update that
\* succeeds and had looked at the file for the last time before the edit
\* (discover/updates.rs:1040-1041).
EditsSurvive ==
    [][\A f \in SnapFiles :
         HasMine(f) /\ ~HasMine(f)' /\ edits' = edits /\ kills' = kills
         => \/ snap.at \in {"delete", "undone"}
            \/ CommitDone /\ f \in late]_snapVars

\* A download that reported completion is listed as ready: an incomplete listing says that
\* "a download did not finish" (providers/artifacts.rs:178), and the last one did.
FinishedIsReady == finished => Ready
=============================================================================
