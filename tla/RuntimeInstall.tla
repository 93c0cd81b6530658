--------------------------- MODULE RuntimeInstall ---------------------------
(***************************************************************************)
(* One managed runtime directory: installing a release, a reviewed pull    *)
(* request or a bundle into it, exporting it and removing it (runtime.rs,  *)
(* runtime_archive.rs, commands/runtimes.rs).  A job holds runtime_busy,   *)
(* builds in a staging directory of its own and activates it by two        *)
(* renames; it can fail, be cancelled, be dropped at an await or be killed.*)
(***************************************************************************)
EXTENDS Naturals, Sequences, FiniteSets

CONSTANTS Installers, \* jobs, each run at most once
          JobKindsRun,\* the kinds of job the instance runs
          Commits,    \* what an archive may contain
          Absent

ASSUME AbsentIsNoJob == Absent \notin Installers \cup Commits

\* The stages of a job that can succeed or fail without touching the runtime.
InstallPlan ==
    [release  |-> <<"fetch", "verify", "preflight">>,
     artifact |-> <<"confirm", "fetch", "verify", "preflight">>,
     source   |-> <<"confirm", "fetch", "verify", "build", "preflight">>,
     bundle   |-> <<"fetch", "verify", "preflight">>,
     export   |-> <<"snapshot", "pack">>,
     uninstall |-> <<>>]

ASSUME KnownJobKinds == JobKindsRun \subseteq DOMAIN InstallPlan

VARIABLES
    place,   \* place["runtime"]: the active directory, place["export"]: the exported archive
    backup,  \* backup[j]: what job j renamed away and not yet removed
    staging, \* staging[j]: its staging directory, or temporary archive
    scratch, \* jobs whose downloads, workspace or snapshot are still on disk
    job,     \* job[j]
    installing, \* the job holding runtime_busy
    head,    \* the head of the pull request, which anyone may move
    named,   \* whether a profile names the runtime
    before   \* history: what the installing found in its place

installDisk == <<place, backup, staging, scratch>>
installVars == <<installDisk, job, installing, head, named, before>>

\* wanted is what the user approved; a half-removed tree is not whole.
Trees == [content : Commits \cup {Absent}, wanted : Commits \cup {Absent},
          runs : BOOLEAN, whole : BOOLEAN]
Places == {"runtime", "export"}
Ends == {"waiting", "running", "ok", "failed", "stranded", "dropped", "killed"}

InstallTypeOK ==
    /\ place \in [Places -> Trees \cup {Absent}]
    /\ {backup, staging} \subseteq [Installers -> Trees \cup {Absent}]
    /\ scratch \subseteq Installers
    /\ job \in [Installers ->
         [kind : DOMAIN InstallPlan, at : 1..6,
          wanted : Commits \cup {Absent}, resolved : Commits \cup {Absent},
          end : Ends,
          phase : {"plan", "activate", "parked", "landed", "removing", "removed",
                   "clean", "over", "dead"}]]
    /\ installing \in Installers \cup {Absent}
    /\ head \in Commits /\ named \in BOOLEAN
    /\ before \in Trees \cup {Absent}

Archive == [content |-> Absent, wanted |-> Absent, runs |-> TRUE, whole |-> TRUE]
Good(c) == [content |-> c, wanted |-> c, runs |-> TRUE, whole |-> TRUE]

Unstarted == [kind |-> "release", at |-> 1, wanted |-> Absent, resolved |-> Absent,
              end |-> "waiting", phase |-> "plan"]

InstallInit ==
    /\ \/ place = [p \in Places |-> Absent]
       \/ \E c \in Commits : place = [runtime |-> Good(c), export |-> Archive]
    /\ backup = [j \in Installers |-> Absent] /\ staging = [j \in Installers |-> Absent]
    /\ scratch = {}
    /\ head \in Commits
    /\ job = [j \in Installers |-> Unstarted]
    /\ installing = Absent
    /\ named = TRUE /\ before = Absent

-----------------------------------------------------------------------------
(* Helpers *)

PlaceOf(j) == IF job[j].kind = "export" THEN "export" ELSE "runtime"
Fetches(j) == job[j].kind \notin {"export", "uninstall"}

Step(j) == IF job[j].at > Len(InstallPlan[job[j].kind]) THEN "activate"
           ELSE InstallPlan[job[j].kind][job[j].at]

\* Its code runs; after a drop only what a blocking task had begun.
Alive(j) == /\ job[j].end \in {"running", "dropped"}
            /\ job[j].phase \notin {"clean", "over", "dead"}

\* An export does its stages in one blocking task, which survives its command; those of
\* any other job run in the command itself.
Planning(j) == /\ job[j].phase = "plan"
               /\ job[j].end = "running" \/ (job[j].end = "dropped" /\ job[j].kind = "export")
Running(j, stage) == Planning(j) /\ Step(j) = stage

\* Cancelled is looked at within and after every stage of the plan.
NextStage(j) ==
    job' = [job EXCEPT ![j].at = @ + 1,
                       ![j].phase = IF job[j].at = Len(InstallPlan[job[j].kind])
                                    THEN "activate" ELSE "plan"]

\* What is left of a job.
Over(j, phase, end) ==
    [Unstarted EXCEPT !.kind = job[j].kind, !.phase = phase, !.end = end]

Give(j, end) == job' = [job EXCEPT ![j].phase = "clean",
                                   ![j].end = IF @ = "dropped" THEN @ ELSE end]

-----------------------------------------------------------------------------
(* The stages before activation *)

\* RuntimeBusyGuard, the operation lock and the clearing of the flag.  wanted is
\* what the user saw: the release listed, the head of the preview, a file.
BeginJob(j) ==
    /\ job[j].end = "waiting"
    /\ installing = Absent
    /\ installing' = j
    /\ before' = place["runtime"]
    /\ \E kind \in JobKindsRun, wanted \in Commits :
          job' = [job EXCEPT ![j] =
                    [kind |-> kind, at |-> 1, wanted |-> wanted, resolved |-> wanted,
                     end |-> "running",
                     phase |-> IF kind = "uninstall" THEN "removing" ELSE "plan"]]
    /\ UNCHANGED <<installDisk, head, named>>

\* confirm_pull_request_head: the head is resolved again and must be the one approved.
ConfirmedAnyway(j) == TRUE
Confirmed(j) == head = job[j].wanted

Confirm(j) ==
    /\ Running(j, "confirm")
    /\ Confirmed(j)
    /\ job' = [job EXCEPT ![j].resolved = head, ![j].at = @ + 1]
    /\ UNCHANGED <<installDisk, installing, head, named, before>>

\* What arrives, whatever was asked for, extracted into the staging directory.
\* A file picked by the user is no download.
FetchArchive(j) ==
    /\ Running(j, "fetch")
    /\ \E c \in Commits, r \in BOOLEAN, w \in BOOLEAN :
          staging' = [staging EXCEPT ![j] = [content |-> c, wanted |-> job[j].wanted,
                                             runs |-> r, whole |-> w]]
    /\ scratch' = IF job[j].kind = "bundle" THEN scratch ELSE scratch \cup {j}
    /\ NextStage(j)
    /\ UNCHANGED <<place, backup, installing, head, named, before>>

\* The digest of the release, the manifest of the bundle or of the prebuilt
\* artifact, the commit directory of the source: all fail closed.
ExpectedContent(j) ==
    LET plan == InstallPlan[job[j].kind]
    IN  IF \E n \in DOMAIN plan : plan[n] = "confirm"
        THEN job[j].resolved ELSE job[j].wanted
Verified(j) == staging[j].whole /\ staging[j].content = ExpectedContent(j)

VerifyArchive(j) ==
    /\ Running(j, "verify")
    /\ Verified(j)
    /\ NextStage(j)
    /\ UNCHANGED <<installDisk, installing, head, named, before>>

Build(j) ==
    /\ Running(j, "build")
    /\ NextStage(j)
    /\ UNCHANGED <<installDisk, installing, head, named, before>>

\* preflight_staged_runtime
Preflight(j) ==
    /\ Running(j, "preflight")
    /\ staging[j].runs
    /\ NextStage(j)
    /\ UNCHANGED <<installDisk, installing, head, named, before>>

\* prepare_export_root, which copies the runtime on some platforms; then the temporary
\* archive of the copy, or of the runtime itself.
Snapshot(j) ==
    /\ Running(j, "snapshot")
    /\ place["runtime"] # Absent
    /\ scratch' \in {scratch, scratch \cup {j}}
    /\ NextStage(j)
    /\ UNCHANGED <<place, backup, staging, installing, head, named, before>>

Pack(j) ==
    /\ Running(j, "pack")
    /\ place["runtime"] # Absent \/ j \in scratch
    /\ staging' = [staging EXCEPT ![j] = Archive]
    /\ NextStage(j)
    /\ UNCHANGED <<place, backup, scratch, installing, head, named, before>>

\* A stage fails or notices the cancellation, possibly half-way through its work.
StageFails(j) ==
    /\ Planning(j)
    /\ Give(j, "failed")
    /\ \/ UNCHANGED <<staging, scratch>>
       \/ /\ Step(j) \in {"fetch", "build", "pack"}
          /\ scratch' = IF job[j].kind = "bundle" THEN scratch ELSE scratch \cup {j}
          /\ staging' = [staging EXCEPT ![j] =
                 [content |-> head, wanted |-> job[j].wanted, runs |-> FALSE, whole |-> FALSE]]
    /\ UNCHANGED <<place, backup, installing, head, named, before>>

-----------------------------------------------------------------------------
(* replace_runtime, and the same two renames of export_bundle *)

\* The old one is renamed away, never removed.
Discarded(j) == Absent
Parked(j) == place[PlaceOf(j)]

Park(j) ==
    /\ Alive(j) /\ job[j].phase = "activate"
    /\ backup' = [backup EXCEPT ![j] = Parked(j)]
    /\ place' = [place EXCEPT ![PlaceOf(j)] = Absent]
    /\ job' = [job EXCEPT ![j].phase = "parked"]
    /\ UNCHANGED <<staging, scratch, installing, head, named, before>>

ParkFails(j) ==
    /\ Alive(j) /\ job[j].phase = "activate"
    /\ Give(j, "failed")
    /\ UNCHANGED <<installDisk, installing, head, named, before>>

\* The new one takes its place: a directory only where nothing is.
Land(j) ==
    /\ Alive(j) /\ job[j].phase = "parked"
    /\ staging[j] # Absent
    /\ PlaceOf(j) = "runtime" => place["runtime"] = Absent
    /\ place' = [place EXCEPT ![PlaceOf(j)] = staging[j]]
    /\ staging' = [staging EXCEPT ![j] = Absent]
    /\ job' = [job EXCEPT ![j].phase = "landed"]
    /\ UNCHANGED <<backup, scratch, installing, head, named, before>>

\* Or not, and the old one is renamed back, when that succeeds.
RolledBackNot(j) == FALSE
MayRollBack(j) == backup[j] # Absent /\ (PlaceOf(j) = "runtime" => place["runtime"] = Absent)

LandFails(j) ==
    /\ Alive(j) /\ job[j].phase = "parked"
    /\ IF MayRollBack(j)
       THEN /\ place' = [place EXCEPT ![PlaceOf(j)] = backup[j]]
            /\ backup' = [backup EXCEPT ![j] = Absent]
       ELSE UNCHANGED <<place, backup>>
    /\ Give(j, "failed")
    /\ UNCHANGED <<staging, scratch, installing, head, named, before>>

RollbackFails(j) ==
    /\ Alive(j) /\ job[j].phase = "parked" /\ backup[j] # Absent
    /\ Give(j, "stranded")
    /\ UNCHANGED <<installDisk, installing, head, named, before>>

\* Then the backup goes, unless something keeps it open.  An export writes its
\* checksum last, and reports a failure of that.
DropBackup(j) ==
    /\ Alive(j) /\ job[j].phase = "landed"
    /\ \/ backup' = [backup EXCEPT ![j] = Absent]
       \/ UNCHANGED backup
    /\ \E end \in IF job[j].kind = "export" THEN {"ok", "failed"} ELSE {"ok"} : Give(j, end)
    /\ UNCHANGED <<place, staging, scratch, installing, head, named, before>>

\* InstallCleanup::finish, remove_import_staging and the end of export_bundle;
\* removals are best effort.
Clean(j) ==
    /\ job[j].phase = "clean" /\ (job[j].end # "dropped" \/ job[j].kind = "export")
    /\ staging' = [staging EXCEPT ![j] = Absent]
    /\ scratch' = scratch \ {j}
    /\ job' = [job EXCEPT ![j] = Over(j, "over", job[j].end)]
    /\ before' = IF installing = j THEN Absent ELSE before
    /\ installing' = IF installing = j THEN Absent ELSE installing
    /\ UNCHANGED <<place, backup, head, named>>

-----------------------------------------------------------------------------
(* rt_uninstall *)

\* remove_dir_all, file by file.
RemoveTree(j) ==
    /\ Alive(j) /\ job[j].phase = "removing"
    /\ \/ /\ place["runtime"] # Absent /\ place["runtime"].whole
          /\ place' = [place EXCEPT !["runtime"].whole = FALSE]
          /\ UNCHANGED job
       \/ /\ place' = [place EXCEPT !["runtime"] = Absent]
          /\ job' = [job EXCEPT ![j].phase = IF job[j].end = "dropped" THEN "over" ELSE "removed"]
    /\ UNCHANGED <<backup, staging, scratch, installing, head, named, before>>

RemoveFails(j) ==
    /\ Alive(j) /\ job[j].phase = "removing"
    /\ Give(j, "failed")
    /\ UNCHANGED <<installDisk, installing, head, named, before>>

\* Profiles forget the runtime after its files are gone.
MayForget(j) == job[j].phase = "removed"

Forget(j) ==
    /\ job[j].end = "running"
    /\ MayForget(j)
    /\ named' = FALSE
    /\ Give(j, "ok")
    /\ UNCHANGED <<installDisk, installing, head, before>>

ForgetFails(j) ==
    /\ job[j].end = "running" /\ job[j].phase = "removed"
    /\ Give(j, "failed")
    /\ UNCHANGED <<installDisk, installing, head, named, before>>

-----------------------------------------------------------------------------
(* Everybody else *)

PushCommit ==
    /\ \E c \in Commits \ {head} : head' = c
    /\ UNCHANGED <<installDisk, job, installing, named, before>>

\* The future of a job is dropped at an await.  A blocking task goes on, that of an
\* export from any stage, the guard does not; InstallCleanup hands its removals to the
\* blocking pool, an import has nothing that would.
DropJob(j) ==
    /\ job[j].end = "running"
    /\ job' = [job EXCEPT
          ![j].end = "dropped",
          ![j].phase = IF @ = "removed" \/ (@ = "plan" /\ job[j].kind # "export")
                       THEN "over" ELSE @]
    /\ installing' = Absent
    /\ UNCHANGED <<installDisk, head, named, before>>

SweepsUp(j) == job[j].kind \in {"release", "source"}

\* The removals of a dropped job, file by file, beside whatever still runs.
Abandon(j) ==
    /\ job[j].end = "dropped" /\ job[j].phase # "dead"
    /\ SweepsUp(j)
    /\ \/ /\ staging[j] # Absent /\ staging[j].whole
          /\ staging' = [staging EXCEPT ![j].whole = FALSE]
          /\ UNCHANGED scratch
       \/ /\ staging' = [staging EXCEPT ![j] = Absent]
          /\ scratch' = scratch \ {j}
          /\ staging[j] # Absent \/ j \in scratch
    /\ UNCHANGED <<place, backup, job, installing, head, named, before>>

\* The application is killed, started again, and sweeps what has grown old:
\* staging directories, downloads, workspaces and backups of runtimes, by name.
Ended(j) == job[j].phase \in {"over", "dead"}

KillAndRestart ==
    /\ \E j \in Installers : Alive(j)
    /\ job' = [j \in Installers |->
                 IF job[j].end = "waiting" THEN job[j]
                 ELSE Over(j, "dead", IF job[j].end = "running" THEN "killed" ELSE job[j].end)]
    /\ installing' = Absent /\ before' = Absent
    /\ UNCHANGED <<installDisk, head, named>>

SweepOld(j) ==
    /\ Ended(j) /\ PlaceOf(j) = "runtime"
    /\ <<staging[j], backup[j]>> # <<Absent, Absent>> \/ j \in scratch
    /\ staging' = [staging EXCEPT ![j] = Absent]
    /\ backup' = [backup EXCEPT ![j] = Absent]
    /\ scratch' = scratch \ {j}
    /\ UNCHANGED <<place, job, installing, head, named, before>>

InstallNext ==
    \/ \E j \in Installers :
          \/ BeginJob(j) \/ Confirm(j) \/ FetchArchive(j) \/ VerifyArchive(j) \/ Build(j)
          \/ Preflight(j) \/ Snapshot(j) \/ Pack(j) \/ StageFails(j)
          \/ Park(j) \/ ParkFails(j) \/ Land(j) \/ LandFails(j) \/ RollbackFails(j)
          \/ DropBackup(j) \/ Clean(j)
          \/ RemoveTree(j) \/ RemoveFails(j) \/ Forget(j) \/ ForgetFails(j)
          \/ DropJob(j) \/ Abandon(j) \/ SweepOld(j)
    \/ PushCommit \/ KillAndRestart

InstallSpec == InstallInit /\ [][InstallNext]_installVars

-----------------------------------------------------------------------------
(* Properties *)

\* No job was dropped at an await: what a blocking task does then runs beside
\* the next job.
Undropped == \A j \in Installers : job[j].end # "dropped"

\* Whatever serves was approved and ran its preflight: the commit the user
\* confirmed, the release listed, the files of the manifest, even when the head
\* of the pull request moves in between.  It is whole unless it is being removed.
ActiveIsApproved ==
    LET tree == place["runtime"]
    IN  tree # Absent =>
            /\ tree.content = tree.wanted /\ tree.runs
            /\ \/ tree.whole \/ ~Undropped
               \/ \E j \in Installers : job[j].kind = "uninstall" /\ job[j].end # "waiting"

\* An installation that reports a failure left in place what it found there,
\* unless it says that the rollback failed too; then the backup has it.
FailureKeepsOld ==
    \A j \in Installers :
        /\ installing = j /\ job[j].phase = "clean" /\ Undropped
        /\ job[j].kind \notin {"uninstall", "export"}
        => /\ job[j].end = "failed" => place["runtime"] = before
           /\ job[j].end = "stranded" => backup[j] = before

WholeCopies(p) ==
    {t \in {place[p]} \cup {backup[j] : j \in {k \in Installers : PlaceOf(k) = p}} :
        t # Absent /\ (t # Absent => t.whole)}

\* The last whole copy of a runtime is removed by an uninstall only, or by the
\* sweep of a backup that was never put back; the last export never.
LastCopyStays ==
    [][\A p \in Places :
         /\ Undropped
         /\ WholeCopies(p) # {} /\ WholeCopies(p)' = {}
         => /\ p = "runtime"
            /\ \E j \in Installers : RemoveTree(j) \/ SweepOld(j)]_installVars

\* "Managed runtimes are not touched" by the startup sweep.
SweepSparesRuntimes ==
    [][\A j \in Installers : SweepOld(j) /\ WholeCopies("runtime") # {}
         => WholeCopies("runtime")' # {}]_installVars
==============================================================================
