------------------------ MODULE RuntimeInstallProofs ------------------------
(***************************************************************************)
(* What serves in a managed runtime directory was approved, and its last   *)
(* whole copy goes with an uninstall or a sweep only, for any number of    *)
(* jobs and commits, with jobs that fail, are dropped or are killed        *)
(* anywhere and a pull request whose head moves.                           *)
(***************************************************************************)
EXTENDS RuntimeInstall, TLAPS

Fetching == {"release", "artifact", "source", "bundle"}

\* Where in its plan each kind of job verifies what it fetched.
VerifyAt == [release |-> 2, artifact |-> 3, source |-> 3, bundle |-> 2]

\* A job was dropped, or an uninstall has begun: a tree may be half removed.
Disturbed ==
    \/ ~Undropped
    \/ \E j \in Installers : job[j].kind = "uninstall" /\ job[j].end # "waiting"

Approved(tree) ==
    tree # Absent => /\ tree.content = tree.wanted /\ tree.runs
                     /\ tree.whole \/ Disturbed

\* The order of a job's phases, and what it takes for granted of the approval.
InOrder(j) ==
    /\ job[j].end = "waiting" => job[j] = Unstarted /\ staging[j] = Absent
    /\ job[j].kind = "uninstall" =>
          job[j].phase \in {"removing", "removed", "clean", "over", "dead"}
    /\ job[j].phase \in {"removing", "removed"} => job[j].kind = "uninstall"
    /\ job[j].phase = "clean" => job[j].end # "running"
    /\ job[j].resolved = job[j].wanted

\* What each stage of the plan has established of the staging directory.
StagedAs(j) ==
    /\ job[j].kind \in Fetching
    /\ job[j].phase \in {"plan", "activate", "parked"}
    /\ staging[j] # Absent
    => /\ staging[j].wanted = job[j].wanted
       /\ job[j].phase # "plan" \/ job[j].at > VerifyAt[job[j].kind] =>
             staging[j].content = job[j].wanted /\ (staging[j].whole \/ Disturbed)
       /\ job[j].phase # "plan" => staging[j].runs

JobSound(j) == /\ job[j].kind # "export" => Approved(backup[j])
               /\ InOrder(j) /\ StagedAs(j)

ApprovedInv == /\ InstallTypeOK
               /\ Approved(place["runtime"])
               /\ \A j \in Installers : JobSound(j)

\* The plans, read off.
LEMMA Plans ==
    ASSUME InstallTypeOK, NEW j \in Installers
    PROVE  /\ job[j].kind \in {"export", "uninstall"} \cup Fetching
           /\ Step(j) # "activate" => job[j].at \in 1..5
           /\ Step(j) \in {"fetch", "confirm", "verify", "build", "preflight"} =>
                 job[j].kind \in Fetching
           /\ Step(j) \in {"snapshot", "pack"} => job[j].kind = "export"
           /\ job[j].kind \in Fetching =>
                 /\ VerifyAt[job[j].kind] \in Nat
                 /\ Step(j) = "verify" <=> job[j].at = VerifyAt[job[j].kind]
                 /\ Step(j) \in {"fetch", "confirm"} => job[j].at < VerifyAt[job[j].kind]
                 /\ job[j].at = Len(InstallPlan[job[j].kind]) => Step(j) = "preflight"
                 /\ Step(j) = "preflight" => /\ job[j].at = Len(InstallPlan[job[j].kind])
                                             /\ job[j].at > VerifyAt[job[j].kind]
<1> DEFINE k == job[j].kind
           n == job[j].at
<1>1. k \in {"release", "artifact", "source", "bundle", "export", "uninstall"} /\ n \in 1..6
  BY DEF InstallTypeOK, InstallPlan
<1>2. CASE k = "release"
  <2>1. InstallPlan[k] = <<"fetch", "verify", "preflight">> /\ VerifyAt[k] = 2
    BY <1>2 DEF InstallPlan, VerifyAt
  <2> QED
    BY <1>1, <1>2, <2>1 DEF Step, Fetching
<1>3. CASE k = "artifact"
  <2>1. /\ InstallPlan[k] = <<"confirm", "fetch", "verify", "preflight">>
        /\ VerifyAt[k] = 3
    BY <1>3 DEF InstallPlan, VerifyAt
  <2> QED
    BY <1>1, <1>3, <2>1 DEF Step, Fetching
<1>4. CASE k = "source"
  <2>1. /\ InstallPlan[k] = <<"confirm", "fetch", "verify", "build", "preflight">>
        /\ VerifyAt[k] = 3
    BY <1>4 DEF InstallPlan, VerifyAt
  <2> QED
    BY <1>1, <1>4, <2>1 DEF Step, Fetching
<1>5. CASE k = "bundle"
  <2>1. InstallPlan[k] = <<"fetch", "verify", "preflight">> /\ VerifyAt[k] = 2
    BY <1>5 DEF InstallPlan, VerifyAt
  <2> QED
    BY <1>1, <1>5, <2>1 DEF Step, Fetching
<1>6. CASE k = "export"
  <2>1. InstallPlan[k] = <<"snapshot", "pack">>
    BY <1>6 DEF InstallPlan
  <2> QED
    BY <1>1, <1>6, <2>1 DEF Step, Fetching
<1>7. CASE k = "uninstall"
  <2>1. InstallPlan[k] = << >>
    BY <1>7 DEF InstallPlan
  <2> QED
    BY <1>1, <1>7, <2>1 DEF Step, Fetching
<1> QED
  BY <1>1, <1>2, <1>3, <1>4, <1>5, <1>6, <1>7

-----------------------------------------------------------------------------
(* Steps of one job *)

\* A dropped job stays dropped, an uninstall that began has begun.
Onward(j) ==
    /\ \A q \in Installers \ {j} : job'[q] = job[q]
    /\ job[j].end # "waiting" => job'[j].kind = job[j].kind /\ job'[j].end # "waiting"
    /\ job[j].end = "dropped" => job'[j].end = "dropped"

\* Once a job was dropped or an uninstall began, that stays so.
LEMMA DisturbedStays ==
    ASSUME NEW j \in Installers, Onward(j), InOrder(j)
    PROVE  Disturbed => Disturbed'
<1>1. ASSUME NEW q \in Installers, job[q].end = "dropped" PROVE job'[q].end = "dropped"
  BY <1>1 DEF Onward
<1>2. ASSUME NEW q \in Installers, job[q].kind = "uninstall" /\ job[q].end # "waiting"
      PROVE  job'[q].kind = "uninstall" /\ job'[q].end # "waiting"
  BY <1>2 DEF Onward
<1> QED
  BY <1>1, <1>2 DEF Disturbed, Undropped

\* A step of job j that leaves the runtime and itself sound leaves all sound.
LEMMA OthersStaySound ==
    ASSUME ApprovedInv, NEW j \in Installers, Onward(j), InstallTypeOK',
           \A q \in Installers \ {j} : staging'[q] = staging[q] /\ backup'[q] = backup[q],
           Approved(place["runtime"])', JobSound(j)'
    PROVE  ApprovedInv'
<1>1. Disturbed => Disturbed'
  BY DisturbedStays DEF ApprovedInv, JobSound
<1>2. ASSUME NEW q \in Installers \ {j} PROVE JobSound(q)'
  <2>1. job'[q] = job[q] /\ staging'[q] = staging[q] /\ backup'[q] = backup[q]
    BY DEF Onward
  <2>2. JobSound(q)
    BY DEF ApprovedInv
  <2>3. job[q].kind # "export" => Approved(backup[q])'
    BY <1>1, <2>1, <2>2 DEF JobSound, Approved
  <2>4. InOrder(q)' /\ StagedAs(q)'
    BY <1>1, <2>1, <2>2 DEF JobSound, InOrder, StagedAs
  <2> QED
    BY <2>1, <2>3, <2>4 DEF JobSound
<1> QED
  BY <1>2 DEF ApprovedInv

-----------------------------------------------------------------------------
(* What the helpers do to a job *)

Phases == {"plan", "activate", "parked", "landed", "removing", "removed", "clean", "over",
           "dead"}
Jobs == [kind : DOMAIN InstallPlan, at : 1..6,
         wanted : Commits \cup {Absent}, resolved : Commits \cup {Absent},
         end : Ends, phase : Phases]
DiskTyped == /\ place \in [Places -> Trees \cup {Absent}]
             /\ backup \in [Installers -> Trees \cup {Absent}]
             /\ staging \in [Installers -> Trees \cup {Absent}]
             /\ scratch \subseteq Installers
RestTyped == /\ installing \in Installers \cup {Absent}
             /\ head \in Commits /\ named \in BOOLEAN
             /\ before \in Trees \cup {Absent}

\* The type invariant by its parts: the disk, the jobs, and the rest.
LEMMA TypesByPart ==
    /\ InstallTypeOK <=> DiskTyped /\ job \in [Installers -> Jobs] /\ RestTyped
    /\ InstallTypeOK' <=> DiskTyped' /\ job' \in [Installers -> Jobs] /\ RestTyped'
  BY DEF InstallTypeOK, DiskTyped, Jobs, RestTyped, Phases

\* Only the phase and the end change.
Becomes(j, phase, end) ==
    /\ job' \in [Installers -> Jobs]
    /\ \A q \in Installers \ {j} : job'[q] = job[q]
    /\ job'[j].kind = job[j].kind /\ job'[j].at = job[j].at
    /\ job'[j].wanted = job[j].wanted /\ job'[j].resolved = job[j].resolved
    /\ job'[j].phase = phase /\ job'[j].end = end

\* A job that gives up or is done goes to its clean-up; a dropped one stays dropped.
LEMMA GiveEnds ==
    ASSUME InstallTypeOK, NEW j \in Installers, NEW end \in Ends, Give(j, end)
    PROVE  Becomes(j, "clean", IF job[j].end = "dropped" THEN "dropped" ELSE end)
<1> DEFINE e == IF job[j].end = "dropped" THEN "dropped" ELSE end
           r == [job[j] EXCEPT !.phase = "clean", !.end = e]
<1>1. job \in [Installers -> Jobs]
  BY TypesByPart
<1>2. job' = [job EXCEPT ![j] = r]
  BY <1>1 DEF Give, Jobs
<1>3. job[j] \in Jobs /\ e \in Ends /\ "clean" \in Phases
  BY <1>1 DEF Ends, Phases
<1> HIDE DEF e
<1>4. /\ r \in Jobs /\ r.kind = job[j].kind /\ r.at = job[j].at /\ r.wanted = job[j].wanted
      /\ r.resolved = job[j].resolved /\ r.phase = "clean" /\ r.end = e
  BY <1>3 DEF Jobs
<1> HIDE DEF r
<1>5. Becomes(j, "clean", e)
  BY <1>1, <1>2, <1>4 DEF Becomes
<1> QED
  BY <1>5 DEF e

\* An assignment to the phase of a job.
LEMMA PhaseMoves ==
    ASSUME InstallTypeOK, NEW j \in Installers, NEW phase \in Phases,
           job' = [job EXCEPT ![j].phase = phase]
    PROVE  Becomes(j, phase, job[j].end)
<1> DEFINE r == [job[j] EXCEPT !.phase = phase]
<1>1. job \in [Installers -> Jobs] /\ job[j] \in Jobs
  BY TypesByPart
<1>2. job' = [job EXCEPT ![j] = r]
  BY <1>1
<1>3. /\ r \in Jobs /\ r.kind = job[j].kind /\ r.at = job[j].at /\ r.wanted = job[j].wanted
      /\ r.resolved = job[j].resolved /\ r.phase = phase /\ r.end = job[j].end
  BY <1>1 DEF Jobs
<1> HIDE DEF r
<1> QED
  BY <1>1, <1>2, <1>3 DEF Becomes

\* The plan goes on by one stage.
Advances(j, phase) ==
    /\ job' \in [Installers -> Jobs]
    /\ \A q \in Installers \ {j} : job'[q] = job[q]
    /\ job'[j].kind = job[j].kind /\ job'[j].at = job[j].at + 1
    /\ job'[j].wanted = job[j].wanted /\ job'[j].resolved = job[j].resolved
    /\ job'[j].phase = phase /\ job'[j].end = job[j].end

\* NextStage leads to the next stage of the plan, or to the activation.
LEMMA StageAdvances ==
    ASSUME InstallTypeOK, NEW j \in Installers, Step(j) # "activate", NextStage(j)
    PROVE  Advances(j, IF job[j].at = Len(InstallPlan[job[j].kind])
                       THEN "activate" ELSE "plan")
<1> DEFINE f == IF job[j].at = Len(InstallPlan[job[j].kind]) THEN "activate" ELSE "plan"
           n == job[j].at + 1
           r == [job[j] EXCEPT !.at = n, !.phase = f]
<1>1. job \in [Installers -> Jobs] /\ job[j] \in Jobs /\ job[j].at \in 1..5
  BY TypesByPart, Plans
<1>2. job' = [job EXCEPT ![j] = r]
  BY <1>1 DEF NextStage, Jobs
<1>3. f \in Phases /\ n \in 1..6
  BY <1>1 DEF Phases
<1> HIDE DEF f, n
<1>4. /\ r \in Jobs /\ r.kind = job[j].kind /\ r.at = n
      /\ r.wanted = job[j].wanted /\ r.resolved = job[j].resolved /\ r.phase = f
      /\ r.end = job[j].end
  BY <1>1, <1>3 DEF Jobs
<1> HIDE DEF r
<1>5. Advances(j, f)
  BY <1>1, <1>2, <1>4 DEF Advances, n
<1> QED
  BY <1>5 DEF f

\* Nothing is left of a job but its kind and how it ended.
LEMMA OverIsOver ==
    ASSUME InstallTypeOK, NEW j \in Installers, NEW phase \in Phases, NEW end \in Ends
    PROVE  /\ Over(j, phase, end) \in Jobs
           /\ Over(j, phase, end).kind = job[j].kind /\ Over(j, phase, end).phase = phase
           /\ Over(j, phase, end).end = end
           /\ Over(j, phase, end).resolved = Over(j, phase, end).wanted
<1>1. job[j].kind \in DOMAIN InstallPlan
  BY DEF InstallTypeOK
<1>2. Unstarted \in Jobs /\ Unstarted.wanted = Absent /\ Unstarted.resolved = Absent
  BY DEF Unstarted, Jobs, Ends, Phases, InstallPlan
<1> QED
  BY <1>1, <1>2 DEF Over, Jobs

-----------------------------------------------------------------------------
(* Every step keeps the invariant *)

\* A job that is past its plan has nothing more to establish.
LEMMA PastThePlan ==
    ASSUME ApprovedInv, NEW j \in Installers, NEW end \in Ends,
           NEW phase \in {"clean", "over", "landed", "removed"},
           phase = "landed" => job[j].kind # "uninstall",
           phase = "removed" => job[j].kind = "uninstall",
           phase = "clean" => end # "running",
           job[j].end # "waiting", end # "waiting",
           job[j].end = "dropped" => end = "dropped", Becomes(j, phase, end)
    PROVE  Onward(j) /\ InOrder(j)' /\ StagedAs(j)'
<1>1. InOrder(j)
  BY DEF ApprovedInv, JobSound
<1> QED
  BY <1>1 DEF Becomes, Onward, InOrder, StagedAs

\* A stage of the plan is no end, and approves nothing else.
LEMMA InThePlan ==
    ASSUME ApprovedInv, NEW j \in Installers, NEW stage \in {"confirm", "fetch", "verify",
           "build", "preflight", "snapshot", "pack"}, Running(j, stage),
           NEW phase \in {"plan", "activate"}, Advances(j, phase)
    PROVE  Onward(j) /\ InOrder(j)'
<1>1. InOrder(j) /\ job[j].kind # "uninstall" /\ job[j].end \in {"running", "dropped"}
  BY Plans DEF ApprovedInv, JobSound, Running, Planning, InOrder
<1> QED
  BY <1>1 DEF Advances, Onward, InOrder

\* Each stage of a plan establishes its part of the approval.
LEMMA PlanSteps ==
    ASSUME ApprovedInv, NEW j \in Installers,
           \/ Confirm(j) \/ FetchArchive(j) \/ VerifyArchive(j) \/ Build(j) \/ Preflight(j)
           \/ Snapshot(j) \/ Pack(j)
    PROVE  ApprovedInv'
<1> DEFINE k == job[j].kind
           f == IF job[j].at = Len(InstallPlan[k]) THEN "activate" ELSE "plan"
<1>1. InstallTypeOK /\ JobSound(j) /\ DiskTyped /\ RestTyped /\ job[j].at \in Nat
  BY TypesByPart DEF ApprovedInv, InstallTypeOK
<1>2. ASSUME NEW stage \in {"fetch", "verify", "build", "preflight", "snapshot", "pack"},
             Running(j, stage), NextStage(j)
      PROVE  Advances(j, f) /\ Onward(j) /\ InOrder(j)'
  <2>1. Advances(j, f)
    BY <1>1, <1>2, StageAdvances DEF Running, Planning
  <2> QED
    BY <1>2, <2>1, InThePlan
<1>3. ASSUME UNCHANGED <<place, backup, head, named, before, installing>>,
             DiskTyped', job' \in [Installers -> Jobs], Onward(j), InOrder(j)', StagedAs(j)',
             job'[j].kind = k, \A q \in Installers \ {j} : staging'[q] = staging[q]
      PROVE  ApprovedInv'
  <2>1. InstallTypeOK'
    BY <1>1, <1>3, TypesByPart DEF RestTyped
  <2>2. Disturbed => Disturbed'
    BY <1>1, <1>3, DisturbedStays DEF JobSound
  <2>3. Approved(place["runtime"])'
    BY <1>3, <2>2 DEF ApprovedInv, Approved
  <2>4. JobSound(j)'
    BY <1>1, <1>3, <2>2 DEF JobSound, Approved
  <2> QED
    BY <1>3, <2>1, <2>3, <2>4, OthersStaySound
<1>4. CASE Confirm(j)
  <2>1. Running(j, "confirm") /\ job[j].resolved = head /\ Step(j) # "activate"
    BY <1>1, <1>4 DEF Confirm, Confirmed, JobSound, InOrder, Running, Planning
  <2>2. Advances(j, "plan")
    <3>1. job' = [job EXCEPT ![j].at = job[j].at + 1] /\ job[j].at + 1 \in 1..6
      BY <1>1, <1>4, <2>1, Plans DEF Confirm, InstallTypeOK
    <3> QED
      BY <1>1, <2>1, <3>1, TypesByPart, <1>4 DEF Advances, Jobs, Running, Planning
  <2>3. Onward(j) /\ InOrder(j)'
    BY <2>1, <2>2, InThePlan
  <2>4. StagedAs(j)'
    BY <1>1, <1>4, <2>1, <2>2, Plans DEF Confirm, Running, Planning, StagedAs, JobSound, Advances,
       installDisk
  <2> QED
    BY <1>1, <1>3, <1>4, <2>2, <2>3, <2>4 DEF Confirm, Advances, installDisk, DiskTyped
<1>5. CASE FetchArchive(j)
  <2>1. Advances(j, f) /\ Onward(j) /\ InOrder(j)'
    BY <1>2, <1>5 DEF FetchArchive
  <2>2. /\ staging'[j].wanted = job[j].wanted /\ DiskTyped'
        /\ \A q \in Installers \ {j} : staging'[q] = staging[q]
    BY <1>1, <1>5 DEF FetchArchive, DiskTyped, InstallTypeOK, Trees
  <2>3. StagedAs(j)'
    BY <1>1, <1>5, <2>1, <2>2, Plans DEF FetchArchive, Running, Planning, StagedAs, Advances
  <2> QED
    BY <1>3, <1>5, <2>1, <2>2, <2>3 DEF FetchArchive, Advances
<1>6. CASE VerifyArchive(j)
  <2>1. Advances(j, f) /\ Onward(j) /\ InOrder(j)'
    BY <1>2, <1>6 DEF VerifyArchive
  <2>2. staging[j].content = job[j].wanted /\ staging[j].whole
    BY <1>1, <1>6 DEF VerifyArchive, Verified, ExpectedContent, JobSound, InOrder
  <2>3. StagedAs(j)'
    BY <1>1, <1>6, <2>1, <2>2, Plans DEF VerifyArchive, Running, Planning, StagedAs, JobSound, Advances,
       installDisk
  <2> QED
    BY <1>1, <1>3, <1>6, <2>1, <2>3 DEF VerifyArchive, Advances, installDisk, DiskTyped
<1>7. CASE Build(j)
  <2>1. Advances(j, f) /\ Onward(j) /\ InOrder(j)'
    BY <1>2, <1>7 DEF Build
  <2>2. Disturbed => Disturbed'
    BY <1>1, <2>1, DisturbedStays DEF JobSound
  <2>3. StagedAs(j)'
    BY <1>1, <1>7, <2>1, <2>2, Plans DEF Build, Running, Planning, StagedAs, JobSound, Advances,
       installDisk
  <2> QED
    BY <1>1, <1>3, <1>7, <2>1, <2>3 DEF Build, Advances, installDisk, DiskTyped
<1>8. CASE Preflight(j)
  <2>1. Advances(j, f) /\ Onward(j) /\ InOrder(j)'
    BY <1>2, <1>8 DEF Preflight
  <2>2. Disturbed => Disturbed'
    BY <1>1, <2>1, DisturbedStays DEF JobSound
  <2>3. StagedAs(j)'
    BY <1>1, <1>8, <2>1, <2>2, Plans DEF Preflight, Running, Planning, StagedAs, JobSound, Advances,
       installDisk
  <2> QED
    BY <1>1, <1>3, <1>8, <2>1, <2>3 DEF Preflight, Advances, installDisk, DiskTyped
<1>9. CASE Snapshot(j)
  <2>1. Advances(j, f) /\ Onward(j) /\ InOrder(j)' /\ k = "export"
    BY <1>1, <1>2, <1>9, Plans DEF Snapshot, Running, Planning
  <2> QED
    BY <1>1, <1>3, <1>9, <2>1 DEF Snapshot, Advances, DiskTyped, StagedAs, Fetching
<1>10. CASE Pack(j)
  <2>1. Advances(j, f) /\ Onward(j) /\ InOrder(j)' /\ k = "export"
    BY <1>1, <1>2, <1>10, Plans DEF Pack, Running, Planning
  <2>2. Archive \in Trees
    BY DEF Archive, Trees
  <2>3. DiskTyped' /\ \A q \in Installers \ {j} : staging'[q] = staging[q]
    BY <1>1, <1>10, <2>2 DEF Pack, DiskTyped
  <2> QED
    BY <1>1, <1>3, <1>10, <2>1, <2>3 DEF Pack, Advances, StagedAs, Fetching
<1> QED
  BY <1>4, <1>5, <1>6, <1>7, <1>8, <1>9, <1>10

\* What a job does to the runtime and the backup when it activates, rolls back or ends.
LEMMA ActivationSteps ==
    ASSUME ApprovedInv, NEW j \in Installers,
           \/ StageFails(j) \/ Park(j) \/ ParkFails(j) \/ Land(j) \/ LandFails(j)
           \/ RollbackFails(j) \/ DropBackup(j) \/ Clean(j)
    PROVE  ApprovedInv'
<1> DEFINE Gone(e) == IF job[j].end = "dropped" THEN "dropped" ELSE e
<1>1. /\ InstallTypeOK /\ JobSound(j) /\ DiskTyped /\ RestTyped /\ job[j] \in Jobs
      /\ Approved(place["runtime"])
  BY TypesByPart DEF ApprovedInv
<1>2. ASSUME NEW end \in {"ok", "failed", "stranded"}, Give(j, end), job[j].end # "waiting"
      PROVE  /\ Onward(j) /\ InOrder(j)' /\ StagedAs(j)' /\ job' \in [Installers -> Jobs]
             /\ job'[j].kind = job[j].kind
  <2>1. Becomes(j, "clean", Gone(end)) /\ Gone(end) \in Ends \ {"waiting", "running"}
    BY <1>1, <1>2, GiveEnds DEF Ends
  <2> QED
    BY <1>2, <2>1, PastThePlan DEF Becomes
<1>3. ASSUME Onward(j), UNCHANGED <<installing, head, named, before>>, DiskTyped',
             job' \in [Installers -> Jobs], InOrder(j)', StagedAs(j)',
             Approved(place["runtime"])',
             job[j].kind # "export" => Approved(backup[j])',
             job'[j].kind = job[j].kind,
             \A q \in Installers \ {j} : staging'[q] = staging[q] /\ backup'[q] = backup[q]
      PROVE  ApprovedInv'
  <2>1. InstallTypeOK'
    BY <1>1, <1>3, TypesByPart DEF RestTyped
  <2>2. Disturbed => Disturbed'
    BY <1>1, <1>3, DisturbedStays DEF JobSound
  <2>3. JobSound(j)' /\ Approved(place["runtime"])'
    BY <1>3, <2>2 DEF JobSound
  <2> QED
    BY <1>3, <2>1, <2>3, OthersStaySound
<1>4. ASSUME Onward(j) PROVE Disturbed => Disturbed'
  BY <1>1, <1>4, DisturbedStays DEF JobSound
<1>5. CASE StageFails(j)
  <2>1. Give(j, "failed") /\ job[j].end # "waiting"
    BY <1>5 DEF StageFails, Planning
  <2>2. DiskTyped' /\ \A q \in Installers \ {j} : staging'[q] = staging[q]
    <3> DEFINE t == [content |-> head, wanted |-> job[j].wanted, runs |-> FALSE,
                     whole |-> FALSE]
    <3>1. t \in Trees
      BY <1>1 DEF RestTyped, Jobs, Trees
    <3>2. /\ UNCHANGED <<place, backup>> /\ scratch' \in SUBSET Installers
          /\ staging' = staging \/ staging' = [staging EXCEPT ![j] = t]
      BY <1>1, <1>5 DEF StageFails, Planning, DiskTyped
    <3> HIDE DEF t
    <3> QED
      BY <1>1, <3>1, <3>2 DEF DiskTyped
  <2> QED
    BY <1>1, <1>2, <1>3, <1>4, <1>5, <2>1, <2>2 DEF StageFails, Planning, JobSound, Approved
<1>6. CASE ParkFails(j) \/ RollbackFails(j)
  <2>1. PICK end \in {"failed", "stranded"} : Give(j, end)
    BY <1>6 DEF ParkFails, RollbackFails
  <2>2. job[j].end # "waiting" /\ UNCHANGED <<installDisk, installing, head, named, before>>
    BY <1>6 DEF ParkFails, RollbackFails, Alive
  <2> QED
    BY <1>1, <1>2, <1>3, <1>4, <2>1, <2>2 DEF JobSound, Approved, installDisk, DiskTyped
<1>7. CASE DropBackup(j)
  <2>1. PICK end \in {"ok", "failed"} : Give(j, end)
    BY <1>7 DEF DropBackup
  <2>2. /\ job[j].end # "waiting" /\ DiskTyped' /\ place' = place /\ staging' = staging
        /\ backup'[j] \in {backup[j], Absent} /\ \A q \in Installers \ {j} : backup'[q] = backup[q]
        /\ UNCHANGED <<installing, head, named, before>>
    BY <1>1, <1>7 DEF DropBackup, Alive, DiskTyped
  <2> QED
    BY <1>1, <1>2, <1>3, <1>4, <2>1, <2>2 DEF JobSound, Approved
<1>8. CASE LandFails(j)
  <2>1. Give(j, "failed") /\ job[j].end # "waiting" /\ job[j].phase = "parked"
    BY <1>8 DEF LandFails, Alive
  <2>2. /\ place'["runtime"] \in {place["runtime"], backup[j]}
        /\ job[j].kind = "export" => place'["runtime"] = place["runtime"]
        /\ DiskTyped' /\ staging' = staging /\ backup'[j] \in {backup[j], Absent}
        /\ \A q \in Installers \ {j} : backup'[q] = backup[q]
        /\ UNCHANGED <<installing, head, named, before>>
    BY <1>1, <1>8 DEF LandFails, MayRollBack, PlaceOf, Places, DiskTyped
  <2> QED
    BY <1>1, <1>2, <1>3, <1>4, <2>1, <2>2 DEF JobSound, Approved
<1>9. CASE Park(j)
  <2>1. job[j].phase = "activate" /\ job[j].end \in {"running", "dropped"}
    BY <1>9 DEF Park, Alive
  <2>2. Becomes(j, "parked", job[j].end)
    BY <1>1, <1>9, PhaseMoves DEF Park, Phases
  <2>3. Onward(j) /\ InOrder(j)'
    BY <1>1, <2>1, <2>2 DEF Becomes, Onward, InOrder, JobSound
  <2>4. /\ place'["runtime"] \in {place["runtime"], Absent}
        /\ job[j].kind # "export" => backup'[j] = place["runtime"]
        /\ DiskTyped' /\ staging' = staging
        /\ \A q \in Installers \ {j} : backup'[q] = backup[q]
        /\ UNCHANGED <<installing, head, named, before>>
    BY <1>1, <1>9 DEF Park, Parked, PlaceOf, Places, DiskTyped
  <2>5. StagedAs(j)'
    BY <1>1, <1>4, <2>1, <2>2, <2>3, <2>4 DEF StagedAs, JobSound, Becomes
  <2> QED
    BY <1>1, <1>3, <1>4, <2>2, <2>3, <2>4, <2>5 DEF Approved, Becomes
<1>10. CASE Land(j)
  <2>1. /\ job[j].phase = "parked" /\ job[j].end \in {"running", "dropped"}
        /\ staging[j] # Absent /\ job[j].kind # "uninstall"
    BY <1>1, <1>10 DEF Land, Alive, JobSound, InOrder
  <2>2. Becomes(j, "landed", job[j].end)
    BY <1>1, <1>10, PhaseMoves DEF Land, Phases
  <2>3. Onward(j) /\ InOrder(j)' /\ StagedAs(j)'
    BY <1>1, <2>1, <2>2, PastThePlan DEF Jobs
  <2>4. /\ IF job[j].kind = "export" THEN place'["runtime"] = place["runtime"]
                                     ELSE place'["runtime"] = staging[j]
        /\ DiskTyped' /\ backup' = backup
        /\ \A q \in Installers \ {j} : staging'[q] = staging[q]
        /\ UNCHANGED <<installing, head, named, before>>
    BY <1>1, <1>10 DEF Land, PlaceOf, Places, DiskTyped
  <2>5. job[j].kind # "export" => Approved(staging[j])
    BY <1>1, <2>1, Plans DEF Approved, StagedAs, JobSound
  <2> QED
    BY <1>1, <1>3, <1>4, <2>2, <2>3, <2>4, <2>5 DEF Approved, Becomes, JobSound
<1>11. CASE Clean(j)
  <2> DEFINE o == Over(j, "over", job[j].end)
  <2>1. /\ job[j].end \in Ends /\ job[j].end # "waiting" /\ job' = [job EXCEPT ![j] = o]
    BY <1>1, <1>11 DEF Clean, Jobs, JobSound, InOrder, Unstarted
  <2>2. /\ o \in Jobs /\ o.kind = job[j].kind /\ o.phase = "over" /\ o.end = job[j].end
        /\ o.resolved = o.wanted
    BY <1>1, <2>1, OverIsOver DEF Phases
  <2> HIDE DEF o
  <2>3. /\ job' \in [Installers -> Jobs] /\ job'[j] = o
        /\ \A q \in Installers \ {j} : job'[q] = job[q]
    BY <1>1, <2>1, <2>2, TypesByPart
  <2>4. Onward(j) /\ InOrder(j)' /\ StagedAs(j)'
    BY <1>1, <2>1, <2>2, <2>3 DEF Onward, InOrder, StagedAs, JobSound
  <2>5. /\ DiskTyped' /\ RestTyped' /\ place' = place /\ backup' = backup
        /\ \A q \in Installers \ {j} : staging'[q] = staging[q]
    BY <1>1, <1>11 DEF Clean, DiskTyped, RestTyped
  <2>6. InstallTypeOK'
    BY <2>3, <2>5, TypesByPart
  <2>7. Approved(place["runtime"])' /\ JobSound(j)'
    BY <1>1, <1>4, <2>2, <2>3, <2>4, <2>5 DEF Approved, JobSound
  <2> QED
    BY <2>4, <2>5, <2>6, <2>7, OthersStaySound
<1> QED
  BY <1>5, <1>6, <1>7, <1>8, <1>9, <1>10, <1>11

\* Starting, uninstalling, being dropped, and the removals afterwards.
LEMMA OtherJobSteps ==
    ASSUME ApprovedInv, NEW j \in Installers,
           \/ BeginJob(j) \/ RemoveTree(j) \/ RemoveFails(j) \/ Forget(j) \/ ForgetFails(j)
           \/ DropJob(j) \/ Abandon(j) \/ SweepOld(j)
    PROVE  ApprovedInv'
<1>1. /\ InstallTypeOK /\ JobSound(j) /\ DiskTyped /\ RestTyped /\ job[j] \in Jobs
      /\ Approved(place["runtime"]) /\ job \in [Installers -> Jobs]
  BY TypesByPart DEF ApprovedInv
<1>2. ASSUME Onward(j), RestTyped', DiskTyped', job' \in [Installers -> Jobs],
             InOrder(j)', StagedAs(j)', Approved(place["runtime"])',
             job[j].kind # "export" => Approved(backup[j])',
             job'[j].kind = job[j].kind,
             \A q \in Installers \ {j} : staging'[q] = staging[q] /\ backup'[q] = backup[q]
      PROVE  ApprovedInv'
  BY <1>1, <1>2, TypesByPart, OthersStaySound DEF JobSound
<1>3. ASSUME Onward(j) PROVE Disturbed => Disturbed'
  BY <1>1, <1>3, DisturbedStays DEF JobSound
<1>4. job' = job => Onward(j) /\ (Disturbed => Disturbed')
  BY <1>3 DEF Onward
<1>5. CASE BeginJob(j)
  <2>1. /\ job[j].end = "waiting" /\ job[j] = Unstarted /\ staging[j] = Absent
        /\ UNCHANGED <<installDisk, head, named>> /\ RestTyped'
    BY <1>1, <1>5 DEF BeginJob, JobSound, InOrder, RestTyped, DiskTyped, Places
  <2>2. PICK kind \in JobKindsRun, wanted \in Commits :
          job' = [job EXCEPT ![j] =
                    [kind |-> kind, at |-> 1, wanted |-> wanted, resolved |-> wanted,
                     end |-> "running",
                     phase |-> IF kind = "uninstall" THEN "removing" ELSE "plan"]]
    BY <1>5 DEF BeginJob
  <2>3. /\ job' \in [Installers -> Jobs] /\ \A q \in Installers \ {j} : job'[q] = job[q]
        /\ job'[j].end = "running" /\ job'[j].resolved = job'[j].wanted
        /\ job'[j].phase = IF job'[j].kind = "uninstall" THEN "removing" ELSE "plan"
    BY <1>1, <2>2, KnownJobKinds DEF Jobs, Ends, Phases
  <2>4. Onward(j) /\ InOrder(j)' /\ StagedAs(j)' /\ DiskTyped'
    BY <1>1, <2>1, <2>3 DEF Onward, InOrder, StagedAs, installDisk, DiskTyped
  <2>5. Approved(place["runtime"])' /\ Approved(backup[j])'
    BY <1>1, <1>3, <2>1, <2>4 DEF Approved, JobSound, Unstarted, installDisk
  <2>6. InstallTypeOK' /\ JobSound(j)'
    BY <2>1, <2>3, <2>4, <2>5, TypesByPart DEF JobSound
  <2> QED
    BY <2>1, <2>4, <2>5, <2>6, OthersStaySound DEF installDisk
<1>6. CASE RemoveTree(j)
  <2>1. /\ job[j].phase = "removing" /\ job[j].kind = "uninstall"
        /\ job[j].end \in {"running", "dropped"} /\ Disturbed
        /\ UNCHANGED <<backup, staging, scratch, installing, head, named, before>>
    BY <1>1, <1>6 DEF RemoveTree, Alive, JobSound, InOrder, Disturbed
  <2>2. CASE /\ place["runtime"] # Absent /\ job' = job
             /\ place' = [place EXCEPT !["runtime"].whole = FALSE]
    <3>1. place["runtime"] \in Trees
      BY <1>1, <2>2 DEF DiskTyped, Places
    <3>2. /\ [place["runtime"] EXCEPT !.whole = FALSE] \in Trees
          /\ [place["runtime"] EXCEPT !.whole = FALSE].content = place["runtime"].content
          /\ [place["runtime"] EXCEPT !.whole = FALSE].wanted = place["runtime"].wanted
          /\ [place["runtime"] EXCEPT !.whole = FALSE].runs = place["runtime"].runs
      BY <3>1 DEF Trees
    <3>3. DiskTyped' /\ Approved(place["runtime"])'
      BY <1>1, <1>4, <2>1, <2>2, <3>2 DEF DiskTyped, Places, Approved
    <3>4. InOrder(j)' /\ StagedAs(j)' /\ RestTyped'
      BY <1>1, <2>1, <2>2 DEF InOrder, StagedAs, JobSound, RestTyped
    <3> QED
      BY <1>1, <1>2, <1>4, <2>1, <2>2, <3>3, <3>4 DEF JobSound, Approved
  <2>3. CASE /\ place' = [place EXCEPT !["runtime"] = Absent]
             /\ job' = [job EXCEPT ![j].phase =
                           IF job[j].end = "dropped" THEN "over" ELSE "removed"]
    <3>1. PICK phase \in {"over", "removed"} : Becomes(j, phase, job[j].end)
      BY <1>1, <2>3, PhaseMoves DEF Phases
    <3>2. Onward(j) /\ InOrder(j)' /\ StagedAs(j)'
      BY <1>1, <2>1, <3>1, PastThePlan DEF Jobs
    <3>3. DiskTyped' /\ RestTyped' /\ Approved(place["runtime"])'
      BY <1>1, <2>1, <2>3 DEF DiskTyped, Places, RestTyped, Approved
    <3> QED
      BY <1>1, <1>2, <1>3, <2>1, <3>1, <3>2, <3>3 DEF JobSound, Approved, Becomes
  <2> QED
    BY <1>6, <2>2, <2>3 DEF RemoveTree
<1>7. CASE RemoveFails(j) \/ Forget(j) \/ ForgetFails(j)
  <2>1. PICK end \in {"ok", "failed"} : Give(j, end)
    BY <1>7 DEF RemoveFails, Forget, ForgetFails
  <2>2. /\ job[j].end # "waiting" /\ RestTyped'
        /\ UNCHANGED <<place, backup, staging, scratch>>
    BY <1>1, <1>7 DEF RemoveFails, Forget, ForgetFails, Alive, RestTyped, installDisk
  <2>3. PICK e \in Ends : /\ e \notin {"waiting", "running"} /\ Becomes(j, "clean", e)
                          /\ job[j].end = "dropped" => e = "dropped"
    BY <1>1, <2>1, <2>2, GiveEnds DEF Ends
  <2>4. Onward(j) /\ InOrder(j)' /\ StagedAs(j)'
    BY <1>1, <2>2, <2>3, PastThePlan
  <2> QED
    BY <1>1, <1>2, <1>3, <2>2, <2>3, <2>4 DEF JobSound, Approved, Becomes, DiskTyped
<1>8. CASE DropJob(j)
  <2> DEFINE f == IF job[j].phase = "removed" \/ (job[j].phase = "plan" /\ job[j].kind # "export")
                  THEN "over" ELSE job[j].phase
             r == [job[j] EXCEPT !.end = "dropped", !.phase = f]
  <2>1. /\ job[j].end = "running" /\ UNCHANGED <<installDisk, head, named, before>>
        /\ job' = [job EXCEPT ![j] = r] /\ RestTyped'
    BY <1>1, <1>8 DEF DropJob, Jobs, RestTyped
  <2>2. f \in Phases /\ "dropped" \in Ends
    BY <1>1 DEF Jobs, Ends, Phases
  <2>3. f = job[j].phase \/ f = "over"
    OBVIOUS
  <2> HIDE DEF f
  <2>4. /\ r \in Jobs /\ r.kind = job[j].kind /\ r.at = job[j].at /\ r.wanted = job[j].wanted
        /\ r.resolved = job[j].resolved /\ r.phase = f /\ r.end = "dropped"
    BY <1>1, <2>2 DEF Jobs
  <2> HIDE DEF r
  <2>5. Becomes(j, f, "dropped")
    BY <1>1, <2>1, <2>4 DEF Becomes
  <2>6. Onward(j) /\ InOrder(j)'
    BY <1>1, <2>1, <2>3, <2>5 DEF Becomes, Onward, InOrder, JobSound
  <2>7. StagedAs(j)'
    BY <1>1, <1>3, <2>1, <2>3, <2>5, <2>6 DEF Becomes, StagedAs, JobSound, installDisk
  <2> QED
    BY <1>1, <1>2, <1>3, <2>1, <2>5, <2>6, <2>7 DEF JobSound, Approved, Becomes, DiskTyped,
       installDisk
<1>9. CASE Abandon(j)
  <2>1. /\ job[j].end = "dropped" /\ job' = job /\ Disturbed
        /\ UNCHANGED <<place, backup, installing, head, named, before>>
    BY <1>9 DEF Abandon, Disturbed, Undropped
  <2>2. /\ DiskTyped' /\ \A q \in Installers \ {j} : staging'[q] = staging[q]
        /\ staging'[j] # Absent => /\ staging[j] # Absent
                                   /\ staging'[j].content = staging[j].content
                                   /\ staging'[j].wanted = staging[j].wanted
                                   /\ staging'[j].runs = staging[j].runs
    <3> DEFINE t == [staging[j] EXCEPT !.whole = FALSE]
    <3>1. staging[j] # Absent => /\ t \in Trees /\ t.content = staging[j].content
                                /\ t.wanted = staging[j].wanted /\ t.runs = staging[j].runs
      BY <1>1 DEF DiskTyped, Trees
    <3>2. /\ scratch' \subseteq Installers
          /\ \/ staging[j] # Absent /\ staging' = [staging EXCEPT ![j] = t]
             \/ staging' = [staging EXCEPT ![j] = Absent]
      BY <1>1, <1>9 DEF Abandon, DiskTyped
    <3> HIDE DEF t
    <3> QED
      BY <1>1, <2>1, <3>1, <3>2 DEF DiskTyped
  <2>3. InOrder(j)' /\ StagedAs(j)'
    BY <1>1, <1>4, <2>1, <2>2 DEF InOrder, StagedAs, JobSound
  <2> QED
    BY <1>1, <1>2, <1>4, <2>1, <2>2, <2>3 DEF JobSound, Approved, RestTyped
<1>10. CASE SweepOld(j)
  <2>1. /\ job' = job /\ staging'[j] = Absent /\ backup'[j] = Absent /\ DiskTyped'
        /\ \A q \in Installers \ {j} : staging'[q] = staging[q] /\ backup'[q] = backup[q]
        /\ UNCHANGED <<place, installing, head, named, before>>
    BY <1>1, <1>10 DEF SweepOld, DiskTyped
  <2>2. InOrder(j)' /\ StagedAs(j)'
    BY <1>1, <2>1 DEF InOrder, StagedAs, JobSound
  <2> QED
    BY <1>1, <1>2, <1>4, <2>1, <2>2 DEF Approved, RestTyped
<1> QED
  BY <1>5, <1>6, <1>7, <1>8, <1>9, <1>10

\* A restart leaves of every job that had begun its kind and its end.
LEMMA RestartKeeps == ASSUME ApprovedInv, KillAndRestart PROVE ApprovedInv'
<1> DEFINE o(j) == Over(j, "dead", IF job[j].end = "running" THEN "killed" ELSE job[j].end)
<1>1. /\ InstallTypeOK /\ DiskTyped /\ RestTyped /\ job \in [Installers -> Jobs]
      /\ UNCHANGED <<place, backup, staging, scratch, head, named>>
      /\ installing' = Absent /\ before' = Absent
  BY TypesByPart DEF ApprovedInv, KillAndRestart, installDisk
<1>2. ASSUME NEW j \in Installers
      PROVE  IF job[j].end = "waiting" THEN job'[j] = job[j]
             ELSE /\ job'[j].kind = job[j].kind /\ job'[j].phase = "dead"
                  /\ job'[j].end # "waiting" /\ job'[j].resolved = job'[j].wanted
                  /\ job[j].end = "dropped" => job'[j].end = "dropped"
                  /\ job'[j] \in Jobs
  <2> DEFINE e == IF job[j].end = "running" THEN "killed" ELSE job[j].end
  <2>1. e \in Ends /\ "dead" \in Phases
    BY <1>1 DEF Jobs, Ends, Phases
  <2>2. job'[j] = IF job[j].end = "waiting" THEN job[j] ELSE Over(j, "dead", e)
    BY DEF KillAndRestart
  <2>3. job[j].end # "waiting" => e # "waiting"
    OBVIOUS
  <2>4. job[j].end = "dropped" => e = "dropped"
    OBVIOUS
  <2> HIDE DEF e
  <2> QED
    BY <1>1, <2>1, <2>2, <2>3, <2>4, OverIsOver
<1>3. job' \in [Installers -> Jobs]
  <2>1. job' = [j \in Installers |-> job'[j]]
    BY DEF KillAndRestart
  <2>2. \A j \in Installers : job'[j] \in Jobs
    BY <1>1, <1>2
  <2> QED
    BY <2>1, <2>2
<1>4. InstallTypeOK'
  BY <1>1, <1>3, TypesByPart DEF DiskTyped, RestTyped
<1>5. Disturbed => Disturbed'
  BY <1>2 DEF Disturbed, Undropped
<1>6. Approved(place["runtime"])'
  BY <1>1, <1>5 DEF ApprovedInv, Approved
<1>7. ASSUME NEW j \in Installers PROVE JobSound(j)'
  <2>1. JobSound(j)
    BY DEF ApprovedInv
  <2>2. InOrder(j)' /\ StagedAs(j)'
    BY <1>1, <1>2, <1>5, <2>1 DEF JobSound, InOrder, StagedAs
  <2> QED
    BY <1>1, <1>2, <1>5, <2>1, <2>2 DEF JobSound, Approved
<1> QED
  BY <1>4, <1>6, <1>7 DEF ApprovedInv

\* Nothing is installed, or a runtime that was approved.
LEMMA ApprovedInvInit == InstallInit => ApprovedInv
<1> SUFFICES ASSUME InstallInit PROVE ApprovedInv
  OBVIOUS
<1>1. /\ job = [j \in Installers |-> Unstarted] /\ backup = [j \in Installers |-> Absent]
      /\ staging = [j \in Installers |-> Absent] /\ scratch = {} /\ head \in Commits
      /\ installing = Absent /\ named = TRUE /\ before = Absent
  BY DEF InstallInit
<1>2. Unstarted \in Jobs
  BY DEF Unstarted, Jobs, Ends, Phases, InstallPlan
<1>3. /\ Unstarted.kind = "release" /\ Unstarted.phase = "plan"
      /\ Unstarted.wanted = Unstarted.resolved
  BY DEF Unstarted
<1>4. place \in [Places -> Trees \cup {Absent}] /\ Approved(place["runtime"])
  <2>1. CASE place = [p \in Places |-> Absent]
    BY <2>1 DEF Places, Approved
  <2>2. CASE \E c \in Commits : place = [runtime |-> Good(c), export |-> Archive]
    <3>1. PICK c \in Commits : place = [runtime |-> Good(c), export |-> Archive]
      BY <2>2
    <3>2. /\ Good(c) \in Trees /\ Good(c).content = Good(c).wanted /\ Good(c).runs
          /\ Good(c).whole /\ Archive \in Trees
      BY DEF Good, Archive, Trees
    <3> QED
      BY <3>1, <3>2 DEF Places, Approved
  <2> QED
    BY <2>1, <2>2 DEF InstallInit
<1>5. InstallTypeOK
  BY <1>1, <1>2, <1>4, TypesByPart DEF DiskTyped, RestTyped
<1>6. ASSUME NEW j \in Installers PROVE JobSound(j)
  BY <1>1, <1>3 DEF JobSound, Approved, InOrder, StagedAs
<1> QED
  BY <1>4, <1>5, <1>6 DEF ApprovedInv

\* Every step keeps the invariant.
LEMMA ApprovedInvKept == ApprovedInv /\ [InstallNext]_installVars => ApprovedInv'
<1> SUFFICES ASSUME ApprovedInv, [InstallNext]_installVars PROVE ApprovedInv'
  OBVIOUS
<1>1. CASE PushCommit
  BY <1>1 DEF PushCommit, installDisk, ApprovedInv, InstallTypeOK, Approved, Disturbed,
     Undropped, JobSound, InOrder, StagedAs
<1>2. CASE UNCHANGED installVars
  BY <1>2 DEF installVars, installDisk, ApprovedInv, InstallTypeOK, Approved, Disturbed,
     Undropped, JobSound, InOrder, StagedAs
<1> QED
  BY <1>1, <1>2, PlanSteps, ActivationSteps, OtherJobSteps, RestartKeeps DEF InstallNext

\* The invariant holds in every behaviour.
LEMMA ApprovedInvAlways == InstallSpec => []ApprovedInv
<1> QED
  BY ApprovedInvInit, ApprovedInvKept, PTL DEF InstallSpec

-----------------------------------------------------------------------------
(* What an installation found in its place *)

\* runtime_busy is held from the beginning of a job to the end of its clean-up.
Holds(j) == /\ job[j].end = "running" \/ job[j].phase = "clean" => installing = j
            /\ installing = j => job[j].phase \notin {"over", "dead"}

\* Until it lands, an installation has left in place or renamed away what it found.
Found(j) ==
    installing = j /\ job[j].kind \in Fetching =>
        /\ job[j].phase \in {"plan", "activate"} => place["runtime"] = before
        /\ job[j].phase = "parked" => place["runtime"] = Absent /\ backup[j] = before
        /\ job[j].phase = "clean" =>
              /\ job[j].end = "failed" => place["runtime"] = before
              /\ job[j].end = "stranded" => backup[j] = before

FoundInv == Undropped => \A j \in Installers : Holds(j) /\ Found(j)

\* Beside the job that holds runtime_busy nothing runs.
LEMMA OthersRest ==
    ASSUME FoundInv, NEW j \in Installers, Onward(j),
           Undropped => installing \in {j, Absent} /\ installing' \in {j, Absent},
           Undropped' => Holds(j)' /\ Found(j)'
    PROVE  FoundInv'
<1> SUFFICES ASSUME Undropped' PROVE \A q \in Installers : Holds(q)' /\ Found(q)'
  BY DEF FoundInv
<1>1. Undropped
  BY DEF Undropped, Onward
<1>2. ASSUME NEW q \in Installers \ {j} PROVE Holds(q)' /\ Found(q)'
  <2>1. installing # q /\ installing' # q /\ job'[q] = job[q]
    BY <1>1, AbsentIsNoJob DEF Onward
  <2>2. Holds(q)
    BY <1>1 DEF FoundInv
  <2> QED
    BY <2>1, <2>2 DEF Holds, Found
<1> QED
  BY <1>2

\* One step of job j at a time.
LEMMA FoundInvStep ==
    ASSUME ApprovedInv, FoundInv, NEW j \in Installers,
           \/ BeginJob(j) \/ Confirm(j) \/ FetchArchive(j) \/ VerifyArchive(j) \/ Build(j)
           \/ Preflight(j) \/ Snapshot(j) \/ Pack(j) \/ StageFails(j)
           \/ Park(j) \/ ParkFails(j) \/ Land(j) \/ LandFails(j) \/ RollbackFails(j)
           \/ DropBackup(j) \/ Clean(j)
           \/ RemoveTree(j) \/ RemoveFails(j) \/ Forget(j) \/ ForgetFails(j)
           \/ DropJob(j) \/ Abandon(j) \/ SweepOld(j)
    PROVE  FoundInv'
<1> DEFINE Gone(e) == IF job[j].end = "dropped" THEN "dropped" ELSE e
           f == IF job[j].at = Len(InstallPlan[job[j].kind]) THEN "activate" ELSE "plan"
<1>1. /\ InstallTypeOK /\ InOrder(j) /\ DiskTyped /\ job[j] \in Jobs
      /\ job \in [Installers -> Jobs] /\ job[j].kind \in {"export", "uninstall"} \cup Fetching
  BY TypesByPart, Plans DEF ApprovedInv, JobSound
<1>2. Undropped => Holds(j) /\ Found(j) /\ job[j].end # "dropped"
  BY DEF FoundInv, Undropped
<1>3. "runtime" # "export" /\ {"export", "uninstall"} \cap Fetching = {}
  BY DEF Fetching
<1>4. ASSUME Onward(j), job[j].end \in {"running", "dropped"}, installing' = installing,
             job'[j].phase \notin {"over", "dead"},
             installing = j /\ job[j].kind \in Fetching /\ Found(j) /\ Undropped => Found(j)'
      PROVE  FoundInv'
  <2>1. Undropped' => Undropped
    BY <1>4 DEF Undropped, Onward
  <2>2. Undropped => installing = j
    BY <1>2, <1>4 DEF Holds
  <2>3. Undropped' => Holds(j)'
    BY <1>4, <2>1, <2>2 DEF Holds
  <2>4. Undropped' => Found(j)'
    <3>1. CASE job[j].kind \in Fetching
      BY <1>2, <1>4, <2>1, <2>2, <3>1
    <3>2. CASE job[j].kind \notin Fetching
      <4>1. job'[j].kind = job[j].kind
        BY <1>4 DEF Onward
      <4> QED
        BY <3>2, <4>1 DEF Found
    <3> QED
      BY <3>1, <3>2
  <2> QED
    BY <1>4, <2>2, <2>3, <2>4, OthersRest
<1>5. CASE FetchArchive(j) \/ VerifyArchive(j) \/ Build(j) \/ Preflight(j) \/ Snapshot(j)
           \/ Pack(j)
  <2>1. PICK stage \in {"fetch", "verify", "build", "preflight", "snapshot", "pack"} :
           Running(j, stage) /\ NextStage(j) /\ UNCHANGED <<place, backup, installing, before>>
    BY <1>5 DEF FetchArchive, VerifyArchive, Build, Preflight, Snapshot, Pack, installDisk
  <2>2. Advances(j, f) /\ Onward(j)
    BY <1>1, <2>1, StageAdvances, InThePlan DEF Running, Planning
  <2>3. f \in {"plan", "activate"}
    OBVIOUS
  <2> HIDE DEF f
  <2>4. Found(j) => Found(j)'
    BY <2>1, <2>2, <2>3 DEF Running, Planning, Advances, Found
  <2> QED
    BY <1>4, <2>1, <2>2, <2>3, <2>4 DEF Running, Planning, Advances
<1>6. CASE Confirm(j)
  <2>1. /\ Running(j, "confirm") /\ UNCHANGED <<place, backup, installing, before>>
        /\ \A q \in Installers \ {j} : job'[q] = job[q]
        /\ job'[j].kind = job[j].kind /\ job'[j].end = job[j].end
        /\ job'[j].phase = job[j].phase
    BY <1>1, <1>6 DEF Confirm, installDisk, Jobs
  <2>2. Onward(j) /\ (Found(j) => Found(j)')
    BY <2>1 DEF Onward, Found
  <2> QED
    BY <1>4, <2>1, <2>2 DEF Running, Planning
<1>7. CASE BeginJob(j)
  <2>1. /\ job[j].end = "waiting" /\ installing = Absent /\ installing' = j
        /\ before' = place["runtime"] /\ UNCHANGED <<place, backup>>
        /\ \A q \in Installers \ {j} : job'[q] = job[q]
        /\ job'[j].end = "running" /\ job'[j].phase \in {"plan", "removing"}
    BY <1>1, <1>7 DEF BeginJob, installDisk
  <2>2. Onward(j)
    BY <2>1 DEF Onward
  <2>3. Holds(j)' /\ Found(j)'
    BY <2>1 DEF Holds, Found
  <2> QED
    BY <2>1, <2>2, <2>3, OthersRest
<1>8. ASSUME NEW end \in {"ok", "failed", "stranded"}, Give(j, end),
             job[j].end \in {"running", "dropped"}, UNCHANGED <<installing, before>>,
             installing = j /\ job[j].kind \in Fetching /\ Found(j) =>
                /\ end = "failed" => place'["runtime"] = before
                /\ end = "stranded" => backup'[j] = before
      PROVE  FoundInv'
  <2>1. Becomes(j, "clean", Gone(end))
    BY <1>1, <1>8, GiveEnds DEF Ends
  <2>2. Gone(end) \in {end, "dropped"} /\ (job[j].end = "dropped" => Gone(end) = "dropped")
    OBVIOUS
  <2> HIDE DEF Gone
  <2>3. Onward(j)
    BY <1>8, <2>1, <2>2 DEF Becomes, Onward
  <2>4. installing = j /\ job[j].kind \in Fetching /\ Found(j) => Found(j)'
    BY <1>8, <2>1, <2>2 DEF Becomes, Found
  <2> QED
    BY <1>4, <1>8, <2>1, <2>3, <2>4 DEF Becomes
<1>9. CASE StageFails(j) \/ ParkFails(j)
  <2>1. /\ Give(j, "failed") /\ job[j].end \in {"running", "dropped"}
        /\ UNCHANGED <<place, backup, installing, before>>
        /\ job[j].phase \in {"plan", "activate"}
    BY <1>9 DEF StageFails, Planning, ParkFails, Alive, installDisk
  <2>2. installing = j /\ job[j].kind \in Fetching /\ Found(j) => place'["runtime"] = before
    BY <2>1 DEF Found
  <2> QED
    BY <1>8, <2>1, <2>2
<1>10. CASE RollbackFails(j)
  <2>1. /\ Give(j, "stranded") /\ job[j].end \in {"running", "dropped"}
        /\ UNCHANGED <<place, backup, installing, before>> /\ job[j].phase = "parked"
    BY <1>10 DEF RollbackFails, Alive, installDisk
  <2>2. installing = j /\ job[j].kind \in Fetching /\ Found(j) => backup'[j] = before
    BY <2>1 DEF Found
  <2> QED
    BY <1>8, <2>1, <2>2
<1>11. CASE LandFails(j)
  <2>1. /\ Give(j, "failed") /\ job[j].end \in {"running", "dropped"}
        /\ job[j].phase = "parked" /\ UNCHANGED <<installing, before>>
    BY <1>11 DEF LandFails, Alive
  <2>2. job[j].kind \in Fetching /\ place["runtime"] = Absent => place'["runtime"] = backup[j]
    BY <1>1, <1>3, <1>11 DEF LandFails, MayRollBack, PlaceOf, Places, DiskTyped
  <2>3. installing = j /\ job[j].kind \in Fetching /\ Found(j) => place'["runtime"] = before
    BY <2>1, <2>2 DEF Found
  <2> QED
    BY <1>8, <2>1, <2>3
<1>12. CASE DropBackup(j)
  <2>1. PICK end \in {"ok", "failed"} : Give(j, end) /\ (job[j].kind # "export" => end = "ok")
    BY <1>12 DEF DropBackup
  <2>2. job[j].end \in {"running", "dropped"} /\ UNCHANGED <<installing, before>>
    BY <1>12 DEF DropBackup, Alive
  <2> QED
    BY <1>3, <1>8, <2>1, <2>2
<1>13. CASE RemoveFails(j) \/ Forget(j) \/ ForgetFails(j)
  <2>1. PICK end \in {"ok", "failed"} : Give(j, end)
    BY <1>13 DEF RemoveFails, Forget, ForgetFails
  <2>2. /\ job[j].end \in {"running", "dropped"} /\ UNCHANGED <<installing, before>>
        /\ job[j].kind = "uninstall"
    BY <1>1, <1>13 DEF RemoveFails, Forget, ForgetFails, Alive, MayForget, installDisk, InOrder
  <2> QED
    BY <1>3, <1>8, <2>1, <2>2
<1>14. CASE Park(j)
  <2>1. /\ job[j].phase = "activate" /\ job[j].end \in {"running", "dropped"}
        /\ UNCHANGED <<installing, before>>
    BY <1>14 DEF Park, Alive
  <2>2. Becomes(j, "parked", job[j].end)
    BY <1>1, <1>14, PhaseMoves DEF Park, Phases
  <2>3. job[j].kind \in Fetching => place'["runtime"] = Absent /\ backup'[j] = place["runtime"]
    BY <1>1, <1>3, <1>14 DEF Park, Parked, PlaceOf, Places, DiskTyped
  <2>4. Onward(j) /\ (Found(j) => Found(j)')
    BY <2>1, <2>2, <2>3 DEF Becomes, Onward, Found
  <2> QED
    BY <1>4, <2>1, <2>2, <2>4 DEF Becomes
<1>15. CASE Land(j)
  <2>1. /\ job[j].end \in {"running", "dropped"} /\ UNCHANGED <<installing, before>>
    BY <1>15 DEF Land, Alive
  <2>2. Becomes(j, "landed", job[j].end)
    BY <1>1, <1>15, PhaseMoves DEF Land, Phases
  <2>3. Onward(j) /\ Found(j)'
    BY <2>1, <2>2 DEF Becomes, Onward, Found
  <2> QED
    BY <1>4, <2>1, <2>2, <2>3 DEF Becomes
<1>16. CASE Clean(j)
  <2>1. /\ job[j].end \in Ends /\ job[j].phase = "clean" /\ job[j].end # "waiting"
        /\ job' = [job EXCEPT ![j] = Over(j, "over", job[j].end)]
        /\ installing' = IF installing = j THEN Absent ELSE installing
    BY <1>1, <1>16 DEF Clean, Jobs, InOrder, Unstarted
  <2>2. /\ job'[j].kind = job[j].kind /\ job'[j].phase = "over" /\ job'[j].end = job[j].end
        /\ \A q \in Installers \ {j} : job'[q] = job[q]
    BY <1>1, <2>1, OverIsOver DEF Phases
  <2>3. Onward(j) /\ installing' # j
    BY <2>1, <2>2, AbsentIsNoJob DEF Onward
  <2>4. Undropped => installing = j
    BY <1>2, <2>1 DEF Holds
  <2>5. job[j].end # "running"
    BY <1>1, <2>1 DEF InOrder
  <2>6. Undropped' => Holds(j)' /\ Found(j)'
    BY <2>2, <2>3, <2>5 DEF Holds, Found
  <2> QED
    BY <2>1, <2>3, <2>4, <2>6, OthersRest
<1>17. CASE RemoveTree(j)
  <2>1. /\ job[j].end \in {"running", "dropped"} /\ job[j].kind = "uninstall"
        /\ UNCHANGED <<installing, before>>
    BY <1>1, <1>17 DEF RemoveTree, Alive, InOrder
  <2>2. CASE job' = job
    BY <1>3, <1>4, <1>17, <2>1, <2>2 DEF Onward, RemoveTree, Alive
  <2>3. CASE job' = [job EXCEPT ![j].phase = IF job[j].end = "dropped" THEN "over" ELSE "removed"]
    <3>1. PICK phase \in {"over", "removed"} :
             Becomes(j, phase, job[j].end) /\ (phase = "over" => job[j].end = "dropped")
      BY <1>1, <2>3, PhaseMoves DEF Phases
    <3>2. Onward(j) /\ (Undropped' => Undropped)
      BY <2>1, <3>1 DEF Becomes, Onward, Undropped
    <3>3. Undropped => installing = j /\ phase = "removed"
      BY <1>2, <2>1, <3>1 DEF Holds
    <3>4. Undropped' => Holds(j)' /\ Found(j)'
      BY <1>3, <2>1, <3>1, <3>2, <3>3 DEF Holds, Found, Becomes
    <3> QED
      BY <2>1, <3>2, <3>3, <3>4, OthersRest DEF Undropped
  <2> QED
    BY <1>17, <2>2, <2>3 DEF RemoveTree
<1>18. CASE DropJob(j)
  <2>1. job'[j].end = "dropped"
    BY <1>1, <1>18 DEF DropJob, Jobs
  <2> QED
    BY <2>1 DEF FoundInv, Undropped
<1>19. CASE Abandon(j)
  BY <1>19 DEF Abandon, FoundInv, Undropped
<1>20. CASE SweepOld(j)
  <2>1. /\ UNCHANGED <<place, job, installing, before>> /\ job[j].phase \in {"over", "dead"}
        /\ \A q \in Installers \ {j} : backup'[q] = backup[q]
    BY <1>1, <1>20 DEF SweepOld, Ended, DiskTyped
  <2>2. Undropped' = Undropped
    BY <2>1 DEF Undropped
  <2>3. ASSUME NEW q \in Installers, Holds(q), Found(q) PROVE Holds(q)' /\ Found(q)'
    BY <2>1, <2>3 DEF Holds, Found
  <2> QED
    BY <2>2, <2>3 DEF FoundInv
<1> QED
  BY <1>5, <1>6, <1>7, <1>9, <1>10, <1>11, <1>12, <1>13, <1>14, <1>15, <1>16, <1>17, <1>18,
     <1>19, <1>20

\* A restart forgets what was found, and a push changes nothing of it.
LEMMA FoundInvKept == ApprovedInv /\ FoundInv /\ [InstallNext]_installVars => FoundInv'
<1> SUFFICES ASSUME ApprovedInv, FoundInv, [InstallNext]_installVars PROVE FoundInv'
  OBVIOUS
<1>1. CASE PushCommit \/ UNCHANGED installVars
  BY <1>1 DEF PushCommit, installVars, installDisk, FoundInv, Undropped, Holds, Found
<1>2. CASE KillAndRestart
  <2>1. InstallTypeOK /\ ApprovedInv'
    BY <1>2, RestartKeeps DEF ApprovedInv
  <2>2. installing' = Absent
    BY <1>2 DEF KillAndRestart
  <2>3. ASSUME NEW j \in Installers
        PROVE job'[j].end # "running" /\ job'[j].phase # "clean"
    <3> DEFINE e == IF job[j].end = "running" THEN "killed" ELSE job[j].end
    <3>1. job'[j] = IF job[j].end = "waiting" THEN job[j] ELSE Over(j, "dead", e)
      BY <1>2 DEF KillAndRestart
    <3>2. job[j].end = "waiting" => job[j].phase = "plan"
      BY DEF ApprovedInv, JobSound, InOrder, Unstarted
    <3>3. e \in Ends /\ e # "running" /\ "dead" \in Phases
      BY <2>1 DEF InstallTypeOK, Ends, Phases
    <3> HIDE DEF e
    <3> QED
      BY <2>1, <3>1, <3>2, <3>3, OverIsOver
  <2> QED
    BY <2>2, <2>3, AbsentIsNoJob DEF FoundInv, Holds, Found
<1> QED
  BY <1>1, <1>2, FoundInvStep DEF InstallNext

\* What was found is in place or in the backup in every behaviour.
LEMMA FoundInvAlways == InstallSpec => []FoundInv
<1>1. InstallInit => FoundInv
  <2> SUFFICES ASSUME InstallInit, NEW j \in Installers PROVE Holds(j) /\ Found(j)
    BY DEF FoundInv
  <2>1. job[j] = Unstarted /\ installing = Absent
    BY DEF InstallInit
  <2> QED
    BY <2>1, AbsentIsNoJob DEF Holds, Found, Unstarted
<1> QED
  BY <1>1, FoundInvKept, ApprovedInvAlways, PTL DEF InstallSpec

-----------------------------------------------------------------------------
(* The last whole copy *)

Copy(tree) == tree # Absent /\ tree.whole

\* A whole copy is in its place, or was renamed away by a job of that place.
Kept(p) == \/ Copy(place[p])
           \/ \E k \in Installers : PlaceOf(k) = p /\ Copy(backup[k])

\* The job has verified what it fetched and not put it in place yet.
Checked(j) ==
    /\ job[j].kind \in Fetching
    /\ \/ job[j].phase \in {"activate", "parked"}
       \/ job[j].phase = "plan" /\ job[j].at > VerifyAt[job[j].kind]

\* A job has nothing aside before it activates; an archive is whole wherever it is;
\* unless a job was dropped, what is about to be put in place, or was, is whole.
Copies(j) ==
    /\ job[j].phase \in {"plan", "activate"} => backup[j] = Absent
    /\ job[j].phase = "landed" => job[j].end \in {"running", "dropped"}
    /\ job[j].kind = "export" =>
          /\ backup[j] # Absent => Copy(backup[j])
          /\ job[j].phase \in {"plan", "activate", "parked"} /\ staging[j] # Absent =>
                Copy(staging[j])
    /\ Undropped =>
          /\ Checked(j) /\ staging[j] # Absent => Copy(staging[j])
          /\ job[j].phase = "landed" => Copy(place[PlaceOf(j)])

CopiesInv == /\ place["export"] # Absent => Copy(place["export"])
             /\ \A j \in Installers : Copies(j)

\* Nothing moves: every copy is where it was.
LEMMA NothingMoves ==
    ASSUME UNCHANGED <<place, backup>>, NEW p \in Places, Kept(p),
           \A k \in Installers : backup[k] = Absent \/ job'[k].kind = job[k].kind
    PROVE  Kept(p)'
<1>1. CASE Copy(place[p])
  BY <1>1 DEF Kept, Copy
<1>2. ASSUME NEW k \in Installers, PlaceOf(k) = p, Copy(backup[k]) PROVE Kept(p)'
  <2>1. job'[k].kind = job[k].kind
    BY <1>2 DEF Copy
  <2> QED
    BY <1>2, <2>1 DEF Kept, Copy, PlaceOf
<1> QED
  BY <1>1, <1>2 DEF Kept

\* What job j moves is at p before and after; the rest stays where it was.
LEMMA OneMoves ==
    ASSUME NEW j \in Installers, NEW p \in Places, Onward(j), job[j].end # "waiting", Kept(p),
           \A q \in Installers \ {j} : backup'[q] = backup[q],
           PlaceOf(j) # p => place'[p] = place[p],
           PlaceOf(j) = p => \/ Copy(place[p])'
                             \/ ~Copy(place[p]) /\ (Copy(backup[j]) => Copy(backup[j])')
                             \/ Copy(backup[j])'
    PROVE  Kept(p)'
<1>1. PlaceOf(j)' = PlaceOf(j) /\ \A q \in Installers \ {j} : PlaceOf(q)' = PlaceOf(q)
  BY DEF Onward, PlaceOf
<1>2. ASSUME NEW k \in Installers \ {j}, PlaceOf(k) = p, Copy(backup[k]) PROVE Kept(p)'
  <2>1. PlaceOf(k)' = p /\ Copy(backup[k])'
    BY <1>1, <1>2 DEF Copy
  <2> QED
    BY <2>1 DEF Kept
<1>3. CASE PlaceOf(j) # p
  <2>1. Copy(place[p]) => Kept(p)'
    BY <1>3 DEF Kept, Copy
  <2> QED
    BY <1>2, <1>3, <2>1 DEF Kept
<1>4. CASE PlaceOf(j) = p
  <2>1. Copy(backup[j])' => Kept(p)'
    BY <1>1, <1>4 DEF Kept
  <2> QED
    BY <1>2, <1>4, <2>1 DEF Kept
<1> QED
  BY <1>3, <1>4

\* While job j moves what is in place nobody else has landed.
LEMMA OthersKeepCopies ==
    ASSUME FoundInv, CopiesInv, NEW j \in Installers, Onward(j),
           \A q \in Installers \ {j} : staging'[q] = staging[q] /\ backup'[q] = backup[q],
           place' = place \/ job[j].end \in {"running", "dropped"},
           place'["export"] # Absent => Copy(place["export"])', Copies(j)'
    PROVE  CopiesInv'
<1>1. Undropped' => Undropped
  BY DEF Undropped, Onward
<1>2. ASSUME NEW q \in Installers \ {j} PROVE Copies(q)'
  <2>1. /\ job'[q] = job[q] /\ staging'[q] = staging[q] /\ backup'[q] = backup[q]
        /\ Copies(q) /\ PlaceOf(q)' = PlaceOf(q)
    BY DEF Onward, CopiesInv, PlaceOf
  <2>2. ASSUME Undropped', job[q].phase = "landed" PROVE Copy(place[PlaceOf(q)])'
    <3>1. Undropped /\ Copy(place[PlaceOf(q)]) /\ job[q].end = "running"
      BY <1>1, <2>1, <2>2 DEF Copies, Undropped
    <3>2. installing = q
      BY <3>1 DEF FoundInv, Holds
    <3>3. job[j].end \notin {"running", "dropped"}
      BY <3>1, <3>2 DEF FoundInv, Holds, Undropped
    <3> QED
      BY <2>1, <3>1, <3>3 DEF Copy
  <2>3. Undropped' => (Checked(q) /\ staging[q] # Absent => Copy(staging[q]))
    BY <1>1, <2>1 DEF Copies
  <2> QED
    BY <2>1, <2>2, <2>3 DEF Copies, Checked, Copy
<1> QED
  BY <1>2 DEF CopiesInv

\* No copy of p is lost, but for what an uninstall or the sweep may remove.
CopiesStay(j) ==
    Undropped => \A p \in Places :
        Kept(p) /\ ~(p = "runtime" /\ (RemoveTree(j) \/ SweepOld(j))) => Kept(p)'

\* A step of job j that leaves every copy where it was.
LEMMA QuietStep ==
    ASSUME FoundInv, CopiesInv, NEW j \in Installers, Onward(j), UNCHANGED <<place, backup>>,
           job'[j].kind = job[j].kind \/ backup[j] = Absent,
           \A q \in Installers \ {j} : staging'[q] = staging[q], Copies(j)'
    PROVE  CopiesInv' /\ CopiesStay(j)
<1>1. CopiesInv'
  BY OthersKeepCopies DEF CopiesInv, Copy
<1>2. \A k \in Installers : backup[k] = Absent \/ job'[k].kind = job[k].kind
  BY DEF Onward
<1>3. ASSUME NEW p \in Places, Kept(p) PROVE Kept(p)'
  BY <1>2, <1>3, NothingMoves
<1> QED
  BY <1>1, <1>3 DEF CopiesStay

\* Verification leaves a whole tree, and packing an archive.
LEMMA PlanKeepsCopies ==
    ASSUME ApprovedInv, FoundInv, CopiesInv, NEW j \in Installers,
           \/ Confirm(j) \/ FetchArchive(j) \/ VerifyArchive(j) \/ Build(j) \/ Preflight(j)
           \/ Snapshot(j) \/ Pack(j)
    PROVE  CopiesInv' /\ CopiesStay(j)
<1> DEFINE k == job[j].kind
           f == IF job[j].at = Len(InstallPlan[k]) THEN "activate" ELSE "plan"
<1>1. InstallTypeOK /\ DiskTyped /\ Copies(j) /\ job[j].at \in Nat
  BY TypesByPart DEF ApprovedInv, InstallTypeOK, CopiesInv
<1>2. {"export", "uninstall"} \cap Fetching = {}
  BY DEF Fetching
<1>3. ASSUME NEW stage \in {"fetch", "verify", "build", "preflight", "snapshot", "pack"},
             Running(j, stage), NextStage(j), UNCHANGED <<place, backup>>,
             \A q \in Installers \ {j} : staging'[q] = staging[q],
             k = "export" /\ staging'[j] # Absent => Copy(staging[j])',
             Undropped /\ k \in Fetching /\ staging'[j] # Absent
                /\ (f = "activate" \/ job[j].at + 1 > VerifyAt[k]) => Copy(staging[j])'
      PROVE  CopiesInv' /\ CopiesStay(j)
  <2>1. Advances(j, f) /\ job[j].phase = "plan" /\ backup[j] = Absent
    BY <1>1, <1>3, StageAdvances DEF Running, Planning, Copies
  <2>2. f \in {"plan", "activate"}
    OBVIOUS
  <2> HIDE DEF f
  <2>3. Onward(j)
    BY <1>3, <2>1, <2>2, InThePlan
  <2>4. Undropped' => Undropped
    BY <2>3 DEF Undropped, Onward
  <2>5. Copies(j)'
    BY <1>2, <1>3, <2>1, <2>2, <2>4 DEF Copies, Checked, Advances
  <2> QED
    BY <1>3, <2>1, <2>3, <2>5, QuietStep
<1>4. CASE Confirm(j)
  <2>1. Running(j, "confirm") /\ k \in Fetching /\ Step(j) # "activate"
        /\ job[j].at < VerifyAt[k] /\ VerifyAt[k] \in Nat
    BY <1>1, <1>4, Plans DEF Confirm, Running, Planning
  <2>2. /\ \A q \in Installers \ {j} : job'[q] = job[q]
        /\ job'[j].kind = k /\ job'[j].end = job[j].end /\ job'[j].phase = "plan"
        /\ job'[j].at = job[j].at + 1 /\ UNCHANGED <<place, backup, staging>>
    BY <1>1, <1>4, <2>1, TypesByPart DEF Confirm, Running, Planning, Jobs, installDisk
  <2>3. Onward(j)
    BY <2>1, <2>2 DEF Onward, Running, Planning
  <2>4. Copies(j)'
    BY <1>1, <1>2, <2>1, <2>2 DEF Copies, Checked, Running, Planning
  <2> QED
    BY <2>2, <2>3, <2>4, QuietStep
<1>5. CASE FetchArchive(j)
  <2>1. /\ Running(j, "fetch") /\ NextStage(j) /\ k \in Fetching
        /\ f = "plan" /\ ~(job[j].at + 1 > VerifyAt[k])
    BY <1>1, <1>5, Plans DEF FetchArchive, Running, Planning
  <2>2. UNCHANGED <<place, backup>> /\ \A q \in Installers \ {j} : staging'[q] = staging[q]
    BY <1>1, <1>5 DEF FetchArchive, DiskTyped
  <2> HIDE DEF f
  <2> QED
    BY <1>2, <1>3, <2>1, <2>2
<1>6. CASE VerifyArchive(j)
  <2>1. /\ Running(j, "verify") /\ NextStage(j) /\ k \in Fetching /\ staging[j].whole
        /\ UNCHANGED <<place, backup, staging>>
    BY <1>1, <1>6, Plans DEF VerifyArchive, Verified, Running, Planning, installDisk
  <2> HIDE DEF f
  <2> QED
    BY <1>2, <1>3, <2>1 DEF Copy
<1>7. CASE Build(j) \/ Preflight(j)
  <2>1. PICK stage \in {"build", "preflight"} :
           Running(j, stage) /\ NextStage(j) /\ UNCHANGED <<place, backup, staging>>
    BY <1>7 DEF Build, Preflight, installDisk
  <2>2. /\ k \in Fetching /\ VerifyAt[k] \in Nat /\ job[j].at # VerifyAt[k]
        /\ f = "activate" => job[j].at > VerifyAt[k]
    BY <1>1, <2>1, Plans DEF Running, Planning
  <2>3. Undropped /\ staging[j] # Absent /\ job[j].at > VerifyAt[k] => Copy(staging[j])
    BY <1>1, <2>1, <2>2 DEF Copies, Checked, Running, Planning
  <2>4. job[j].at + 1 > VerifyAt[k] => job[j].at > VerifyAt[k]
    BY <1>1, <2>2
  <2> HIDE DEF f
  <2> QED
    BY <1>2, <1>3, <2>1, <2>2, <2>3, <2>4 DEF Copy
<1>8. CASE Snapshot(j)
  <2>1. /\ Running(j, "snapshot") /\ NextStage(j) /\ k = "export"
        /\ UNCHANGED <<place, backup, staging>>
    BY <1>1, <1>8, Plans DEF Snapshot, Running, Planning
  <2>2. staging[j] # Absent => Copy(staging[j])
    BY <1>1, <2>1 DEF Copies, Running, Planning
  <2> HIDE DEF f
  <2> QED
    BY <1>2, <1>3, <2>1, <2>2 DEF Copy
<1>9. CASE Pack(j)
  <2>1. /\ Running(j, "pack") /\ NextStage(j) /\ k = "export" /\ UNCHANGED <<place, backup>>
        /\ staging'[j] = Archive /\ \A q \in Installers \ {j} : staging'[q] = staging[q]
    BY <1>1, <1>9, Plans DEF Pack, Running, Planning, DiskTyped
  <2>2. staging'[j] # Absent => Copy(staging[j])'
    BY <2>1 DEF Copy, Archive
  <2> HIDE DEF f
  <2> QED
    BY <1>2, <1>3, <2>1, <2>2
<1> QED
  BY <1>4, <1>5, <1>6, <1>7, <1>8, <1>9

\* Parking and putting back move the copy along; what lands is whole.
LEMMA ActivationKeepsCopies ==
    ASSUME ApprovedInv, FoundInv, CopiesInv, NEW j \in Installers,
           \/ StageFails(j) \/ Park(j) \/ ParkFails(j) \/ Land(j) \/ LandFails(j)
           \/ RollbackFails(j) \/ DropBackup(j) \/ Clean(j)
    PROVE  CopiesInv' /\ CopiesStay(j)
<1>0. PICK P \in Places : P = PlaceOf(j)
  BY DEF PlaceOf, Places
<1>1. /\ InstallTypeOK /\ DiskTyped /\ Copies(j) /\ InOrder(j) /\ job[j] \in Jobs
      /\ "runtime" # "export" /\ (P = "export" <=> job[j].kind = "export")
      /\ place["export"] # Absent => Copy(place["export"])
  BY <1>0, TypesByPart DEF ApprovedInv, JobSound, CopiesInv, PlaceOf, Places
<1>2. ASSUME Onward(j), job[j].end \in {"running", "dropped"}, Copies(j)',
             \A q \in Installers \ {j} : staging'[q] = staging[q] /\ backup'[q] = backup[q],
             \A p \in Places \ {P} : place'[p] = place[p],
             P = "export" /\ place'["export"] # Absent => Copy(place["export"])',
             Undropped => \/ Copy(place[P])'
                          \/ ~Copy(place[P]) /\ (Copy(backup[j]) => Copy(backup[j])')
                          \/ Copy(backup[j])'
      PROVE  CopiesInv' /\ CopiesStay(j)
  <2>1. place'["export"] # Absent => Copy(place["export"])'
    BY <1>1, <1>2 DEF Copy, Places
  <2>2. CopiesInv'
    BY <1>2, <2>1, OthersKeepCopies
  <2>3. ASSUME Undropped, NEW p \in Places, Kept(p) PROVE Kept(p)'
    BY <1>0, <1>2, <2>3, OneMoves
  <2> QED
    BY <2>2, <2>3 DEF CopiesStay
<1>3. ASSUME NEW end \in {"ok", "failed", "stranded"}, Give(j, end),
             job[j].end \in {"running", "dropped"}
      PROVE  /\ Onward(j) /\ job'[j].phase = "clean" /\ job'[j].kind = job[j].kind
             /\ Undropped' => Undropped
             /\ (job[j].kind = "export" /\ backup'[j] # Absent => Copy(backup[j])')
                  => Copies(j)'
  <2>1. PICK e \in Ends : Becomes(j, "clean", e) /\ (job[j].end = "dropped" => e = "dropped")
                          /\ e # "waiting"
    BY <1>1, <1>3, GiveEnds DEF Ends
  <2>2. Onward(j) /\ job'[j].phase = "clean" /\ job'[j].kind = job[j].kind
    BY <1>3, <2>1 DEF Becomes, Onward
  <2> QED
    BY <2>2 DEF Copies, Checked, Undropped, Onward
<1>4. ASSUME NEW end \in {"ok", "failed", "stranded"}, Give(j, end),
             job[j].end \in {"running", "dropped"}, UNCHANGED <<place, backup>>,
             \A q \in Installers \ {j} : staging'[q] = staging[q]
      PROVE  CopiesInv' /\ CopiesStay(j)
  <2>1. Copies(j)'
    BY <1>1, <1>3, <1>4 DEF Copies, Copy
  <2> QED
    BY <1>3, <1>4, <2>1, QuietStep
<1>5. CASE StageFails(j)
  <2>1. /\ Give(j, "failed") /\ job[j].end \in {"running", "dropped"}
        /\ UNCHANGED <<place, backup>> /\ \A q \in Installers \ {j} : staging'[q] = staging[q]
    BY <1>1, <1>5 DEF StageFails, Planning, DiskTyped
  <2> QED
    BY <1>4, <2>1
<1>6. CASE ParkFails(j) \/ RollbackFails(j)
  <2>1. PICK end \in {"failed", "stranded"} : Give(j, end)
    BY <1>6 DEF ParkFails, RollbackFails
  <2>2. job[j].end \in {"running", "dropped"} /\ UNCHANGED <<place, backup, staging>>
    BY <1>6 DEF ParkFails, RollbackFails, Alive, installDisk
  <2> QED
    BY <1>4, <2>1, <2>2
<1>7. CASE Park(j)
  <2>1. /\ job[j].phase = "activate" /\ job[j].end \in {"running", "dropped"}
        /\ backup[j] = Absent /\ Becomes(j, "parked", job[j].end)
    BY <1>1, <1>7, PhaseMoves DEF Park, Alive, Phases, Copies
  <2>2. /\ place'[P] = Absent /\ backup'[j] = place[P] /\ staging' = staging
        /\ \A q \in Installers \ {j} : backup'[q] = backup[q]
        /\ \A p \in Places \ {P} : place'[p] = place[p]
    BY <1>0, <1>1, <1>7 DEF Park, Parked, DiskTyped
  <2>3. Onward(j)
    BY <2>1 DEF Becomes, Onward
  <2>4. Undropped' => Undropped
    BY <2>3 DEF Undropped, Onward
  <2>5. P = "export" /\ backup'[j] # Absent => Copy(backup[j])'
    BY <1>1, <2>2 DEF Copy
  <2>6. Copies(j)'
    BY <1>1, <2>1, <2>2, <2>4, <2>5 DEF Copies, Checked, Becomes, Copy
  <2>7. (~Copy(place[P]) /\ ~Copy(backup[j])) \/ Copy(backup[j])'
    BY <2>1, <2>2 DEF Copy
  <2> QED
    BY <1>2, <2>1, <2>2, <2>3, <2>6, <2>7
<1>8. CASE Land(j)
  <2>1. /\ job[j].phase = "parked" /\ job[j].end \in {"running", "dropped"}
        /\ staging[j] # Absent /\ job[j].kind # "uninstall" /\ Becomes(j, "landed", job[j].end)
    BY <1>1, <1>8, PhaseMoves DEF Land, Alive, InOrder, Phases
  <2>2. /\ place'[P] = staging[j] /\ backup' = backup
        /\ \A q \in Installers \ {j} : staging'[q] = staging[q]
        /\ \A p \in Places \ {P} : place'[p] = place[p]
    BY <1>0, <1>1, <1>8 DEF Land, DiskTyped
  <2>3. Onward(j) /\ PlaceOf(j)' = P
    BY <1>0, <2>1 DEF Becomes, Onward, PlaceOf
  <2>4. Undropped' => Undropped
    BY <2>3 DEF Undropped, Onward
  <2>5. job[j].kind = "export" \/ Undropped => Copy(place[P])'
    <3>1. job[j].kind \in Fetching \cup {"export"}
      BY <1>1, <2>1, Plans
    <3>2. job[j].kind = "export" \/ Undropped => Copy(staging[j])
      BY <1>1, <2>1, <3>1 DEF Copies, Checked
    <3> QED
      BY <2>2, <3>2 DEF Copy
  <2>6. Copies(j)'
    BY <1>1, <2>1, <2>2, <2>3, <2>4, <2>5 DEF Copies, Checked, Becomes, Copy
  <2> QED
    BY <1>1, <1>2, <2>1, <2>2, <2>3, <2>5, <2>6
<1>9. CASE LandFails(j)
  <2>1. Give(j, "failed") /\ job[j].end \in {"running", "dropped"} /\ staging' = staging
    BY <1>9 DEF LandFails, Alive
  <2>2. CASE MayRollBack(j)
    <3>1. /\ place'[P] = backup[j] /\ backup'[j] = Absent /\ backup[j] # Absent
          /\ \A q \in Installers \ {j} : backup'[q] = backup[q]
          /\ \A p \in Places \ {P} : place'[p] = place[p]
      BY <1>0, <1>1, <1>9, <2>2 DEF LandFails, MayRollBack, DiskTyped
    <3>2. P = "runtime" => place[P] = Absent
      BY <1>0, <2>2 DEF MayRollBack
    <3>3. P = "export" => Copy(place[P])'
      BY <1>1, <3>1 DEF Copies, Copy
    <3>4. \/ Copy(place[P])'
          \/ ~Copy(place[P]) /\ (Copy(backup[j]) => Copy(backup[j])')
      BY <1>1, <3>1, <3>2, <3>3 DEF Copy, Places
    <3>5. Copies(j)' /\ Onward(j)
      BY <1>3, <2>1, <3>1
    <3> QED
      BY <1>2, <2>1, <3>1, <3>3, <3>4, <3>5
  <2>3. CASE ~MayRollBack(j)
    BY <1>4, <1>9, <2>1, <2>3 DEF LandFails
  <2> QED
    BY <2>2, <2>3
<1>10. CASE DropBackup(j)
  <2>1. PICK end \in {"ok", "failed"} : Give(j, end)
    BY <1>10 DEF DropBackup
  <2>2. /\ job[j].end \in {"running", "dropped"} /\ job[j].phase = "landed"
        /\ UNCHANGED <<place, staging>> /\ backup'[j] \in {backup[j], Absent}
        /\ \A q \in Installers \ {j} : backup'[q] = backup[q]
    BY <1>1, <1>10 DEF DropBackup, Alive, DiskTyped
  <2>3. Undropped => Copy(place[P])'
    BY <1>0, <1>1, <2>2 DEF Copies, Copy
  <2>4. job[j].kind = "export" /\ backup'[j] # Absent => Copy(backup[j])'
    BY <1>1, <2>2 DEF Copies, Copy
  <2>5. Copies(j)' /\ Onward(j)
    BY <1>3, <2>1, <2>2, <2>4
  <2>6. P = "export" /\ place'["export"] # Absent => Copy(place["export"])'
    BY <1>1, <2>2 DEF Copy
  <2> QED
    BY <1>2, <2>2, <2>3, <2>5, <2>6
<1>11. CASE Clean(j)
  <2>1. /\ job[j].end \in Ends /\ job[j].end # "waiting" /\ job[j].phase = "clean"
        /\ job' = [job EXCEPT ![j] = Over(j, "over", job[j].end)]
        /\ UNCHANGED <<place, backup>> /\ \A q \in Installers \ {j} : staging'[q] = staging[q]
    BY <1>1, <1>11 DEF Clean, Jobs, InOrder, Unstarted, DiskTyped
  <2>2. /\ job'[j].kind = job[j].kind /\ job'[j].phase = "over" /\ job'[j].end = job[j].end
        /\ \A q \in Installers \ {j} : job'[q] = job[q]
    BY <1>1, <2>1, OverIsOver, TypesByPart DEF Phases
  <2>3. Onward(j)
    BY <2>1, <2>2 DEF Onward
  <2>4. Copies(j)'
    BY <1>1, <2>1, <2>2 DEF Copies, Checked, Copy
  <2> QED
    BY <2>1, <2>2, <2>3, <2>4, QuietStep
<1> QED
  BY <1>5, <1>6, <1>7, <1>8, <1>9, <1>10, <1>11

\* An uninstall touches the runtime only, and the sweep no backup of an export.
LEMMA OtherStepsKeepCopies ==
    ASSUME ApprovedInv, FoundInv, CopiesInv, NEW j \in Installers,
           \/ BeginJob(j) \/ RemoveTree(j) \/ RemoveFails(j) \/ Forget(j) \/ ForgetFails(j)
           \/ DropJob(j) \/ Abandon(j) \/ SweepOld(j)
    PROVE  CopiesInv' /\ CopiesStay(j)
<1>1. /\ InstallTypeOK /\ DiskTyped /\ Copies(j) /\ InOrder(j) /\ job[j] \in Jobs
      /\ job \in [Installers -> Jobs] /\ "runtime" # "export"
      /\ place["export"] # Absent => Copy(place["export"])
  BY TypesByPart DEF ApprovedInv, JobSound, CopiesInv
<1>2. CASE BeginJob(j)
  <2>1. /\ job[j].phase = "plan" /\ job[j].end = "waiting" /\ staging[j] = Absent
        /\ UNCHANGED <<place, backup, staging>>
    BY <1>1, <1>2 DEF BeginJob, InOrder, Unstarted, installDisk
  <2>2. /\ \A q \in Installers \ {j} : job'[q] = job[q]
        /\ job'[j].phase \in {"plan", "removing"} /\ job'[j].end # "waiting"
    BY <1>1, <1>2 DEF BeginJob
  <2>3. Onward(j) /\ backup[j] = Absent
    BY <1>1, <2>1, <2>2 DEF Onward, Copies
  <2>4. Copies(j)'
    BY <2>1, <2>2, <2>3 DEF Copies
  <2> QED
    BY <2>1, <2>3, <2>4, QuietStep
<1>3. CASE RemoveTree(j)
  <2>1. /\ job[j].phase = "removing" /\ job[j].kind = "uninstall"
        /\ job[j].end \in {"running", "dropped"} /\ UNCHANGED <<backup, staging>>
        /\ place'["export"] = place["export"]
    BY <1>1, <1>3 DEF RemoveTree, Alive, InOrder, DiskTyped, Places
  <2>2. PICK phase \in {"over", "removed", "removing"} :
           /\ \A q \in Installers \ {j} : job'[q] = job[q]
           /\ job'[j].kind = job[j].kind /\ job'[j].end = job[j].end /\ job'[j].phase = phase
    <3>1. CASE job' = job
      BY <2>1, <3>1
    <3>2. CASE job' = [job EXCEPT ![j].phase =
                          IF job[j].end = "dropped" THEN "over" ELSE "removed"]
      BY <1>1, <3>2 DEF Jobs
    <3> QED
      BY <1>3, <3>1, <3>2 DEF RemoveTree
  <2>3. Onward(j) /\ Copies(j)' /\ PlaceOf(j) = "runtime"
    BY <2>1, <2>2 DEF Onward, Copies, Checked, Fetching, PlaceOf
  <2>4. CopiesInv'
    BY <1>1, <2>1, <2>3, OthersKeepCopies DEF Copy
  <2>5. ASSUME NEW p \in Places, Kept(p), p # "runtime" PROVE Kept(p)'
    BY <2>1, <2>3, <2>5, OneMoves DEF Places
  <2> QED
    BY <1>3, <2>4, <2>5 DEF CopiesStay
<1>4. CASE RemoveFails(j) \/ Forget(j) \/ ForgetFails(j)
  <2>1. PICK end \in {"ok", "failed"} : Give(j, end)
    BY <1>4 DEF RemoveFails, Forget, ForgetFails
  <2>2. /\ job[j].end # "waiting" /\ UNCHANGED <<place, backup, staging>>
        /\ job[j].kind = "uninstall"
    BY <1>1, <1>4 DEF RemoveFails, Forget, ForgetFails, Alive, MayForget, installDisk, InOrder
  <2>3. PICK e \in Ends : /\ e # "waiting" /\ Becomes(j, "clean", e)
                          /\ job[j].end = "dropped" => e = "dropped"
    BY <1>1, <2>1, <2>2, GiveEnds DEF Ends
  <2>4. Onward(j) /\ Copies(j)'
    BY <2>2, <2>3 DEF Becomes, Onward, Copies, Checked
  <2> QED
    BY <2>2, <2>3, <2>4, QuietStep DEF Becomes
<1>5. CASE DropJob(j)
  <2>1. /\ job[j].end = "running" /\ UNCHANGED <<place, backup, staging>>
        /\ \A q \in Installers \ {j} : job'[q] = job[q]
        /\ job'[j].kind = job[j].kind /\ job'[j].end = "dropped" /\ job'[j].at = job[j].at
        /\ job'[j].phase = job[j].phase \/ job'[j].phase = "over"
    BY <1>1, <1>5 DEF DropJob, Jobs, installDisk
  <2>2. Onward(j) /\ ~Undropped'
    BY <2>1 DEF Onward, Undropped
  <2>3. Copies(j)'
    BY <1>1, <2>1, <2>2 DEF Copies
  <2> QED
    BY <2>1, <2>2, <2>3, QuietStep
<1>6. CASE Abandon(j)
  <2>1. /\ job[j].end = "dropped" /\ job[j].kind # "export"
        /\ UNCHANGED <<place, backup, job>>
        /\ \A q \in Installers \ {j} : staging'[q] = staging[q]
    BY <1>1, <1>6 DEF Abandon, SweepsUp, DiskTyped
  <2>2. Onward(j) /\ ~Undropped'
    BY <2>1 DEF Onward, Undropped
  <2>3. Copies(j)'
    BY <1>1, <2>1, <2>2 DEF Copies
  <2> QED
    BY <2>1, <2>2, <2>3, QuietStep
<1>7. CASE SweepOld(j)
  <2>1. /\ job' = job /\ place' = place /\ staging'[j] = Absent /\ backup'[j] = Absent
        /\ \A q \in Installers \ {j} : staging'[q] = staging[q] /\ backup'[q] = backup[q]
        /\ job[j].phase \in {"over", "dead"} /\ PlaceOf(j) = "runtime"
    BY <1>1, <1>7 DEF SweepOld, Ended, DiskTyped
  <2>2. Onward(j) /\ Copies(j)' /\ job[j].end # "waiting"
    BY <1>1, <2>1 DEF Onward, Copies, Checked, InOrder, Unstarted
  <2>3. CopiesInv'
    BY <1>1, <2>1, <2>2, OthersKeepCopies DEF Copy
  <2>4. ASSUME NEW p \in Places, Kept(p), p # "runtime" PROVE Kept(p)'
    BY <2>1, <2>2, <2>4, OneMoves
  <2> QED
    BY <1>7, <2>3, <2>4 DEF CopiesStay
<1> QED
  BY <1>2, <1>3, <1>4, <1>5, <1>6, <1>7

\* A restart forgets the jobs, not what they had renamed away.
LEMMA RestartKeepsCopies ==
    ASSUME ApprovedInv, CopiesInv, KillAndRestart
    PROVE  CopiesInv' /\ \A p \in Places : Kept(p) => Kept(p)'
<1>1. /\ InstallTypeOK /\ UNCHANGED <<place, backup, staging>>
      /\ place["export"] # Absent => Copy(place["export"])
  BY DEF ApprovedInv, KillAndRestart, installDisk, CopiesInv
<1>2. ASSUME NEW j \in Installers
      PROVE  \/ job'[j] = job[j] /\ job[j].end = "waiting"
             \/ job'[j].kind = job[j].kind /\ job'[j].phase = "dead"
  <2> DEFINE e == IF job[j].end = "running" THEN "killed" ELSE job[j].end
  <2>1. e \in Ends /\ "dead" \in Phases
    BY <1>1 DEF InstallTypeOK, Ends, Phases
  <2>2. job'[j] = IF job[j].end = "waiting" THEN job[j] ELSE Over(j, "dead", e)
    BY DEF KillAndRestart
  <2> HIDE DEF e
  <2> QED
    BY <1>1, <2>1, <2>2, OverIsOver
<1>3. ASSUME NEW j \in Installers PROVE Copies(j)'
  <2>1. Copies(j) /\ (job[j].end = "waiting" => job[j] = Unstarted /\ staging[j] = Absent)
    BY DEF CopiesInv, ApprovedInv, JobSound, InOrder
  <2>2. Unstarted.phase = "plan" /\ Unstarted.kind = "release"
    BY DEF Unstarted
  <2> QED
    BY <1>1, <1>2, <2>1, <2>2 DEF Copies, Checked, Copy
<1>4. ASSUME NEW p \in Places, Kept(p) PROVE Kept(p)'
  BY <1>1, <1>2, <1>4, NothingMoves
<1> QED
  BY <1>1, <1>3, <1>4 DEF CopiesInv, Copy

\* Every step keeps the invariant, and every copy that it may not remove.
LEMMA CopiesInvKept ==
    ASSUME ApprovedInv, FoundInv, CopiesInv, [InstallNext]_installVars
    PROVE  /\ CopiesInv'
           /\ \A p \in Places : Undropped /\ Kept(p) /\ ~Kept(p)' =>
                 p = "runtime" /\ \E j \in Installers : RemoveTree(j) \/ SweepOld(j)
<1>1. CASE PushCommit \/ UNCHANGED installVars
  <2>1. UNCHANGED <<place, backup, staging, job>>
    BY <1>1 DEF PushCommit, installVars, installDisk
  <2>2. ASSUME NEW p \in Places, Kept(p) PROVE Kept(p)'
    BY <2>1, <2>2, NothingMoves
  <2>3. CopiesInv'
    BY <2>1 DEF CopiesInv, Copies, Checked, Copy, Undropped, PlaceOf
  <2> QED
    BY <2>2, <2>3
<1>2. CASE KillAndRestart
  BY <1>2, RestartKeepsCopies
<1>3. ASSUME NEW j \in Installers, CopiesInv' /\ CopiesStay(j)
      PROVE  /\ CopiesInv'
             /\ \A p \in Places : Undropped /\ Kept(p) /\ ~Kept(p)' =>
                   p = "runtime" /\ (RemoveTree(j) \/ SweepOld(j))
  BY <1>3 DEF CopiesStay
<1>4. CASE \E j \in Installers :
             \/ BeginJob(j) \/ Confirm(j) \/ FetchArchive(j) \/ VerifyArchive(j) \/ Build(j)
             \/ Preflight(j) \/ Snapshot(j) \/ Pack(j) \/ StageFails(j)
             \/ Park(j) \/ ParkFails(j) \/ Land(j) \/ LandFails(j) \/ RollbackFails(j)
             \/ DropBackup(j) \/ Clean(j)
             \/ RemoveTree(j) \/ RemoveFails(j) \/ Forget(j) \/ ForgetFails(j)
             \/ DropJob(j) \/ Abandon(j) \/ SweepOld(j)
  <2>1. PICK j \in Installers : CopiesInv' /\ CopiesStay(j)
    BY <1>4, PlanKeepsCopies, ActivationKeepsCopies, OtherStepsKeepCopies
  <2> QED
    BY <1>3, <2>1
<1> QED
  BY <1>1, <1>2, <1>4 DEF InstallNext

\* The invariant holds in every behaviour.
LEMMA CopiesInvAlways == InstallSpec => []CopiesInv
<1>1. InstallInit => CopiesInv
  <2> SUFFICES ASSUME InstallInit PROVE CopiesInv
    OBVIOUS
  <2>1. place["export"] # Absent => Copy(place["export"])
    <3>1. Copy(Archive) \/ Archive = Absent
      BY DEF Copy, Archive
    <3> QED
      BY <3>1 DEF InstallInit, Places, Copy
  <2>2. ASSUME NEW j \in Installers PROVE Copies(j)
    <3>1. job[j] = Unstarted /\ backup[j] = Absent /\ staging[j] = Absent
      BY DEF InstallInit
    <3>2. Unstarted.phase = "plan"
      BY DEF Unstarted
    <3> QED
      BY <3>1, <3>2 DEF Copies
  <2> QED
    BY <2>1, <2>2 DEF CopiesInv
<1> QED
  BY <1>1, CopiesInvKept, ApprovedInvAlways, FoundInvAlways, PTL DEF InstallSpec

-----------------------------------------------------------------------------
(* Theorems *)

\* Types: directories, staging directories and jobs stay what they are declared to be.
THEOREM InstallTypesKept == InstallSpec => []InstallTypeOK
<1>1. ApprovedInv => InstallTypeOK
  BY DEF ApprovedInv
<1> QED
  BY <1>1, ApprovedInvAlways, PTL

\* Whatever serves was approved and ran its preflight: replace_runtime puts nothing into
\* place, and rolls nothing back, that confirm_pull_request_head, the verification of the
\* archive and preflight_staged_runtime did not let through.
THEOREM ServesWhatWasApproved == InstallSpec => []ActiveIsApproved
<1>1. ApprovedInv => ActiveIsApproved
  BY DEF ApprovedInv, Approved, Disturbed, ActiveIsApproved
<1> QED
  BY <1>1, ApprovedInvAlways, PTL

\* An installation that reports a failure left in place what it found there, or says that
\* the rollback of replace_runtime failed too, and then the backup has it.
THEOREM FailureRestores == InstallSpec => []FailureKeepsOld
<1>1. ApprovedInv /\ FoundInv => FailureKeepsOld
  <2> SUFFICES ASSUME ApprovedInv, FoundInv, NEW j \in Installers,
                      installing = j, job[j].phase = "clean", Undropped,
                      job[j].kind \notin {"uninstall", "export"}
               PROVE  /\ job[j].end = "failed" => place["runtime"] = before
                      /\ job[j].end = "stranded" => backup[j] = before
    BY DEF FailureKeepsOld
  <2>1. job[j].kind \in Fetching
    BY Plans DEF ApprovedInv
  <2> QED
    BY <2>1 DEF FoundInv, Found
<1> QED
  BY <1>1, ApprovedInvAlways, FoundInvAlways, PTL

\* The last whole copy of a runtime goes with an uninstall or the sweep of a backup only,
\* whatever of replace_runtime fails; the last export never, whatever of export_bundle does.
THEOREM LastCopyIsKept == InstallSpec => LastCopyStays
<1>1. ASSUME NEW p \in Places
      PROVE  /\ WholeCopies(p) # {} <=> Kept(p)
             /\ WholeCopies(p)' # {} <=> Kept(p)'
  BY DEF WholeCopies, Kept, Copy
<1>2. ApprovedInv /\ FoundInv /\ CopiesInv /\ [InstallNext]_installVars =>
         [\A p \in Places :
             /\ Undropped
             /\ WholeCopies(p) # {} /\ WholeCopies(p)' = {}
             => /\ p = "runtime"
                /\ \E j \in Installers : RemoveTree(j) \/ SweepOld(j)]_installVars
  <2> SUFFICES ASSUME ApprovedInv, FoundInv, CopiesInv, [InstallNext]_installVars,
                      NEW p \in Places, Undropped,
                      WholeCopies(p) # {}, WholeCopies(p)' = {}
               PROVE  p = "runtime" /\ \E j \in Installers : RemoveTree(j) \/ SweepOld(j)
    OBVIOUS
  <2>1. Undropped /\ Kept(p) /\ ~Kept(p)'
    BY <1>1
  <2> QED
    BY <2>1, CopiesInvKept
<1> QED
  BY <1>2, ApprovedInvAlways, FoundInvAlways, CopiesInvAlways, PTL
     DEF InstallSpec, LastCopyStays
=============================================================================
