---------------------------- MODULE AppLifecycle ----------------------------
(***************************************************************************)
(* The model sessions inside the running application: resource jobs that   *)
(* must not run beside a loaded model, and the two ways the application    *)
(* closes.                                                                 *)
(*                                                                         *)
(*   install   rt_install, rt_install_pr, rt_uninstall, provider_install:  *)
(*             claim runtime_busy, hold the operation lock only to check   *)
(*             that nothing is loaded, then work for minutes without it    *)
(*   register  provider_register, provider_remove: claim runtime_busy and  *)
(*             hold the operation lock while working                       *)
(*   exclusive a benchmark, a download, a deep verification: take the      *)
(*             operation lock only if it is free and hold it throughout    *)
(*                                                                         *)
(*   quit      RunEvent::Exit: begin_normal_exit, then the cleanup         *)
(*   update    install_app_update: gate starts, run the same cleanup, spawn*)
(*             the installer; a failed spawn hands the gate back           *)
(***************************************************************************)
EXTENDS ModelSessions

CONSTANTS Jobs,     \* resource jobs in flight at one time
          JobKinds, \* the kinds of job an instance looks at
          Exits     \* the ways of closing an instance looks at

ASSUME JobsAssumption == /\ JobKinds \subseteq {"install", "register", "exclusive"}
                         /\ Jobs \cap (Starts \cup {None}) = {}
                         /\ Exits \subseteq {"quit", "update"}

VARIABLES
    job,        \* job[j]: where resource job j is, and its kind
    jobCancel,  \* jobCancel[k]: the cancel flag jobs of kind k poll
    exit,       \* exit[x]: the cleanup of way x, with the sessions still to do
    wasExiting, \* what the update's gate found in exiting
    normalExit  \* AppState.normal_exit

jobVars  == <<job, jobCancel>>
exitVars == <<exit, wasExiting, normalExit>>
allVars  == <<vars, jobVars, exitVars>>

AppTypeOK ==
    /\ TypeOK
    /\ operation \in Starts \cup Jobs \cup {None}
    /\ busy \in Jobs \cup {None}
    /\ job \in [Jobs -> [pc : {"idle", "claimed", "checked", "working"},
                         kind : {"install", "register", "exclusive"}]]
    /\ jobCancel \in [{"install", "exclusive"} -> BOOLEAN]
    /\ exit \in [Exits -> [pc : {"idle", "gated", "flagged", "swept", "tearing"},
                           todo : SUBSET Entries]]
    /\ wasExiting \in BOOLEAN
    /\ normalExit \in BOOLEAN

AppInit ==
    /\ Init
    /\ job = [j \in Jobs |-> [pc |-> "idle", kind |-> "exclusive"]]
    /\ jobCancel = [k \in {"install", "exclusive"} |-> FALSE]
    /\ exit = [x \in Exits |-> [pc |-> "idle", todo |-> {}]]
    /\ wasExiting = FALSE
    /\ normalExit = FALSE

-----------------------------------------------------------------------------
(* Resource jobs *)

\* runtime_resources_in_use
ResourcesInUse == \E e \in Tracked : BlocksResourceChange(sess[e])

\* The guards of job j are dropped.
Returned(j) == [job EXCEPT ![j].pc = "idle"]

\* RuntimeBusyGuard::acquire
Claim(j) ==
    /\ job[j].pc = "idle"
    /\ busy = None
    /\ busy' = j
    /\ \E k \in JobKinds \ {"exclusive"} :
          job' = [job EXCEPT ![j] = [pc |-> "claimed", kind |-> k]]
    /\ UNCHANGED <<sessionVars, exiting, closed, jobCancel, exitVars>>

\* The operation lock is granted to a claimed job: it is refused beside a loaded
\* model.  An install lets go of the lock again, clears its cancel flag and works;
\* a registration keeps the lock.  Neither looks at exiting.
Enter(j) ==
    /\ job[j].pc = "claimed"
    /\ operation = None
    /\ IF ResourcesInUse
       THEN /\ job' = Returned(j)
            /\ busy' = None
            /\ UNCHANGED <<operation, jobCancel>>
       ELSE /\ job' = [job EXCEPT ![j].pc = "working"]
            /\ operation' = IF job[j].kind = "register" THEN j ELSE None
            /\ jobCancel' = IF job[j].kind = "install"
                              THEN [jobCancel EXCEPT !["install"] = FALSE] ELSE jobCancel
            /\ UNCHANGED busy
    /\ UNCHANGED <<registryVars, startVars, cancelled, alive, stop, clientVars,
                   historyVars, exiting, closed, exitVars>>

\* try_lock and the admission checks of a benchmark, download or verification.
AdmissibleBesideInstall == ~exiting /\ ~ResourcesInUse
Admissible == ~exiting /\ busy = None /\ ~ResourcesInUse

TryEnter(j) ==
    /\ "exclusive" \in JobKinds
    /\ job[j].pc = "idle"
    /\ operation = None
    /\ Admissible
    /\ operation' = j
    /\ job' = [job EXCEPT ![j] = [pc |-> "checked", kind |-> "exclusive"]]
    /\ UNCHANGED <<registryVars, startVars, cancelled, alive, stop, clientVars,
                   historyVars, appVars, jobCancel, exitVars>>

\* The admitted job clears a previous cancellation and begins.
Begin(j) ==
    /\ job[j].pc = "checked"
    /\ job' = [job EXCEPT ![j].pc = "working"]
    /\ jobCancel' = [jobCancel EXCEPT !["exclusive"] = FALSE]
    /\ UNCHANGED <<vars, exitVars>>

\* rt_cancel, bench_cancel, hf_cancel, verify_cancel
CancelJob(k) ==
    /\ ~jobCancel[k]
    /\ jobCancel' = [jobCancel EXCEPT ![k] = TRUE]
    /\ UNCHANGED <<vars, job, exitVars>>

\* The job succeeded, failed or saw its cancel flag; its guards are dropped.
Done(j) ==
    /\ job[j].pc = "working"
    /\ job' = Returned(j)
    /\ operation' = IF operation = j THEN None ELSE operation
    /\ busy' = IF busy = j THEN None ELSE busy
    /\ UNCHANGED <<registryVars, startVars, cancelled, alive, stop, clientVars,
                   historyVars, exiting, closed, jobCancel, exitVars>>

-----------------------------------------------------------------------------
(* Closing *)

\* begin_normal_exit
GateQuit ==
    /\ "quit" \in Exits
    /\ exit["quit"].pc = "idle"
    /\ exit' = [exit EXCEPT !["quit"].pc = "gated"]
    /\ normalExit' = TRUE
    /\ exiting' = TRUE
    /\ UNCHANGED <<sessionVars, busy, closed, jobVars, wasExiting>>

\* gate_update_exiting, once the installer is verified
GateUpdate ==
    /\ "update" \in Exits
    /\ exit["update"].pc = "idle"
    /\ exit' = [exit EXCEPT !["update"].pc = "gated"]
    /\ wasExiting' = exiting
    /\ exiting' = TRUE
    /\ UNCHANGED <<sessionVars, busy, closed, jobVars, normalExit>>

\* shutdown_managed_processes raises every cancel flag ...
FlagAll(x) ==
    /\ exit[x].pc = "gated"
    /\ exit' = [exit EXCEPT ![x].pc = "flagged"]
    /\ cancelled' = cancelled \cup Registered
    /\ jobCancel' = [k \in DOMAIN jobCancel |-> TRUE]
    /\ UNCHANGED <<registryVars, startVars, operation, alive, stop, clientVars,
                   historyVars, appVars, job, wasExiting, normalExit>>

\* ... terminates every owned process tree and keeps new ones from living ...
Sweep(x) ==
    /\ exit[x].pc = "flagged"
    /\ exit' = [exit EXCEPT ![x].pc = "swept"]
    /\ closed' = TRUE
    /\ alive' = {}
    /\ UNCHANGED <<registryVars, startVars, cancelled, operation, stop, clientVars,
                   historyVars, exiting, busy, jobVars, wasExiting, normalExit>>

\* ... shuts the default session down and lists the others ...
ShutDefault(x) ==
    /\ exit[x].pc = "swept"
    /\ exit' = [exit EXCEPT ![x] = [pc |-> "tearing", todo |-> Tracked \ {Default}]]
    /\ sess' = [sess EXCEPT ![Default] = ShutDown(@)]
    /\ alive' = Killed(Default)
    /\ UNCHANGED <<registry, startVars, cancelled, operation, stop, clientVars,
                   historyVars, appVars, jobVars, wasExiting, normalExit>>

\* ... and each of those.
ShutNamed(x, e) ==
    /\ exit[x].pc = "tearing"
    /\ e \in exit[x].todo
    /\ exit' = [exit EXCEPT ![x].todo = @ \ {e}]
    /\ sess' = [sess EXCEPT ![e] = ShutDown(@)]
    /\ alive' = Killed(e)
    /\ UNCHANGED <<registry, startVars, cancelled, operation, stop, clientVars,
                   historyVars, appVars, jobVars, wasExiting, normalExit>>

CleanedUp(x) == exit[x].pc = "tearing" /\ exit[x].todo = {}

\* release_update_gate after the installer could not be spawned: the gate stays
\* if the application was exiting before or began to exit meanwhile.
GateKeptIfFound == wasExiting
GateKept == wasExiting \/ normalExit

UpdateFails ==
    /\ "update" \in Exits
    /\ CleanedUp("update")
    /\ exit' = [exit EXCEPT !["update"].pc = "idle"]
    /\ IF GateKept
       THEN UNCHANGED <<exiting, closed>>
       ELSE exiting' = FALSE /\ closed' = FALSE
    /\ UNCHANGED <<sessionVars, busy, jobVars, wasExiting, normalExit>>

-----------------------------------------------------------------------------
JobNext ==
    \/ \E j \in Jobs : Claim(j) \/ Enter(j) \/ TryEnter(j) \/ Begin(j) \/ Done(j)
    \/ \E k \in {"install", "exclusive"} \cap JobKinds : CancelJob(k)

ExitNext ==
    \/ GateQuit \/ GateUpdate \/ UpdateFails
    \/ \E x \in Exits : \/ FlagAll(x) \/ Sweep(x) \/ ShutDefault(x)
                        \/ \E e \in Entries : ShutNamed(x, e)

AppNext ==
    \/ SessionNext /\ UNCHANGED <<jobVars, exitVars>>
    \/ JobNext
    \/ ExitNext

AppSpec == AppInit /\ [][AppNext]_allVars

-----------------------------------------------------------------------------
(* Properties *)

Working == {j \in Jobs : job[j].pc = "working"}

\* A resource job never works beside a loading or loaded model, nor beside
\* another resource job, although the long jobs do not hold the operation lock.  A
\* session in the hands of an unload is excepted: the job's check no longer finds it.
ResourceExclusion ==
    /\ Working # {} => \A e \in Entries \ InHand : ~BlocksResourceChange(sess[e])
    /\ \A i, j \in Working : i = j

\* When the cleanup of an exit or of an update is done, no model process runs, no
\* session is loading or loaded but one an unload is about to retire, and nothing can
\* start one until the gate opens.
ExitLeavesNothing ==
    \A x \in Exits : CleanedUp(x) =>
        exiting /\ closed /\ alive = {}
        /\ \A e \in Entries \ InHand : ~BlocksResourceChange(sess[e])

\* A genuine exit is never taken back by a failing update.
ExitIsFinal == [][normalExit => normalExit' /\ exiting']_allVars

\* After the cleanup every resource job at work has been told to stop
\* (lib.rs:56: "cancel background work, synchronously").
CleanupCancelsJobs ==
    \A x \in Exits : CleanedUp(x) =>
        \A j \in Working : job[j].kind \in DOMAIN jobCancel => jobCancel[job[j].kind]

\* The sessions and the jobs implement exclusive use of the shared resources.
ResourceUseBySessions == INSTANCE ResourceUse WITH
    Models <- Entries, Workers <- Jobs,
    loaded <- {e \in Entries \ InHand : BlocksResourceChange(sess[e])},
    working <- Working
ImplementsResourceUse == ResourceUseBySessions!Spec
=============================================================================
