------------------------- MODULE AppLifecycleProofs -------------------------
(***************************************************************************)
(* What holds of the sessions inside the running application, for any      *)
(* number of starts, sessions, jobs and requests: the invariant of the     *)
(* sessions survives jobs and exits, a resource job has the runtimes and   *)
(* model files for itself, the application implements ResourceUse, and     *)
(* what the cleanup of an exit took down stays down.                       *)
(***************************************************************************)
EXTENDS AppLifecycle, ModelSessionsProofs

\* A job that has passed its checks, until its guards are dropped.
Admitted == {j \in Jobs : job[j].pc \in {"checked", "working"}}

\* What a job holds while it is claimed or admitted.
JobsHoldGuards ==
    \A j \in Jobs :
        /\ job[j].pc = "claimed" => job[j].kind # "exclusive"
        /\ job[j].pc = "checked" => job[j].kind = "exclusive"
        /\ job[j].pc \in {"claimed", "working"} /\ job[j].kind # "exclusive" => busy = j
        /\ j \in Admitted /\ job[j].kind # "install" => operation = j

\* An admitted job is alone: no other job, no start past its admission, no
\* loading or loaded model but what an unload is about to retire.
AdmittedAlone ==
    /\ \A i, j \in Admitted : i = j
    /\ Admitted # {} => /\ \A o \in Starts : pc[o] \notin Placing \cup Launching
                        /\ \A e \in Entries \ InHand : ~BlocksResourceChange(sess[e])

AppInv ==
    /\ AppTypeOK
    /\ SessionsInv
    /\ JobsHoldGuards
    /\ AdmittedAlone

-----------------------------------------------------------------------------
(* What a step of the sessions does to what the jobs rely on *)

LEMMA JobIdentities == \A j \in Jobs : j \notin Starts /\ j # None
  BY JobsAssumption

\* What blocks the resources after a step did so before it, and an unload that had it in
\* its hands still has.
StaysLoaded(e) == BlocksResourceChange(sess[e]) /\ (e \in InHand => e \in InHand')

\* Only a launch on its way makes a session block the resources.
LEMMA SessionsLoad ==
    ASSUME SessionsInv, SessionNext
    PROVE  \/ \A e \in Entries : BlocksResourceChange(sess'[e]) => StaysLoaded(e)
           \/ \E o \in Starts : /\ pc[o] \in Placing \cup Launching
                               /\ at[o] \in Entries /\ InHand' = InHand
                               /\ \A f \in Entries \ {at[o]} : sess'[f] = sess[f]
<1> DEFINE Goal ==
       \/ \A e \in Entries : BlocksResourceChange(sess'[e]) => StaysLoaded(e)
       \/ \E o \in Starts : /\ pc[o] \in Placing \cup Launching
                           /\ at[o] \in Entries /\ InHand' = InHand
                           /\ \A f \in Entries \ {at[o]} : sess'[f] = sess[f]
<1> USE Identities, ControlPoints
<1>1. TypeOK /\ SessionFacts /\ StartsHoldLock
  BY SessionsInvParts DEF SessionsInv
<1>0. UnloadsHold
  BY DEF SessionsInv
<1>2. ASSUME OnlyTakesDown PROVE Goal
  BY <1>2 DEF OnlyTakesDown, Untouched, TakenDown, FoundDead, BlocksResourceChange, StaysLoaded
<1>3. ASSUME sess' = sess, InHand' = InHand PROVE Goal
  BY <1>3 DEF StaysLoaded
<1>4. ASSUME NEW o \in Starts,
             \/ BeginLaunch(o) \/ Recheck(o) \/ ProbeFails(o) \/ SpawnFails(o) \/ Spawn(o)
             \/ Attach(o) \/ Confirm(o) \/ LoadFails(o) \/ Publish(o)
             \/ Abandon(o) /\ pc[o] \in Launching
      PROVE  Goal
  <2>1. /\ pc[o] \in {"tracked"} \cup Launching
        /\ \E l \in Launching \cup {"unwinding"} : LaunchMove(o, l)
    BY <1>1, <1>4, LaunchingMoves
  <2>2. at[o] \in Entries
    BY <1>1, <2>1 DEF StartsHoldLock
  <2> QED
    BY <2>1, <2>2 DEF LaunchMove, InHand
<1>5. ASSUME NEW o \in Starts, Finish(o) PROVE Goal
  <2>1. ASSUME NEW e \in Entries, BlocksResourceChange(sess'[e])
        PROVE  StaysLoaded(e)
    <3>1. sess[e] \in Server /\ o \in Launch
      BY <1>1 DEF TypeOK
    <3>2. sess'[e] = sess[e] \/ sess'[e] = Disowned(sess[e], o)
      BY <1>1, <1>5 DEF Finish, TypeOK
    <3>3. Disowned(sess[e], o) = sess[e] \/ Disowned(sess[e], o).life = "stopped"
      BY <3>1, DisownedTransition
    <3> QED
      BY <1>5, <2>1, <3>2, <3>3, StartsTakeNothing DEF BlocksResourceChange, StaysLoaded, StartStep
  <2> QED
    BY <2>1
<1>6. ASSUME NEW o \in Starts, StopForReplacement(o) PROVE Goal
  <2>1. pc[o] \in Placing
    BY <1>6 DEF StopForReplacement
  <2>2. ASSUME NEW e \in Entries, BlocksResourceChange(sess'[e])
        PROVE  StaysLoaded(e)
    <3>1. sess[e] \in Server
      BY <1>1 DEF TypeOK
    <3>2. sess'[e] = sess[e] \/ sess'[e] = TornDown(sess[e])
      BY <1>6 DEF StopForReplacement
    <3>3. TornDown(sess[e]).life = "stopped"
      BY <3>1, TeardownTransitions
    <3> QED
      BY <1>6, <2>2, <3>2, <3>3, StartsTakeNothing DEF BlocksResourceChange, StaysLoaded, StartStep
  <2> QED
    BY <2>2
<1>7. ASSUME NEW o \in Starts, Register(o) \/ StartStep(o) \/ Abandon(o) PROVE Goal
  <2>1. CASE Register(o) \/ Admit(o) \/ Validated(o) \/ Place(o) \/ Abandon(o)
    BY <1>3, <1>7, <2>1, StartsTakeNothing DEF Register, Admit, Validated, Place, Abandon, registryVars
  <2> QED
    BY <1>4, <1>5, <1>6, <1>7, <2>1 DEF StartStep
<1> QED
  <2>1. CASE \E o \in Starts : Register(o) \/ StartStep(o) \/ Abandon(o)
    BY <1>7, <2>1
  <2>2. CASE ~\E o \in Starts : Register(o) \/ StartStep(o) \/ Abandon(o)
    BY <1>0, <1>1, <1>2, <2>2, ClientsOnlyTakeDown DEF SessionNext
  <2> QED
    BY <2>1, <2>2

\* The operation lock stays, or a start takes it or gives it back.
LockPassed ==
    \/ operation' = operation
    \/ operation = None /\ operation' \in Starts
    \/ operation \in Starts /\ operation' = None

\* A start passes its admission only while no job holds the operation lock or the
\* busy flag, and leaves alone what a job holds.
LEMMA SessionsAdmit ==
    ASSUME SessionsInv, SessionNext
    PROVE  /\ UNCHANGED <<exiting, busy, closed>>
           /\ LockPassed
           /\ \A o \in Starts : pc'[o] \in Placing \cup Launching =>
                  \/ pc[o] \in Placing \cup Launching
                  \/ operation = None /\ busy = None
<1> DEFINE Goal ==
       /\ UNCHANGED <<exiting, busy, closed>>
       /\ LockPassed
       /\ \A o \in Starts : pc'[o] \in Placing \cup Launching =>
              \/ pc[o] \in Placing \cup Launching
              \/ operation = None /\ busy = None
<1> USE Identities, ControlPoints
<1>1. TypeOK /\ SessionFacts /\ StartsHoldLock
  BY SessionsInvParts DEF SessionsInv
<1>2. ASSUME NEW o \in Starts, NEW l \in Control, pc' = [pc EXCEPT ![o] = l],
             UNCHANGED <<exiting, busy, closed>>, LockPassed,
             \/ l \notin Placing \cup Launching
             \/ pc[o] \in Placing \cup Launching
             \/ operation = None /\ busy = None
      PROVE  Goal
  BY <1>1, <1>2 DEF TypeOK
<1>3. ASSUME NEW o \in Starts, Admit(o) PROVE Goal
  <2>1. \/ pc' = [pc EXCEPT ![o] = "unwinding"]
        \/ pc' = [pc EXCEPT ![o] = "validating"] /\ busy = None
    BY <1>3 DEF Admit, Goto, LaunchAllowed
  <2>2. LockPassed /\ operation = None /\ UNCHANGED <<exiting, busy, closed>>
    BY <1>3 DEF Admit, appVars, LockPassed
  <2> QED
    BY <1>2, <2>1, <2>2
<1>4. ASSUME NEW o \in Starts, Register(o) \/ Abandon(o) \/ Finish(o) PROVE Goal
  <2>1. pc' = [pc EXCEPT ![o] = "queued"] \/ pc' = [pc EXCEPT ![o] = "unwinding"]
        \/ pc' = [pc EXCEPT ![o] = "done"]
    BY <1>4 DEF Register, Abandon, Finish, Goto
  <2>2. LockPassed
    BY <1>4 DEF Register, Abandon, Finish, OperationFreed, LockPassed
  <2>3. UNCHANGED <<exiting, busy, closed>>
    BY <1>4 DEF Register, Abandon, Finish, appVars
  <2> QED
    BY <1>2, <2>1, <2>2, <2>3
<1>5. ASSUME NEW o \in Starts,
             Validated(o) \/ StopForReplacement(o) \/ Place(o) \/ BeginLaunch(o) \/ Recheck(o)
             \/ ProbeFails(o) \/ SpawnFails(o) \/ Spawn(o)
      PROVE  Goal
  <2>1. pc[o] \in Placing \cup Launching
    BY <1>5 DEF Validated, StopForReplacement, Place, BeginLaunch, Recheck, ProbeFails,
                SpawnFails, Spawn
  <2>2. PICK l \in Control : pc' = [pc EXCEPT ![o] = l]
    BY <1>5 DEF Validated, StopForReplacement, Place, BeginLaunch, Recheck, ProbeFails,
                SpawnFails, Spawn, Goto
  <2>3. LockPassed /\ UNCHANGED <<exiting, busy, closed>>
    BY <1>5 DEF Validated, StopForReplacement, Place, BeginLaunch, Recheck, ProbeFails,
                SpawnFails, Spawn, appVars, LockPassed
  <2> QED
    BY <1>2, <2>1, <2>2, <2>3
<1>6. ASSUME NEW o \in Starts, Attach(o) \/ Confirm(o) \/ LoadFails(o) \/ Publish(o)
      PROVE  Goal
  <2>1. pc[o] \in Launching
    BY <1>6 DEF Attach, Confirm, LoadFails, Publish
  <2>2. PICK l \in Control : pc' = [pc EXCEPT ![o] = l]
    BY <1>6 DEF Attach, Confirm, LoadFails, Publish, Goto
  <2>3. LockPassed /\ UNCHANGED <<exiting, busy, closed>>
    BY <1>6 DEF Attach, Confirm, LoadFails, Publish, appVars, LockPassed
  <2> QED
    BY <1>2, <2>1, <2>2, <2>3
<1>7. ASSUME \/ \E w \in Stoppers : StopStep(w)
             \/ \E e \in Entries : IdleUnload(e) \/ Reap(e)
             \/ \E r \in Requests : PickLease(r) \/ BeginLease(r) \/ DropLease(r)
             \/ \E c \in Chats : ChatBegins(c) \/ ChatEnds(c)
             \/ \E o \in Starts : Crash(o)
      PROVE  Goal
  <2>1. UNCHANGED <<exiting, busy, closed>>
    BY <1>7 DEF StopStep, StopRequest, StopTeardown, Forget, Retire, CancelForgotten, IdleUnload,
                Reap, PickLease, BeginLease,
                DropLease, ChatBegins, ChatEnds, Crash, appVars
  <2>2. UNCHANGED <<pc, operation>>
    BY <1>1, <1>7, ClientsOnlyTakeDown DEF SessionsInv
  <2> QED
    BY <2>1, <2>2 DEF LockPassed
<1> QED
  BY <1>3, <1>4, <1>5, <1>6, <1>7 DEF SessionNext, StartStep

-----------------------------------------------------------------------------
(* Jobs and exits keep the invariant of the sessions *)

\* A step that changes flags and locks only, and takes the operation lock from no
\* start.
LEMMA FlagsKeepSessions ==
    ASSUME SessionsInv, operation \in Starts => operation' = operation,
           UNCHANGED <<registryVars, startVars, alive, stop, clientVars, historyVars>>,
           cancelled' \in SUBSET Starts, exiting' \in BOOLEAN, closed' \in BOOLEAN
    PROVE  SessionsInv'
<1> USE Identities
<1>1. TypeOK /\ SessionFacts
  BY SessionsInvParts
<1>2. UNCHANGED <<sess, registry, pc, sid, policy, at, alive, stop, lease, chat,
                  overtaken, superseded>>
  BY DEF registryVars, startVars, clientVars, historyVars
<1>3. TypeOK'
  BY <1>1, <1>2 DEF TypeOK
<1>4. SessionFacts'
  BY <1>1, <1>2 DEF SessionFacts, StartsHoldLock, CurrentLaunchStarts, StartingIsLaunched,
     RetiredStaysIdle, LoadedIsHeld, ReadyIsOneLaunch, NoOrphanProcess, Held, Tracked, InHand
<1>5. StartsHoldLock' /\ CurrentLaunchStarts' /\ StartingIsLaunched' /\ RetiredStaysIdle'
      /\ LoadedIsHeld' /\ ReadyIsOneLaunch' /\ NoOrphanProcess'
  BY <1>4 DEF SessionFacts
<1> QED
  BY <1>1, <1>2, <1>3, <1>5, UnloadsStayHeld DEF SessionsInv

\* A session that is shut down by an exit.
LEMMA ShutDownKeepsSessions ==
    ASSUME SessionsInv, NEW e \in Entries, sess' = [sess EXCEPT ![e] = ShutDown(@)],
           alive' = Killed(e),
           UNCHANGED <<registry, startVars, cancelled, operation, stop, clientVars,
                       historyVars, appVars>>
    PROVE  /\ SessionsInv'
           /\ \A f \in Entries : BlocksResourceChange(sess'[f]) => StaysLoaded(f)
<1> USE Identities
<1>1. TypeOK /\ SessionFacts /\ sess[e] \in Server /\ None \notin alive
  BY SessionsInvParts DEF TypeOK
<1>2. UNCHANGED <<registry, pc, sid, policy, at, cancelled, operation, stop, lease, chat,
                  overtaken, superseded, exiting, busy, closed>>
  BY DEF startVars, clientVars, historyVars, appVars
<1>3. ShutDown(sess[e]) \in Server
  BY <1>1, TransitionsTyped
<1>4. ShutDown(sess[e]).life = "stopped" /\ ShutDown(sess[e]).launch = None
      /\ ShutDown(sess[e]).child = None /\ ShutDown(sess[e]).retired = sess[e].retired
  BY <1>1, TeardownTransitions
<1>5. sess'[e] = ShutDown(sess[e]) /\ \A f \in Entries \ {e} : sess'[f] = sess[f]
  BY <1>1 DEF TypeOK
<1>6. TypeOK'
  BY <1>1, <1>2, <1>3 DEF TypeOK, Killed
<1>7. TakenDown(e) /\ \A f \in Entries \ {e} : Untouched(f)
  BY <1>4, <1>5 DEF TakenDown, Untouched
<1>8. OnlyTakesDown
  BY <1>1, <1>2, <1>5, <1>7 DEF OnlyTakesDown, Killed, Tracked, InHand
<1>9. SessionFacts'
  BY <1>1, <1>2, <1>8, TakingDownKeepsFacts DEF Killed
<1>10. StartsHoldLock' /\ CurrentLaunchStarts' /\ StartingIsLaunched' /\ RetiredStaysIdle'
       /\ LoadedIsHeld' /\ ReadyIsOneLaunch' /\ NoOrphanProcess'
  BY <1>9 DEF SessionFacts
<1> QED
  BY <1>1, <1>2, <1>4, <1>5, <1>6, <1>10, UnloadsStayHeld
     DEF SessionsInv, BlocksResourceChange, StaysLoaded, InHand

\* Every step of a job or an exit.
LEMMA JobsKeepSessions ==
    ASSUME SessionsInv, AppTypeOK, JobNext
    PROVE  SessionsInv' /\ UNCHANGED <<sess, pc, stop>>
<1> USE JobIdentities
<1>1. TypeOK
  BY SessionsInvParts
<1>2. ASSUME NEW j \in Jobs, Claim(j) \/ Begin(j)
      PROVE  SessionsInv' /\ UNCHANGED <<sess, pc, stop>>
  BY <1>1, <1>2, FlagsKeepSessions
     DEF Claim, Begin, vars, sessionVars, appVars, registryVars, startVars, TypeOK
<1>3. ASSUME NEW j \in Jobs, Enter(j) \/ TryEnter(j) \/ Done(j)
      PROVE  SessionsInv' /\ UNCHANGED <<sess, pc, stop>>
  <2>1. operation \in Starts => operation' = operation
    BY <1>3, Identities DEF Enter, TryEnter, Done
  <2>2. /\ UNCHANGED <<registryVars, startVars, alive, stop, clientVars, historyVars>>
        /\ UNCHANGED <<cancelled, exiting, closed>>
    BY <1>3 DEF Enter, TryEnter, Done, appVars
  <2> QED
    BY <1>1, <2>1, <2>2, FlagsKeepSessions DEF registryVars, startVars, TypeOK
<1>4. ASSUME NEW k, CancelJob(k)
      PROVE  SessionsInv' /\ UNCHANGED <<sess, pc, stop>>
  BY <1>1, <1>4, FlagsKeepSessions
     DEF CancelJob, vars, sessionVars, appVars, registryVars, startVars, TypeOK
<1> QED
  BY <1>2, <1>3, <1>4 DEF JobNext

LEMMA ExitsKeepSessions ==
    ASSUME SessionsInv, AppTypeOK, ExitNext
    PROVE  /\ SessionsInv' /\ UNCHANGED <<pc, operation, busy, job>>
           /\ \A f \in Entries : BlocksResourceChange(sess'[f]) => StaysLoaded(f)
<1> DEFINE Goal ==
       /\ SessionsInv' /\ UNCHANGED <<pc, operation, busy, job>>
       /\ \A f \in Entries : BlocksResourceChange(sess'[f]) => StaysLoaded(f)
<1> USE Identities
<1>1. TypeOK /\ SessionFacts
  BY SessionsInvParts
<1>2. ASSUME GateQuit \/ GateUpdate \/ UpdateFails PROVE Goal
  <2>1. /\ UNCHANGED <<sessionVars, busy, job>>
        /\ exiting' \in BOOLEAN /\ closed' \in BOOLEAN
    BY <1>1, <1>2 DEF GateQuit, GateUpdate, UpdateFails, TypeOK, jobVars
  <2>2. /\ UNCHANGED <<registryVars, startVars, alive, stop, clientVars, historyVars>>
        /\ UNCHANGED <<sess, stop, pc, operation, cancelled, busy, job>>
    BY <2>1 DEF sessionVars, registryVars, startVars
  <2> QED
    BY <1>1, <2>1, <2>2, FlagsKeepSessions DEF TypeOK, StaysLoaded, InHand
<1>3. ASSUME NEW x \in Exits, FlagAll(x) PROVE Goal
  <2>1. /\ UNCHANGED <<registryVars, startVars, alive, stop, clientVars, historyVars>>
        /\ UNCHANGED <<sess, stop, pc, operation, busy, job, exiting, closed>>
        /\ cancelled' \in SUBSET Starts
    BY <1>1, <1>3 DEF FlagAll, registryVars, startVars, appVars, TypeOK, Registered
  <2> QED
    BY <1>1, <2>1, FlagsKeepSessions DEF TypeOK, StaysLoaded, InHand
<1>4. ASSUME NEW x \in Exits, Sweep(x) PROVE Goal
  <2>1. /\ UNCHANGED <<sess, registry, pc, sid, policy, at, cancelled, operation, stop, lease,
                       chat, overtaken, superseded, exiting, busy, job>>
        /\ alive' = {} /\ closed' = TRUE
    BY <1>4 DEF Sweep, registryVars, startVars, clientVars, historyVars, jobVars
  <2>2. TypeOK'
    BY <1>1, <2>1 DEF TypeOK
  <2>3. OnlyTakesDown
    BY <2>1 DEF OnlyTakesDown, Untouched, Tracked, InHand
  <2>4. SessionFacts'
    BY <1>1, <2>1, <2>3, TakingDownKeepsFacts
  <2> QED
    BY <1>1, <2>1, <2>2, <2>4, UnloadsStayHeld DEF SessionFacts, SessionsInv, StaysLoaded, InHand
<1>5. ASSUME NEW x \in Exits, NEW e \in Entries,
             (ShutDefault(x) /\ e = Default) \/ ShutNamed(x, e)
      PROVE  Goal
  <2>1. /\ sess' = [sess EXCEPT ![e] = ShutDown(@)] /\ alive' = Killed(e)
        /\ UNCHANGED <<registry, startVars, cancelled, operation, stop, clientVars,
                       historyVars, appVars, jobVars>>
    BY <1>5 DEF ShutDefault, ShutNamed
  <2> QED
    BY <2>1, ShutDownKeepsSessions DEF startVars, appVars, jobVars
<1> QED
  BY <1>2, <1>3, <1>4, <1>5 DEF ExitNext

-----------------------------------------------------------------------------
(* The invariant of the application *)

\* What the jobs and the exits are is well typed.
LEMMA AppTypes ==
    ASSUME AppTypeOK, TypeOK', AppNext, SessionsInv
    PROVE  AppTypeOK'
<1> USE JobIdentities
<1> DEFINE JobType == [pc : {"idle", "claimed", "checked", "working"},
                       kind : {"install", "register", "exclusive"}]
           ExitType == [pc : {"idle", "gated", "flagged", "swept", "tearing"},
                        todo : SUBSET Entries]
<1>1. CASE SessionNext /\ UNCHANGED <<jobVars, exitVars>>
  <2>1. LockPassed /\ busy' = busy
    BY <1>1, SessionsAdmit
  <2> QED
    BY <1>1, <2>1 DEF AppTypeOK, LockPassed, jobVars, exitVars
<1>2. CASE JobNext
  <2>1. UNCHANGED exitVars
    BY <1>2 DEF JobNext, Claim, Enter, TryEnter, Begin, Done, CancelJob
  <2>2. ASSUME NEW j \in Jobs, Claim(j) \/ Enter(j) \/ TryEnter(j) \/ Begin(j) \/ Done(j)
        PROVE  /\ operation' \in Starts \cup Jobs \cup {None} /\ busy' \in Jobs \cup {None}
               /\ job' \in [Jobs -> JobType]
               /\ jobCancel' \in [{"install", "exclusive"} -> BOOLEAN]
    <3>1. CASE Claim(j)
      BY <3>1, JobsAssumption DEF Claim, AppTypeOK, sessionVars
    <3>2. CASE Enter(j)
      <4>1. CASE ResourcesInUse
        BY <3>2, <4>1 DEF Enter, AppTypeOK, Returned
      <4>2. CASE ~ResourcesInUse
        <5>1. operation' \in {j, None} /\ busy' = busy /\ job' = [job EXCEPT ![j].pc = "working"]
          BY <3>2, <4>2 DEF Enter
        <5>2. jobCancel' = [jobCancel EXCEPT !["install"] = FALSE] \/ jobCancel' = jobCancel
          BY <3>2, <4>2 DEF Enter
        <5> QED
          BY <5>1, <5>2 DEF AppTypeOK
      <4> QED
        BY <4>1, <4>2
    <3>3. CASE TryEnter(j)
      BY <3>3 DEF TryEnter, AppTypeOK, appVars
    <3>4. CASE Begin(j)
      BY <3>4 DEF Begin, AppTypeOK, vars, sessionVars, appVars
    <3>5. CASE Done(j)
      BY <3>5 DEF Done, AppTypeOK, Returned
    <3> QED
      BY <2>2, <3>1, <3>2, <3>3, <3>4, <3>5
  <2>3. ASSUME NEW k \in {"install", "exclusive"} \cap JobKinds, CancelJob(k)
        PROVE  /\ operation' \in Starts \cup Jobs \cup {None} /\ busy' \in Jobs \cup {None}
               /\ job' \in [Jobs -> JobType]
               /\ jobCancel' \in [{"install", "exclusive"} -> BOOLEAN]
    BY <2>3 DEF CancelJob, AppTypeOK, vars, sessionVars, appVars
  <2> QED
    BY <1>2, <2>1, <2>2, <2>3 DEF JobNext, AppTypeOK, exitVars
<1>3. CASE ExitNext
  <2>1. UNCHANGED <<operation, busy, job>>
    BY <1>3, ExitsKeepSessions
  <2>2. jobCancel' \in [{"install", "exclusive"} -> BOOLEAN]
    BY <1>3 DEF ExitNext, GateQuit, GateUpdate, UpdateFails, FlagAll, Sweep, ShutDefault,
                ShutNamed, jobVars, AppTypeOK
  <2>3. wasExiting' \in BOOLEAN /\ normalExit' \in BOOLEAN
    BY <1>3 DEF ExitNext, GateQuit, GateUpdate, UpdateFails, FlagAll, Sweep, ShutDefault,
                ShutNamed, AppTypeOK, TypeOK
  <2>4. exit' \in [Exits -> ExitType]
    <3>1. CASE GateQuit \/ GateUpdate \/ UpdateFails
      <4>1. \E x \in Exits, l \in {"gated", "idle"} : exit' = [exit EXCEPT ![x].pc = l]
        BY <3>1 DEF GateQuit, GateUpdate, UpdateFails
      <4> QED
        BY <4>1 DEF AppTypeOK
    <3>2. ASSUME NEW x \in Exits, FlagAll(x) \/ Sweep(x) PROVE exit' \in [Exits -> ExitType]
      <4>1. \E l \in {"flagged", "swept"} : exit' = [exit EXCEPT ![x].pc = l]
        BY <3>2 DEF FlagAll, Sweep
      <4> QED
        BY <4>1 DEF AppTypeOK
    <3>3. ASSUME NEW x \in Exits, ShutDefault(x) PROVE exit' \in [Exits -> ExitType]
      BY <3>3, TrackedAreEntries DEF ShutDefault, AppTypeOK
    <3>4. ASSUME NEW x \in Exits, NEW e \in Entries, ShutNamed(x, e)
          PROVE  exit' \in [Exits -> ExitType]
      BY <3>4 DEF ShutNamed, AppTypeOK
    <3> QED
      BY <1>3, <3>1, <3>2, <3>3, <3>4 DEF ExitNext
  <2> QED
    BY <2>1, <2>2, <2>3, <2>4 DEF AppTypeOK
<1> QED
  BY <1>1, <1>2, <1>3 DEF AppNext

\* A step of the sessions beside the jobs.
LEMMA SessionsBesideJobs ==
    ASSUME AppInv, SessionNext, UNCHANGED <<jobVars, exitVars>>
    PROVE  JobsHoldGuards' /\ AdmittedAlone'
<1>1. UNCHANGED <<job, busy>> /\ LockPassed /\ Admitted' = Admitted
  BY SessionsAdmit DEF AppInv, jobVars, Admitted
<1>2. JobsHoldGuards'
  BY <1>1, JobIdentities DEF AppInv, JobsHoldGuards, LockPassed
<1>3. ASSUME NEW j \in Admitted
      PROVE  /\ \A o \in Starts : pc'[o] \notin Placing \cup Launching
             /\ \A e \in Entries \ InHand' : ~BlocksResourceChange(sess'[e])
  <2>1. j \in Jobs /\ (operation = j \/ busy = j)
    BY <1>3 DEF AppInv, JobsHoldGuards, Admitted
  <2>2. operation # None \/ busy # None
    BY <2>1, JobIdentities
  <2>3. /\ \A o \in Starts : pc[o] \notin Placing \cup Launching
        /\ \A e \in Entries \ InHand : ~BlocksResourceChange(sess[e])
    BY <1>3 DEF AppInv, AdmittedAlone
  <2>4. \A o \in Starts : pc'[o] \notin Placing \cup Launching
    BY <2>2, <2>3, SessionsAdmit DEF AppInv
  <2> QED
    BY <2>3, <2>4, SessionsLoad DEF AppInv, StaysLoaded
<1>4. AdmittedAlone'
  BY <1>1, <1>3 DEF AppInv, AdmittedAlone
<1> QED
  BY <1>2, <1>4

\* A step of a job: it is admitted under a free operation lock, so that no start
\* is past its admission, and beside no loaded model and no other job.
LEMMA JobsBesideSessions ==
    ASSUME AppInv, JobNext
    PROVE  JobsHoldGuards' /\ AdmittedAlone'
<1> USE JobIdentities
<1>1. sess' = sess /\ pc' = pc /\ InHand' = InHand
  BY JobsKeepSessions DEF AppInv, InHand
\* an admission under a free lock
<1>2. ASSUME NEW j \in Jobs, operation = None, ~ResourcesInUse,
             busy = None \/ job[j].pc = "claimed"
      PROVE  /\ \A i \in Admitted : FALSE
             /\ \A o \in Starts : pc[o] \notin Placing \cup Launching
             /\ \A e \in Entries \ InHand : ~BlocksResourceChange(sess[e])
  <2>1. ASSUME NEW i \in Admitted PROVE FALSE
    <3>1. i \in Jobs /\ job[i].kind = "install" /\ job[i].pc = "working" /\ busy = i
      BY <1>2, <2>1 DEF AppInv, JobsHoldGuards, Admitted
    <3>2. job[j].pc = "claimed" /\ busy = j
      BY <1>2, <3>1 DEF AppInv, JobsHoldGuards
    <3> QED
      BY <3>1, <3>2
  <2>2. \A o \in Starts : pc[o] \notin Placing \cup Launching
    BY <1>2, Identities DEF AppInv, SessionsInv, StartsHoldLock
  <2>3. \A e \in Entries \ InHand : ~BlocksResourceChange(sess[e])
    BY <1>2 DEF AppInv, SessionsInv, LoadedIsHeld, Held, ResourcesInUse
  <2> QED
    BY <2>1, <2>2, <2>3
<1>3. ASSUME NEW j \in Jobs, Claim(j) PROVE JobsHoldGuards' /\ AdmittedAlone'
  <2>1. PICK k \in {"install", "register"} : job' = [job EXCEPT ![j] = [pc |-> "claimed", kind |-> k]]
    BY <1>3, JobsAssumption DEF Claim
  <2>2. /\ job'[j] = [pc |-> "claimed", kind |-> k] /\ \A i \in Jobs \ {j} : job'[i] = job[i]
        /\ busy = None /\ busy' = j /\ operation' = operation /\ job[j].pc = "idle"
    BY <1>3, <2>1 DEF Claim, sessionVars, AppInv, AppTypeOK
  <2>3. Admitted' = Admitted
    BY <2>2 DEF Admitted
  <2>4. JobsHoldGuards'
    BY <2>2, <2>3 DEF AppInv, JobsHoldGuards, Admitted
  <2> QED
    BY <1>1, <2>3, <2>4 DEF AppInv, AdmittedAlone
<1>4. ASSUME NEW j \in Jobs, Enter(j) PROVE JobsHoldGuards' /\ AdmittedAlone'
  <2>1. job[j].pc = "claimed" /\ operation = None /\ busy = j /\ job[j].kind # "exclusive"
    BY <1>4 DEF Enter, AppInv, JobsHoldGuards
  <2>2. CASE ResourcesInUse
    <3>1. /\ job'[j].pc = "idle" /\ \A i \in Jobs \ {j} : job'[i] = job[i]
          /\ operation' = operation
      BY <1>4, <2>2 DEF Enter, Returned, AppInv, AppTypeOK
    <3>2. Admitted' = Admitted
      BY <2>1, <3>1 DEF Admitted
    <3>3. JobsHoldGuards'
      BY <2>1, <3>1, <3>2 DEF AppInv, JobsHoldGuards, Admitted
    <3> QED
      BY <1>1, <3>2, <3>3 DEF AppInv, AdmittedAlone
  <2>3. CASE ~ResourcesInUse
    <3>1. /\ job'[j].pc = "working" /\ job'[j].kind = job[j].kind
          /\ \A i \in Jobs \ {j} : job'[i] = job[i]
          /\ operation' = IF job[j].kind = "register" THEN j ELSE None
          /\ busy' = busy
      BY <1>4, <2>3 DEF Enter, AppInv, AppTypeOK
    <3>2. /\ Admitted = {}
          /\ \A o \in Starts : pc[o] \notin Placing \cup Launching
          /\ \A e \in Entries \ InHand : ~BlocksResourceChange(sess[e])
      BY <1>2, <2>1, <2>3
    <3>3. Admitted' = {j}
      BY <3>1, <3>2 DEF Admitted
    <3>4. job[j].kind \in {"install", "register", "exclusive"}
      BY DEF AppInv, AppTypeOK
    <3>5. JobsHoldGuards'
      BY <2>1, <3>1, <3>3, <3>4 DEF AppInv, JobsHoldGuards
    <3> QED
      BY <1>1, <3>2, <3>3, <3>5 DEF AdmittedAlone
  <2> QED
    BY <2>2, <2>3
<1>5. ASSUME NEW j \in Jobs, TryEnter(j) PROVE JobsHoldGuards' /\ AdmittedAlone'
  <2>1. /\ job'[j] = [pc |-> "checked", kind |-> "exclusive"]
        /\ \A i \in Jobs \ {j} : job'[i] = job[i]
        /\ operation = None /\ operation' = j /\ busy = None /\ busy' = busy /\ ~ResourcesInUse
    BY <1>5 DEF TryEnter, Admissible, appVars, AppInv, AppTypeOK
  <2>2. /\ Admitted = {}
        /\ \A o \in Starts : pc[o] \notin Placing \cup Launching
        /\ \A e \in Entries \ InHand : ~BlocksResourceChange(sess[e])
    BY <1>2, <2>1
  <2>3. Admitted' = {j}
    BY <2>1, <2>2 DEF Admitted
  <2>4. JobsHoldGuards'
    BY <2>1, <2>3 DEF AppInv, JobsHoldGuards
  <2> QED
    BY <1>1, <2>2, <2>3, <2>4 DEF AdmittedAlone
<1>6. ASSUME NEW j \in Jobs, Begin(j) PROVE JobsHoldGuards' /\ AdmittedAlone'
  <2>1. /\ job[j].pc = "checked" /\ job'[j].pc = "working" /\ job'[j].kind = job[j].kind
        /\ \A i \in Jobs \ {j} : job'[i] = job[i]
        /\ operation' = operation /\ busy' = busy
    BY <1>6 DEF Begin, vars, sessionVars, appVars, AppInv, AppTypeOK
  <2>2. Admitted' = Admitted
    BY <2>1 DEF Admitted
  <2>3. JobsHoldGuards'
    BY <2>1, <2>2 DEF AppInv, JobsHoldGuards, Admitted
  <2> QED
    BY <1>1, <2>2, <2>3 DEF AppInv, AdmittedAlone
<1>7. ASSUME NEW j \in Jobs, Done(j) PROVE JobsHoldGuards' /\ AdmittedAlone'
  <2>1. /\ job[j].pc = "working" /\ job'[j].pc = "idle"
        /\ \A i \in Jobs \ {j} : job'[i] = job[i]
        /\ \A i \in Jobs \ {j} : (operation = i => operation' = i) /\ (busy = i => busy' = i)
    BY <1>7 DEF Done, Returned, AppInv, AppTypeOK
  <2>2. Admitted' \subseteq Admitted /\ j \notin Admitted'
    BY <2>1 DEF Admitted
  <2>3. JobsHoldGuards'
    BY <2>1, <2>2 DEF AppInv, JobsHoldGuards, Admitted
  <2> QED
    BY <1>1, <2>2, <2>3 DEF AppInv, AdmittedAlone
<1>8. ASSUME NEW k, CancelJob(k) PROVE JobsHoldGuards' /\ AdmittedAlone'
  <2>1. UNCHANGED <<job, operation, busy>> /\ Admitted' = Admitted
    BY <1>8 DEF CancelJob, vars, sessionVars, appVars, Admitted
  <2> QED
    BY <1>1, <2>1 DEF AppInv, JobsHoldGuards, AdmittedAlone
<1> QED
  BY <1>3, <1>4, <1>5, <1>6, <1>7, <1>8 DEF JobNext

\* A step of an exit leaves the jobs and the operation lock alone.
LEMMA ExitsBesideJobs ==
    ASSUME AppInv, ExitNext
    PROVE  JobsHoldGuards' /\ AdmittedAlone'
<1>1. /\ UNCHANGED <<pc, operation, busy, job>>
      /\ \A f \in Entries : BlocksResourceChange(sess'[f]) => StaysLoaded(f)
  BY ExitsKeepSessions DEF AppInv
<1>2. Admitted' = Admitted
  BY <1>1 DEF Admitted
<1> QED
  BY <1>1, <1>2 DEF AppInv, JobsHoldGuards, AdmittedAlone, StaysLoaded

LEMMA AppInitially == AppInit => AppInv
<1> SUFFICES ASSUME AppInit PROVE AppInv
  OBVIOUS
<1>1. SessionsInv /\ TypeOK
  BY SessionsInit DEF AppInit, SessionsInv
<1>2. AppTypeOK
  BY <1>1 DEF AppInit, Init, AppTypeOK
<1> QED
  BY <1>1, <1>2 DEF AppInit, AppInv, JobsHoldGuards, AdmittedAlone, Admitted

LEMMA AppStep ==
    ASSUME AppInv, AppNext
    PROVE  AppInv'
<1>1. SessionsInv'
  BY SessionsStep, JobsKeepSessions, ExitsKeepSessions DEF AppNext, AppInv
<1>2. AppTypeOK'
  BY <1>1, AppTypes DEF AppInv, SessionsInv
<1>3. JobsHoldGuards' /\ AdmittedAlone'
  BY SessionsBesideJobs, JobsBesideSessions, ExitsBesideJobs DEF AppNext
<1> QED
  BY <1>1, <1>2, <1>3 DEF AppInv

LEMMA AppStutter == AppInv /\ UNCHANGED allVars => AppInv'
<1> SUFFICES ASSUME AppInv, UNCHANGED allVars PROVE AppInv'
  OBVIOUS
<1>1. UNCHANGED vars /\ UNCHANGED <<job, jobCancel, exit, wasExiting, normalExit>>
  BY DEF allVars, jobVars, exitVars
<1>2. UNCHANGED <<sess, pc, stop, operation, busy>>
  BY <1>1 DEF vars, sessionVars, registryVars, startVars, appVars
<1>3. SessionsInv' /\ TypeOK'
  BY <1>1, SessionsStutter DEF AppInv, SessionsInv
<1>4. AppTypeOK'
  BY <1>1, <1>2, <1>3 DEF AppInv, AppTypeOK
<1> QED
  BY <1>1, <1>2, <1>3, <1>4 DEF AppInv, JobsHoldGuards, AdmittedAlone, Admitted, InHand

THEOREM AppInvariant == AppSpec => []AppInv
<1>1. AppInv /\ [AppNext]_allVars => AppInv'
  BY AppStep, AppStutter
<1> QED
  BY AppInitially, <1>1, PTL DEF AppSpec

\* The jobs, exits, locks and flags of the application keep their types.
THEOREM AppTypesKept == AppSpec => []AppTypeOK
<1>1. AppInv => AppTypeOK
  BY DEF AppInv
<1> QED
  BY AppInvariant, <1>1, PTL

\* A runtime install, a registration, a benchmark or a download never works beside a
\* loading or loaded model or another such job, except beside a session that an unload
\* removed from the registry and is about to retire, although an install lets go of the
\* operation lock (commands/runtime.rs, commands/benchmark.rs, server.rs:1388-1397).
THEOREM ResourcesAreExclusive == AppSpec => []ResourceExclusion
<1>1. AppInv => ResourceExclusion
  BY DEF AppInv, AdmittedAlone, ResourceExclusion, Working, Admitted
<1> QED
  BY AppInvariant, <1>1, PTL

\* Closing the application, abandoning an update and the resource jobs leak no model
\* process either (lib.rs:54-115).
THEOREM AppLeaksNoProcess == AppSpec => []NoOrphanProcess
<1>1. AppInv => NoOrphanProcess
  BY DEF AppInv, SessionsInv
<1> QED
  BY AppInvariant, <1>1, PTL

-----------------------------------------------------------------------------
(* The application implements ResourceUse *)

Loaded == {e \in Entries \ InHand : BlocksResourceChange(sess[e])}

LEMMA StepUsesResources ==
    ASSUME AppInv, AppNext
    PROVE  ResourceUseBySessions!Next \/ (Loaded' = Loaded /\ Working' = Working)
<1> DEFINE Goal == ResourceUseBySessions!Next \/ (Loaded' = Loaded /\ Working' = Working)
<1>1. AppInv'
  BY AppStep
\* sessions are only taken down
<1>2. ASSUME Working' = Working,
             \A e \in Entries : BlocksResourceChange(sess'[e]) => StaysLoaded(e)
      PROVE  ResourceUseBySessions!Next
  <2>1. Loaded' \subseteq Loaded
    BY <1>2 DEF Loaded, StaysLoaded
  <2>2. Loaded' = Loaded \ (Loaded \ Loaded') /\ (Loaded \ Loaded') \in SUBSET Loaded
    BY <2>1
  <2>3. ResourceUseBySessions!Unload
    BY <1>2, <2>2 DEF ResourceUseBySessions!Unload, Loaded
  <2> QED
    BY <2>3 DEF ResourceUseBySessions!Next
<1>3. CASE SessionNext /\ UNCHANGED <<jobVars, exitVars>>
  <2>1. Working' = Working
    BY <1>3 DEF Working, jobVars
  <2>2. ASSUME NEW o \in Starts, pc[o] \in Placing \cup Launching, at[o] \in Entries,
               InHand' = InHand, \A f \in Entries \ {at[o]} : sess'[f] = sess[f]
        PROVE  Goal
    <3>1. Working = {}
      BY <2>2 DEF AppInv, AdmittedAlone, Admitted, Working
    <3>2. CASE BlocksResourceChange(sess'[at[o]]) /\ at[o] \notin InHand
      <4>1. Loaded' = Loaded \cup {at[o]}
        BY <2>2, <3>2 DEF Loaded
      <4>2. ResourceUseBySessions!Load(at[o])
        BY <2>1, <3>1, <4>1 DEF ResourceUseBySessions!Load, Loaded
      <4> QED
        BY <2>2, <4>2 DEF ResourceUseBySessions!Next
    <3>3. CASE ~BlocksResourceChange(sess'[at[o]])
      <4>1. \A e \in Entries : BlocksResourceChange(sess'[e]) => StaysLoaded(e)
        BY <2>2, <3>3 DEF StaysLoaded
      <4> QED
        BY <1>2, <2>1, <4>1
    <3>4. CASE at[o] \in InHand
      <4>1. Loaded' = Loaded
        BY <2>2, <3>4 DEF Loaded
      <4> QED
        BY <2>1, <4>1
    <3> QED
      BY <3>2, <3>3, <3>4
  <2> QED
    BY <1>2, <1>3, <2>1, <2>2, SessionsLoad DEF AppInv
<1>4. CASE JobNext
  <2>1. sess' = sess /\ stop' = stop
    BY <1>4, JobsKeepSessions DEF AppInv
  <2>2. Loaded' = Loaded
    BY <2>1 DEF Loaded, InHand
  <2>3. ASSUME NEW j \in Jobs, \A i \in Jobs \ {j} : job'[i] = job[i]
        PROVE  Goal
    <3>1. CASE job'[j].pc = "working" /\ job[j].pc # "working"
      <4>1. Working' = {j} /\ Loaded' = {}
        BY <1>1, <3>1 DEF AppInv, AdmittedAlone, Admitted, Working, Loaded
      <4>2. Working = {}
        BY <2>3, <3>1, <4>1 DEF Working
      <4>3. ResourceUseBySessions!Acquire(j)
        BY <2>2, <4>1, <4>2 DEF ResourceUseBySessions!Acquire, Loaded
      <4> QED
        BY <4>3 DEF ResourceUseBySessions!Next
    <3>2. CASE job'[j].pc # "working" /\ job[j].pc = "working"
      <4>1. j \in Working /\ Working' = Working \ {j}
        BY <2>3, <3>2 DEF Working
      <4>2. ResourceUseBySessions!Release(j)
        BY <2>2, <4>1 DEF ResourceUseBySessions!Release, Loaded
      <4> QED
        BY <4>2 DEF ResourceUseBySessions!Next
    <3>3. CASE job'[j].pc = "working" <=> job[j].pc = "working"
      <4>1. Working' = Working
        BY <2>3, <3>3 DEF Working
      <4> QED
        BY <2>2, <4>1
    <3> QED
      BY <3>1, <3>2, <3>3
  <2>4. ASSUME NEW j \in Jobs, Claim(j) \/ Enter(j) \/ TryEnter(j) \/ Begin(j) \/ Done(j)
        PROVE  \A i \in Jobs \ {j} : job'[i] = job[i]
    BY <2>4 DEF Claim, Enter, TryEnter, Begin, Done, Returned, AppInv, AppTypeOK
  <2>5. ASSUME NEW k, CancelJob(k) PROVE Goal
    BY <2>2, <2>5 DEF CancelJob, Working
  <2> QED
    BY <1>4, <2>3, <2>4, <2>5 DEF JobNext
<1>5. CASE ExitNext
  <2>1. Working' = Working
    BY <1>5, ExitsKeepSessions DEF AppInv, Working
  <2> QED
    BY <1>2, <1>5, <2>1, ExitsKeepSessions DEF AppInv
<1> QED
  BY <1>3, <1>4, <1>5 DEF AppNext

\* Whatever the order of starts, stops, jobs and exits, the runtimes and model files
\* are used as ResourceUse says: shared by loaded models, or by one job alone.
THEOREM AppImplementsResourceUse == AppSpec => ImplementsResourceUse
<1>1. AppInit => ResourceUseBySessions!Init
  <2> SUFFICES ASSUME AppInit PROVE ResourceUseBySessions!Init
    OBVIOUS
  <2>1. \A e \in Entries : sess[e].life = "stopped"
    BY DEF AppInit, Init, NewServer
  <2>2. \A j \in Jobs : job[j].pc = "idle"
    BY DEF AppInit
  <2> QED
    BY <2>1, <2>2 DEF ResourceUseBySessions!Init, BlocksResourceChange, Working
<1>2. AppInv /\ [AppNext]_allVars => [ResourceUseBySessions!Next]_(ResourceUseBySessions!vars)
  <2> SUFFICES ASSUME AppInv, AppNext \/ UNCHANGED allVars
               PROVE  ResourceUseBySessions!Next \/ UNCHANGED ResourceUseBySessions!vars
    OBVIOUS
  <2>1. CASE AppNext
    BY <2>1, StepUsesResources DEF ResourceUseBySessions!vars, Loaded
  <2>2. CASE UNCHANGED allVars
    <3>1. sess' = sess /\ job' = job /\ stop' = stop
      BY <2>2 DEF allVars, vars, sessionVars, registryVars, jobVars
    <3> QED
      BY <3>1 DEF ResourceUseBySessions!vars, Working, InHand
  <2> QED
    BY <2>1, <2>2
<1> QED
  BY <1>1, <1>2, AppInvariant, PTL DEF AppSpec, ImplementsResourceUse, ResourceUseBySessions!Spec

-----------------------------------------------------------------------------
(* Closing the application: what the cleanup took down stays down, whatever *)
(* start command was under way, until a failing update opens the gate again *)

\* While a way of closing is past its gate, the gate is shut; once its sweep is over the
\* process owner is closed; once its teardown began, what is still loaded is on its list.
GateShut == \A x \in Exits : exit[x].pc # "idle" => exiting
OwnerClosed ==
    \A x \in Exits : exit[x].pc \in {"swept", "tearing"} => closed /\ alive = {}
LoadedIsListed ==
    \A x \in Exits : exit[x].pc = "tearing" =>
        \A e \in Entries \ InHand : BlocksResourceChange(sess[e]) => e \in exit[x].todo

\* A genuine exit is under way exactly when its cleanup is, which never returns.
QuitNeverReturns ==
    /\ normalExit => "quit" \in Exits
    /\ "quit" \in Exits => (normalExit <=> exit["quit"].pc # "idle")

ExitInv == GateShut /\ OwnerClosed /\ LoadedIsListed /\ QuitNeverReturns

-----------------------------------------------------------------------------
(* Sessions while the application closes *)

\* Only exits touch the gate; behind it no process lives and no session gets loaded.
NothingStarts ==
    /\ exiting' = exiting /\ closed' = closed
    /\ closed /\ alive = {} => alive' = {}
    /\ exiting => \A e \in Entries :
          BlocksResourceChange(sess'[e]) => StaysLoaded(e)

\* Every critical section of a start that could load a model looks at exiting first, and
\* the process owner terminates what it registers after it was closed.
LEMMA SessionsAtExit == ASSUME SessionsInv, SessionNext PROVE NothingStarts
<1> USE Identities, ControlPoints
<1>1. TypeOK /\ StartsHoldLock /\ UnloadsHold
  BY SessionsInvParts DEF SessionsInv
<1>0. ASSUME NEW o \in Starts, Register(o) \/ StartStep(o) \/ Abandon(o) \/ Crash(o)
      PROVE  InHand' = InHand
  BY <1>0, StartsTakeNothing
<1>2. ASSUME NEW o \in Starts, Register(o) \/ Admit(o) \/ Validated(o) \/ Place(o) \/ Recheck(o)
                               \/ ProbeFails(o) \/ Spawn(o) \/ Confirm(o) \/ Abandon(o) \/ Crash(o)
      PROVE  NothingStarts
  <2>1. UNCHANGED <<sess, exiting, closed>>
    BY <1>2 DEF Register, Admit, Validated, Place, Recheck, ProbeFails, Spawn, Confirm, Abandon,
       Crash, registryVars, appVars
  <2>2. alive' \subseteq alive \/ (~closed /\ Spawn(o))
    BY <1>2 DEF Register, Admit, Validated, Place, Recheck, ProbeFails, Spawn, Confirm, Abandon,
       Crash
  <2> QED
    BY <1>0, <1>2, <2>1, <2>2 DEF NothingStarts, StaysLoaded, StartStep
<1>3. ASSUME NEW o \in Starts, StopForReplacement(o) PROVE NothingStarts
  <2>1. alive' \subseteq alive /\ exiting' = exiting /\ closed' = closed
    BY <1>3 DEF StopForReplacement, appVars
  <2>2. ASSUME NEW e \in Entries PROVE sess'[e] = sess[e] \/ sess'[e] = TornDown(sess[e])
    BY <1>3 DEF StopForReplacement
  <2>3. \A e \in Entries : TornDown(sess[e]).life = "stopped"
    BY <1>1, TeardownTransitions DEF TypeOK
  <2> QED
    BY <1>0, <1>3, <2>1, <2>2, <2>3 DEF NothingStarts, BlocksResourceChange, StaysLoaded, StartStep
<1>4. ASSUME NEW o \in Starts, at[o] \in Entries, InHand' = InHand, NEW s \in Server,
             sess' = sess \/ sess' = [sess EXCEPT ![at[o]] = s],
             exiting /\ sess' # sess => s.life \notin {"starting", "ready", "stopping"},
             alive' \subseteq alive, UNCHANGED appVars
      PROVE  NothingStarts
  <2>1. sess \in [Entries -> Server]
    BY <1>1 DEF TypeOK
  <2>2. ASSUME NEW e \in Entries, exiting, BlocksResourceChange(sess'[e])
        PROVE  StaysLoaded(e)
    <3>1. CASE sess' = sess
      BY <1>4, <2>2, <3>1 DEF StaysLoaded
    <3>2. CASE sess' # sess
      BY <1>4, <2>1, <2>2, <3>2 DEF BlocksResourceChange, StaysLoaded
    <3> QED
      BY <3>1, <3>2
  <2> QED
    BY <1>4, <2>2 DEF NothingStarts, appVars
<1>5. ASSUME NEW o \in Starts, BeginLaunch(o) PROVE NothingStarts
  <2>1. at[o] \in Entries /\ sess[at[o]] \in Server /\ Begun(sess[at[o]], o) \in Server
    BY <1>1, <1>5, TransitionsTyped DEF BeginLaunch, StartsHoldLock, TypeOK
  <2>2. /\ alive' \subseteq alive /\ UNCHANGED appVars
        /\ \/ sess' = sess
           \/ ~exiting /\ sess' = [sess EXCEPT ![at[o]] = Begun(sess[at[o]], o)]
    BY <1>5 DEF BeginLaunch, LaunchAllowed, Killed
  <2>3. InHand' = InHand
    BY <1>0, <1>5 DEF StartStep
  <2> QED
    BY <1>4, <2>1, <2>2, <2>3
<1>6. ASSUME NEW o \in Starts, SpawnFails(o) \/ Attach(o) \/ LoadFails(o) \/ Publish(o)
      PROVE  NothingStarts
  <2> DEFINE s == sess[at[o]]
  <2>1. at[o] \in Entries /\ s \in Server
    BY <1>1, <1>6 DEF SpawnFails, Attach, LoadFails, Publish, StartsHoldLock, TypeOK
  <2>6. InHand' = InHand
    BY <1>0, <1>6 DEF StartStep
  <2>2. CASE SpawnFails(o)
    <3>1. /\ SpawnFailed(s, exiting) \in Server
          /\ SpawnFailed(s, exiting).life \in {"stopped", "failed"}
      BY <1>1, <2>1 DEF SpawnFailed, Server, Lifecycle, TypeOK
    <3>2. /\ alive' \subseteq alive /\ UNCHANGED appVars
          /\ sess' = sess \/ sess' = [sess EXCEPT ![at[o]] = SpawnFailed(s, exiting)]
      BY <2>2 DEF SpawnFails
    <3> QED
      BY <1>4, <2>1, <2>6, <3>1, <3>2
  <2>3. CASE LoadFails(o)
    <3>1. /\ LaunchFailed(s, exiting) \in Server
          /\ LaunchFailed(s, exiting).life \in {"stopped", "failed"}
      BY <1>1, <2>1 DEF LaunchFailed, Server, Lifecycle, Launch, TypeOK
    <3>2. /\ alive' \subseteq alive /\ UNCHANGED appVars
          /\ sess' = sess \/ sess' = [sess EXCEPT ![at[o]] = LaunchFailed(s, exiting)]
      BY <2>3 DEF LoadFails, Killed
    <3> QED
      BY <1>4, <2>1, <2>6, <3>1, <3>2
  <2>4. CASE Attach(o)
    <3>1. Unattached(s) \in Server /\ Unattached(s).life = "stopped" /\ Attached(s, o) \in Server
      BY <2>1 DEF Unattached, Attached, Server, Lifecycle, Launch
    <3>2. /\ alive' \subseteq alive /\ UNCHANGED appVars
          /\ \/ sess' = [sess EXCEPT ![at[o]] = Unattached(s)]
             \/ ~exiting /\ sess' = [sess EXCEPT ![at[o]] = Attached(s, o)]
      BY <2>4 DEF Attach, Withdrawn
    <3> QED
      BY <1>4, <2>1, <2>6, <3>1, <3>2
  <2>5. CASE Publish(o)
    <3>1. Withheld(s) \in Server /\ Withheld(s).life = "stopped" /\ Published(s, o) \in Server
      BY <2>1 DEF Withheld, Published, Server, Lifecycle, Launch
    <3>2. /\ alive' \subseteq alive /\ UNCHANGED appVars
          /\ \/ sess' = [sess EXCEPT ![at[o]] = Withheld(s)]
             \/ ~exiting /\ sess' = [sess EXCEPT ![at[o]] = Published(s, o)]
      BY <2>5 DEF Publish, Withdrawn, Killed
    <3> QED
      BY <1>4, <2>1, <2>6, <3>1, <3>2
  <2> QED
    BY <1>6, <2>2, <2>3, <2>4, <2>5
<1>7. ASSUME NEW o \in Starts, Finish(o) PROVE NothingStarts
  <2>1. alive' \subseteq alive /\ UNCHANGED appVars
    BY <1>7 DEF Finish, Killed
  <2>2. ASSUME NEW e \in Entries, BlocksResourceChange(sess'[e])
        PROVE  StaysLoaded(e)
    <3>1. sess[e] \in Server /\ o \in Launch
      BY <1>1 DEF TypeOK
    <3>2. sess'[e] = sess[e] \/ sess'[e] = Disowned(sess[e], o)
      BY <1>1, <1>7 DEF Finish, TypeOK
    <3>3. Disowned(sess[e], o) = sess[e] \/ Disowned(sess[e], o).life = "stopped"
      BY <3>1, DisownedTransition
    <3> QED
      BY <1>0, <1>7, <2>2, <3>2, <3>3 DEF BlocksResourceChange, StaysLoaded, StartStep
  <2> QED
    BY <2>1, <2>2 DEF NothingStarts, appVars
<1>8. ASSUME \/ \E w \in Stoppers : StopStep(w)
             \/ \E e \in Entries : IdleUnload(e) \/ Reap(e)
             \/ \E r \in Requests : PickLease(r) \/ BeginLease(r) \/ DropLease(r)
             \/ \E c \in Chats : ChatBegins(c) \/ ChatEnds(c)
      PROVE  NothingStarts
  <2>1. OnlyTakesDown /\ alive' \subseteq alive
    BY <1>1, <1>8, ClientsOnlyTakeDown
  <2>2. UNCHANGED appVars
    BY <1>8 DEF StopStep, StopRequest, StopTeardown, Forget, Retire, CancelForgotten, IdleUnload,
                Reap, PickLease, BeginLease,
       DropLease, ChatBegins, ChatEnds
  <2>3. \A e \in Entries : BlocksResourceChange(sess'[e]) => StaysLoaded(e)
    BY <2>1 DEF OnlyTakesDown, Untouched, TakenDown, FoundDead, BlocksResourceChange, StaysLoaded
  <2> QED
    BY <2>1, <2>2, <2>3 DEF NothingStarts, appVars
<1> QED
  BY <1>2, <1>3, <1>5, <1>6, <1>7, <1>8 DEF SessionNext, StartStep

-----------------------------------------------------------------------------
(* The invariant *)

\* A step that leaves the cleanups where they are and loads nothing.
LEMMA BesideExits ==
    ASSUME ExitInv, NothingStarts, UNCHANGED <<exit, normalExit>>
    PROVE  ExitInv'
<1>1. GateShut' /\ QuitNeverReturns'
  BY DEF ExitInv, GateShut, QuitNeverReturns, NothingStarts
<1>2. OwnerClosed'
  BY DEF ExitInv, OwnerClosed, NothingStarts
<1>3. LoadedIsListed'
  BY DEF ExitInv, LoadedIsListed, GateShut, NothingStarts, StaysLoaded
<1> QED
  BY <1>1, <1>2, <1>3 DEF ExitInv

\* Every step of a way of closing.
LEMMA ExitsKeepExits == ASSUME AppInv, ExitInv, ExitNext PROVE ExitInv'
<1> USE JobsAssumption DEF ExitInv
<1>1. /\ exit \in [Exits -> [pc : {"idle", "gated", "flagged", "swept", "tearing"},
                             todo : SUBSET Entries]]
      /\ TypeOK /\ sess \in [Entries -> Server] /\ Default \in Entries
  BY Identities DEF AppInv, AppTypeOK, TypeOK
<1>2. CASE GateQuit
  BY <1>1, <1>2 DEF GateQuit, sessionVars, registryVars, GateShut, OwnerClosed, LoadedIsListed,
     QuitNeverReturns, InHand
<1>3. CASE GateUpdate
  BY <1>1, <1>3 DEF GateUpdate, sessionVars, registryVars, GateShut, OwnerClosed, LoadedIsListed,
     QuitNeverReturns, InHand
<1>4. ASSUME NEW x \in Exits, FlagAll(x) PROVE ExitInv'
  BY <1>1, <1>4 DEF FlagAll, registryVars, appVars, GateShut, OwnerClosed, LoadedIsListed,
     QuitNeverReturns, InHand
<1>5. ASSUME NEW x \in Exits, Sweep(x) PROVE ExitInv'
  BY <1>1, <1>5 DEF Sweep, registryVars, GateShut, OwnerClosed, LoadedIsListed,
     QuitNeverReturns, InHand
<1>6. ASSUME NEW x \in Exits, NEW e \in Entries, sess' = [sess EXCEPT ![e] = ShutDown(sess[e])],
             alive' = Killed(e), UNCHANGED <<stop, exiting, closed, normalExit>>,
             exit[x].pc \in {"swept", "tearing"}, exit'[x].pc = "tearing",
             \A y \in Exits \ {x} : exit'[y] = exit[y],
             \A f \in Entries \ ({e} \cup InHand) :
                BlocksResourceChange(sess[f]) => f \in exit'[x].todo
      PROVE  ExitInv'
  <2>1. sess[e] \in Server /\ ShutDown(sess[e]).life = "stopped"
    BY <1>1, TeardownTransitions
  <2>2. /\ ~BlocksResourceChange(sess'[e])
        /\ \A f \in Entries \ {e} : sess'[f] = sess[f]
    BY <1>1, <1>6, <2>1 DEF BlocksResourceChange
  <2>3. GateShut' /\ OwnerClosed'
    BY <1>6 DEF GateShut, OwnerClosed, Killed
  <2>4. LoadedIsListed'
    BY <1>6, <2>2 DEF LoadedIsListed, InHand
  <2>5. QuitNeverReturns'
    BY <1>6 DEF QuitNeverReturns
  <2> QED
    BY <2>3, <2>4, <2>5
<1>7. ASSUME NEW x \in Exits, ShutDefault(x) PROVE ExitInv'
  <2>1. \A f \in Entries \ ({Default} \cup InHand) :
           BlocksResourceChange(sess[f]) => f \in Tracked \ {Default}
    BY DEF AppInv, SessionsInv, LoadedIsHeld, Held
  <2> QED
    BY <1>1, <1>6, <1>7, <2>1 DEF ShutDefault, appVars
<1>8. ASSUME NEW x \in Exits, NEW e \in Entries, ShutNamed(x, e) PROVE ExitInv'
  <2>1. exit'[x].pc = "tearing" /\ exit'[x].todo = exit[x].todo \ {e}
        /\ \A y \in Exits \ {x} : exit'[y] = exit[y]
    BY <1>1, <1>8 DEF ShutNamed
  <2>2. \A f \in Entries \ InHand : BlocksResourceChange(sess[f]) => f \in exit[x].todo
    BY <1>8 DEF ShutNamed, LoadedIsListed
  <2> QED
    BY <1>6, <1>8, <2>1, <2>2 DEF ShutNamed, appVars
<1>9. CASE UpdateFails
  <2>1. /\ "update" \in Exits /\ exit' = [exit EXCEPT !["update"].pc = "idle"]
        /\ UNCHANGED <<sess, stop, alive, normalExit>>
        /\ UNCHANGED <<exiting, closed>> \/ ~normalExit
    BY <1>9 DEF UpdateFails, GateKept, sessionVars, registryVars
  <2>2. exit'["update"].pc = "idle" /\ \A x \in Exits \ {"update"} : exit'[x] = exit[x]
    BY <1>1, <2>1
  <2>3. ~normalExit => \A x \in Exits : exit'[x].pc = "idle"
    BY <2>2 DEF QuitNeverReturns
  <2> QED
    BY <2>1, <2>2, <2>3 DEF GateShut, OwnerClosed, LoadedIsListed, QuitNeverReturns, InHand
<1> QED
  BY <1>2, <1>3, <1>4, <1>5, <1>7, <1>8, <1>9 DEF ExitNext

\* Every step of the application keeps what its cleanup achieved.
LEMMA ExitInvKept == AppInv /\ ExitInv /\ [AppNext]_allVars => ExitInv'
<1> SUFFICES ASSUME AppInv, ExitInv, [AppNext]_allVars PROVE ExitInv'
  OBVIOUS
<1>1. CASE SessionNext /\ UNCHANGED <<jobVars, exitVars>>
  BY <1>1, SessionsAtExit, BesideExits DEF AppInv, exitVars
<1>2. CASE JobNext
  <2>1. UNCHANGED <<sess, stop, alive, exiting, closed, exit, normalExit>>
    <3>1. sess' = sess /\ stop' = stop
      BY <1>2, JobsKeepSessions DEF AppInv
    <3>2. UNCHANGED <<alive, exiting, closed, exit, normalExit>>
      BY <1>2 DEF JobNext, Claim, Enter, TryEnter, Begin, CancelJob, Done, sessionVars, vars,
         appVars, exitVars
    <3> QED
      BY <3>1, <3>2
  <2> QED
    BY <2>1, BesideExits DEF NothingStarts, StaysLoaded, InHand
<1>3. CASE UNCHANGED allVars
  BY <1>3, BesideExits DEF allVars, vars, sessionVars, registryVars, appVars, exitVars,
     NothingStarts, StaysLoaded, InHand
<1> QED
  BY <1>1, <1>2, <1>3, ExitsKeepExits DEF AppNext

\* Closed or closing, the application never loses what a cleanup achieved.
LEMMA ExitInvAlways == AppSpec => []ExitInv
<1>1. AppInit => ExitInv
  <2> SUFFICES ASSUME AppInit PROVE ExitInv
    OBVIOUS
  <2>1. (\A x \in Exits : exit[x].pc = "idle") /\ normalExit = FALSE
    BY DEF AppInit
  <2> QED
    BY <2>1 DEF ExitInv, GateShut, OwnerClosed, LoadedIsListed, QuitNeverReturns
<1> QED
  BY <1>1, ExitInvKept, AppInvariant, PTL DEF AppSpec

-----------------------------------------------------------------------------
(* Theorems *)

\* When shutdown_managed_processes is done, no model process runs and no session is loaded
\* or loading but one that an unload is about to retire, whatever start, stop or job was
\* under way, and so it stays (lib.rs:54-115; session.rs:172-187).
THEOREM CleanupIsComplete == AppSpec => []ExitLeavesNothing
<1>1. ExitInv => ExitLeavesNothing
  BY DEF ExitInv, GateShut, OwnerClosed, LoadedIsListed, ExitLeavesNothing, CleanedUp
<1> QED
  BY <1>1, ExitInvAlways, PTL

\* release_update_gate never takes back an exit that began while the update was being
\* installed.
THEOREM ExitsAreFinal == AppSpec => ExitIsFinal
<1>1. ExitInv /\ [AppNext]_allVars /\ ExitInv' => [normalExit => normalExit' /\ exiting']_allVars
  <2> SUFFICES ASSUME ExitInv, ExitInv', AppNext, normalExit PROVE normalExit' /\ exiting'
    OBVIOUS
  <2>1. normalExit'
    BY DEF AppNext, JobNext, ExitNext, Claim, Enter, TryEnter, Begin, CancelJob, Done, GateQuit,
       GateUpdate, UpdateFails, FlagAll, Sweep, ShutDefault, ShutNamed, exitVars
  <2> QED
    BY <2>1 DEF ExitInv, GateShut, QuitNeverReturns
<1> QED
  BY <1>1, ExitInvAlways, PTL DEF AppSpec, ExitIsFinal
=============================================================================
