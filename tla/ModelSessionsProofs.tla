------------------------ MODULE ModelSessionsProofs ------------------------
(***************************************************************************)
(* What holds of the model sessions for any number of starts, sessions,    *)
(* stops, requests and chat turns.                                         *)
(*                                                                         *)
(* The invariant of the proofs, SessionsInv, is inductive: it is kept by   *)
(* every action of SessionNext, and AppLifecycleProofs shows that the jobs *)
(* and the closing of the application keep it too.  FinalInv is what the   *)
(* finality of stops needs beside it, LeaseInv what the counting of        *)
(* requests needs.                                                         *)
(***************************************************************************)
EXTENDS ModelSessions, TLAPS, FiniteSetTheorems

-----------------------------------------------------------------------------
(* What each transition of a session's record keeps and sets.  The proofs  *)
(* below cite these lemmas and never expand the transitions themselves.    *)

\* Every transition of the record maps a ServerState to a ServerState
\* (server.rs:439-520, commands/server.rs:19-403, session.rs:172-187).
LEMMA TransitionsTyped ==
    ASSUME NEW s \in Server, NEW l \in Launch, NEW b \in BOOLEAN
    PROVE  /\ Begun(s, l) \in Server
           /\ LaunchCancelled(s) \in Server
           /\ Attached(s, l) \in Server
           /\ Unattached(s) \in Server
           /\ SpawnFailed(s, b) \in Server
           /\ Published(s, l) \in Server
           /\ Withheld(s) \in Server
           /\ LaunchFailed(s, b) \in Server
           /\ Disowned(s, l) \in Server
           /\ TornDown(s) \in Server
           /\ Retired(s) \in Server
           /\ Reaped(s) \in Server
           /\ ShutDown(s) \in Server
           /\ RequestBegun(s) \in Server
           /\ RequestEnded(s) \in Server
<1>1. None \in Launch
  BY DEF Launch
<1>2. Begun(s, l) \in Server /\ LaunchCancelled(s) \in Server
      /\ Attached(s, l) \in Server /\ Unattached(s) \in Server
  BY <1>1 DEF Server, Lifecycle, Begun, LaunchCancelled, Attached, Unattached
<1>3. SpawnFailed(s, b) \in Server /\ Published(s, l) \in Server
      /\ Withheld(s) \in Server /\ LaunchFailed(s, b) \in Server
  BY <1>1 DEF Server, Lifecycle, SpawnFailed, Published, Withheld, LaunchFailed
<1>4. Disowned(s, l) \in Server /\ TornDown(s) \in Server /\ Retired(s) \in Server
      /\ ShutDown(s) \in Server
  BY <1>1 DEF Server, Lifecycle, Disowned, TornDown, Retired, ShutDown, LaunchCancelled
<1>5. Reaped(s) \in Server
  BY <1>1 DEF Server, Lifecycle, Reaped
<1>6. RequestBegun(s) \in Server /\ RequestEnded(s) \in Server
  BY DEF Server, RequestBegun, RequestEnded
<1> QED
  BY <1>2, <1>3, <1>4, <1>5, <1>6

\* The transitions of a launch: what becomes of the lifecycle, the current launch,
\* the tracked process and the retirement mark (commands/server.rs:180-344).
LEMMA LaunchTransitions ==
    ASSUME NEW s \in Server, NEW l \in Launch
    PROVE  /\ Begun(s, l).life = "starting" /\ Begun(s, l).launch = l
           /\ Begun(s, l).child = None /\ Begun(s, l).retired = s.retired
           /\ Attached(s, l).life = "starting" /\ Attached(s, l).launch = s.launch
           /\ Attached(s, l).child = l /\ Attached(s, l).key = l
           /\ Attached(s, l).retired = s.retired
           /\ Published(s, l).life = "ready" /\ Published(s, l).launch = s.launch
           /\ Published(s, l).child = s.child /\ Published(s, l).key = s.key
           /\ Published(s, l).exec = l /\ Published(s, l).retired = s.retired
<1>1. Begun(s, l).life = "starting" /\ Begun(s, l).launch = l
      /\ Begun(s, l).child = None /\ Begun(s, l).retired = s.retired
  BY DEF Server, Begun
<1>2. /\ Attached(s, l).life = "starting" /\ Attached(s, l).launch = s.launch
      /\ Attached(s, l).child = l /\ Attached(s, l).key = l
      /\ Attached(s, l).retired = s.retired
  BY DEF Server, Attached
<1>3. /\ Published(s, l).life = "ready" /\ Published(s, l).launch = s.launch
      /\ Published(s, l).child = s.child /\ Published(s, l).key = s.key
      /\ Published(s, l).exec = l /\ Published(s, l).retired = s.retired
  BY DEF Server, Published
<1> QED
  BY <1>1, <1>2, <1>3

\* The transitions of a launch that came to nothing (commands/server.rs:222-344).
LEMMA FailureTransitions ==
    ASSUME NEW s \in Server, NEW b \in BOOLEAN
    PROVE  /\ SpawnFailed(s, b).life \in {"stopped", "failed"}
           /\ SpawnFailed(s, b).launch = s.launch
           /\ SpawnFailed(s, b).child = s.child /\ SpawnFailed(s, b).retired = s.retired
           /\ LaunchFailed(s, b).life \in {"stopped", "failed"}
           /\ LaunchFailed(s, b).launch = s.launch
           /\ LaunchFailed(s, b).child = None /\ LaunchFailed(s, b).retired = s.retired
           /\ Unattached(s).life = "stopped" /\ Unattached(s).launch = s.launch
           /\ Unattached(s).child = s.child /\ Unattached(s).retired = s.retired
           /\ Withheld(s).life = "stopped" /\ Withheld(s).launch = s.launch
           /\ Withheld(s).child = None /\ Withheld(s).retired = s.retired
<1>1. /\ Unattached(s).life = "stopped" /\ Unattached(s).launch = s.launch
      /\ Unattached(s).child = s.child /\ Unattached(s).retired = s.retired
      /\ SpawnFailed(s, b).life \in {"stopped", "failed"}
      /\ SpawnFailed(s, b).launch = s.launch
      /\ SpawnFailed(s, b).child = s.child /\ SpawnFailed(s, b).retired = s.retired
  BY DEF Server, Unattached, SpawnFailed
<1>2. /\ Withheld(s).life = "stopped" /\ Withheld(s).launch = s.launch
      /\ Withheld(s).child = None /\ Withheld(s).retired = s.retired
      /\ LaunchFailed(s, b).life \in {"stopped", "failed"}
      /\ LaunchFailed(s, b).launch = s.launch
      /\ LaunchFailed(s, b).child = None /\ LaunchFailed(s, b).retired = s.retired
  BY DEF Server, Withheld, LaunchFailed
<1> QED
  BY <1>1, <1>2

\* The transitions that take a session down: no launch is current afterwards
\* and no process is tracked (commands/server.rs:390-403, session.rs:180-183,
\* lib.rs:90-97, server.rs:1548-1554).
LEMMA TeardownTransitions ==
    ASSUME NEW s \in Server
    PROVE  /\ TornDown(s).life = "stopped" /\ TornDown(s).launch = None
           /\ TornDown(s).child = None /\ TornDown(s).retired = s.retired
           /\ Retired(s).life = "stopped" /\ Retired(s).launch = None
           /\ Retired(s).child = None /\ Retired(s).retired
           /\ ShutDown(s).life = "stopped" /\ ShutDown(s).launch = None
           /\ ShutDown(s).child = None /\ ShutDown(s).retired = s.retired
           /\ Reaped(s).life = "crashed" /\ Reaped(s).launch = s.launch
           /\ Reaped(s).child = None /\ Reaped(s).retired = s.retired
<1>1. LaunchCancelled(s) \in Server /\ LaunchCancelled(s).life = "stopped"
      /\ LaunchCancelled(s).launch = None /\ LaunchCancelled(s).retired = s.retired
  BY DEF Server, Lifecycle, Launch, LaunchCancelled
<1>2. /\ TornDown(s).life = "stopped" /\ TornDown(s).launch = None
      /\ TornDown(s).child = None /\ TornDown(s).retired = s.retired
      /\ ShutDown(s).life = "stopped" /\ ShutDown(s).launch = None
      /\ ShutDown(s).child = None /\ ShutDown(s).retired = s.retired
  BY <1>1 DEF Server, TornDown, ShutDown
<1>3. /\ Retired(s).life = "stopped" /\ Retired(s).launch = None
      /\ Retired(s).child = None /\ Retired(s).retired
  BY <1>1 DEF Server, Retired
<1>4. /\ Reaped(s).life = "crashed" /\ Reaped(s).launch = s.launch
      /\ Reaped(s).child = None /\ Reaped(s).retired = s.retired
  BY DEF Server, Reaped
<1> QED
  BY <1>2, <1>3, <1>4

\* LaunchGuard's Drop leaves every session alone but the one still starting the
\* guarded launch (commands/server.rs:24-40).
LEMMA DisownedTransition ==
    ASSUME NEW s \in Server, NEW l \in Launch
    PROVE  /\ Disowned(s, l) = s \/ (/\ s.launch = l /\ s.life = "starting"
                                     /\ Disowned(s, l).life = "stopped"
                                     /\ Disowned(s, l).launch = None
                                     /\ Disowned(s, l).child = None
                                     /\ Disowned(s, l).retired = s.retired)
           /\ s.launch = l /\ s.life = "starting" => Disowned(s, l).life = "stopped"
<1>1. LaunchCancelled(s) \in Server /\ LaunchCancelled(s).life = "stopped"
      /\ LaunchCancelled(s).launch = None /\ LaunchCancelled(s).retired = s.retired
  BY DEF Server, Lifecycle, Launch, LaunchCancelled
<1> QED
  BY <1>1 DEF Server, Disowned

\* Counting a request changes the count only (server.rs:512-520).
LEMMA RequestTransitions ==
    ASSUME NEW s \in Server
    PROVE  /\ RequestBegun(s).life = s.life /\ RequestBegun(s).launch = s.launch
           /\ RequestBegun(s).child = s.child /\ RequestBegun(s).key = s.key
           /\ RequestBegun(s).exec = s.exec /\ RequestBegun(s).retired = s.retired
           /\ RequestEnded(s).life = s.life /\ RequestEnded(s).launch = s.launch
           /\ RequestEnded(s).child = s.child /\ RequestEnded(s).key = s.key
           /\ RequestEnded(s).exec = s.exec /\ RequestEnded(s).retired = s.retired
  BY DEF Server, RequestBegun, RequestEnded

-----------------------------------------------------------------------------
(* The invariant of the sessions                                           *)

\* A start that is placing or launching holds the operation lock, and from the
\* moment it chose its session it knows which one.
StartsHoldLock ==
    \A o \in Starts :
        /\ pc[o] \in Placing \cup Launching => operation = o
        /\ pc[o] \in {"tracked"} \cup Launching => at[o] \in Entries

\* As long as the launch of a start is current, its session is starting and
\* tracks the process of this launch as soon as it is attached, none before.
CurrentLaunchStarts ==
    \A o \in Starts :
        pc[o] \in Launching /\ sess[at[o]].launch = o =>
            /\ sess[at[o]].life = "starting"
            /\ pc[o] \in {"launching", "probing", "spawned"} => sess[at[o]].child = None
            /\ pc[o] \in {"loading", "confirmed"} =>
                   sess[at[o]].child = o /\ sess[at[o]].key = o

\* A session that is starting belongs to a start that has not returned.
StartingIsLaunched ==
    \A e \in Entries : sess[e].life = "starting" =>
        \E o \in Starts : /\ sess[e].launch = o
                          /\ at[o] = e
                          /\ operation = o
                          /\ pc[o] \in Launching \cup {"unwinding"}

\* The sessions in the registry or in the hands of an unload.
Held == Tracked \cup InHand

\* An unload has a session in its hands between its removal and its retirement.
UnloadsHold == \A w \in Stoppers : stop[w].of # None => stop[w].pc = "retire"

\* A retired session has no launch, and a start that chose a session finds it
\* held or retired.
RetiredStaysIdle ==
    /\ \A e \in Entries : sess[e].retired => sess[e].launch = None
    /\ \A o \in Starts : pc[o] = "tracked" => at[o] \in Held \/ sess[at[o]].retired

\* Only a session in the registry or in the hands of an unload uses runtimes and model
\* files, and none rests in the middle of a teardown.
LoadedIsHeld ==
    \A e \in Entries : /\ BlocksResourceChange(sess[e]) => e \in Held
                       /\ sess[e].life # "stopping"

SessionsInv ==
    /\ TypeOK
    /\ UnloadsHold
    /\ StartsHoldLock
    /\ CurrentLaunchStarts
    /\ StartingIsLaunched
    /\ RetiredStaysIdle
    /\ LoadedIsHeld
    /\ ReadyIsOneLaunch
    /\ NoOrphanProcess

-----------------------------------------------------------------------------
(* Facts used throughout *)

\* The identities are disjoint: a start is neither None nor the default session,
\* and an entry is never None.
LEMMA Identities ==
    /\ None \notin Starts /\ None \notin Entries /\ Default \in Entries
    /\ Default \in Ids /\ Starts \subseteq Entries /\ Starts \subseteq Launch
    /\ None \in Launch /\ Launch = Starts \cup {None}
  BY NoneAssumption, SessionsAssumption DEF Entries, Launch

\* The sessions the registry resolves to are entries.
LEMMA TrackedAreEntries == TypeOK => Tracked \subseteq Entries /\ InHand \subseteq Entries
  BY DEF TypeOK, Tracked, InHand

\* The points of a start command are told apart.
LEMMA ControlPoints ==
    /\ Placing = {"validating", "replacing", "placing", "tracked"}
    /\ Launching = {"launching", "probing", "spawned", "loading", "confirmed"}
    /\ Control = {"idle", "queued", "validating", "replacing", "placing", "tracked",
                  "launching", "probing", "spawned", "loading", "confirmed",
                  "unwinding", "done"}
  BY DEF Placing, Launching, Control, Before

-----------------------------------------------------------------------------
(* Types *)

\* The session transitions of a start command keep the types.
LEMMA StartKeepsTypes ==
    ASSUME TypeOK, StartsHoldLock, NEW o \in Starts,
           Register(o) \/ StartStep(o) \/ Abandon(o) \/ Crash(o)
    PROVE  TypeOK'
<1> USE Identities, ControlPoints
<1> DEFINE e == at[o]
           Others == UNCHANGED <<registry, sid, policy, at, cancelled, stop, lease, chat,
                                 overtaken, superseded, exiting, closed>>
<1>a. ASSUME pc[o] \in {"tracked"} \cup Launching
      PROVE  /\ e \in Entries /\ o \in Launch /\ exiting \in BOOLEAN
             /\ sess[e] \in Server
  BY <1>a DEF TypeOK, StartsHoldLock
<1>b. ASSUME NEW s \in Server, e \in Entries, sess' = [sess EXCEPT ![e] = s] \/ sess' = sess,
             alive' \in SUBSET Starts, pc' \in [Starts -> Control], Others
      PROVE  TypeOK'
  BY <1>b DEF TypeOK
<1>1. CASE Register(o)
  BY <1>1 DEF Register, TypeOK, Goto, registryVars, clientVars, historyVars, appVars
<1>2. CASE Admit(o)
  <2>1. pc' = [pc EXCEPT ![o] = "validating"] \/ pc' = [pc EXCEPT ![o] = "unwinding"]
    BY <1>2 DEF Admit, Goto
  <2>2. UNCHANGED <<registryVars, sid, policy, at, cancelled, alive, stop, clientVars,
                    historyVars, appVars>>
    BY <1>2 DEF Admit
  <2>3. sess' = sess /\ alive' = alive /\ Others
    BY <2>2 DEF registryVars, clientVars, historyVars, appVars
  <2>4. pc' \in [Starts -> Control]
    BY <2>1 DEF TypeOK
  <2> QED
    BY <2>3, <2>4 DEF TypeOK
<1>3. CASE Validated(o)
  BY <1>3 DEF Validated, TypeOK, Goto, registryVars, clientVars, historyVars, appVars
<1>4. CASE StopForReplacement(o)
  BY <1>4, TransitionsTyped
     DEF StopForReplacement, TypeOK, Goto, Registered, clientVars, historyVars, appVars
<1>5. CASE Place(o)
  BY <1>5 DEF Place, TypeOK, Goto, clientVars, historyVars, appVars
<1>6. CASE BeginLaunch(o)
  <2>1. Begun(sess[e], o) \in Server /\ sess[e] \in Server /\ e \in Entries
    BY <1>6, <1>a, TransitionsTyped DEF BeginLaunch
  <2>2. /\ sess' = [sess EXCEPT ![e] = Begun(sess[e], o)] \/ sess' = sess
        /\ alive' \in SUBSET Starts /\ pc' \in [Starts -> Control] /\ Others
    BY <1>6 DEF BeginLaunch, Goto, Killed, TypeOK, clientVars, historyVars, appVars
  <2> QED
    BY <2>1, <2>2, <1>b
<1>7. CASE Recheck(o) \/ ProbeFails(o) \/ Spawn(o) \/ Confirm(o) \/ Abandon(o) \/ Crash(o)
  BY <1>7 DEF Recheck, ProbeFails, Spawn, Confirm, Abandon, Crash, TypeOK, Goto,
              registryVars, startVars, clientVars, historyVars, appVars
<1>8. CASE SpawnFails(o)
  <2>1. SpawnFailed(sess[e], exiting) \in Server /\ e \in Entries
    BY <1>8, <1>a, TransitionsTyped DEF SpawnFails
  <2>2. /\ sess' = [sess EXCEPT ![e] = SpawnFailed(sess[e], exiting)] \/ sess' = sess
        /\ alive' \in SUBSET Starts /\ pc' \in [Starts -> Control] /\ Others
    BY <1>8 DEF SpawnFails, Goto, TypeOK, clientVars, historyVars, appVars
  <2> QED
    BY <2>1, <2>2, <1>b
<1>9. CASE Attach(o)
  <2>1. Unattached(sess[e]) \in Server /\ Attached(sess[e], o) \in Server /\ e \in Entries
    BY <1>9, <1>a, TransitionsTyped DEF Attach
  <2>2. /\ \/ sess' = [sess EXCEPT ![e] = Unattached(sess[e])]
           \/ sess' = [sess EXCEPT ![e] = Attached(sess[e], o)]
        /\ alive' \in SUBSET Starts /\ pc' \in [Starts -> Control] /\ Others
    <3>1. CASE Withdrawn(o)
      BY <1>9, <3>1 DEF Attach, Goto, TypeOK, clientVars, historyVars, appVars
    <3>2. CASE ~Withdrawn(o)
      BY <1>9, <3>2 DEF Attach, Goto, TypeOK, clientVars, historyVars, appVars
    <3> QED
      BY <3>1, <3>2
  <2> QED
    BY <2>1, <2>2, <1>b
<1>10. CASE LoadFails(o)
  <2>1. LaunchFailed(sess[e], exiting) \in Server /\ e \in Entries
    BY <1>10, <1>a, TransitionsTyped DEF LoadFails
  <2>2. /\ sess' = [sess EXCEPT ![e] = LaunchFailed(sess[e], exiting)] \/ sess' = sess
        /\ alive' \in SUBSET Starts /\ pc' \in [Starts -> Control] /\ Others
    BY <1>10 DEF LoadFails, Goto, Killed, TypeOK, clientVars, historyVars, appVars
  <2> QED
    BY <2>1, <2>2, <1>b
<1>11. CASE Publish(o)
  <2>1. Withheld(sess[e]) \in Server /\ Published(sess[e], o) \in Server /\ e \in Entries
    BY <1>11, <1>a, TransitionsTyped DEF Publish
  <2>2. /\ \/ sess' = [sess EXCEPT ![e] = Withheld(sess[e])]
           \/ sess' = [sess EXCEPT ![e] = Published(sess[e], o)]
        /\ alive' \in SUBSET Starts /\ pc' \in [Starts -> Control] /\ Others
    BY <1>11 DEF Publish, Goto, Killed, TypeOK, clientVars, historyVars, appVars
  <2> QED
    BY <2>1, <2>2, <1>b
<1>12. CASE Finish(o)
  <2>1. /\ alive' \in SUBSET Starts /\ pc' \in [Starts -> Control] /\ Others
        /\ at[o] # None => sess' = [sess EXCEPT ![e] = Disowned(sess[e], o)]
        /\ at[o] = None => sess' = sess
    BY <1>12 DEF Finish, Goto, Killed, TypeOK, clientVars, historyVars, appVars
  <2>2. CASE at[o] = None
    BY <2>1, <2>2 DEF TypeOK
  <2>3. CASE at[o] # None
    <3>1. e \in Entries /\ Disowned(sess[e], o) \in Server
      BY <2>3, TransitionsTyped DEF TypeOK
    <3> QED
      BY <2>1, <2>3, <3>1, <1>b
  <2> QED
    BY <2>2, <2>3
<1> QED
  BY <1>1, <1>2, <1>3, <1>4, <1>5, <1>6, <1>7, <1>8, <1>9, <1>10, <1>11, <1>12 DEF StartStep

\* An unload that takes up or gives away a session is still an unload.
LEMMA UnloadsTyped ==
    ASSUME TypeOK, NEW w \in Stoppers, NEW p \in StopControl, NEW e \in Entries \cup {None},
           stop' = [stop EXCEPT ![w].pc = p, ![w].of = e]
    PROVE  stop' \in [Stoppers -> [pc : StopControl, id : Ids, forget : BOOLEAN,
                                  saw : SUBSET Starts, of : Entries \cup {None}]]
<1> DEFINE Unload == [pc : StopControl, id : Ids, forget : BOOLEAN,
                      saw : SUBSET Starts, of : Entries \cup {None}]
           taken  == [pc |-> p, id |-> stop[w].id, forget |-> stop[w].forget,
                      saw |-> stop[w].saw, of |-> e]
<1>1. stop \in [Stoppers -> Unload]
  BY DEF TypeOK
<1>2. taken \in Unload /\ stop[w] \in Unload
  BY <1>1
<1>3. [stop[w] EXCEPT !.pc = p] = [pc |-> p, id |-> stop[w].id, forget |-> stop[w].forget,
                                   saw |-> stop[w].saw, of |-> stop[w].of]
  BY <1>2
<1>4. [[stop[w] EXCEPT !.pc = p] EXCEPT !.of = e] = taken
  <2>1. [[pc |-> p, id |-> stop[w].id, forget |-> stop[w].forget,
          saw |-> stop[w].saw, of |-> stop[w].of] EXCEPT !.of = e] = taken
    OBVIOUS
  <2> HIDE DEF taken
  <2> QED
    BY <1>3, <2>1, Zenon
<1>5. stop'[w] = taken /\ \A v \in Stoppers \ {w} : stop'[v] = stop[v]
  <2> DEFINE half == [stop EXCEPT ![w].pc = p]
  <2>1. half \in [Stoppers -> Unload] /\ half[w] = [stop[w] EXCEPT !.pc = p]
        /\ \A v \in Stoppers \ {w} : half[v] = stop[v]
    BY <1>1
  <2>2. stop' = [half EXCEPT ![w].of = e]
    OBVIOUS
  <2> HIDE DEF half, Unload
  <2>3. stop'[w] = [half[w] EXCEPT !.of = e] /\ \A v \in Stoppers \ {w} : stop'[v] = half[v]
    BY <2>1, <2>2
  <2> QED
    BY <1>4, <2>1, <2>3
<1>6. stop' = [v \in Stoppers |-> stop'[v]]
  BY <1>1
<1> HIDE DEF taken, Unload
<1>7. stop' \in [Stoppers -> Unload]
  BY <1>1, <1>2, <1>5, <1>6
<1> QED
  BY <1>7 DEF Unload

\* So do stops, background work, requests and chat turns.
LEMMA ClientsKeepTypes ==
    ASSUME TypeOK,
           \/ \E w \in Stoppers : StopStep(w)
           \/ \E e \in Entries : IdleUnload(e) \/ Reap(e)
           \/ \E r \in Requests : PickLease(r) \/ BeginLease(r) \/ DropLease(r)
           \/ \E c \in Chats : ChatBegins(c) \/ ChatEnds(c)
    PROVE  TypeOK'
<1> USE Identities, TrackedAreEntries
<1>1. ASSUME NEW w \in Stoppers, StopRequest(w) PROVE TypeOK'
  BY <1>1 DEF StopRequest, TypeOK, StopControl, CancelPending, Pending, Registered,
              registryVars, startVars, clientVars, historyVars, appVars
<1>2. ASSUME NEW w \in Stoppers, StopTeardown(w) PROVE TypeOK'
  <2>1. \A e \in Entries : TornDown(sess[e]) \in Server
    BY TransitionsTyped DEF TypeOK
  <2>2. registry[stop[w].id] \in Entries \cup {None}
    BY DEF TypeOK
  <2>3. sess' \in [Entries -> Server] /\ alive' \in SUBSET Starts /\ overtaken' \in SUBSET Starts
    BY <1>2, <2>1, <2>2 DEF StopTeardown, TypeOK, Killed
  <2>4. stop' \in [Stoppers -> [pc : StopControl, id : Ids, forget : BOOLEAN,
                               saw : SUBSET Starts, of : Entries \cup {None}]]
    BY <1>2 DEF StopTeardown, TypeOK, StopControl
  <2> QED
    BY <1>2, <2>3, <2>4 DEF StopTeardown, TypeOK, startVars, clientVars, appVars
<1>3. ASSUME NEW w \in Stoppers, Forget(w) PROVE TypeOK'
  <2>1. stop[w].id \in Ids /\ registry[stop[w].id] \in Entries \cup {None}
    BY DEF TypeOK
  <2>2. registry' \in [Ids -> Entries \cup {None}]
    BY <1>3 DEF Forget, TypeOK
  <2>3. stop' \in [Stoppers -> [pc : StopControl, id : Ids, forget : BOOLEAN,
                               saw : SUBSET Starts, of : Entries \cup {None}]]
    <3> DEFINE e == registry[stop[w].id]
               p == IF e = None THEN "idle" ELSE "retire"
    <3>1. stop' = [stop EXCEPT ![w].pc = p, ![w].of = e] /\ p \in StopControl
      BY <1>3 DEF Forget, StopControl
    <3>2. e \in Entries \cup {None}
      BY <2>1
    <3> HIDE DEF e, p
    <3> QED
      BY <3>1, <3>2, UnloadsTyped
  <2> QED
    BY <1>3, <2>2, <2>3 DEF Forget, TypeOK, startVars, clientVars, historyVars, appVars
<1>9. ASSUME NEW w \in Stoppers, Retire(w) PROVE TypeOK'
  <2>1. \A e \in Entries : Retired(sess[e]) \in Server
    BY TransitionsTyped DEF TypeOK
  <2>2. sess' \in [Entries -> Server] /\ alive' \in SUBSET Starts
    BY <1>9, <2>1 DEF Retire, TypeOK, Killed
  <2>3. stop' \in [Stoppers -> [pc : StopControl, id : Ids, forget : BOOLEAN,
                               saw : SUBSET Starts, of : Entries \cup {None}]]
    <3>1. stop' = [stop EXCEPT ![w].pc = "forgotten", ![w].of = None] /\ "forgotten" \in StopControl
      BY <1>9 DEF Retire, StopControl
    <3> QED
      BY <3>1, UnloadsTyped
  <2> QED
    BY <1>9, <2>2, <2>3 DEF Retire, TypeOK, startVars, clientVars, historyVars, appVars
<1>10. ASSUME NEW w \in Stoppers, CancelForgotten(w) PROVE TypeOK'
  BY <1>10 DEF CancelForgotten, TypeOK, StopControl, CancelPending, Pending, Registered,
               registryVars, startVars, clientVars, historyVars, appVars
<1>4. ASSUME NEW e \in Entries, IdleUnload(e) \/ Reap(e) PROVE TypeOK'
  BY <1>4, TransitionsTyped DEF IdleUnload, Reap, TypeOK, Killed,
              startVars, clientVars, historyVars, appVars
<1>5. ASSUME NEW r \in Requests, PickLease(r) PROVE TypeOK'
  BY <1>5 DEF PickLease, TypeOK, Server, registryVars, startVars, historyVars, appVars
<1>6. ASSUME NEW r \in Requests, BeginLease(r) PROVE TypeOK'
  BY <1>6, TransitionsTyped DEF BeginLease, TypeOK, startVars, historyVars, appVars
<1>7. ASSUME NEW r \in Requests, DropLease(r) PROVE TypeOK'
  <2>1. lease[r].at \in Entries /\ RequestEnded(sess[lease[r].at]) \in Server
    BY TransitionsTyped DEF TypeOK
  <2>2. sess' \in [Entries -> Server]
    BY <1>7, <2>1 DEF DropLease, TypeOK
  <2> QED
    BY <1>7, <2>2 DEF DropLease, TypeOK, startVars, historyVars, appVars
<1>8. ASSUME NEW c \in Chats, ChatBegins(c) \/ ChatEnds(c) PROVE TypeOK'
  BY <1>8, TransitionsTyped DEF ChatBegins, ChatEnds, TypeOK, startVars, historyVars, appVars
<1> QED
  BY <1>1, <1>2, <1>3, <1>4, <1>5, <1>6, <1>7, <1>8, <1>9, <1>10 DEF StopStep

\* A start has nothing to do with what stops and unloads are at.
LEMMA StartsTakeNothing ==
    ASSUME NEW o \in Starts, Register(o) \/ StartStep(o) \/ Abandon(o) \/ Crash(o)
    PROVE  stop' = stop /\ InHand' = InHand
<1>1. stop' = stop
  BY DEF StartStep, Register, Abandon, Crash, Admit, Validated, StopForReplacement,
     Place, BeginLaunch, Recheck, ProbeFails, SpawnFails, Spawn, Attach, Confirm, LoadFails,
     Publish, Finish
<1> QED
  BY <1>1 DEF InHand

\* A session changes hands only when an unload takes it up and retires it.
LEMMA UnloadsStayHeld ==
    ASSUME UnloadsHold, TypeOK, SessionNext \/ stop' = stop
    PROVE  UnloadsHold'
<1>1. CASE stop' = stop
  BY <1>1 DEF UnloadsHold
<1>2. ASSUME NEW w \in Stoppers, StopStep(w) PROVE UnloadsHold'
  BY <1>2 DEF StopStep, StopRequest, StopTeardown, Forget, Retire, CancelForgotten, UnloadsHold,
              TypeOK
<1>3. CASE \E o \in Starts : Register(o) \/ StartStep(o) \/ Abandon(o) \/ Crash(o)
  BY <1>1, <1>3, StartsTakeNothing
<1>4. CASE \/ \E e \in Entries : IdleUnload(e) \/ Reap(e)
           \/ \E r \in Requests : PickLease(r) \/ BeginLease(r) \/ DropLease(r)
           \/ \E c \in Chats : ChatBegins(c) \/ ChatEnds(c)
  BY <1>1, <1>4 DEF IdleUnload, Reap, PickLease, BeginLease, DropLease, ChatBegins, ChatEnds
<1> QED
  BY <1>1, <1>2, <1>3, <1>4 DEF SessionNext

-----------------------------------------------------------------------------
(* What a stop, background work or a request does to the sessions *)

\* The rest of the invariant, once the types are known to be kept.
SessionFacts ==
    /\ StartsHoldLock
    /\ CurrentLaunchStarts
    /\ StartingIsLaunched
    /\ RetiredStaysIdle
    /\ LoadedIsHeld
    /\ ReadyIsOneLaunch
    /\ NoOrphanProcess

\* An entry whose launch, process and lifecycle are as before, one that was taken
\* down, and a ready one whose process was found dead.
Untouched(e) ==
    /\ sess'[e].life = sess[e].life
    /\ sess'[e].launch = sess[e].launch
    /\ sess'[e].child = sess[e].child
    /\ sess'[e].key = sess[e].key
    /\ sess'[e].exec = sess[e].exec
    /\ sess'[e].retired = sess[e].retired
TakenDown(e) ==
    /\ sess'[e].life = "stopped"
    /\ sess'[e].launch = None
    /\ sess'[e].child = None
    /\ sess[e].retired => sess'[e].retired
FoundDead(e) ==
    /\ sess[e].life = "ready"
    /\ sess'[e].life = "crashed"
    /\ sess'[e].launch = sess[e].launch
    /\ sess'[e].retired = sess[e].retired

\* No entry gains a launch or a process; a process that survives keeps its entry,
\* an entry leaves the registry only into the hands of an unload, and is retired there.
OnlyTakesDown ==
    \A e \in Entries :
        /\ Untouched(e) \/ TakenDown(e) \/ FoundDead(e)
        /\ sess[e].child \in alive' => sess'[e].child = sess[e].child
        /\ e \in Tracked => e \in Tracked' \/ e \in InHand'
        /\ e \in InHand => e \in InHand' \/ (TakenDown(e) /\ sess'[e].retired)

\* A step that only takes sessions down, whoever holds the operation lock.  The
\* replacement of every model is one such step; its start goes on to placing.
LEMMA TakingDownKeepsFacts ==
    ASSUME TypeOK, SessionFacts, OnlyTakesDown, alive' \subseteq alive,
           \A o \in Starts : pc'[o] = pc[o] \/ (pc[o] = "replacing" /\ pc'[o] = "placing"),
           UNCHANGED <<at, operation>>
    PROVE  SessionFacts'
<1> USE Identities, ControlPoints
<1>1. StartsHoldLock'
  BY DEF SessionFacts, StartsHoldLock
<1>2. CurrentLaunchStarts'
  <2> SUFFICES ASSUME NEW o \in Starts, pc'[o] \in Launching, pc[o] = pc'[o],
                      sess'[at[o]].launch = o
               PROVE  /\ sess'[at[o]].life = "starting"
                      /\ pc[o] \in {"launching", "probing", "spawned"} => sess'[at[o]].child = None
                      /\ pc[o] \in {"loading", "confirmed"} =>
                             sess'[at[o]].child = o /\ sess'[at[o]].key = o
    BY DEF CurrentLaunchStarts
  <2>1. at[o] \in Entries
    BY DEF SessionFacts, StartsHoldLock
  <2>2. ~TakenDown(at[o])
    BY DEF TakenDown
  <2>3. Untouched(at[o])
    BY <2>1, <2>2 DEF OnlyTakesDown, FoundDead, SessionFacts, CurrentLaunchStarts
  <2> QED
    BY <2>3 DEF Untouched, SessionFacts, CurrentLaunchStarts
<1>3. StartingIsLaunched'
  <2> SUFFICES ASSUME NEW e \in Entries, sess'[e].life = "starting"
               PROVE  \E o \in Starts : /\ sess'[e].launch = o
                                        /\ at[o] = e
                                        /\ operation = o
                                        /\ pc'[o] \in Launching \cup {"unwinding"}
    BY DEF StartingIsLaunched
  <2>1. Untouched(e)
    BY DEF OnlyTakesDown, TakenDown, FoundDead
  <2> QED
    BY <2>1 DEF Untouched, SessionFacts, StartingIsLaunched
<1>4. RetiredStaysIdle'
  <2>1. ASSUME NEW e \in Entries, sess'[e].retired PROVE sess'[e].launch = None
    BY <2>1 DEF OnlyTakesDown, Untouched, TakenDown, FoundDead, SessionFacts, RetiredStaysIdle
  <2>2. ASSUME NEW o \in Starts, pc'[o] = "tracked"
        PROVE  at[o] \in Held' \/ sess'[at[o]].retired
    <3>1. at[o] \in Entries /\ (at[o] \in Held \/ sess[at[o]].retired)
      BY <2>2 DEF SessionFacts, StartsHoldLock, RetiredStaysIdle
    <3> QED
      BY <3>1 DEF OnlyTakesDown, Untouched, TakenDown, FoundDead, Held
  <2> QED
    BY <2>1, <2>2 DEF RetiredStaysIdle
<1>5. LoadedIsHeld'
  <2> SUFFICES ASSUME NEW e \in Entries
               PROVE  /\ BlocksResourceChange(sess'[e]) => e \in Held'
                      /\ sess'[e].life # "stopping"
    BY DEF LoadedIsHeld
  <2> QED
    BY DEF OnlyTakesDown, Untouched, TakenDown, FoundDead, BlocksResourceChange,
           SessionFacts, LoadedIsHeld, Held
<1>6. ReadyIsOneLaunch'
  <2> SUFFICES ASSUME NEW e \in Entries, sess'[e].life = "ready"
               PROVE  /\ sess'[e].launch \in Starts
                      /\ sess'[e].key = sess'[e].launch
                      /\ sess'[e].child = sess'[e].launch
                      /\ sess'[e].exec = sess'[e].launch
                      /\ ~sess'[e].retired
    BY DEF ReadyIsOneLaunch
  <2>1. Untouched(e)
    BY DEF OnlyTakesDown, TakenDown, FoundDead
  <2> QED
    BY <2>1 DEF Untouched, SessionFacts, ReadyIsOneLaunch
<1>7. NoOrphanProcess'
  <2> SUFFICES ASSUME NEW o \in alive'
               PROVE  pc'[o] = "spawned" \/ \E e \in Entries : sess'[e].child = o
    BY DEF NoOrphanProcess
  <2> QED
    BY DEF OnlyTakesDown, SessionFacts, NoOrphanProcess, TypeOK
<1> QED
  BY <1>1, <1>2, <1>3, <1>4, <1>5, <1>6, <1>7 DEF SessionFacts

\* A stop changes nothing about what unloads have in their hands.
LEMMA StopsHoldNothing ==
    ASSUME TypeOK, UnloadsHold, NEW w \in Stoppers, StopRequest(w) \/ StopTeardown(w)
    PROVE  InHand' = InHand
<1>1. stop \in [Stoppers -> [pc : StopControl, id : Ids, forget : BOOLEAN,
                             saw : SUBSET Starts, of : Entries \cup {None}]]
  BY DEF TypeOK
<1>2. CASE StopRequest(w)
  <2>1. stop[w].of = None
    BY <1>2 DEF StopRequest, UnloadsHold
  <2>2. \E i, f : stop' = [stop EXCEPT ![w] = [pc |-> "cancelled", id |-> i, forget |-> f,
                                              saw |-> Pending(i), of |-> None]]
    BY <1>2 DEF StopRequest
  <2>3. \A v \in Stoppers : stop'[v].of = stop[v].of
    BY <1>1, <2>1, <2>2
  <2> QED
    BY <2>3 DEF InHand
<1>3. CASE StopTeardown(w)
  <2>1. \A v \in Stoppers : stop'[v].of = stop[v].of
    BY <1>1, <1>3 DEF StopTeardown
  <2> QED
    BY <2>1 DEF InHand
<1> QED
  BY <1>2, <1>3

\* An entry whose record is not changed at all.
LEMMA UnchangedIsUntouched == \A e \in Entries : sess'[e] = sess[e] => Untouched(e)
  BY DEF Untouched

\* Stops, unloads, idle unload, reaping, requests, chat turns and crashes only
\* take sessions down.
LEMMA ClientsOnlyTakeDown ==
    ASSUME TypeOK, UnloadsHold,
           \/ \E w \in Stoppers : StopStep(w)
           \/ \E e \in Entries : IdleUnload(e) \/ Reap(e)
           \/ \E r \in Requests : PickLease(r) \/ BeginLease(r) \/ DropLease(r)
           \/ \E c \in Chats : ChatBegins(c) \/ ChatEnds(c)
           \/ \E o \in Starts : Crash(o)
    PROVE  OnlyTakesDown /\ alive' \subseteq alive /\ UNCHANGED <<pc, at, operation>>
<1> USE Identities, TrackedAreEntries
<1> DEFINE Goal == OnlyTakesDown /\ alive' \subseteq alive /\ UNCHANGED <<pc, at, operation>>
\* one entry is taken down, the registry stays
<1>1. ASSUME NEW f \in Entries, sess' = [sess EXCEPT ![f] = TornDown(sess[f])],
             alive' = Killed(f), UNCHANGED <<registry, InHand, pc, at, operation>>
      PROVE  Goal
  <2>1. sess[f] \in Server /\ None \notin alive
    BY DEF TypeOK
  <2>2. TakenDown(f)
    <3>1. sess'[f] = TornDown(sess[f])
      BY <1>1 DEF TypeOK
    <3>2. TornDown(sess[f]).life = "stopped" /\ TornDown(sess[f]).launch = None
          /\ TornDown(sess[f]).child = None /\ TornDown(sess[f]).retired = sess[f].retired
      BY <2>1, TeardownTransitions
    <3> QED
      BY <3>1, <3>2 DEF TakenDown
  <2>3. \A e \in Entries \ {f} : Untouched(e)
    BY <1>1 DEF TypeOK, Untouched
  <2>4. \A e \in Entries : sess[e].child \in alive' => sess'[e].child = sess[e].child
    BY <1>1, <2>1 DEF Killed, TypeOK
  <2>5. Tracked' = Tracked
    BY <1>1 DEF Tracked
  <2> QED
    BY <1>1, <2>2, <2>3, <2>4, <2>5 DEF OnlyTakesDown, Killed
\* the count of one entry changes
<1>2. ASSUME NEW f \in Entries, UNCHANGED <<registry, InHand, pc, at, operation, alive>>,
             \/ sess' = sess
             \/ sess' = [sess EXCEPT ![f] = RequestBegun(sess[f])]
             \/ sess' = [sess EXCEPT ![f] = RequestEnded(sess[f])]
      PROVE  Goal
  <2>1. sess[f] \in Server
    BY DEF TypeOK
  <2>2. Untouched(f)
    BY <1>2, <2>1, RequestTransitions DEF TypeOK, Untouched
  <2>3. \A e \in Entries \ {f} : Untouched(e)
    BY <1>2 DEF TypeOK, Untouched
  <2>4. Tracked' = Tracked
    BY <1>2 DEF Tracked
  <2> QED
    BY <1>2, <2>2, <2>3, <2>4 DEF OnlyTakesDown, Untouched
<1>a. (\A w \in Stoppers : stop'[w].of = stop[w].of) => InHand' = InHand
  BY DEF InHand
<1>b. stop' = stop => InHand' = InHand
  BY DEF InHand
<1>3. ASSUME NEW w \in Stoppers, StopRequest(w) PROVE Goal
  <2>1. InHand' = InHand
    BY <1>3, StopsHoldNothing
  <2> QED
    BY <1>2, <1>3, <2>1 DEF StopRequest, registryVars, startVars
<1>4. ASSUME NEW w \in Stoppers, StopTeardown(w) PROVE Goal
  <2>1. registry[stop[w].id] \in Entries \cup {None}
    BY DEF TypeOK
  <2>2. InHand' = InHand
    BY <1>4, StopsHoldNothing
  <2>3. UNCHANGED <<registry, pc, at, operation>>
        /\ \/ sess' = sess /\ alive' = alive
           \/ /\ registry[stop[w].id] # None
              /\ sess' = [sess EXCEPT ![registry[stop[w].id]] = TornDown(sess[registry[stop[w].id]])]
              /\ alive' = Killed(registry[stop[w].id])
    BY <1>4 DEF StopTeardown, startVars
  <2> QED
    BY <1>1, <1>2, <2>1, <2>2, <2>3
<1>5. ASSUME NEW w \in Stoppers, Forget(w) PROVE Goal
  <2> DEFINE i == stop[w].id
             f == registry[i]
  <2>1. i \in Ids /\ f \in Entries \cup {None} /\ stop[w].of = None
    BY <1>5 DEF Forget, UnloadsHold, TypeOK
  <2>2. /\ registry' = [registry EXCEPT ![i] = None]
        /\ UNCHANGED <<sess, alive, pc, at, operation>>
        /\ stop'[w].of = f /\ \A v \in Stoppers \ {w} : stop'[v].of = stop[v].of
    BY <1>5 DEF Forget, startVars, TypeOK
  <2> HIDE DEF f, i
  <2>3. \A e \in Tracked : e \in Tracked' \/ e = f
    BY <2>1, <2>2 DEF Tracked, TypeOK, f
  <2>4. f # None => f \in InHand'
    BY <2>2 DEF InHand
  <2>5. \A e \in InHand : e \in InHand'
    BY <2>1, <2>2 DEF InHand
  <2>6. \A e \in Tracked : e # None
    BY DEF Tracked
  <2> QED
    BY <2>2, <2>3, <2>4, <2>5, <2>6, UnchangedIsUntouched DEF OnlyTakesDown
<1>13. ASSUME NEW w \in Stoppers, Retire(w) PROVE Goal
  <2> DEFINE f == stop[w].of
  <2>1. /\ sess' = [sess EXCEPT ![f] = Retired(sess[f])]
        /\ alive' = Killed(f) /\ UNCHANGED <<registry, pc, at, operation>>
        /\ \A v \in Stoppers \ {w} : stop'[v].of = stop[v].of
    BY <1>13 DEF Retire, startVars, TypeOK
  <2>2. f \in Entries \cup {None}
    BY DEF TypeOK
  <2> HIDE DEF f
  <2>3. Tracked' = Tracked /\ None \notin alive
    BY <2>1 DEF Tracked, TypeOK
  <2>4. \A e \in Entries \ {f} : Untouched(e)
    BY <2>1 DEF TypeOK, Untouched
  <2>5. f \in Entries => TakenDown(f) /\ sess'[f].retired
    <3> SUFFICES ASSUME f \in Entries PROVE TakenDown(f) /\ sess'[f].retired
      OBVIOUS
    <3>1. sess'[f] = Retired(sess[f]) /\ sess[f] \in Server
      BY <2>1 DEF TypeOK
    <3>2. Retired(sess[f]).life = "stopped" /\ Retired(sess[f]).launch = None
          /\ Retired(sess[f]).child = None /\ Retired(sess[f]).retired
      BY <3>1, TeardownTransitions
    <3> QED
      BY <3>1, <3>2 DEF TakenDown
  <2>6. \A e \in Entries : sess[e].child \in alive' => sess'[e].child = sess[e].child
    BY <2>1, <2>3 DEF Killed, TypeOK
  <2>7. \A e \in InHand : e \in InHand' \/ e = f
    BY <2>1 DEF InHand, f
  <2> QED
    BY <2>1, <2>3, <2>4, <2>5, <2>6, <2>7 DEF OnlyTakesDown, Killed
<1>14. ASSUME NEW w \in Stoppers, CancelForgotten(w) PROVE Goal
  <2>1. InHand' = InHand
    BY <1>14, <1>a DEF CancelForgotten, TypeOK
  <2> QED
    BY <1>2, <1>14, <2>1 DEF CancelForgotten, registryVars, startVars
<1>6. ASSUME NEW e \in Entries, IdleUnload(e) PROVE Goal
  BY <1>1, <1>6, <1>b DEF IdleUnload, startVars
<1>7. ASSUME NEW f \in Entries, Reap(f) PROVE Goal
  <2>1. sess[f] \in Server
    BY DEF TypeOK
  <2>2. FoundDead(f)
    BY <1>7, <2>1, TeardownTransitions DEF Reap, TypeOK, FoundDead
  <2>3. \A e \in Entries \ {f} : Untouched(e)
    BY <1>7 DEF Reap, TypeOK, Untouched
  <2>4. Tracked' = Tracked /\ InHand' = InHand /\ alive' = alive
        /\ UNCHANGED <<pc, at, operation>> /\ sess[f].child \notin alive
    BY <1>7, <1>b DEF Reap, Tracked, startVars
  <2> QED
    BY <2>2, <2>3, <2>4 DEF OnlyTakesDown, Untouched
<1>8. ASSUME NEW r \in Requests, PickLease(r) PROVE Goal
  BY <1>2, <1>8, <1>b DEF PickLease, registryVars, startVars
<1>9. ASSUME NEW r \in Requests, BeginLease(r) \/ DropLease(r) PROVE Goal
  <2>1. lease[r].at \in Entries
    BY DEF TypeOK
  <2> QED
    BY <1>2, <1>9, <1>b, <2>1 DEF BeginLease, DropLease, startVars
<1>10. ASSUME NEW c \in Chats, ChatBegins(c) PROVE Goal
  <2>1. PICK i \in Ids : /\ registry[i] # None
                         /\ sess' = [sess EXCEPT ![registry[i]] = RequestBegun(sess[registry[i]])]
    BY <1>10 DEF ChatBegins
  <2>2. registry[i] \in Entries
    BY <2>1 DEF TypeOK
  <2> QED
    BY <1>2, <1>10, <1>b, <2>1, <2>2 DEF ChatBegins, startVars
<1>11. ASSUME NEW c \in Chats, ChatEnds(c) PROVE Goal
  <2>1. registry[chat[c]] \in Entries \cup {None}
    BY <1>11 DEF TypeOK, ChatEnds
  <2> QED
    BY <1>2, <1>11, <1>b, <2>1 DEF ChatEnds, startVars
<1>12. ASSUME NEW o \in Starts, Crash(o) PROVE Goal
  BY <1>12, <1>b, UnchangedIsUntouched
     DEF Crash, OnlyTakesDown, Tracked, registryVars, startVars
<1> QED
  BY <1>3, <1>4, <1>5, <1>6, <1>7, <1>8, <1>9, <1>10, <1>11, <1>12,
     <1>13, <1>14 DEF StopStep

-----------------------------------------------------------------------------
(* What a start does to the sessions *)

\* While a start is placing or launching no other is.
LEMMA StartsAlone ==
    ASSUME StartsHoldLock, NEW o \in Starts, operation = o \/ operation = None
    PROVE  \A p \in Starts \ {o} : pc[p] \notin Placing \cup Launching
  BY Identities DEF StartsHoldLock

\* A start that moves on without touching a session: l is where it goes.
LEMMA WaitingKeepsFacts ==
    ASSUME TypeOK, SessionFacts, NEW o \in Starts, NEW l \in Control,
           pc' = [pc EXCEPT ![o] = l], UNCHANGED <<registry, stop, sess, at, alive>>,
           pc[o] \notin Launching \cup {"unwinding"}, l \notin Launching \cup {"tracked"},
           l \in Placing => operation' = o,
           operation = operation' \/ (operation = None /\ operation' = o)
    PROVE  SessionFacts'
<1> USE Identities, ControlPoints
<1>1. pc'[o] = l /\ \A p \in Starts \ {o} : pc'[p] = pc[p]
  BY DEF TypeOK
<1>2. Held' = Held
  BY DEF Held, Tracked, InHand
<1>3. StartsHoldLock'
  BY <1>1 DEF SessionFacts, StartsHoldLock
<1>4. CurrentLaunchStarts'
  BY <1>1 DEF SessionFacts, CurrentLaunchStarts
<1>5. StartingIsLaunched'
  <2> SUFFICES ASSUME NEW e \in Entries, sess[e].life = "starting"
               PROVE  \E p \in Starts : /\ sess[e].launch = p
                                        /\ at[p] = e
                                        /\ operation' = p
                                        /\ pc'[p] \in Launching \cup {"unwinding"}
    BY DEF StartingIsLaunched
  <2>1. PICK p \in Starts : /\ sess[e].launch = p /\ at[p] = e /\ operation = p
                            /\ pc[p] \in Launching \cup {"unwinding"}
    BY DEF SessionFacts, StartingIsLaunched
  <2>2. operation' = p
    BY <2>1
  <2>3. CASE p = o
    BY <1>1, <2>1, <2>2, <2>3 DEF TypeOK
  <2>4. CASE p # o
    BY <1>1, <2>1, <2>2, <2>4
  <2> QED
    BY <2>3, <2>4
<1>6. RetiredStaysIdle' /\ LoadedIsHeld' /\ ReadyIsOneLaunch'
  BY <1>1, <1>2 DEF SessionFacts, RetiredStaysIdle, LoadedIsHeld, ReadyIsOneLaunch
<1>7. NoOrphanProcess'
  BY <1>1 DEF SessionFacts, NoOrphanProcess, TypeOK
<1> QED
  BY <1>3, <1>4, <1>5, <1>6, <1>7 DEF SessionFacts

\* A start that moves on with its launch: it is at l afterwards, and only the
\* session it launches on has changed, to one that fits the launch.
LaunchMove(o, l) ==
    LET e == at[o]
        s == sess'[e]
    IN  /\ pc' = [pc EXCEPT ![o] = l]
        /\ UNCHANGED <<registry, stop, at, operation>>
        /\ \A f \in Entries \ {e} : sess'[f] = sess[f]
        /\ s # sess[e] =>
              /\ s.life \in {"starting", "ready"} => s.launch = o /\ ~s.retired /\ e \in Held
              /\ s.life # "stopping"
              /\ s.life = "ready" => s.key = o /\ s.child = o /\ s.exec = o
              /\ s.retired => s.launch = None
        /\ l \in Launching /\ s.launch = o =>
              /\ s.life = "starting"
              /\ l \in {"launching", "probing", "spawned"} => s.child = None
              /\ l \in {"loading", "confirmed"} => s.child = o /\ s.key = o
        /\ alive' \subseteq alive \cup (IF l = "spawned" THEN {o} ELSE {})
        /\ sess[e].child \in alive' => s.child = sess[e].child
        /\ pc[o] = "spawned" /\ o \in alive' => s.child = o

LEMMA LaunchMoveKeepsFacts ==
    ASSUME TypeOK, SessionFacts, NEW o \in Starts, NEW l \in Launching \cup {"unwinding"},
           pc[o] \in {"tracked"} \cup Launching, LaunchMove(o, l)
    PROVE  SessionFacts'
<1> USE Identities, ControlPoints
<1> DEFINE e == at[o]
<1>1. pc'[o] = l /\ \A p \in Starts \ {o} : pc'[p] = pc[p]
  BY DEF LaunchMove, TypeOK
<1>2. Held' = Held /\ UNCHANGED <<registry, at, operation>>
  BY DEF Held, Tracked, InHand, LaunchMove
<1>3. operation = o /\ e \in Entries
  BY DEF SessionFacts, StartsHoldLock
<1>4. \A p \in Starts \ {o} : pc[p] \notin Placing \cup Launching
  BY <1>3, StartsAlone DEF SessionFacts
<1>5. StartsHoldLock'
  BY <1>1, <1>2, <1>3, <1>4 DEF StartsHoldLock
<1>6. CurrentLaunchStarts'
  BY <1>1, <1>2, <1>4 DEF CurrentLaunchStarts, LaunchMove
<1>7. StartingIsLaunched'
  <2> SUFFICES ASSUME NEW f \in Entries, sess'[f].life = "starting"
               PROVE  sess'[f].launch = o /\ f = e
    BY <1>1, <1>2, <1>3 DEF StartingIsLaunched
  <2>1. CASE sess'[f] = sess[f]
    BY <1>3, <2>1 DEF SessionFacts, StartingIsLaunched
  <2>2. CASE sess'[f] # sess[f]
    BY <2>2 DEF LaunchMove
  <2> QED
    BY <2>1, <2>2
<1>8. RetiredStaysIdle'
  BY <1>1, <1>2, <1>3, <1>4 DEF RetiredStaysIdle, LaunchMove, SessionFacts
<1>9. LoadedIsHeld'
  <2> SUFFICES ASSUME NEW f \in Entries
               PROVE  /\ BlocksResourceChange(sess'[f]) => f \in Held
                      /\ sess'[f].life # "stopping"
    BY <1>2 DEF LoadedIsHeld
  <2> QED
    BY DEF BlocksResourceChange, LoadedIsHeld, LaunchMove, SessionFacts
<1>10. ReadyIsOneLaunch'
  <2> SUFFICES ASSUME NEW f \in Entries, sess'[f].life = "ready"
               PROVE  /\ sess'[f].launch \in Starts
                      /\ sess'[f].key = sess'[f].launch
                      /\ sess'[f].child = sess'[f].launch
                      /\ sess'[f].exec = sess'[f].launch
                      /\ ~sess'[f].retired
    BY DEF ReadyIsOneLaunch
  <2> QED
    BY DEF ReadyIsOneLaunch, LaunchMove, SessionFacts
<1>11. NoOrphanProcess'
  <2> SUFFICES ASSUME NEW p \in alive'
               PROVE  pc'[p] = "spawned" \/ \E f \in Entries : sess'[f].child = p
    BY DEF NoOrphanProcess
  <2>1. CASE p \notin alive
    BY <1>1, <2>1 DEF LaunchMove
  <2>2. CASE p \in alive /\ pc[p] = "spawned"
    <3>1. p = o
      BY <1>4, <2>2 DEF TypeOK
    <3> QED
      BY <1>3, <2>2, <3>1 DEF LaunchMove
  <2>3. CASE p \in alive /\ pc[p] # "spawned"
    <3>1. PICK f \in Entries : sess[f].child = p
      BY <2>3 DEF SessionFacts, NoOrphanProcess
    <3>2. sess'[f].child = p
      BY <3>1 DEF LaunchMove
    <3> QED
      BY <3>2
  <2> QED
    BY <2>1, <2>2, <2>3
<1> QED
  BY <1>5, <1>6, <1>7, <1>8, <1>9, <1>10, <1>11 DEF SessionFacts

\* The steps of a launch, from the choice of the session to its publication.
LEMMA LaunchingMoves ==
    ASSUME TypeOK, SessionFacts, NEW o \in Starts,
           \/ BeginLaunch(o) \/ Recheck(o) \/ ProbeFails(o) \/ SpawnFails(o) \/ Spawn(o)
           \/ Attach(o) \/ Confirm(o) \/ LoadFails(o) \/ Publish(o)
           \/ Abandon(o) /\ pc[o] \in Launching
    PROVE  /\ pc[o] \in {"tracked"} \cup Launching
           /\ \E l \in Launching \cup {"unwinding"} : LaunchMove(o, l)
<1> USE Identities, ControlPoints
<1> DEFINE e == at[o]
<1>1. /\ pc[o] \in {"tracked"} \cup Launching
      /\ e \in Entries /\ sess[e] \in Server /\ None \notin alive /\ o \in Launch
  BY DEF BeginLaunch, Recheck, ProbeFails, SpawnFails, Spawn, Attach, Confirm, LoadFails,
         Publish, Abandon, SessionFacts, StartsHoldLock, TypeOK
<1>2. SUFFICES \E l \in Launching \cup {"unwinding"} : LaunchMove(o, l)
  BY <1>1
<1>3. /\ pc[o] \in Launching /\ sess[e].launch = o =>
             /\ sess[e].life = "starting"
             /\ pc[o] \in {"launching", "probing", "spawned"} => sess[e].child = None
             /\ pc[o] \in {"loading", "confirmed"} => sess[e].child = o /\ sess[e].key = o
      /\ BlocksResourceChange(sess[e]) => e \in Held
      /\ sess[e].retired => sess[e].launch = None
  BY <1>1 DEF SessionFacts, CurrentLaunchStarts, LoadedIsHeld, RetiredStaysIdle
\* the session stays as it is
<1>4. ASSUME NEW l \in Launching \cup {"unwinding"}, pc' = [pc EXCEPT ![o] = l],
             UNCHANGED <<sess, registry, stop, at, operation>>,
             alive' \subseteq alive \cup (IF l = "spawned" THEN {o} ELSE {}),
             pc[o] # "spawned",
             l \in Launching /\ sess[e].launch = o =>
                /\ sess[e].life = "starting"
                /\ l \in {"launching", "probing", "spawned"} => sess[e].child = None
                /\ l \in {"loading", "confirmed"} => sess[e].child = o /\ sess[e].key = o
      PROVE  LaunchMove(o, l)
  BY <1>4 DEF LaunchMove
\* the session becomes s
<1>5. ASSUME NEW l \in {"launching", "loading", "unwinding"}, NEW s \in Server,
             pc' = [pc EXCEPT ![o] = l], sess' = [sess EXCEPT ![e] = s],
             UNCHANGED <<registry, stop, at, operation>>,
             s.life \in {"starting", "ready"} => s.launch = o /\ ~s.retired /\ e \in Held,
             s.life # "stopping",
             s.life = "ready" => s.key = o /\ s.child = o /\ s.exec = o,
             s.retired => s.launch = None,
             l # "unwinding" /\ s.launch = o =>
                /\ s.life = "starting"
                /\ l = "launching" => s.child = None
                /\ l = "loading" => s.child = o /\ s.key = o,
             alive' \subseteq alive,
             sess[e].child \in alive' => s.child = sess[e].child,
             pc[o] = "spawned" /\ o \in alive' => s.child = o
      PROVE  LaunchMove(o, l)
  <2>1. sess'[e] = s /\ \A f \in Entries \ {e} : sess'[f] = sess[f]
    BY <1>1, <1>5 DEF TypeOK
  <2> QED
    BY <1>5, <2>1 DEF LaunchMove
<1>6. CASE BeginLaunch(o)
  <2>1. CASE UNCHANGED <<sess, alive>> /\ Goto(o, "unwinding")
    BY <1>4, <1>6, <2>1 DEF BeginLaunch, Goto
  <2>2. CASE ~UNCHANGED <<sess, alive>> \/ ~Goto(o, "unwinding")
    <3>1. /\ pc[o] = "tracked" /\ ~sess[e].retired
          /\ sess' = [sess EXCEPT ![e] = Begun(sess[e], o)] /\ alive' = alive \ {sess[e].child}
          /\ pc' = [pc EXCEPT ![o] = "launching"] /\ UNCHANGED <<registry, stop, at, operation>>
      BY <1>6, <2>2 DEF BeginLaunch, Goto, Killed
    <3>2. e \in Held
      BY <3>1 DEF SessionFacts, RetiredStaysIdle
    <3>3. Begun(sess[e], o) \in Server
      BY <1>1, TransitionsTyped
    <3>4. /\ Begun(sess[e], o).life = "starting" /\ Begun(sess[e], o).launch = o
          /\ Begun(sess[e], o).child = None /\ Begun(sess[e], o).retired = sess[e].retired
      BY <1>1, LaunchTransitions
    <3> QED
      BY <1>5, <3>1, <3>2, <3>3, <3>4
  <2> QED
    BY <2>1, <2>2
<1>7. CASE Recheck(o)
  <2>1. CASE sess[e].launch # o \/ o \in cancelled
    BY <1>3, <1>4, <1>7, <2>1 DEF Recheck, Goto, registryVars
  <2>2. CASE ~(sess[e].launch # o \/ o \in cancelled)
    BY <1>3, <1>4, <1>7, <2>2 DEF Recheck, Goto, registryVars
  <2> QED
    BY <2>1, <2>2
<1>8. CASE ProbeFails(o)
  BY <1>4, <1>8 DEF ProbeFails, Goto, registryVars
<1>15. CASE Abandon(o)
  BY <1>1, <1>4, <1>15 DEF Abandon, Goto, registryVars
<1>9. CASE Spawn(o)
  BY <1>3, <1>4, <1>9 DEF Spawn, Goto, registryVars
<1>10. CASE Confirm(o)
  BY <1>3, <1>4, <1>10 DEF Confirm, Goto, registryVars
<1>11. CASE SpawnFails(o)
  <2>1. CASE sess[e].launch = o
    <3> DEFINE s == SpawnFailed(sess[e], exiting)
    <3>1. exiting \in BOOLEAN
      BY DEF TypeOK
    <3>2. /\ s \in Server /\ s.life \in {"stopped", "failed"} /\ s.launch = sess[e].launch
          /\ s.child = sess[e].child /\ s.retired = sess[e].retired
      BY <1>1, <3>1, TransitionsTyped, FailureTransitions
    <3>3. /\ sess' = [sess EXCEPT ![e] = s] /\ alive' = alive /\ pc[o] = "probing"
          /\ pc' = [pc EXCEPT ![o] = "unwinding"] /\ UNCHANGED <<registry, stop, at, operation>>
      BY <1>11, <2>1 DEF SpawnFails, Goto
    <3> HIDE DEF s
    <3> QED
      BY <1>3, <1>5, <3>2, <3>3
  <2>2. CASE sess[e].launch # o
    BY <1>4, <1>11, <2>2 DEF SpawnFails, Goto
  <2> QED
    BY <2>1, <2>2
<1>12. CASE Attach(o)
  <2>1. CASE Withdrawn(o)
    <3> DEFINE s == Unattached(sess[e])
    <3>1. /\ s \in Server /\ s.life = "stopped" /\ s.launch = sess[e].launch
          /\ s.child = sess[e].child /\ s.retired = sess[e].retired
      BY <1>1, TransitionsTyped, FailureTransitions
    <3>2. /\ sess' = [sess EXCEPT ![e] = s] /\ alive' = alive \ {o} /\ pc[o] = "spawned"
          /\ pc' = [pc EXCEPT ![o] = "unwinding"] /\ UNCHANGED <<registry, stop, at, operation>>
      BY <1>12, <2>1 DEF Attach, Goto
    <3> HIDE DEF s
    <3> QED
      BY <1>3, <1>5, <3>1, <3>2
  <2>2. CASE ~Withdrawn(o)
    <3> DEFINE s == Attached(sess[e], o)
    <3>1. /\ s.life = "starting" /\ s.launch = sess[e].launch
          /\ s.child = o /\ s.key = o /\ s.retired = sess[e].retired
      BY <1>1, LaunchTransitions
    <3>4. s \in Server
      BY <1>1, TransitionsTyped
    <3>2. /\ sess' = [sess EXCEPT ![e] = s] /\ alive' = alive /\ pc[o] = "spawned"
          /\ pc' = [pc EXCEPT ![o] = "loading"] /\ UNCHANGED <<registry, stop, at, operation>>
          /\ sess[e].launch = o
      BY <1>12, <2>2 DEF Attach, Goto, Withdrawn
    <3>3. e \in Held /\ ~sess[e].retired /\ sess[e].child = None
      BY <1>3, <3>2 DEF BlocksResourceChange
    <3> HIDE DEF s
    <3> QED
      BY <1>1, <1>5, <3>1, <3>2, <3>3, <3>4
  <2> QED
    BY <2>1, <2>2
<1>13. CASE LoadFails(o)
  <2>1. CASE sess[e].launch = o
    <3> DEFINE s == LaunchFailed(sess[e], exiting)
    <3>1. exiting \in BOOLEAN
      BY DEF TypeOK
    <3>2. /\ s \in Server /\ s.life \in {"stopped", "failed"} /\ s.launch = sess[e].launch
          /\ s.child = None /\ s.retired = sess[e].retired
      BY <1>1, <3>1, TransitionsTyped, FailureTransitions
    <3>3. /\ sess' = [sess EXCEPT ![e] = s] /\ alive' = alive \ {sess[e].child}
          /\ pc[o] = "loading" /\ pc' = [pc EXCEPT ![o] = "unwinding"]
          /\ UNCHANGED <<registry, stop, at, operation>>
      BY <1>13, <2>1 DEF LoadFails, Goto, Killed
    <3> HIDE DEF s
    <3> QED
      BY <1>3, <1>5, <3>2, <3>3
  <2>2. CASE sess[e].launch # o
    BY <1>4, <1>13, <2>2 DEF LoadFails, Goto
  <2> QED
    BY <2>1, <2>2
<1>14. CASE Publish(o)
  <2>1. CASE Withdrawn(o)
    <3> DEFINE s == Withheld(sess[e])
    <3>1. /\ s \in Server /\ s.life = "stopped" /\ s.launch = sess[e].launch
          /\ s.child = None /\ s.retired = sess[e].retired
      BY <1>1, TransitionsTyped, FailureTransitions
    <3>2. /\ sess' = [sess EXCEPT ![e] = s] /\ alive' = alive \ {sess[e].child}
          /\ pc[o] = "confirmed" /\ pc' = [pc EXCEPT ![o] = "unwinding"]
          /\ UNCHANGED <<registry, stop, at, operation>>
      BY <1>14, <2>1 DEF Publish, Goto, Killed
    <3> HIDE DEF s
    <3> QED
      BY <1>3, <1>5, <3>1, <3>2
  <2>2. CASE ~Withdrawn(o)
    <3> DEFINE s == Published(sess[e], o)
    <3>1. /\ s.life = "ready" /\ s.launch = sess[e].launch
          /\ s.child = sess[e].child /\ s.key = sess[e].key /\ s.exec = o
          /\ s.retired = sess[e].retired
      BY <1>1, LaunchTransitions
    <3>4. s \in Server
      BY <1>1, TransitionsTyped
    <3>2. /\ sess' = [sess EXCEPT ![e] = s] /\ alive' = alive /\ pc[o] = "confirmed"
          /\ pc' = [pc EXCEPT ![o] = "unwinding"] /\ UNCHANGED <<registry, stop, at, operation>>
          /\ sess[e].launch = o
      BY <1>14, <2>2 DEF Publish, Goto, Withdrawn
    <3>3. e \in Held /\ ~sess[e].retired /\ sess[e].child = o /\ sess[e].key = o
      BY <1>3, <3>2 DEF BlocksResourceChange
    <3> HIDE DEF s
    <3> QED
      BY <1>1, <1>5, <3>1, <3>2, <3>3, <3>4
  <2> QED
    BY <2>1, <2>2
<1> QED
  BY <1>6, <1>7, <1>8, <1>9, <1>10, <1>11, <1>12, <1>13, <1>14, <1>15

\* The waits of a start before it has a session.
LEMMA QueueingKeepsFacts ==
    ASSUME TypeOK, SessionFacts, NEW o \in Starts,
           \/ Register(o) \/ Admit(o) \/ Validated(o)
           \/ Abandon(o) /\ pc[o] \notin Launching
    PROVE  SessionFacts'
<1> USE Identities, ControlPoints
<1>1. CASE Register(o)
  BY <1>1, WaitingKeepsFacts DEF Register, Goto, registryVars
<1>2. CASE Admit(o)
  BY <1>2, WaitingKeepsFacts DEF Admit, Goto, registryVars
<1>3. CASE Validated(o)
  <2>1. operation = o
    BY <1>3 DEF Validated, SessionFacts, StartsHoldLock
  <2>2. \E l \in {"replacing", "placing", "unwinding"} : pc' = [pc EXCEPT ![o] = l]
    BY <1>3 DEF Validated, Goto
  <2> QED
    BY <1>3, <2>1, <2>2, WaitingKeepsFacts DEF Validated, registryVars
<1>4. CASE Abandon(o) /\ pc[o] \notin Launching
  BY <1>4, WaitingKeepsFacts DEF Abandon, Goto, registryVars
<1> QED
  BY <1>1, <1>2, <1>3, <1>4

\* Stopping every loaded model for a replacement.
LEMMA ReplacingKeepsFacts ==
    ASSUME TypeOK, SessionFacts, NEW o \in Starts, StopForReplacement(o)
    PROVE  SessionFacts'
<1> USE Identities, ControlPoints
<1>1. pc[o] = "replacing" /\ operation = o
  BY DEF StopForReplacement, SessionFacts, StartsHoldLock
<1>2. CASE \E e \in Replaced : Responding(sess[e])
  BY <1>1, <1>2, WaitingKeepsFacts DEF StopForReplacement, Goto
<1>3. CASE ~\E e \in Replaced : Responding(sess[e])
  <2>1. /\ pc' = [pc EXCEPT ![o] = "placing"]
        /\ sess' = [e \in Entries |-> IF e \in Tracked THEN TornDown(sess[e]) ELSE sess[e]]
        /\ alive' = alive \ {sess[e].child : e \in Tracked}
        /\ UNCHANGED <<registry, stop, at, operation>>
    BY <1>3 DEF StopForReplacement, Goto, Replaced
  <2>2. Tracked' = Tracked /\ InHand' = InHand /\ None \notin alive
    BY <2>1 DEF Tracked, InHand, TypeOK
  <2>3. ASSUME NEW e \in Entries, e \in Tracked
        PROVE  TakenDown(e) /\ sess[e].child \notin alive'
    <3>1. sess'[e] = TornDown(sess[e]) /\ sess[e] \in Server
      BY <2>1, <2>3 DEF TypeOK
    <3>2. TornDown(sess[e]).life = "stopped" /\ TornDown(sess[e]).launch = None
          /\ TornDown(sess[e]).child = None /\ TornDown(sess[e]).retired = sess[e].retired
      BY <3>1, TeardownTransitions
    <3> QED
      BY <2>1, <2>3, <3>1, <3>2 DEF TakenDown
  <2>4. ASSUME NEW e \in Entries, e \notin Tracked
        PROVE  Untouched(e) /\ sess'[e].child = sess[e].child
    BY <2>1, <2>4 DEF Untouched
  <2>5. OnlyTakesDown
    BY <2>2, <2>3, <2>4 DEF OnlyTakesDown
  <2>6. \A p \in Starts : pc'[p] = pc[p] \/ (pc[p] = "replacing" /\ pc'[p] = "placing")
    BY <1>1, <2>1 DEF TypeOK
  <2> QED
    BY <2>1, <2>5, <2>6, TakingDownKeepsFacts
<1> QED
  BY <1>2, <1>3

\* Choosing the session, and creating its entry if there is none.
LEMMA PlacingKeepsFacts ==
    ASSUME TypeOK, SessionFacts, NEW o \in Starts, Place(o)
    PROVE  SessionFacts'
<1> USE Identities, ControlPoints
<1>1. pc[o] = "placing" /\ operation = o /\ operation' = operation
      /\ sess' = sess /\ alive' = alive /\ stop' = stop
  BY DEF Place, SessionFacts, StartsHoldLock
<1>2. \A p \in Starts \ {o} : pc[p] \notin Placing \cup Launching
  BY <1>1, StartsAlone DEF SessionFacts
<1>3. CASE o \in cancelled
  BY <1>1, <1>3, WaitingKeepsFacts DEF Place, Goto
<1>4. CASE o \notin cancelled
  <2> DEFINE i == sid[o]
             e == IF registry[i] = None THEN o ELSE registry[i]
  <2>1. /\ registry' = [registry EXCEPT ![i] = e] /\ at' = [at EXCEPT ![o] = e]
        /\ pc' = [pc EXCEPT ![o] = "tracked"]
    BY <1>4 DEF Place, Goto
  <2>2. i \in Ids /\ e \in Entries
    BY DEF TypeOK
  <2>3. /\ pc'[o] = "tracked" /\ at'[o] = e
        /\ \A p \in Starts \ {o} : pc'[p] = pc[p] /\ at'[p] = at[p]
    BY <2>1 DEF TypeOK
  <2>4. Held \subseteq Held' /\ e \in Held'
    <3>1. registry'[i] = e /\ \A j \in Ids \ {i} : registry'[j] = registry[j]
      BY <2>1, <2>2 DEF TypeOK
    <3>2. e \in Tracked'
      BY <2>2, <3>1 DEF Tracked
    <3>3. \A j \in Ids : registry[j] # None => registry'[j] = registry[j]
      BY <3>1
    <3> QED
      BY <1>1, <3>2, <3>3 DEF Held, Tracked, InHand
  <2> HIDE DEF i, e
  <2>5. StartsHoldLock'
    BY <1>1, <2>2, <2>3 DEF SessionFacts, StartsHoldLock
  <2>6. CurrentLaunchStarts'
    BY <1>2, <2>3 DEF CurrentLaunchStarts
  <2>7. StartingIsLaunched'
    BY <1>1, <2>3 DEF SessionFacts, StartingIsLaunched
  <2>8. RetiredStaysIdle'
    BY <1>1, <1>2, <2>3, <2>4 DEF SessionFacts, RetiredStaysIdle
  <2>9. LoadedIsHeld' /\ ReadyIsOneLaunch'
    BY <1>1, <2>4 DEF SessionFacts, LoadedIsHeld, ReadyIsOneLaunch
  <2>10. NoOrphanProcess'
    BY <1>1, <2>3 DEF SessionFacts, NoOrphanProcess, TypeOK
  <2> QED
    BY <2>5, <2>6, <2>7, <2>8, <2>9, <2>10 DEF SessionFacts
<1> QED
  BY <1>3, <1>4

\* The return of a start: a launch that is still starting dies with it.
LEMMA FinishKeepsFacts ==
    ASSUME TypeOK, SessionFacts, NEW o \in Starts, Finish(o)
    PROVE  SessionFacts'
<1> USE Identities, ControlPoints
<1>1. /\ pc'[o] = "done" /\ \A p \in Starts \ {o} : pc'[p] = pc[p]
      /\ UNCHANGED <<registry, stop, at>> /\ pc[o] = "unwinding"
      /\ \A p \in Starts \ {o} : operation = p => operation' = p
  BY DEF Finish, Goto, TypeOK, OperationFreed
<1>2. Held' = Held
  BY <1>1 DEF Held, Tracked, InHand
<1>3. alive' \subseteq alive /\ None \notin alive
  BY DEF Finish, Killed, TypeOK
\* every session is as before or was this start's, and has been taken down
<1>4. ASSUME NEW e \in Entries
      PROVE  \/ sess'[e] = sess[e] /\ ~(e = at[o] /\ sess[e].launch = o /\ sess[e].life = "starting")
             \/ /\ e = at[o] /\ sess[e].launch = o /\ TakenDown(e)
                /\ sess'[e].retired = sess[e].retired /\ sess[e].child \notin alive'
  <2>1. sess[e] \in Server /\ o \in Launch
    BY DEF TypeOK
  <2>2. CASE e # at[o]
    BY <2>2 DEF Finish, TypeOK
  <2>3. CASE e = at[o]
    <3> DEFINE s == Disowned(sess[e], o)
    <3>1. sess'[e] = s /\ alive' = IF s = sess[e] THEN alive ELSE Killed(e)
      BY <2>3 DEF Finish, TypeOK
    <3>2. s = sess[e] \/ (/\ sess[e].launch = o /\ s.life = "stopped" /\ s.launch = None
                          /\ s.child = None /\ s.retired = sess[e].retired)
      BY <2>1, DisownedTransition
    <3>3. sess[e].launch = o /\ sess[e].life = "starting" => s.life = "stopped"
      BY <2>1, DisownedTransition
    <3> HIDE DEF s
    <3> QED
      BY <2>3, <3>1, <3>2, <3>3 DEF TakenDown, Killed
  <2> QED
    BY <2>2, <2>3
<1>5. StartsHoldLock'
  BY <1>1 DEF SessionFacts, StartsHoldLock
<1>6. CurrentLaunchStarts'
  <2> SUFFICES ASSUME NEW p \in Starts, pc'[p] \in Launching, sess'[at[p]].launch = p
               PROVE  sess'[at[p]] = sess[at[p]] /\ pc[p] = pc'[p]
    BY <1>1 DEF SessionFacts, CurrentLaunchStarts
  <2>1. p # o /\ pc[p] = pc'[p]
    BY <1>1
  <2>2. at[p] \in Entries
    BY <2>1 DEF SessionFacts, StartsHoldLock
  <2> QED
    BY <1>4, <2>1, <2>2 DEF TakenDown
<1>7. StartingIsLaunched'
  <2> SUFFICES ASSUME NEW e \in Entries, sess'[e].life = "starting"
               PROVE  \E p \in Starts : /\ sess'[e].launch = p
                                        /\ at[p] = e
                                        /\ operation' = p
                                        /\ pc'[p] \in Launching \cup {"unwinding"}
    BY <1>1 DEF StartingIsLaunched
  <2>1. sess'[e] = sess[e] /\ ~(e = at[o] /\ sess[e].launch = o)
    BY <1>4 DEF TakenDown
  <2>2. PICK p \in Starts : /\ sess[e].launch = p /\ at[p] = e /\ operation = p
                            /\ pc[p] \in Launching \cup {"unwinding"}
    BY <2>1 DEF SessionFacts, StartingIsLaunched
  <2> QED
    BY <1>1, <2>1, <2>2
<1>8. RetiredStaysIdle'
  <2>1. \A e \in Entries : sess'[e].retired => sess'[e].launch = None
    BY <1>4 DEF TakenDown, SessionFacts, RetiredStaysIdle
  <2>2. ASSUME NEW p \in Starts, pc'[p] = "tracked"
        PROVE  at[p] \in Held \/ sess'[at[p]].retired
    <3>1. pc[p] = "tracked"
      BY <1>1, <2>2
    <3>2. at[p] \in Entries /\ (at[p] \in Held \/ sess[at[p]].retired)
      BY <3>1 DEF SessionFacts, StartsHoldLock, RetiredStaysIdle
    <3> QED
      BY <1>4, <3>2
  <2> QED
    BY <1>1, <1>2, <2>1, <2>2 DEF RetiredStaysIdle
<1>9. LoadedIsHeld'
  BY <1>2, <1>4 DEF TakenDown, BlocksResourceChange, SessionFacts, LoadedIsHeld
<1>10. ReadyIsOneLaunch'
  BY <1>4 DEF TakenDown, SessionFacts, ReadyIsOneLaunch
<1>11. NoOrphanProcess'
  <2> SUFFICES ASSUME NEW p \in alive'
               PROVE  pc'[p] = "spawned" \/ \E e \in Entries : sess'[e].child = p
    BY DEF NoOrphanProcess
  <2>1. pc[p] = "spawned" \/ \E e \in Entries : sess[e].child = p
    BY <1>3 DEF SessionFacts, NoOrphanProcess
  <2>2. CASE pc[p] = "spawned"
    BY <1>1, <1>3, <2>2 DEF TypeOK
  <2>3. CASE \E e \in Entries : sess[e].child = p
    BY <1>4, <2>3
  <2> QED
    BY <2>1, <2>2, <2>3
<1> QED
  BY <1>5, <1>6, <1>7, <1>8, <1>9, <1>10, <1>11 DEF SessionFacts

-----------------------------------------------------------------------------
(* The invariant *)

LEMMA SessionsInvParts == SessionsInv <=> TypeOK /\ UnloadsHold /\ SessionFacts
  BY DEF SessionsInv, SessionFacts

\* No session is loaded and no start has begun when the application starts.
LEMMA SessionsInit == Init => SessionsInv
<1> SUFFICES ASSUME Init PROVE TypeOK /\ UnloadsHold /\ SessionFacts
  BY SessionsInvParts
<1> USE Identities, ControlPoints
<1>1. NewServer \in Server
  BY DEF NewServer, Server, Lifecycle
<1>2. TypeOK
  BY <1>1 DEF Init, TypeOK, StopControl
<1>3. \A e \in Entries : /\ sess[e].life = "stopped" /\ sess[e].launch = None
                         /\ sess[e].retired = FALSE
  BY DEF Init, NewServer
<1>4. \A o \in Starts : pc[o] = "idle"
  BY DEF Init
<1> QED
  BY <1>2, <1>3, <1>4 DEF Init, UnloadsHold, SessionFacts, StartsHoldLock, CurrentLaunchStarts,
     StartingIsLaunched, RetiredStaysIdle, LoadedIsHeld, BlocksResourceChange,
     ReadyIsOneLaunch, NoOrphanProcess

\* Every action of the sessions keeps the invariant.
LEMMA SessionsStep ==
    ASSUME SessionsInv, SessionNext
    PROVE  SessionsInv'
<1>1. TypeOK /\ UnloadsHold /\ SessionFacts /\ StartsHoldLock
  BY SessionsInvParts DEF SessionsInv
<1> SUFFICES TypeOK' /\ SessionFacts'
  BY <1>1, UnloadsStayHeld, SessionsInvParts DEF SessionsInv, SessionFacts
<1>2. ASSUME NEW o \in Starts, Register(o) \/ StartStep(o) \/ Abandon(o)
      PROVE  TypeOK' /\ SessionFacts'
  BY <1>1, <1>2, StartKeepsTypes, LaunchingMoves, LaunchMoveKeepsFacts, QueueingKeepsFacts,
     ReplacingKeepsFacts, PlacingKeepsFacts, FinishKeepsFacts DEF StartStep
<1>3. ASSUME \/ \E w \in Stoppers : StopStep(w)
             \/ \E e \in Entries : IdleUnload(e) \/ Reap(e)
             \/ \E r \in Requests : PickLease(r) \/ BeginLease(r) \/ DropLease(r)
             \/ \E c \in Chats : ChatBegins(c) \/ ChatEnds(c)
             \/ \E o \in Starts : Crash(o)
      PROVE  TypeOK' /\ SessionFacts'
  <2>1. TypeOK'
    BY <1>1, <1>3, ClientsKeepTypes, StartKeepsTypes
  <2>2. OnlyTakesDown /\ alive' \subseteq alive /\ UNCHANGED <<pc, at, operation>>
    BY <1>1, <1>3, ClientsOnlyTakeDown
  <2> QED
    BY <1>1, <2>1, <2>2, TakingDownKeepsFacts
<1> QED
  BY <1>2, <1>3 DEF SessionNext

\* The invariant only depends on the variables.
LEMMA SessionsStutter == SessionsInv /\ UNCHANGED vars => SessionsInv'
<1> SUFFICES ASSUME TypeOK, UnloadsHold, SessionFacts, UNCHANGED vars
             PROVE  TypeOK' /\ UnloadsHold' /\ SessionFacts'
  BY SessionsInvParts DEF SessionsInv, SessionFacts
<1>1. UNCHANGED <<sess, registry, pc, sid, policy, at, cancelled, operation, alive, stop,
                  lease, chat, overtaken, superseded, exiting, busy, closed>>
  BY DEF vars, sessionVars, registryVars, startVars, clientVars, historyVars, appVars
<1>2. TypeOK'
  BY <1>1 DEF TypeOK
<1>3. OnlyTakesDown
  BY <1>1 DEF OnlyTakesDown, Untouched, Tracked, InHand
<1> QED
  BY <1>1, <1>2, <1>3, UnloadsStayHeld, TakingDownKeepsFacts

THEOREM SessionsInvariant == Spec => []SessionsInv
<1>1. SessionsInv /\ [SessionNext]_vars => SessionsInv'
  BY SessionsStep, SessionsStutter
<1> QED
  BY SessionsInit, <1>1, PTL DEF Spec

\* The sessions, the registry, the commands, leases and processes keep their types.
THEOREM TypesKept == Spec => []TypeOK
<1>1. SessionsInv => TypeOK
  BY DEF SessionsInv
<1> QED
  BY SessionsInvariant, <1>1, PTL

\* No order of starts, stops, unloads, replacements, crashes and dropped commands
\* leaves a model process that no session tracks and no start is about to attach
\* (commands/server.rs:24-40, 247-287, 390-403; session.rs:172-187).
THEOREM NoProcessLeaks == Spec => []NoOrphanProcess
<1>1. SessionsInv => NoOrphanProcess
  BY DEF SessionsInv
<1> QED
  BY SessionsInvariant, <1>1, PTL

\* A session that is starting has an owner which holds the operation lock, so it
\* cannot stay in "starting" after its command returned, failed or was dropped
\* (LaunchGuard, commands/server.rs:19-40).
THEOREM NoStartingLeftBehind == Spec => []StartingIsOwned
<1>1. SessionsInv => StartingIsOwned
  BY DEF SessionsInv, StartingIsLaunched, StartingIsOwned
<1> QED
  BY SessionsInvariant, <1>1, PTL

\* What a ready session serves is one launch: its process, its private key and its
\* settings (commands/server.rs:247-344), and it has not been forgotten.
THEOREM ReadyServesOneLaunch == Spec => []ReadyIsOneLaunch
<1>1. SessionsInv => ReadyIsOneLaunch
  BY DEF SessionsInv
<1> QED
  BY SessionsInvariant, <1>1, PTL

-----------------------------------------------------------------------------
(* Stops are final *)

\* The id an entry was created for; whether the start it is known by was issued; whether
\* a start is past the point where it chooses its entry.
IdOf(e)   == IF e = Default THEN Default ELSE sid[e]
Issued(e) == e \in Starts => pc[e] # "idle"
Chosen(o) == pc[o] \in {"tracked"} \cup Launching \cup {"unwinding", "done"}
Launched(e) == sess[e].life \in {"starting", "ready"}

\* What a stop has seen, or overtook, is cancelled; until it returns, what it saw are starts
\* of the session it stops.
CancelledIsSeen ==
    /\ overtaken \subseteq cancelled
    /\ \A w \in Stoppers : \A p \in stop[w].saw :
          p \in cancelled /\ Issued(p) /\ sid[p] = stop[w].id

\* An id resolves to an entry created for it, and a start chooses an entry of its id, once.
NamedById ==
    /\ \A i \in Ids : registry[i] # None => IdOf(registry[i]) = i /\ Issued(registry[i])
    /\ \A o \in Starts : at[o] # None => IdOf(at[o]) = sid[o] /\ Issued(at[o]) /\ Chosen(o)

\* A loaded session was loaded by a start that chose it.
LoadedByChoice ==
    \A e \in Entries : Launched(e) => sess[e].launch \in Starts /\ at[sess[e].launch] = e

FinalInv == CancelledIsSeen /\ NamedById /\ LoadedByChoice /\ StopIsFinal

\* An issued start keeps its id and a choice is made once; nothing is uncancelled.
Frame ==
    /\ \A o \in Starts : /\ pc[o] # "idle" => pc'[o] # "idle" /\ sid'[o] = sid[o]
                         /\ Chosen(o) => Chosen(o)'
    /\ cancelled \subseteq cancelled'

\* What is loaded after a step was loaded before, by the same launch, and an unload that
\* had it in its hands still has.
LoadsNothing ==
    \A e \in Entries : Launched(e)' =>
        /\ Launched(e) /\ sess'[e].launch = sess[e].launch
        /\ e \in InHand => e \in InHand'

\* A step that chooses no entry and loads nothing keeps the names.
LEMMA NamesAreKept ==
    ASSUME TypeOK, FinalInv, Frame, LoadsNothing, at' = at,
           \A i \in Ids : registry'[i] = registry[i] \/ registry'[i] = None
    PROVE  NamedById' /\ LoadedByChoice'
<1> USE Identities
<1>1. \A e \in Entries : Issued(e) => Issued(e)' /\ IdOf(e)' = IdOf(e)
  BY DEF Frame, Issued, IdOf, Entries
<1>2. ASSUME NEW i \in Ids, registry'[i] # None
      PROVE  (IdOf(registry[i]) = i /\ Issued(registry[i]))'
  <2>1. PICK e \in Entries : e = registry[i] /\ e = registry'[i]
    BY <1>2 DEF TypeOK
  <2>2. IdOf(e) = i /\ Issued(e)
    BY <1>2, <2>1 DEF FinalInv, NamedById
  <2> QED
    BY <1>1, <2>1, <2>2 DEF IdOf, Issued
<1>3. ASSUME NEW o \in Starts, at'[o] # None
      PROVE  (IdOf(at[o]) = sid[o] /\ Issued(at[o]) /\ Chosen(o))'
  <2>1. PICK e \in Entries : e = at[o] /\ e = at'[o]
    BY <1>3 DEF TypeOK
  <2>2. IdOf(e) = sid[o] /\ Issued(e) /\ Chosen(o)
    BY <1>3, <2>1 DEF FinalInv, NamedById
  <2>3. sid'[o] = sid[o] /\ Chosen(o)'
    BY <2>2, ControlPoints DEF Frame, Chosen
  <2> QED
    BY <1>1, <2>1, <2>2, <2>3 DEF IdOf, Issued
<1>4. LoadedByChoice'
  BY DEF FinalInv, LoadedByChoice, LoadsNothing, Launched
<1> QED
  BY <1>2, <1>3, <1>4 DEF NamedById

\* Such a step keeps all of the facts unless a stop begins or succeeds.
LEMMA LoadingNothingIsFinal ==
    ASSUME TypeOK, FinalInv, Frame, LoadsNothing, at' = at, overtaken' = overtaken,
           \A i \in Ids : registry'[i] = registry[i] \/ registry'[i] = None,
           \A w \in Stoppers : stop'[w].saw = stop[w].saw /\ stop'[w].id = stop[w].id
    PROVE  FinalInv'
<1>1. ASSUME NEW w \in Stoppers, NEW p \in stop'[w].saw
      PROVE  p \in cancelled' /\ Issued(p)' /\ sid'[p] = stop'[w].id
  <2>1. p \in Starts /\ p \in cancelled /\ Issued(p) /\ sid[p] = stop[w].id
    BY <1>1 DEF FinalInv, CancelledIsSeen, TypeOK
  <2> QED
    BY <2>1 DEF Frame, Issued
<1>2. CancelledIsSeen'
  BY <1>1 DEF FinalInv, CancelledIsSeen, Frame
<1>3. StopIsFinal'
  BY DEF FinalInv, StopIsFinal, LoadsNothing, Launched
<1> QED
  BY <1>2, <1>3, NamesAreKept DEF FinalInv

\* A stop cancels what it has seen; when it succeeds, the session it names is not loaded,
\* and no other session was loaded by what it has seen.
LEMMA StopsAreFinal ==
    ASSUME SessionsInv, FinalInv, NEW w \in Stoppers, StopRequest(w) \/ StopTeardown(w)
    PROVE  FinalInv'
<1> USE Identities
<1>0. StopStep(w)
  BY DEF StopStep
<1>1. TypeOK /\ LoadedIsHeld /\ UnloadsHold
  BY DEF SessionsInv
<1>2. LoadsNothing
  <2>1. OnlyTakesDown
    BY <1>0, <1>1, ClientsOnlyTakeDown
  <2> QED
    BY <2>1 DEF OnlyTakesDown, Untouched, TakenDown, FoundDead, LoadsNothing, Launched
<1>8. \A e \in InHand : e \in InHand'
  BY <1>1, StopsHoldNothing
<1>3. UNCHANGED <<registry, pc, sid, at>> /\ cancelled \subseteq cancelled'
  BY DEF StopRequest, StopTeardown, registryVars, startVars, CancelPending
<1>4. Frame
  BY <1>3 DEF Frame, Chosen
<1>5. NamedById' /\ LoadedByChoice'
  BY <1>1, <1>2, <1>3, <1>4, NamesAreKept
<1>6. CASE StopRequest(w)
  <2>1. PICK i \in Ids, f \in BOOLEAN :
           /\ stop' = [stop EXCEPT ![w] = [pc |-> "cancelled", id |-> i, forget |-> f,
                                          saw |-> Pending(i), of |-> None]]
           /\ cancelled' = cancelled \cup Pending(i)
    BY <1>6 DEF StopRequest, CancelPending
  <2>2. ASSUME NEW v \in Stoppers, NEW p \in stop'[v].saw
        PROVE  p \in cancelled' /\ Issued(p)' /\ sid'[p] = stop'[v].id
    BY <1>1, <1>3, <2>1, <2>2
       DEF FinalInv, CancelledIsSeen, Pending, Registered, Issued, TypeOK
  <2>3. overtaken' = overtaken /\ sess' = sess
    BY <1>6 DEF StopRequest, historyVars, registryVars
  <2> QED
    BY <1>3, <1>5, <1>8, <2>2, <2>3 DEF FinalInv, CancelledIsSeen, StopIsFinal
<1>7. CASE StopTeardown(w)
  <2> DEFINE i == stop[w].id
  <2>1. /\ cancelled' = cancelled
        /\ overtaken' = overtaken \/ overtaken' = overtaken \cup stop[w].saw
        /\ stop'[w].saw = {} /\ \A v \in Stoppers \ {w} : stop'[v] = stop[v]
    BY <1>1, <1>7 DEF StopTeardown, TypeOK
  <2>2. CancelledIsSeen'
    BY <1>3, <2>1 DEF FinalInv, CancelledIsSeen, Issued
  <2>3. ASSUME NEW e \in Entries, Launched(e)', e \notin InHand'
        PROVE  sess'[e].launch \notin overtaken'
    <3> DEFINE l == sess[e].launch
    <3>1. Launched(e) /\ sess'[e].launch = l /\ l \notin overtaken
          /\ l \in Starts /\ at[l] = e
      BY <1>2, <1>8, <2>3 DEF LoadsNothing, FinalInv, StopIsFinal, LoadedByChoice, Launched
    <3>2. SUFFICES ASSUME overtaken' # overtaken, l \in stop[w].saw PROVE FALSE
      BY <2>1, <3>1
    <3>3. PICK j \in Ids : registry[j] = e
      BY <1>1, <1>8, <2>3, <3>1 DEF LoadedIsHeld, BlocksResourceChange, Launched, Held, Tracked
    <3>4. j = i
      BY <3>1, <3>2, <3>3 DEF FinalInv, NamedById, CancelledIsSeen
    <3>5. sess' = [sess EXCEPT ![e] = TornDown(sess[e])]
      BY <1>7, <3>2, <3>3, <3>4 DEF StopTeardown
    <3>6. sess'[e].life = "stopped"
      BY <1>1, <3>5, TeardownTransitions DEF TypeOK
    <3> QED
      BY <2>3, <3>6 DEF Launched
  <2> QED
    BY <1>5, <2>2, <2>3 DEF FinalInv, StopIsFinal, Launched
<1> QED
  BY <1>6, <1>7

\* Unloads, background work, requests, chat turns and crashes load nothing.
LEMMA ClientsAreFinal ==
    ASSUME SessionsInv, FinalInv,
           \/ \E w \in Stoppers : Forget(w) \/ Retire(w) \/ CancelForgotten(w)
           \/ \E e \in Entries : IdleUnload(e) \/ Reap(e)
           \/ \E r \in Requests : PickLease(r) \/ BeginLease(r) \/ DropLease(r)
           \/ \E c \in Chats : ChatBegins(c) \/ ChatEnds(c)
           \/ \E o \in Starts : Crash(o)
    PROVE  FinalInv'
<1> USE Identities
<1>1. TypeOK /\ UnloadsHold
  BY DEF SessionsInv
<1>2. LoadsNothing
  <2>1. OnlyTakesDown
    BY <1>1, ClientsOnlyTakeDown DEF StopStep
  <2> QED
    BY <2>1 DEF OnlyTakesDown, Untouched, TakenDown, FoundDead, LoadsNothing, Launched
<1> DEFINE Quiet ==
             /\ UNCHANGED <<startVars, historyVars>> /\ cancelled \subseteq cancelled'
             /\ \A i \in Ids : registry'[i] = registry[i] \/ registry'[i] = None
             /\ \A w \in Stoppers : stop'[w].saw = stop[w].saw /\ stop'[w].id = stop[w].id
<1>3. Quiet
  <2>1. ASSUME NEW w \in Stoppers, Forget(w) \/ Retire(w) \/ CancelForgotten(w) PROVE Quiet
    <3>1. /\ stop \in [Stoppers -> [pc : StopControl, id : Ids, forget : BOOLEAN,
                                   saw : SUBSET Starts, of : Entries \cup {None}]]
          /\ registry \in [Ids -> Entries \cup {None}]
      BY <1>1 DEF TypeOK
    <3>2. CASE Forget(w)
      BY <3>1, <3>2 DEF Forget
    <3>3. CASE Retire(w) \/ CancelForgotten(w)
      BY <3>1, <3>3 DEF Retire, CancelForgotten, CancelPending, registryVars
    <3> QED
      BY <2>1, <3>2, <3>3
  <2>2. ASSUME NEW e \in Entries, IdleUnload(e) \/ Reap(e) PROVE Quiet
    BY <2>2 DEF IdleUnload, Reap
  <2>3. ASSUME NEW r \in Requests, PickLease(r) \/ BeginLease(r) \/ DropLease(r) PROVE Quiet
    BY <2>3 DEF PickLease, BeginLease, DropLease, registryVars
  <2>4. ASSUME NEW c \in Chats, ChatBegins(c) \/ ChatEnds(c) PROVE Quiet
    BY <2>4 DEF ChatBegins, ChatEnds
  <2>5. ASSUME NEW o \in Starts, Crash(o) PROVE Quiet
    BY <2>5 DEF Crash, registryVars
  <2> QED
    BY <2>1, <2>2, <2>3, <2>4, <2>5
<1> QED
  BY <1>1, <1>2, <1>3, LoadingNothingIsFinal DEF Frame, Chosen, startVars, historyVars

\* Of the steps of a start only three bear on what is named or loaded: choosing an entry,
\* beginning a launch, and replacing every model.
LEMMA QuietStartsAreFinal ==
    ASSUME SessionsInv, FinalInv, NEW o \in Starts,
           \/ Register(o) \/ Admit(o) \/ Validated(o) \/ Recheck(o) \/ ProbeFails(o)
           \/ SpawnFails(o) \/ Spawn(o) \/ Attach(o) \/ Confirm(o) \/ LoadFails(o)
           \/ Publish(o) \/ Abandon(o) \/ Finish(o)
    PROVE  FinalInv'
<1> USE Identities, ControlPoints
<1>1. TypeOK /\ StartsHoldLock /\ CurrentLaunchStarts
  BY DEF SessionsInv
<1>2. /\ UNCHANGED <<registry, at, cancelled, stop, historyVars>>
      /\ pc'[o] # "idle" /\ \A p \in Starts \ {o} : pc'[p] = pc[p]
      /\ Chosen(o) => Chosen(o)'
      /\ \A p \in Starts : pc[p] # "idle" => sid'[p] = sid[p]
  <2>1. CASE Register(o)
    BY <1>1, <2>1 DEF Register, Goto, Chosen, TypeOK, registryVars
  <2>2. CASE Admit(o) \/ Validated(o) \/ Recheck(o) \/ ProbeFails(o) \/ Spawn(o)
             \/ Confirm(o) \/ Abandon(o)
    BY <1>1, <2>2 DEF Admit, Validated, Recheck, ProbeFails, Spawn, Confirm, Abandon, Goto, Chosen,
       TypeOK, registryVars
  <2>3. CASE SpawnFails(o) \/ Attach(o) \/ LoadFails(o) \/ Publish(o) \/ Finish(o)
    BY <1>1, <2>3 DEF SpawnFails, Attach, LoadFails, Publish, Finish, Goto, Chosen, TypeOK
  <2> QED
    BY <2>1, <2>2, <2>3
<1>3. Frame
  BY <1>2 DEF Frame, Chosen
<1>4. ASSUME NEW e \in Entries, NEW s,
             sess' = sess \/ sess' = [sess EXCEPT ![e] = s],
             s.life \in {"starting", "ready"} => Launched(e) /\ s.launch = sess[e].launch
      PROVE  LoadsNothing
  BY <1>1, <1>2, <1>4 DEF LoadsNothing, Launched, InHand, TypeOK
<1>5. LoadsNothing
  <2>1. CASE Register(o) \/ Admit(o) \/ Validated(o) \/ Recheck(o) \/ ProbeFails(o)
             \/ Spawn(o) \/ Confirm(o) \/ Abandon(o)
    <3>1. sess' = sess
      BY <2>1 DEF Register, Admit, Validated, Recheck, ProbeFails, Spawn, Confirm, Abandon,
         registryVars
    <3> QED
      BY <1>2, <3>1 DEF LoadsNothing, Launched, InHand
  <2>2. CASE SpawnFails(o) \/ Attach(o) \/ LoadFails(o) \/ Publish(o)
    <3> DEFINE e == at[o]
    <3>1. pc[o] \in Launching /\ e \in Entries /\ sess[e] \in Server /\ exiting \in BOOLEAN
      BY <1>1, <2>2 DEF SpawnFails, Attach, LoadFails, Publish, StartsHoldLock, TypeOK
    <3>2. /\ SpawnFailed(sess[e], exiting).life \in {"stopped", "failed"}
          /\ LaunchFailed(sess[e], exiting).life \in {"stopped", "failed"}
          /\ Unattached(sess[e]).life = "stopped" /\ Withheld(sess[e]).life = "stopped"
          /\ Attached(sess[e], o).launch = sess[e].launch
          /\ Published(sess[e], o).launch = sess[e].launch
      BY <3>1, FailureTransitions, LaunchTransitions
    <3>3. sess[e].launch = o => Launched(e)
      BY <1>1, <3>1 DEF CurrentLaunchStarts, Launched
    <3>4. CASE SpawnFails(o)
      BY <1>4, <3>1, <3>2, <3>4 DEF SpawnFails
    <3>5. CASE Attach(o)
      BY <1>4, <3>1, <3>2, <3>3, <3>5 DEF Attach, Withdrawn
    <3>6. CASE LoadFails(o)
      BY <1>4, <3>1, <3>2, <3>6 DEF LoadFails
    <3>7. CASE Publish(o)
      BY <1>4, <3>1, <3>2, <3>3, <3>7 DEF Publish, Withdrawn
    <3> QED
      BY <2>2, <3>4, <3>5, <3>6, <3>7
  <2>3. CASE Finish(o)
    <3>1. CASE at[o] = None
      BY <1>2, <2>3, <3>1 DEF Finish, LoadsNothing, Launched, InHand
    <3>2. CASE at[o] # None
      <4>1. at[o] \in Entries /\ sess[at[o]] \in Server
        BY <1>1, <3>2 DEF TypeOK
      <4>2. sess' = [sess EXCEPT ![at[o]] = Disowned(sess[at[o]], o)]
        BY <2>3, <3>2 DEF Finish
      <4>3. \/ Disowned(sess[at[o]], o) = sess[at[o]]
            \/ Disowned(sess[at[o]], o).life = "stopped"
        BY <4>1, DisownedTransition
      <4> QED
        BY <1>4, <4>1, <4>2, <4>3 DEF Launched
    <3> QED
      BY <3>1, <3>2
  <2> QED
    BY <2>1, <2>2, <2>3
<1> QED
  BY <1>1, <1>2, <1>3, <1>5, LoadingNothingIsFinal DEF historyVars

\* A replacement leaves nothing loaded but what an unload has in its hands.
LEMMA ReplacingIsFinal ==
    ASSUME SessionsInv, FinalInv, NEW o \in Starts, StopForReplacement(o)
    PROVE  FinalInv'
<1> USE Identities, ControlPoints
<1>1. TypeOK /\ LoadedIsHeld /\ UnloadsHold
  BY DEF SessionsInv
<1>2. /\ UNCHANGED <<registry, sid, at, stop>> /\ pc[o] = "replacing" /\ pc'[o] # "idle"
      /\ \A p \in Starts \ {o} : pc'[p] = pc[p]
      /\ cancelled \subseteq cancelled'
  BY <1>1 DEF StopForReplacement, Goto, TypeOK
<1>3. Frame
  BY <1>2 DEF Frame, Chosen
<1>4. CASE UNCHANGED <<sess, historyVars>>
  BY <1>1, <1>2, <1>3, <1>4, LoadingNothingIsFinal DEF LoadsNothing, Launched, InHand, historyVars
<1>5. CASE ~UNCHANGED <<sess, historyVars>>
  <2> DEFINE others == {p \in Registered : sid[p] # sid[o] /\ registry[sid[p]] # None}
  <2>1. /\ sess' = [e \in Entries |-> IF e \in Tracked THEN TornDown(sess[e]) ELSE sess[e]]
        /\ cancelled' = cancelled \cup others /\ overtaken' = overtaken \cup others
    <3>1. /\ sess' = [e \in Entries |-> IF e \in Replaced THEN TornDown(sess[e]) ELSE sess[e]]
          /\ cancelled' = cancelled \cup {p \in {q \in Registered : sid[q] # sid[o]} :
                                             registry[sid[p]] # None}
          /\ overtaken' = overtaken \cup {p \in {q \in Registered : sid[q] # sid[o]} :
                                             registry[sid[p]] # None}
      BY <1>5 DEF StopForReplacement, historyVars
    <3> QED
      BY <3>1 DEF Replaced
  <2>2. ASSUME NEW e \in Entries, Launched(e)'
        PROVE  /\ Launched(e) /\ sess'[e] = sess[e]
               /\ e \in InHand /\ e \in InHand'
    <3>1. CASE e \in Tracked
      BY <1>1, <2>1, <2>2, <3>1, TeardownTransitions DEF Launched, TypeOK
    <3>2. CASE e \notin Tracked
      BY <1>1, <1>2, <2>1, <2>2, <3>2
         DEF LoadedIsHeld, BlocksResourceChange, Launched, Held, InHand
    <3> QED
      BY <3>1, <3>2
  <2>3. NamedById' /\ LoadedByChoice'
    BY <1>1, <1>2, <1>3, <2>2, NamesAreKept DEF LoadsNothing
  <2>4. CancelledIsSeen'
    BY <1>1, <1>2, <2>1 DEF FinalInv, CancelledIsSeen, Issued, TypeOK
  <2> QED
    BY <2>2, <2>3, <2>4 DEF FinalInv, StopIsFinal, Launched
<1> QED
  BY <1>4, <1>5

\* A start chooses the entry its id resolves to, or becomes that entry.
LEMMA PlacingIsFinal ==
    ASSUME SessionsInv, FinalInv, NEW o \in Starts, Place(o)
    PROVE  FinalInv'
<1> USE Identities, ControlPoints, SessionsAssumption
<1>1. TypeOK
  BY DEF SessionsInv
<1>2. /\ UNCHANGED <<sess, sid, cancelled, stop, overtaken>>
      /\ pc[o] = "placing" /\ pc'[o] \in {"tracked", "unwinding"}
      /\ \A p \in Starts \ {o} : pc'[p] = pc[p]
  BY <1>1 DEF Place, Goto, TypeOK, historyVars
<1>3. Frame /\ LoadsNothing
  BY <1>2 DEF Frame, Chosen, LoadsNothing, Launched, InHand
<1>4. CASE UNCHANGED <<registry, at>>
  BY <1>1, <1>2, <1>3, <1>4, LoadingNothingIsFinal
<1>5. CASE ~UNCHANGED <<registry, at>>
  <2> DEFINE f == IF registry[sid[o]] = None THEN o ELSE registry[sid[o]]
  <2>1. registry' = [registry EXCEPT ![sid[o]] = f] /\ at' = [at EXCEPT ![o] = f]
    BY <1>5 DEF Place
  <2>0. at[o] = None
    BY <1>2 DEF FinalInv, NamedById, Chosen
  <2>2. f \in Entries /\ IdOf(f) = sid[o] /\ Issued(f) /\ sid[o] \in Ids
    BY <1>1, <1>2 DEF FinalInv, NamedById, IdOf, Issued, TypeOK
  <2> HIDE DEF f
  <2>3. \A e \in Entries : Issued(e) => Issued(e)' /\ IdOf(e)' = IdOf(e)
    BY <1>2 DEF Issued, IdOf
  <2>4. ASSUME NEW i \in Ids, registry'[i] # None
        PROVE  (IdOf(registry[i]) = i /\ Issued(registry[i]))'
    <3>1. PICK e \in Entries : e = registry'[i]
      BY <1>1, <2>1, <2>2, <2>4 DEF TypeOK
    <3>2. IdOf(e) = i /\ Issued(e)
      BY <1>1, <2>1, <2>2, <2>4, <3>1 DEF FinalInv, NamedById, TypeOK
    <3> QED
      BY <2>3, <3>1, <3>2 DEF IdOf, Issued
  <2>5. ASSUME NEW p \in Starts, at'[p] # None
        PROVE  (IdOf(at[p]) = sid[p] /\ Issued(at[p]) /\ Chosen(p))'
    <3>1. PICK e \in Entries : e = at'[p]
      BY <1>1, <2>1, <2>2, <2>5 DEF TypeOK
    <3>2. IdOf(e) = sid[p] /\ Issued(e)
      BY <1>1, <1>2, <2>1, <2>2, <2>5, <3>1 DEF FinalInv, NamedById, TypeOK
    <3>3. Chosen(p)'
      BY <1>1, <1>2, <2>1, <2>5 DEF FinalInv, NamedById, Chosen, TypeOK
    <3> QED
      BY <1>2, <2>3, <3>1, <3>2, <3>3 DEF IdOf, Issued
  <2>6. NamedById'
    BY <2>4, <2>5 DEF NamedById
  <2>7. CancelledIsSeen' /\ StopIsFinal'
    BY <1>1, <1>2 DEF FinalInv, CancelledIsSeen, StopIsFinal, InHand, Issued, TypeOK
  <2>8. LoadedByChoice'
    BY <1>1, <1>2, <2>1, <2>0 DEF FinalInv, LoadedByChoice, Launched, TypeOK
  <2> QED
    BY <2>6, <2>7, <2>8 DEF FinalInv
<1> QED
  BY <1>4, <1>5

\* A launch begins only for a start that was not cancelled.
LEMMA BeginningIsFinal ==
    ASSUME SessionsInv, FinalInv, NEW o \in Starts, BeginLaunch(o)
    PROVE  FinalInv'
<1> USE Identities, ControlPoints
<1>1. TypeOK /\ StartsHoldLock
  BY DEF SessionsInv
<1>2. /\ UNCHANGED <<registry, sid, at, cancelled, stop, overtaken>>
      /\ pc[o] = "tracked" /\ pc'[o] \in {"launching", "unwinding"}
      /\ \A p \in Starts \ {o} : pc'[p] = pc[p]
  BY <1>1 DEF BeginLaunch, Goto, TypeOK, historyVars
<1>3. at[o] \in Entries /\ sess[at[o]] \in Server /\ o \in Launch
  BY <1>1, <1>2 DEF StartsHoldLock, TypeOK
<1>4. Frame
  BY <1>2 DEF Frame, Chosen
<1>5. CASE sess' = sess
  BY <1>1, <1>2, <1>4, <1>5, LoadingNothingIsFinal DEF LoadsNothing, Launched, InHand
<1>6. CASE sess' # sess
  <2>1. o \notin cancelled /\ sess' = [sess EXCEPT ![at[o]] = Begun(sess[at[o]], o)]
    BY <1>6 DEF BeginLaunch, LaunchAllowed
  <2>2. sess'[at[o]].launch = o /\ \A e \in Entries \ {at[o]} : sess'[e] = sess[e]
    BY <1>1, <1>3, <2>1, LaunchTransitions DEF TypeOK
  <2>3. LoadedByChoice' /\ StopIsFinal'
    BY <1>2, <2>1, <2>2
       DEF FinalInv, LoadedByChoice, StopIsFinal, CancelledIsSeen, Launched, InHand
  <2>4. CancelledIsSeen'
    BY <1>1, <1>2 DEF FinalInv, CancelledIsSeen, Issued, TypeOK
  <2>5. NamedById'
    <3>1. \A e \in Entries : Issued(e) => Issued(e)' /\ IdOf(e)' = IdOf(e)
      BY <1>2 DEF Issued, IdOf
    <3>2. at' = at /\ \A p \in Starts : Chosen(p) => Chosen(p)'
      BY <1>2, <1>4 DEF Frame, BeginLaunch
    <3> QED
      BY <1>1, <1>2, <3>1, <3>2 DEF FinalInv, NamedById, IdOf, Issued, TypeOK
  <2> QED
    BY <2>3, <2>4, <2>5 DEF FinalInv
<1> QED
  BY <1>5, <1>6

LEMMA FinalInit == Init => FinalInv
<1> USE Identities, SessionsAssumption
<1>1. Init => \A e \in Entries : ~Launched(e)
  BY DEF Init, NewServer, Launched
<1> QED
  BY <1>1 DEF Init, FinalInv, CancelledIsSeen, NamedById, LoadedByChoice, StopIsFinal, Launched,
     IdOf, Issued

THEOREM FinalInvariant == Spec => []FinalInv
<1>1. ASSUME SessionsInv, FinalInv, SessionNext PROVE FinalInv'
  BY <1>1, StopsAreFinal, ClientsAreFinal, QuietStartsAreFinal, ReplacingIsFinal,
     PlacingIsFinal, BeginningIsFinal DEF SessionNext, StartStep, StopStep
<1>2. ASSUME SessionsInv, FinalInv, UNCHANGED vars PROVE FinalInv'
  <2>1. TypeOK
    BY <1>2 DEF SessionsInv
  <2>2. UNCHANGED <<sess, registry, pc, sid, at, cancelled, stop, overtaken>>
    BY <1>2 DEF vars, sessionVars, registryVars, startVars, historyVars
  <2> QED
    BY <1>2, <2>1, <2>2, LoadingNothingIsFinal DEF Frame, Chosen, LoadsNothing, Launched, InHand
<1> QED
  BY SessionsInvariant, FinalInit, <1>1, <1>2, PTL DEF Spec

\* Once a stop or a replacement of a session succeeded, no start that was pending when it
\* was requested loads or serves that session, however the two overlapped, unless an unload
\* beside it removed the session and is about to retire it (commands/server.rs:132-176,
\* 405-452; session.rs:172-187).
THEOREM StopsAreHonoured == Spec => []StopIsFinal
<1>1. FinalInv => StopIsFinal
  BY DEF FinalInv
<1> QED
  BY FinalInvariant, <1>1, PTL
-----------------------------------------------------------------------------
(* Leases are counted, and a counted launch is left alone                  *)

\* A start past the beginning of its launch, and one past its end.
UnderWay(o) == pc[o] \in Launching \cup {"unwinding", "done"}
Over(o)   == pc[o] \in {"unwinding", "done"}

\* A launch belongs to a start that began it on the entry it chose.
LaunchIsBegun ==
    \A e \in Entries : sess[e].launch # None =>
        at[sess[e].launch] = e /\ UnderWay(sess[e].launch)

\* While a start launches, no other launch is current on its entry.
LaunchIsMine ==
    \A o \in Starts : pc[o] \in Launching => sess[at[o]].launch \in {o, None}

\* A tracked process belongs to the current launch of a session that is loaded.
ChildIsLoaded ==
    \A e \in Entries : sess[e].child # None => Launched(e) /\ sess[e].child = sess[e].launch

\* A lease was picked on a launch that had become ready, and will not start again.
LeasesAreServed ==
    \A r \in Requests : lease[r].pc # "idle" =>
        /\ lease[r].key \in Starts /\ Over(lease[r].key)
        /\ \A e \in Entries : sess[e].life = "starting" => sess[e].launch # lease[r].key

LaunchesInv == LaunchIsBegun /\ LaunchIsMine /\ ChildIsLoaded
LeaseInv    == LaunchesInv /\ LeasesAreServed /\ LeasesCounted

\* The open leases on launch k of entry e.
OpenOn(e, k) == {r \in Requests : lease[r].pc = "open" /\ lease[r].at = e /\ lease[r].key = k}

\* A start that began its launch goes on with it, and what is over stays over.
Onward ==
    \A o \in Starts :
        /\ UnderWay(o) => UnderWay(o)' /\ at'[o] = at[o]
        /\ Over(o) => Over(o)'

\* No start comes to be launching.
NoneBegins == \A o \in Starts : pc'[o] \in Launching => pc[o] \in Launching

LEMMA StartsGoOnward == ASSUME SessionsInv, SessionNext PROVE Onward
<1> USE ControlPoints
<1>1. TypeOK /\ UnloadsHold
  BY DEF SessionsInv
<1>2. CASE UNCHANGED <<pc, at>>
  BY <1>2 DEF Onward, UnderWay, Over
<1>3. ASSUME NEW o \in Starts, Register(o) \/ StartStep(o) \/ Abandon(o) PROVE Onward
  <2>1. CASE Place(o)
    BY <1>1, <2>1 DEF Place, Goto, Onward, UnderWay, Over, TypeOK
  <2>2. CASE Register(o) \/ Admit(o) \/ Validated(o) \/ StopForReplacement(o)
    BY <1>1, <2>2 DEF Register, Admit, Validated, StopForReplacement, Goto, Onward, UnderWay, Over,
       TypeOK
  <2>3. CASE BeginLaunch(o) \/ Recheck(o) \/ ProbeFails(o) \/ SpawnFails(o) \/ Spawn(o)
    BY <1>1, <2>3 DEF BeginLaunch, Recheck, ProbeFails, SpawnFails, Spawn, Goto, Onward, UnderWay,
       Over, TypeOK
  <2>4. CASE Attach(o) \/ Confirm(o) \/ LoadFails(o) \/ Publish(o) \/ Abandon(o) \/ Finish(o)
    <3>1. \E l \in {"loading", "confirmed", "unwinding", "done"} :
             /\ pc' = [pc EXCEPT ![o] = l] /\ at' = at
             /\ l = "unwinding" => pc[o] # "done"
             /\ l \in {"loading", "confirmed"} => pc[o] \in Launching
             /\ l = "done" => pc[o] = "unwinding"
      BY <2>4 DEF Attach, Confirm, LoadFails, Publish, Abandon, Finish, Goto
    <3> QED
      BY <1>1, <2>4, <3>1 DEF Onward, UnderWay, Over, TypeOK, Attach, Confirm, LoadFails, Publish,
         Abandon, Finish
  <2> QED
    BY <1>3, <2>1, <2>2, <2>3, <2>4 DEF StartStep
<1>4. CASE \/ \E w \in Stoppers : StopStep(w)
           \/ \E e \in Entries : IdleUnload(e) \/ Reap(e)
           \/ \E r \in Requests : PickLease(r) \/ BeginLease(r) \/ DropLease(r)
           \/ \E c \in Chats : ChatBegins(c) \/ ChatEnds(c)
           \/ \E o \in Starts : Crash(o)
  BY <1>1, <1>2, <1>4, ClientsOnlyTakeDown
<1> QED
  BY <1>3, <1>4 DEF SessionNext

\* An entry that holds no loaded model and no process after a step, and one that is as
\* before or is one of those.
Downed(e) ==
    /\ sess'[e].life \notin {"starting", "ready"} /\ sess'[e].child = None
    /\ sess'[e].launch \in {sess[e].launch, None}
Steady(e) == sess'[e] = sess[e] \/ Downed(e)

LEMMA LaunchesAreKept ==
    ASSUME SessionsInv, LaunchesInv, Onward, NoneBegins,
           \A e \in Entries : Untouched(e) \/ Downed(e)
    PROVE  LaunchesInv'
<1> USE Identities, ControlPoints
<1>1. TypeOK /\ StartsHoldLock
  BY DEF SessionsInv
<1>2. LaunchIsBegun'
  <2> SUFFICES ASSUME NEW e \in Entries, sess'[e].launch # None
               PROVE  at'[sess'[e].launch] = e /\ pc'[sess'[e].launch] \in Launching \cup {"unwinding", "done"}
    BY DEF LaunchIsBegun, UnderWay
  <2>1. sess'[e].launch = sess[e].launch /\ sess[e].launch \in Starts
    BY <1>1 DEF Untouched, Downed, TypeOK, Server
  <2>2. PICK o \in Starts : o = sess[e].launch
    BY <2>1
  <2>3. at[o] = e /\ UnderWay(o)
    BY <2>1, <2>2 DEF LaunchesInv, LaunchIsBegun
  <2>4. at'[o] = e /\ UnderWay(o)'
    BY <2>3 DEF Onward
  <2> QED
    BY <2>1, <2>2, <2>4 DEF UnderWay
<1>3. LaunchIsMine'
  <2> SUFFICES ASSUME NEW o \in Starts, pc'[o] \in Launching
               PROVE  sess'[at'[o]].launch \in {o, None}
    BY DEF LaunchIsMine
  <2>1. pc[o] \in Launching /\ at'[o] = at[o] /\ at[o] \in Entries
    BY <1>1 DEF NoneBegins, Onward, UnderWay, StartsHoldLock
  <2> QED
    BY <2>1 DEF Untouched, Downed, LaunchesInv, LaunchIsMine
<1>4. ChildIsLoaded'
  BY DEF Untouched, Downed, LaunchesInv, ChildIsLoaded, Launched
<1> QED
  BY <1>2, <1>3, <1>4 DEF LaunchesInv

\* What was served stays served, and no session starts it again.
LEMMA ServedStaysServed ==
    ASSUME LeasesAreServed, Onward, \A e \in Entries : Untouched(e) \/ Downed(e),
           NEW k \in Starts, Over(k),
           \A e \in Entries : sess[e].life = "starting" => sess[e].launch # k
    PROVE  Over(k)' /\ \A e \in Entries : sess'[e].life = "starting" => sess'[e].launch # k
<1>1. Over(k)'
  BY DEF Onward
<1> QED
  BY <1>1 DEF Untouched, Downed

LEMMA SteadyKeepsLeases ==
    ASSUME SessionsInv, LeaseInv, Onward, NoneBegins,
           \A e \in Entries : Steady(e), lease' = lease
    PROVE  LeaseInv'
<1>1. \A e \in Entries : Untouched(e) \/ Downed(e)
  BY UnchangedIsUntouched DEF Steady
<1>2. LaunchesInv'
  BY <1>1, LaunchesAreKept DEF LeaseInv
<1>3. LeasesAreServed'
  <2> SUFFICES ASSUME NEW r \in Requests, lease[r].pc # "idle"
               PROVE  /\ lease[r].key \in Starts /\ Over(lease[r].key)'
                      /\ \A e \in Entries : sess'[e].life = "starting" =>
                                                sess'[e].launch # lease[r].key
    BY DEF LeasesAreServed, Over
  <2>1. PICK k \in Starts : k = lease[r].key
    BY DEF LeaseInv, LeasesAreServed
  <2>2. Over(k) /\ \A e \in Entries : sess[e].life = "starting" => sess[e].launch # k
    BY <2>1 DEF LeaseInv, LeasesAreServed, Over
  <2> QED
    BY <1>1, <2>1, <2>2, ServedStaysServed DEF Over, LeaseInv
<1>4. LeasesCounted'
  BY DEF LeaseInv, LeasesCounted, Steady, Downed
<1> QED
  BY <1>2, <1>3, <1>4 DEF LeaseInv

\* A start's own step on its entry: it begins, attaches or publishes its launch.  No lease
\* can be held on it yet.
LEMMA LaunchKeepsLeases ==
    ASSUME SessionsInv, LeaseInv, Onward, NEW o \in Starts,
           pc[o] \in {"tracked"} \cup Launching, UnderWay(o)',
           \A p \in Starts \ {o} : pc'[p] = pc[p], UNCHANGED <<at, lease>>,
           NEW s \in Server, sess' = [sess EXCEPT ![at[o]] = s],
           s.life \in {"starting", "ready"}, s.launch = o, s.child \in {o, None},
           s.life = "ready" => s.key = o
    PROVE  LeaseInv'
<1> USE Identities, ControlPoints
<1> DEFINE e == at[o]
<1>1. TypeOK /\ StartsHoldLock
  BY DEF SessionsInv
<1>2. e \in Entries /\ operation = o
  BY <1>1 DEF StartsHoldLock
<1>3. sess'[e] = s /\ \A f \in Entries \ {e} : sess'[f] = sess[f]
  BY <1>1, <1>2 DEF TypeOK
<1>4. \A p \in Starts \ {o} : pc[p] \notin Launching
  BY <1>1, <1>2, StartsAlone
<1>5. \A r \in Requests : lease[r].pc # "idle" => lease[r].key \in Starts \ {o} /\ Over(lease[r].key)
  BY DEF LeaseInv, LeasesAreServed, Over
<1> HIDE DEF e
<1>6. LaunchIsBegun'
  <2> SUFFICES ASSUME NEW f \in Entries, NEW l \in Starts, l = sess'[f].launch
               PROVE  at[l] = f /\ pc'[l] \in Launching \cup {"unwinding", "done"}
    <3>1. \A f \in Entries : sess'[f].launch \in Launch
      BY <1>1, <1>3 DEF TypeOK, Server
    <3> QED
      BY <3>1 DEF LaunchIsBegun, UnderWay
  <2>1. CASE f = e
    BY <1>3, <2>1 DEF UnderWay, e
  <2>2. CASE f # e
    BY <1>3, <2>2 DEF LeaseInv, LaunchesInv, LaunchIsBegun, Onward, UnderWay
  <2> QED
    BY <2>1, <2>2
<1>7. LaunchIsMine'
  BY <1>2, <1>3, <1>4 DEF LaunchIsMine, e
<1>8. ChildIsLoaded'
  <2> SUFFICES ASSUME NEW f \in Entries, sess'[f].child # None
               PROVE  Launched(f)' /\ sess'[f].child = sess'[f].launch
    BY DEF ChildIsLoaded
  <2>1. CASE f = e
    BY <1>3, <2>1 DEF Launched
  <2>2. CASE f # e
    BY <1>3, <2>2 DEF LeaseInv, LaunchesInv, ChildIsLoaded, Launched
  <2> QED
    BY <2>1, <2>2
<1>9. LeasesAreServed'
  <2> SUFFICES ASSUME NEW r \in Requests, lease[r].pc # "idle"
               PROVE  /\ lease[r].key \in Starts /\ Over(lease[r].key)'
                      /\ \A f \in Entries : sess'[f].life = "starting" =>
                                                sess'[f].launch # lease[r].key
    BY DEF LeasesAreServed, Over
  <2>1. PICK k \in Starts \ {o} : k = lease[r].key
    BY <1>5
  <2>2. Over(k)'
    BY <1>5, <2>1 DEF Over
  <2>3. ASSUME NEW f \in Entries, sess'[f].life = "starting" PROVE sess'[f].launch # k
    BY <1>3, <2>1, <2>3 DEF LeaseInv, LeasesAreServed
  <2> QED
    BY <2>1, <2>2, <2>3 DEF Over
<1>10. LeasesCounted'
  <2> SUFFICES ASSUME NEW f \in Entries, sess'[f].life = "ready"
               PROVE  sess'[f].active >= Cardinality(OpenOn(f, sess'[f].key))
    BY DEF LeasesCounted, OpenOn
  <2>1. CASE f = e
    <3>1. OpenOn(f, o) = {}
      BY <1>5 DEF OpenOn
    <3>2. sess'[f].key = o /\ s.active \in Nat
      BY <1>3, <2>1 DEF Server
    <3> QED
      BY <1>3, <2>1, <3>1, <3>2, FS_EmptySet
  <2>2. CASE f # e
    BY <1>3, <2>2 DEF LeaseInv, LeasesCounted, OpenOn
  <2> QED
    BY <2>1, <2>2
<1> QED
  BY <1>6, <1>7, <1>8, <1>9, <1>10 DEF LeaseInv, LaunchesInv

\* A request that picks, begins or drops its lease.  A count goes up and down with the lease.
LEMMA RequestsKeepLeases ==
    ASSUME SessionsInv, LeaseInv, Onward, NEW r \in Requests,
           PickLease(r) \/ BeginLease(r) \/ DropLease(r)
    PROVE  LeaseInv'
<1> USE Identities, ControlPoints
<1>1. TypeOK /\ ReadyIsOneLaunch /\ CurrentLaunchStarts
  BY DEF SessionsInv
<1>2. pc' = pc /\ at' = at /\ NoneBegins
  BY DEF PickLease, BeginLease, DropLease, NoneBegins, startVars
<1>3. \A e \in Entries : Untouched(e)
  <2>1. ASSUME NEW f \in Entries, \/ sess' = [sess EXCEPT ![f] = RequestBegun(sess[f])]
                                  \/ sess' = [sess EXCEPT ![f] = RequestEnded(sess[f])]
        PROVE  \A e \in Entries : Untouched(e)
    <3>1. sess \in [Entries -> Server]
      BY <1>1 DEF TypeOK
    <3> QED
      BY <2>1, <3>1, RequestTransitions DEF Untouched
  <2>2. CASE sess' = sess
    BY <2>2 DEF Untouched
  <2>3. lease[r].at \in Entries
    BY <1>1 DEF TypeOK
  <2> QED
    BY <2>1, <2>2, <2>3 DEF PickLease, BeginLease, DropLease, registryVars
<1>4. LaunchesInv'
  BY <1>2, <1>3, LaunchesAreKept DEF LeaseInv
<1>5. ASSUME NEW q \in Requests, lease'[q].pc # "idle"
      PROVE  /\ lease'[q].key \in Starts /\ Over(lease'[q].key)
             /\ \A e \in Entries : sess[e].life = "starting" => sess[e].launch # lease'[q].key
  <2>1. CASE lease[q].pc # "idle"
    <3>1. lease'[q].key = lease[q].key
      <4>1. lease \in [Requests -> [pc : {"idle", "picked", "open"},
                                    at : Entries, key : Launch]]
        BY <1>1 DEF TypeOK
      <4> QED
        BY <2>1, <4>1 DEF PickLease, BeginLease, DropLease
    <3> QED
      BY <2>1, <3>1 DEF LeaseInv, LeasesAreServed
  <2>2. CASE lease[q].pc = "idle"
    <3>1. q = r /\ PickLease(r)
      BY <1>1, <1>5, <2>2 DEF PickLease, BeginLease, DropLease, TypeOK
    <3>2. PICK e \in Entries : sess[e].life = "ready" /\ lease'[r].key = sess[e].key
      BY <1>1, <3>1, TrackedAreEntries DEF PickLease, TypeOK
    <3>3. PICK k \in Starts : k = sess[e].launch /\ k = lease'[r].key
      BY <1>1, <3>2 DEF ReadyIsOneLaunch
    <3>4. at[k] = e /\ UnderWay(k)
      BY <3>3 DEF LeaseInv, LaunchesInv, LaunchIsBegun
    <3>5. Over(k)
      BY <1>1, <3>2, <3>3, <3>4 DEF UnderWay, Over, CurrentLaunchStarts
    <3>6. ASSUME NEW f \in Entries, sess[f].life = "starting" PROVE sess[f].launch # k
      BY <3>2, <3>3, <3>4, <3>6 DEF LeaseInv, LaunchesInv, LaunchIsBegun
    <3> QED
      BY <3>1, <3>3, <3>5, <3>6
  <2> QED
    BY <2>1, <2>2
<1>6. LeasesAreServed'
  BY <1>2, <1>3, <1>5 DEF LeasesAreServed, Over, Untouched
<1> DEFINE Count(f) == Cardinality(OpenOn(f, sess[f].key))
           Now(f) == OpenOn(f, sess[f].key)
           Then(f) == {q \in Requests : lease'[q].pc = "open" /\ lease'[q].at = f
                                            /\ lease'[q].key = sess[f].key}
<1>7. SUFFICES ASSUME NEW f \in Entries, sess[f].life = "ready"
               PROVE  sess'[f].active >= Cardinality(Then(f))
  BY <1>3, <1>4, <1>6 DEF LeaseInv, LeasesCounted, Untouched
<1>8. /\ sess[f].active >= Cardinality(Now(f)) /\ sess[f].active \in Nat
      /\ IsFiniteSet(Now(f)) /\ Cardinality(Now(f)) \in Nat
  <2>1. IsFiniteSet(Now(f)) /\ sess[f].active \in Nat
    BY <1>1, RequestsAssumption, FS_Subset DEF OpenOn, TypeOK, Server
  <2> QED
    BY <1>7, <2>1, FS_CardinalityType DEF LeaseInv, LeasesCounted, OpenOn
<1>9. ASSUME Then(f) = Now(f), sess'[f].active >= sess[f].active, sess'[f].active \in Nat
      PROVE  sess'[f].active >= Cardinality(Then(f))
  <2> HIDE DEF Then, Now
  <2> QED
    BY <1>8, <1>9
<1>10. CASE PickLease(r)
  <2>1. Then(f) = Now(f)
    BY <1>1, <1>10 DEF PickLease, TypeOK, OpenOn
  <2>2. sess' = sess
    BY <1>10 DEF PickLease, registryVars
  <2> QED
    BY <1>8, <1>9, <2>1, <2>2
<1>11. CASE BeginLease(r)
  <2> DEFINE e == lease[r].at
  <2>0. e \in Entries /\ sess[e] \in Server
    BY <1>1 DEF TypeOK
  <2>1. CASE f = e /\ sess[e].key = lease[r].key
    <3>1. Then(f) = Now(f) \cup {r} /\ r \notin Now(f)
      BY <1>1, <1>7, <1>11, <2>1 DEF BeginLease, TypeOK, OpenOn
    <3>2. sess'[f] = RequestBegun(sess[f])
      BY <1>1, <1>7, <1>11, <2>0, <2>1 DEF BeginLease, TypeOK
    <3>3. sess'[f].active = sess[f].active + 1
      BY <2>0, <2>1, <3>2 DEF RequestBegun, Server
    <3> HIDE DEF Then, Now
    <3>4. Cardinality(Then(f)) = Cardinality(Now(f)) + 1
      BY <1>8, <3>1, FS_AddElement
    <3> QED
      BY <1>8, <3>3, <3>4
  <2>2. CASE ~(f = e /\ sess[e].key = lease[r].key)
    <3>1. Then(f) = Now(f)
      BY <1>1, <1>11, <2>2 DEF BeginLease, TypeOK, OpenOn
    <3>2. sess'[f] = sess[f]
      BY <1>1, <1>11, <2>0, <2>2 DEF BeginLease, TypeOK
    <3> QED
      BY <1>8, <1>9, <3>1, <3>2
  <2> QED
    BY <2>1, <2>2
<1>12. CASE DropLease(r)
  <2> DEFINE e == lease[r].at
  <2>0. e \in Entries /\ sess[e] \in Server
    BY <1>1 DEF TypeOK
  <2>1. CASE f = e /\ sess[e].key = lease[r].key
    <3>1. Then(f) = Now(f) \ {r} /\ r \in Now(f)
      BY <1>1, <1>12, <2>1 DEF DropLease, TypeOK, OpenOn
    <3>2. sess'[f] = RequestEnded(sess[f])
      BY <1>1, <1>12, <2>0, <2>1 DEF DropLease, CountsOn, TypeOK
    <3>3. sess'[f].active = IF sess[f].active = 0 THEN 0 ELSE sess[f].active - 1
      BY <2>0, <2>1, <3>2 DEF RequestEnded, Server
    <3> HIDE DEF Then, Now
    <3>4. Cardinality(Then(f)) = Cardinality(Now(f)) - 1
      BY <1>8, <3>1, FS_RemoveElement
    <3>5. Cardinality(Now(f)) # 0
      BY <1>8, <3>1, FS_EmptySet
    <3> QED
      BY <1>8, <3>3, <3>4, <3>5
  <2>2. CASE ~(f = e /\ sess[e].key = lease[r].key)
    <3>1. Then(f) = Now(f)
      BY <1>1, <1>12, <2>2 DEF DropLease, TypeOK, OpenOn
    <3>2. sess'[f] = sess[f]
      BY <1>1, <1>12, <2>0, <2>2 DEF DropLease, CountsOn, TypeOK
    <3> QED
      BY <1>8, <1>9, <3>1, <3>2
  <2> QED
    BY <2>1, <2>2
<1> QED
  BY <1>10, <1>11, <1>12

\* The steps of a start: waiting changes no session, failing takes its session down, and
\* the three steps that load something are its own.
LEMMA StartsKeepLeases ==
    ASSUME SessionsInv, LeaseInv, Onward, NEW o \in Starts,
           Register(o) \/ StartStep(o) \/ Abandon(o)
    PROVE  LeaseInv'
<1> USE Identities, ControlPoints
<1> DEFINE e == at[o]
<1>1. /\ TypeOK /\ StartsHoldLock /\ CurrentLaunchStarts
      /\ LaunchIsMine /\ ChildIsLoaded /\ exiting \in BOOLEAN
  BY DEF SessionsInv, LeaseInv, LaunchesInv, TypeOK
\* o goes to l, and its session becomes s or stays
<1>2. ASSUME NEW l \in Control, pc' = [pc EXCEPT ![o] = l], UNCHANGED <<sess, lease>>,
             l \in Launching => pc[o] \in Launching
      PROVE  LeaseInv'
  <2>1. NoneBegins
    BY <1>1, <1>2 DEF NoneBegins, TypeOK
  <2> QED
    BY <1>2, <2>1, SteadyKeepsLeases DEF Steady
<1>3. ASSUME NEW l \in {"unwinding", "done"}, NEW f \in Entries, NEW s \in Server,
             pc' = [pc EXCEPT ![o] = l], lease' = lease, sess' = [sess EXCEPT ![f] = s],
             s.life \notin {"starting", "ready"}, s.child = None,
             s.launch \in {sess[f].launch, None}
      PROVE  LeaseInv'
  <2>1. NoneBegins
    BY <1>1, <1>3 DEF NoneBegins, TypeOK
  <2>2. \A g \in Entries : Steady(g)
    BY <1>1, <1>3 DEF Steady, Downed, TypeOK
  <2> QED
    BY <1>3, <2>1, <2>2, SteadyKeepsLeases
<1>4. ASSUME NEW l \in Launching \cup {"unwinding"}, NEW s \in Server,
             pc[o] \in {"tracked"} \cup Launching,
             pc' = [pc EXCEPT ![o] = l], UNCHANGED <<at, lease>>, sess' = [sess EXCEPT ![e] = s],
             s.life \in {"starting", "ready"}, s.launch = o, s.child \in {o, None},
             s.life = "ready" => s.key = o
      PROVE  LeaseInv'
  <2>1. UnderWay(o)' /\ \A p \in Starts \ {o} : pc'[p] = pc[p]
    BY <1>1, <1>4 DEF UnderWay, TypeOK
  <2> QED
    BY <1>4, <2>1, LaunchKeepsLeases
<1>5. ASSUME pc[o] \in {"tracked"} \cup Launching
      PROVE  e \in Entries /\ sess[e] \in Server /\ o \in Launch
  BY <1>1, <1>5 DEF StartsHoldLock, TypeOK
<1>6. CASE Register(o) \/ Admit(o) \/ Validated(o) \/ Place(o) \/ Recheck(o) \/ ProbeFails(o)
           \/ Spawn(o) \/ Confirm(o) \/ Abandon(o)
  <2>1. /\ UNCHANGED <<sess, lease>>
        /\ \E l \in Control : /\ pc' = [pc EXCEPT ![o] = l]
                              /\ l \in Launching => pc[o] \in Launching
    BY <1>6 DEF Register, Admit, Validated, Place, Recheck, ProbeFails, Spawn, Confirm, Abandon,
       Goto, registryVars, clientVars
  <2> QED
    BY <1>2, <2>1
<1>7. CASE StopForReplacement(o)
  <2>1. CASE \E f \in Replaced : Responding(sess[f])
    BY <1>2, <1>7, <2>1 DEF StopForReplacement, Goto, clientVars
  <2>2. CASE ~\E f \in Replaced : Responding(sess[f])
    <3>1. /\ sess' = [f \in Entries |-> IF f \in Tracked THEN TornDown(sess[f]) ELSE sess[f]]
          /\ pc' = [pc EXCEPT ![o] = "placing"] /\ lease' = lease
      BY <1>7, <2>2 DEF StopForReplacement, Goto, clientVars, Replaced
    <3>2. \A f \in Entries : Steady(f)
      BY <1>1, <3>1, TeardownTransitions DEF Steady, Downed, TypeOK
    <3>3. NoneBegins
      BY <1>1, <3>1 DEF NoneBegins, TypeOK
    <3> QED
      BY <3>1, <3>2, <3>3, SteadyKeepsLeases
  <2> QED
    BY <2>1, <2>2
<1>8. CASE BeginLaunch(o)
  <2>1. CASE Goto(o, "unwinding") /\ UNCHANGED sess
    BY <1>2, <1>8, <2>1 DEF BeginLaunch, Goto, clientVars
  <2>2. CASE ~(Goto(o, "unwinding") /\ UNCHANGED sess)
    <3>1. /\ pc[o] = "tracked" /\ sess' = [sess EXCEPT ![e] = Begun(sess[e], o)]
          /\ pc' = [pc EXCEPT ![o] = "launching"] /\ UNCHANGED <<at, lease>>
      BY <1>8, <2>2 DEF BeginLaunch, Goto, clientVars
    <3> DEFINE s == Begun(sess[e], o)
    <3>2. s.life = "starting" /\ s.launch = o /\ s.child = None
      BY <1>5, <3>1, LaunchTransitions
    <3>3. s \in Server
      BY <1>5, <3>1, TransitionsTyped
    <3> HIDE DEF s
    <3> QED
      BY <1>4, <3>1, <3>2, <3>3 DEF s
  <2> QED
    BY <2>1, <2>2
<1>9. CASE SpawnFails(o)
  <2>1. CASE sess[e].launch # o
    BY <1>2, <1>9, <2>1 DEF SpawnFails, Goto, clientVars
  <2>2. CASE sess[e].launch = o
    <3> DEFINE s == SpawnFailed(sess[e], exiting)
    <3>1. /\ pc[o] = "probing" /\ sess' = [sess EXCEPT ![e] = s]
          /\ pc' = [pc EXCEPT ![o] = "unwinding"] /\ UNCHANGED <<at, lease>>
      BY <1>9, <2>2 DEF SpawnFails, Goto, clientVars
    <3>2. /\ s \in Server /\ s.life \in {"stopped", "failed"} /\ s.child = sess[e].child
          /\ s.launch = sess[e].launch
      BY <1>1, <1>5, <3>1, TransitionsTyped, FailureTransitions
    <3>3. sess[e].child = None
      BY <1>1, <2>2, <3>1 DEF CurrentLaunchStarts
    <3> HIDE DEF s
    <3> QED
      BY <1>3, <1>5, <3>1, <3>2, <3>3
  <2> QED
    BY <2>1, <2>2
<1>10. CASE Attach(o)
  <2>0. pc[o] = "spawned" /\ e \in Entries /\ sess[e] \in Server
    BY <1>5, <1>10 DEF Attach
  <2>1. sess[e].launch = o => sess[e].life = "starting" /\ sess[e].child = None
    BY <1>1, <2>0 DEF CurrentLaunchStarts
  <2>2. sess[e].child = None
    BY <1>1, <2>0, <2>1 DEF ChildIsLoaded, LaunchIsMine
  <2>3. CASE Withdrawn(o)
    <3> DEFINE s == Unattached(sess[e])
    <3>1. /\ sess' = [sess EXCEPT ![e] = s]
          /\ pc' = [pc EXCEPT ![o] = "unwinding"] /\ UNCHANGED <<at, lease>>
      BY <1>10, <2>3 DEF Attach, Goto, clientVars
    <3>2. /\ s \in Server /\ s.life = "stopped" /\ s.child = sess[e].child
          /\ s.launch = sess[e].launch
      BY <1>1, <2>0, TransitionsTyped, FailureTransitions
    <3> HIDE DEF s
    <3> QED
      BY <1>3, <2>0, <2>2, <3>1, <3>2
  <2>4. CASE ~Withdrawn(o)
    <3> DEFINE s == Attached(sess[e], o)
    <3>1. /\ sess' = [sess EXCEPT ![e] = s] /\ sess[e].launch = o
          /\ pc' = [pc EXCEPT ![o] = "loading"] /\ UNCHANGED <<at, lease>>
      BY <1>10, <2>4 DEF Attach, Goto, clientVars, Withdrawn
    <3>2. s.life = "starting" /\ s.launch = sess[e].launch /\ s.child = o
      BY <1>5, <2>0, LaunchTransitions
    <3>3. s \in Server
      BY <1>5, <2>0, TransitionsTyped
    <3> HIDE DEF s
    <3> QED
      BY <1>4, <2>0, <3>1, <3>2, <3>3
  <2> QED
    BY <2>3, <2>4
<1>11. CASE LoadFails(o)
  <2>1. CASE sess[e].launch # o
    BY <1>2, <1>11, <2>1 DEF LoadFails, Goto, clientVars
  <2>2. CASE sess[e].launch = o
    <3> DEFINE s == LaunchFailed(sess[e], exiting)
    <3>1. /\ pc[o] = "loading" /\ sess' = [sess EXCEPT ![e] = s]
          /\ pc' = [pc EXCEPT ![o] = "unwinding"] /\ UNCHANGED <<at, lease>>
      BY <1>11, <2>2 DEF LoadFails, Goto, clientVars
    <3>2. /\ s \in Server /\ s.life \in {"stopped", "failed"} /\ s.child = None
          /\ s.launch = sess[e].launch
      BY <1>1, <1>5, <3>1, TransitionsTyped, FailureTransitions
    <3> HIDE DEF s
    <3> QED
      BY <1>3, <1>5, <3>1, <3>2
  <2> QED
    BY <2>1, <2>2
<1>12. CASE Publish(o)
  <2>0. pc[o] = "confirmed" /\ e \in Entries /\ sess[e] \in Server
    BY <1>5, <1>12 DEF Publish
  <2>1. CASE Withdrawn(o)
    <3> DEFINE s == Withheld(sess[e])
    <3>1. /\ sess' = [sess EXCEPT ![e] = s]
          /\ pc' = [pc EXCEPT ![o] = "unwinding"] /\ UNCHANGED <<at, lease>>
      BY <1>12, <2>1 DEF Publish, Goto, clientVars
    <3>2. s \in Server /\ s.life = "stopped" /\ s.child = None /\ s.launch = sess[e].launch
      BY <1>1, <2>0, TransitionsTyped, FailureTransitions
    <3> HIDE DEF s
    <3> QED
      BY <1>3, <2>0, <3>1, <3>2
  <2>2. CASE ~Withdrawn(o)
    <3> DEFINE s == Published(sess[e], o)
    <3>1. /\ sess' = [sess EXCEPT ![e] = s] /\ sess[e].launch = o
          /\ pc' = [pc EXCEPT ![o] = "unwinding"] /\ UNCHANGED <<at, lease>>
      BY <1>12, <2>2 DEF Publish, Goto, clientVars, Withdrawn
    <3>2. /\ s.life = "ready" /\ s.launch = sess[e].launch
          /\ s.child = sess[e].child /\ s.key = sess[e].key
      BY <1>5, <2>0, LaunchTransitions
    <3>3. s \in Server
      BY <1>5, <2>0, TransitionsTyped
    <3>4. sess[e].child = o /\ sess[e].key = o
      BY <1>1, <2>0, <3>1 DEF CurrentLaunchStarts
    <3> HIDE DEF s
    <3> QED
      BY <1>4, <2>0, <3>1, <3>2, <3>3, <3>4
  <2> QED
    BY <2>1, <2>2
<1>13. CASE Finish(o)
  <2>1. CASE at[o] = None
    BY <1>2, <1>13, <2>1 DEF Finish, Goto, clientVars
  <2>2. CASE at[o] # None
    <3> DEFINE s == Disowned(sess[e], o)
    <3>1. /\ sess' = [sess EXCEPT ![e] = s] /\ e \in Entries /\ sess[e] \in Server
          /\ pc' = [pc EXCEPT ![o] = "done"] /\ UNCHANGED <<at, lease>>
      BY <1>1, <1>13, <2>2 DEF Finish, Goto, clientVars, TypeOK
    <3>a. o \in Launch /\ sess[e] \in Server
      BY <3>1
    <3>2. s \in Server
      BY <3>a, TransitionsTyped
    <3>5. s = sess[e] \/ (s.life = "stopped" /\ s.launch = None /\ s.child = None)
      BY <3>a, DisownedTransition
    <3> HIDE DEF s
    <3>3. CASE s = sess[e]
      BY <1>1, <1>2, <3>1, <3>3 DEF TypeOK
    <3>4. CASE s # sess[e]
      BY <1>3, <3>1, <3>2, <3>4, <3>5
    <3> QED
      BY <3>3, <3>4
  <2> QED
    BY <2>1, <2>2
<1> QED
  BY <1>6, <1>7, <1>8, <1>9, <1>10, <1>11, <1>12, <1>13 DEF StartStep

\* Stops, unloads, crashes and idle unload take sessions down and leave the leases alone.
LEMMA StopsKeepLeases ==
    ASSUME SessionsInv, LeaseInv, Onward,
           \/ \E w \in Stoppers : StopStep(w)
           \/ \E e \in Entries : IdleUnload(e) \/ Reap(e)
           \/ \E o \in Starts : Crash(o)
    PROVE  LeaseInv'
<1> USE Identities, TrackedAreEntries
<1>1. TypeOK /\ UnloadsHold
  BY DEF SessionsInv
<1>2. NoneBegins
  BY <1>1, ClientsOnlyTakeDown DEF NoneBegins
<1>3. ASSUME NEW e \in Entries, lease' = lease,
             \/ sess' = [sess EXCEPT ![e] = TornDown(sess[e])]
             \/ sess' = [sess EXCEPT ![e] = Retired(sess[e])]
             \/ sess' = [sess EXCEPT ![e] = Reaped(sess[e])]
      PROVE  LeaseInv'
  <2>1. Downed(e) /\ \A f \in Entries \ {e} : sess'[f] = sess[f]
    BY <1>1, <1>3, TeardownTransitions DEF Downed, TypeOK
  <2> QED
    BY <1>2, <1>3, <2>1, SteadyKeepsLeases DEF Steady
<1>4. ASSUME UNCHANGED <<sess, lease>> PROVE LeaseInv'
  BY <1>2, <1>4, SteadyKeepsLeases DEF Steady
<1>5. ASSUME NEW w \in Stoppers, StopStep(w) PROVE LeaseInv'
  <2>1. registry[stop[w].id] \in Entries \cup {None} /\ stop[w].of \in Entries \cup {None}
    BY <1>1 DEF TypeOK
  <2>2. lease' = lease
    BY <1>5 DEF StopStep, StopRequest, StopTeardown, Forget, Retire, CancelForgotten, clientVars
  <2>3. \/ sess' = sess
        \/ \E e \in Entries : \/ sess' = [sess EXCEPT ![e] = TornDown(sess[e])]
                              \/ sess' = [sess EXCEPT ![e] = Retired(sess[e])]
    <3>1. CASE StopRequest(w)
      BY <3>1 DEF StopRequest, registryVars
    <3>2. CASE StopTeardown(w)
      BY <2>1, <3>2 DEF StopTeardown
    <3>3. CASE Forget(w) \/ CancelForgotten(w)
      BY <3>3 DEF Forget, CancelForgotten, registryVars
    <3>4. CASE Retire(w)
      BY <1>1, <2>1, <3>4 DEF Retire, TypeOK
    <3> QED
      BY <1>5, <3>1, <3>2, <3>3, <3>4 DEF StopStep
  <2> QED
    BY <1>3, <1>4, <2>2, <2>3
<1>6. ASSUME NEW e \in Entries, IdleUnload(e) \/ Reap(e) PROVE LeaseInv'
  BY <1>3, <1>6 DEF IdleUnload, Reap, clientVars
<1>7. ASSUME NEW o \in Starts, Crash(o) PROVE LeaseInv'
  BY <1>4, <1>7 DEF Crash, registryVars, clientVars
<1> QED
  BY <1>5, <1>6, <1>7

LEMMA LeasesInit == Init => LeaseInv
<1> SUFFICES ASSUME Init PROVE LeaseInv
  OBVIOUS
<1> USE Identities, ControlPoints
<1>1. \A e \in Entries : sess[e].launch = None /\ sess[e].child = None /\ sess[e].life = "stopped"
  BY DEF Init, NewServer
<1>2. \A r \in Requests : lease[r].pc = "idle"
  BY DEF Init
<1>3. \A o \in Starts : pc[o] = "idle"
  BY DEF Init
<1>4. LaunchesInv
  BY <1>1, <1>3 DEF LaunchesInv, LaunchIsBegun, LaunchIsMine, ChildIsLoaded
<1>5. LeasesAreServed
  BY <1>2 DEF LeasesAreServed
<1>6. LeasesCounted
  BY <1>1 DEF LeasesCounted
<1> QED
  BY <1>4, <1>5, <1>6 DEF LeaseInv

LEMMA LeasesStep == SessionsInv /\ LeaseInv /\ [SessionNext]_vars /\ Chats = {} => LeaseInv'
<1> SUFFICES ASSUME SessionsInv, LeaseInv, [SessionNext]_vars, Chats = {} PROVE LeaseInv'
  OBVIOUS
<1>1. CASE SessionNext
  <2>1. Onward
    BY <1>1, StartsGoOnward
  <2> QED
    BY <1>1, <2>1, StartsKeepLeases, StopsKeepLeases, RequestsKeepLeases DEF SessionNext
<1>2. CASE UNCHANGED vars
  <2>1. UNCHANGED <<sess, pc, at, lease>>
    BY <1>2 DEF vars, sessionVars, registryVars, startVars, clientVars
  <2>2. Onward /\ NoneBegins
    BY <2>1 DEF Onward, NoneBegins, UnderWay, Over
  <2> QED
    BY <2>1, <2>2, SteadyKeepsLeases DEF Steady
<1> QED
  BY <1>1, <1>2

\* Without chat turns every open lease is counted on the launch it was taken on, for as long
\* as that launch is ready, and on no other (gateway/routing.rs:309-324, 359-369).  Beside
\* one it is not: a chat turn ends by session, not by launch (run ChatCount).
THEOREM LeasesAreCounted ==
    ASSUME Chats = {}
    PROVE  Spec => []LeasesCounted
<1>1. Init => LeaseInv
  BY LeasesInit
<1>2. SessionsInv /\ LeaseInv /\ [SessionNext]_vars => LeaseInv'
  BY LeasesStep
<1>3. LeaseInv => LeasesCounted
  BY DEF LeaseInv
<1> QED
  BY SessionsInvariant, <1>1, <1>2, <1>3, PTL DEF Spec

\* A session that answers a lease is ready, is responding and has no start at work on it.
LEMMA ServingIsReady ==
    ASSUME SessionsInv, LeaseInv, NEW r \in Requests, Serving(r)
    PROVE  /\ lease[r].at \in Entries /\ sess[lease[r].at].life = "ready"
           /\ Responding(sess[lease[r].at]) /\ lease[r].at \in Held
           /\ \A o \in Starts : pc[o] \in Launching => at[o] # lease[r].at
<1> USE Identities, ControlPoints
<1> DEFINE e == lease[r].at
<1>1. /\ TypeOK /\ ReadyIsOneLaunch /\ CurrentLaunchStarts /\ LoadedIsHeld /\ e \in Entries
      /\ LaunchIsMine /\ ChildIsLoaded /\ LeasesAreServed /\ LeasesCounted
  BY DEF SessionsInv, TypeOK, LeaseInv, LaunchesInv
<1>2. PICK l \in Starts : l = lease[r].key /\ l = sess[e].child
  BY <1>1 DEF Serving, LeasesAreServed
<1>3. sess[e].launch = l /\ sess[e].life = "ready"
  BY <1>1, <1>2 DEF ChildIsLoaded, Launched, LeasesAreServed, Serving
<1>4. sess[e].key = l
  BY <1>1, <1>3 DEF ReadyIsOneLaunch
<1>5. r \in OpenOn(e, l) /\ IsFiniteSet(OpenOn(e, l))
  BY <1>2, RequestsAssumption, FS_Subset DEF OpenOn, Serving
<1>6. Cardinality(OpenOn(e, l)) \in Nat /\ Cardinality(OpenOn(e, l)) # 0
  BY <1>5, FS_CardinalityType, FS_EmptySet
<1>7. sess[e].active >= Cardinality(OpenOn(e, l)) /\ sess[e].active \in Nat
  BY <1>1, <1>3, <1>4 DEF LeasesCounted, OpenOn, TypeOK, Server
<1>8. Responding(sess[e]) /\ e \in Held
  BY <1>1, <1>3, <1>6, <1>7 DEF Responding, BlocksResourceChange, LoadedIsHeld
<1>9. \A o \in Starts : pc[o] \in Launching => at[o] # e
  BY <1>1, <1>3 DEF LaunchIsMine, CurrentLaunchStarts
<1> QED
  BY <1>1, <1>3, <1>8, <1>9

\* Nothing but forgetting the session replaces the process that answers a lease.
LEMMA ServingStays ==
    ASSUME SessionsInv, LeaseInv, SessionNext, NEW r \in Requests, Serving(r)
    PROVE  sess'[lease[r].at].child = lease[r].key \/ sess'[lease[r].at].retired
<1> USE Identities, ControlPoints
<1>1. PICK e \in Entries : e = lease[r].at
  BY ServingIsReady
<1>2. /\ sess[e].life = "ready" /\ Responding(sess[e])
      /\ \A o \in Starts : pc[o] \in Launching => at[o] # e
      /\ sess[e].child = lease[r].key /\ sess[e].child \in alive /\ sess[e] \in Server
      /\ TypeOK /\ StartsHoldLock
  BY <1>1, ServingIsReady DEF Serving, SessionsInv, TypeOK
<1> DEFINE Goal == sess'[e].child = sess[e].child \/ sess'[e].retired
<1>3. SUFFICES Goal
  BY <1>1, <1>2
<1>4. ASSUME sess' = sess PROVE Goal
  BY <1>4
\* a step on another session
<1>5. ASSUME NEW f, NEW s, f # e, sess' = [sess EXCEPT ![f] = s] PROVE Goal
  BY <1>2, <1>5 DEF TypeOK
<1>6. ASSUME NEW o \in Starts, Register(o) \/ StartStep(o) \/ Abandon(o) PROVE Goal
  <2>1. CASE Register(o) \/ Admit(o) \/ Validated(o) \/ Place(o) \/ Recheck(o) \/ ProbeFails(o)
             \/ Spawn(o) \/ Confirm(o) \/ Abandon(o)
    <3>1. sess' = sess
      BY <2>1 DEF Register, Admit, Validated, Place, Recheck, ProbeFails, Spawn, Confirm, Abandon,
         registryVars
    <3> QED
      BY <1>4, <3>1
  <2>2. CASE StopForReplacement(o)
    BY <1>2, <1>4, <2>2 DEF StopForReplacement, Replaced, TypeOK
  <2>3. CASE BeginLaunch(o)
    <3>1. sess' = sess \/ (~Responding(sess[at[o]])
                             /\ sess' = [sess EXCEPT ![at[o]] = Begun(sess[at[o]], o)])
      BY <2>3 DEF BeginLaunch
    <3> QED
      BY <1>2, <1>4, <1>5, <3>1
  <2>4. CASE SpawnFails(o) \/ Attach(o) \/ LoadFails(o) \/ Publish(o)
    <3>1. pc[o] \in Launching
      BY <2>4 DEF SpawnFails, Attach, LoadFails, Publish
    <3>2. at[o] # e
      BY <1>2, <3>1
    <3>3. sess' = sess \/ \E s : sess' = [sess EXCEPT ![at[o]] = s]
      BY <2>4 DEF SpawnFails, Attach, LoadFails, Publish
    <3> QED
      BY <1>4, <1>5, <3>2, <3>3
  <2>5. CASE Finish(o)
    <3>1. sess' = sess \/ sess' = [sess EXCEPT ![at[o]] = Disowned(sess[at[o]], o)]
      BY <2>5 DEF Finish
    <3>2. CASE at[o] = e
      <4>1. Disowned(sess[e], o) = sess[e]
        BY <1>2 DEF Disowned
      <4> QED
        BY <1>2, <3>1, <3>2, <4>1 DEF TypeOK
    <3> QED
      BY <1>4, <1>5, <3>1, <3>2
  <2> QED
    BY <1>6, <2>1, <2>2, <2>3, <2>4, <2>5 DEF StartStep
<1>7. ASSUME NEW w \in Stoppers, StopStep(w) PROVE Goal
  <2> DEFINE f == IF Retire(w) THEN stop[w].of ELSE registry[stop[w].id]
  <2>1. CASE f = e /\ Retire(w)
    <3>1. sess' = [sess EXCEPT ![e] = Retired(sess[e])]
      BY <2>1 DEF Retire
    <3>2. sess'[e].retired
      BY <1>2, <3>1, TeardownTransitions DEF TypeOK
    <3> QED
      BY <3>2
  <2>2. CASE ~(f = e /\ Retire(w))
    <3>1. sess' = sess \/ (f # e /\ \E s : sess' = [sess EXCEPT ![f] = s])
      BY <1>2, <1>7, <2>2
         DEF StopStep, StopRequest, StopTeardown, Forget, Retire, CancelForgotten, registryVars
    <3> QED
      BY <1>4, <1>5, <3>1
  <2> QED
    BY <2>1, <2>2
<1>8. ASSUME NEW f \in Entries, IdleUnload(f) \/ Reap(f) PROVE Goal
  <2>1. f # e
    BY <1>2, <1>8 DEF IdleUnload, Reap, Responding
  <2>2. \E s : sess' = [sess EXCEPT ![f] = s]
    BY <1>8 DEF IdleUnload, Reap
  <2> QED
    BY <1>5, <2>1, <2>2
<1>9. CASE \/ \E q \in Requests : PickLease(q) \/ BeginLease(q) \/ DropLease(q)
           \/ \E c \in Chats : ChatBegins(c) \/ ChatEnds(c)
           \/ \E o \in Starts : Crash(o)
  <2>1. sess' = sess \/ \E f : \/ sess' = [sess EXCEPT ![f] = RequestBegun(sess[f])]
                               \/ sess' = [sess EXCEPT ![f] = RequestEnded(sess[f])]
    BY <1>9 DEF PickLease, BeginLease, DropLease, ChatBegins, ChatEnds, Crash, registryVars
  <2>2. RequestBegun(sess[e]).child = sess[e].child /\ RequestEnded(sess[e]).child = sess[e].child
    BY <1>2, RequestTransitions
  <2>3. ASSUME NEW f, \/ sess' = [sess EXCEPT ![f] = RequestBegun(sess[f])]
                       \/ sess' = [sess EXCEPT ![f] = RequestEnded(sess[f])]
        PROVE  Goal
    <3>1. CASE f = e
      BY <1>2, <2>2, <2>3, <3>1 DEF TypeOK
    <3>2. CASE f # e
      BY <1>5, <2>3, <3>2
    <3> QED
      BY <3>1, <3>2
  <2> QED
    BY <1>4, <2>1, <2>3
<1> QED
  BY <1>6, <1>7, <1>8, <1>9 DEF SessionNext

\* The process that answers a request goes only by its own crash, or because its session was
\* forgotten: stops, replacements, idle unloads and other launches are refused or pass it by,
\* each under the lock of its session (commands/server.rs:132-165, 180-209, 405-440, 520-560).
THEOREM ResponsesSurvive ==
    ASSUME Chats = {}
    PROVE  Spec => ResponseSurvives
<1>1. SessionsInv /\ LeaseInv /\ [SessionNext]_vars => LeaseInv'
  BY LeasesStep
<1>2. ASSUME SessionsInv, LeaseInv, [SessionNext]_vars
      PROVE  [\A r \in Requests :
                Serving(r) /\ lease[r].pc' = "open" /\ ~Serving(r)' =>
                    \/ sess'[lease[r].at].child = lease[r].key
                    \/ exiting
                    \/ sess'[lease[r].at].retired]_vars
  BY <1>2, ServingStays
<1> QED
  BY SessionsInvariant, LeasesInit, <1>1, <1>2, PTL DEF Spec, ResponseSurvives
=============================================================================
