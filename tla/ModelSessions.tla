--------------------------- MODULE ModelSessions ---------------------------
(***************************************************************************)
(* The life of the model sessions (commands/server.rs, commands/sessions.rs,*)
(* session.rs, server.rs) and of the requests served by them               *)
(* (gateway/routing.rs).  Every action is one critical section of the code *)
(* or the stretch between two of its awaits:                               *)
(*                                                                         *)
(*   start    a start_server or session_start command; it registers a      *)
(*            cancellable token, waits for the operation lock and then     *)
(*            walks through validation, replacement, launch and readiness  *)
(*   stopper  a stop, unload or session_unload command; it does not take   *)
(*            the operation lock, so it runs beside a start                *)
(*   request  an API request holding a lease on one launch                 *)
(*   chat     a chat turn of the window, bracketed by server_activity      *)
(*                                                                         *)
(* A session is an entry: the built-in Default entry, or one created in    *)
(* the registry by a named start and known by that start's identity, so    *)
(* that an entry forgotten and created again is a different entry, as the  *)
(* two Arcs are in the code.                                               *)
(*                                                                         *)
(* The variables exiting, busy and closed belong to the rest of the        *)
(* application (module AppLifecycle); here they only stay as they are.     *)
(*                                                                         *)
(* An operator without a use is a plausible fault of the one after it, as  *)
(* in ServerState.                                                         *)
(***************************************************************************)
EXTENDS ServerState, FiniteSets

CONSTANTS Ids,       \* the session ids a command can name
          Default,   \* the id of the built-in session
          Stoppers,  \* stop and unload commands in flight at one time
          Requests,  \* API requests in flight at one time
          Chats      \* chat turns in flight at one time

ASSUME SessionsAssumption == /\ Default \in Ids
                             /\ Default \notin Starts
                             /\ Default # None

ASSUME RequestsAssumption == IsFiniteSet(Requests)

Entries == Starts \cup {Default}

VARIABLES
    sess,       \* sess[e]: the ServerState of entry e
    registry,   \* registry[i]: the entry id i resolves to, or None
    pc,         \* pc[o]: where start o is
    sid,        \* sid[o]: the session id start o names
    policy,     \* policy[o]: start o stops every loaded model first
    at,         \* at[o]: the entry start o launches on, None before it chose
    cancelled,  \* the starts whose cancel flag is set
    operation,  \* who holds AppState.operation, or None
    alive,      \* the launches whose model process is running
    stop,       \* stop[w]: the stop command of stopper w
    lease,      \* lease[r]: the lease of API request r
    chat,       \* chat[c]: the session id chat turn c counts on, or None
    overtaken,  \* history: starts pending when a completed stop was requested
    superseded, \* history: starts for other sessions pending at a replacement
    exiting,    \* AppState.exiting
    busy,       \* who holds AppState.runtime_busy, or None
    closed      \* procutil refuses to keep new process trees alive

registryVars == <<sess, registry>>
startVars    == <<pc, sid, policy, at>>
clientVars   == <<lease, chat>>
historyVars  == <<overtaken, superseded>>
appVars      == <<exiting, busy, closed>>
sessionVars  == <<registryVars, startVars, cancelled, operation, alive, stop,
                  clientVars, historyVars>>
vars         == <<sessionVars, appVars>>

\* Points between two awaits or two locks of a start command.
Before  == {"idle", "queued"}
Placing == {"validating", "replacing", "placing", "tracked"}
Launching == {"launching", "probing", "spawned", "loading", "confirmed"}
Control == Before \cup Placing \cup Launching \cup {"unwinding", "done"}

\* The same of a stop or unload command.
StopControl == {"idle", "cancelled", "forget", "retire", "forgotten"}

TypeOK ==
    /\ sess \in [Entries -> Server]
    /\ registry \in [Ids -> Entries \cup {None}]
    /\ pc \in [Starts -> Control]
    /\ sid \in [Starts -> Ids]
    /\ policy \in [Starts -> BOOLEAN]
    /\ at \in [Starts -> Entries \cup {None}]
    /\ cancelled \in SUBSET Starts
    /\ alive \in SUBSET Starts
    /\ stop \in [Stoppers -> [pc : StopControl, id : Ids, forget : BOOLEAN,
                              saw : SUBSET Starts, of : Entries \cup {None}]]
    /\ lease \in [Requests -> [pc : {"idle", "picked", "open"},
                               at : Entries, key : Launch]]
    /\ chat \in [Chats -> Ids \cup {None}]
    /\ overtaken \in SUBSET Starts
    /\ superseded \in SUBSET Starts
    /\ exiting \in BOOLEAN
    /\ closed \in BOOLEAN

Init ==
    /\ sess = [e \in Entries |-> NewServer]
    /\ registry = [i \in Ids |-> IF i = Default THEN Default ELSE None]
    /\ pc = [o \in Starts |-> "idle"]
    /\ sid = [o \in Starts |-> Default]
    /\ policy = [o \in Starts |-> FALSE]
    /\ at = [o \in Starts |-> None]
    /\ cancelled = {}
    /\ operation = None
    /\ alive = {}
    /\ stop = [w \in Stoppers |-> [pc |-> "idle", id |-> Default, forget |-> FALSE,
                                   saw |-> {}, of |-> None]]
    /\ lease = [r \in Requests |-> [pc |-> "idle", at |-> Default, key |-> None]]
    /\ chat = [c \in Chats |-> None]
    /\ overtaken = {}
    /\ superseded = {}
    /\ exiting = FALSE
    /\ busy = None
    /\ closed = FALSE

-----------------------------------------------------------------------------
Registered == {o \in Starts : pc[o] \notin {"idle", "done"}}
Pending(i) == {o \in Registered : sid[o] = i}
Tracked    == {registry[i] : i \in Ids} \ {None}

\* Sessions that an unload removed from the registry and is about to retire.
InHand     == {stop[w].of : w \in Stoppers} \ {None}

\* ensure_launch_allowed
AllowedBesideRuntimeJob(o) == ~exiting /\ o \notin cancelled
AllowedAtExit(o) == busy = None /\ o \notin cancelled
LaunchAllowed(o) == busy = None /\ ~exiting /\ o \notin cancelled

\* ensure_no_active_requests for a start of id i, under the policy or not
NoActiveRequests(i, stopExisting) ==
    \A e \in Tracked : stopExisting \/ e = registry[i] => ~Responding(sess[e])

\* cancel_pending_start sets the flag of every token registered under the id.
CancelAdmittedOnly(i) == cancelled \cup {o \in Pending(i) : pc[o] # "queued"}
CancelPending(i) == cancelled \cup Pending(i)

\* kill on the process entry e tracks
HandleDropped(e) == alive
Killed(e) == alive \ {sess[e].child}

\* A stop, a cancel or the exit came between two critical sections of start o.
WithdrawnByFlag(o) == exiting \/ o \in cancelled
Withdrawn(o) == sess[at[o]].launch # o \/ exiting \/ o \in cancelled

Goto(o, l) == pc' = [pc EXCEPT ![o] = l]

-----------------------------------------------------------------------------
(* Start commands *)

\* begin_pending_start, before anything is awaited
Register(o) ==
    /\ pc[o] = "idle"
    /\ \E i \in Ids, p \in BOOLEAN :
          /\ sid' = [sid EXCEPT ![o] = i]
          /\ policy' = [policy EXCEPT ![o] = p]
    /\ Goto(o, "queued")
    /\ UNCHANGED <<registryVars, at, cancelled, operation, alive, stop,
                   clientVars, historyVars, appVars>>

\* The operation lock is granted; the first checks pass and validation begins,
\* or the command returns an error.
Admit(o) ==
    /\ pc[o] = "queued"
    /\ operation = None
    /\ operation' = o
    /\ \/ LaunchAllowed(o) /\ NoActiveRequests(sid[o], policy[o]) /\ Goto(o, "validating")
       \/ Goto(o, "unwinding")
    /\ UNCHANGED <<registryVars, sid, policy, at, cancelled, alive, stop,
                   clientVars, historyVars, appVars>>

\* prepare_launch returned and the activity check is repeated.  start_server now
\* goes by the policy the saved settings carry, whatever its caller sent.
Validated(o) ==
    /\ pc[o] = "validating"
    /\ \/ /\ LaunchAllowed(o)
          /\ \E p \in BOOLEAN :
                /\ p = policy[o] \/ sid[o] = Default
                /\ NoActiveRequests(sid[o], p)
                /\ policy' = [policy EXCEPT ![o] = p]
                /\ Goto(o, IF p THEN "replacing" ELSE "placing")
       \/ Goto(o, "unwinding") /\ UNCHANGED policy
    /\ UNCHANGED <<registryVars, sid, at, cancelled, operation, alive, stop,
                   clientVars, historyVars, appVars>>

\* stop_models_for_replacement: all sessions locked, all checked, all stopped.
Replaced == Tracked

StopForReplacement(o) ==
    LET others == {p \in Registered : sid[p] # sid[o]}
    IN  /\ pc[o] = "replacing"
        /\ IF \E e \in Replaced : Responding(sess[e])
           THEN /\ Goto(o, "unwinding")
                /\ UNCHANGED <<sess, cancelled, alive, historyVars>>
           ELSE /\ Goto(o, "placing")
                /\ sess' = [e \in Entries |-> IF e \in Replaced THEN TornDown(sess[e])
                                                                ELSE sess[e]]
                /\ alive' = alive \ {sess[e].child : e \in Replaced}
                /\ cancelled' = cancelled \cup {p \in others : registry[sid[p]] # None}
                /\ overtaken' = overtaken \cup {p \in others : registry[sid[p]] # None}
                /\ superseded' = superseded \cup others
        /\ UNCHANGED <<registry, sid, policy, at, operation, stop, clientVars, appVars>>

\* The last cancel check before a target is chosen; get_or_create for a named id.
Place(o) ==
    /\ pc[o] = "placing"
    /\ IF o \in cancelled
       THEN Goto(o, "unwinding") /\ UNCHANGED <<registry, at>>
       ELSE LET e == IF registry[sid[o]] = None THEN o ELSE registry[sid[o]]
            IN  /\ registry' = [registry EXCEPT ![sid[o]] = e]
                /\ at' = [at EXCEPT ![o] = e]
                /\ Goto(o, "tracked")
    /\ UNCHANGED <<sess, sid, policy, cancelled, operation, alive, stop,
                   clientVars, historyVars, appVars>>

\* start_on_target's first critical section: admission is decided again under
\* the target's lock, then a new generation replaces whatever was running.
BeginLaunch(o) ==
    LET e == at[o]
    IN  /\ pc[o] = "tracked"
        /\ \/ /\ LaunchAllowed(o)
              /\ ~sess[e].retired
              /\ ~Responding(sess[e])
              /\ sess' = [sess EXCEPT ![e] = Begun(@, o)]
              /\ alive' = Killed(e)
              /\ Goto(o, "launching")
           \/ Goto(o, "unwinding") /\ UNCHANGED <<sess, alive>>
        /\ UNCHANGED <<registry, sid, policy, at, cancelled, operation, stop,
                       clientVars, historyVars, appVars>>

\* The check between begin_launch and the engine probe.
Recheck(o) ==
    /\ pc[o] = "launching"
    /\ Goto(o, IF sess[at[o]].launch # o \/ o \in cancelled
                 THEN "unwinding" ELSE "probing")
    /\ UNCHANGED <<registryVars, sid, policy, at, cancelled, operation, alive,
                   stop, clientVars, historyVars, appVars>>

\* The probe failed; the launch guard cleans up.
ProbeFails(o) ==
    /\ pc[o] = "probing"
    /\ Goto(o, "unwinding")
    /\ UNCHANGED <<registryVars, sid, policy, at, cancelled, operation, alive,
                   stop, clientVars, historyVars, appVars>>

\* The process could not be spawned.
SpawnFails(o) ==
    LET e == at[o]
    IN  /\ pc[o] = "probing"
        /\ Goto(o, "unwinding")
        /\ sess' = IF sess[e].launch = o
                     THEN [sess EXCEPT ![e] = SpawnFailed(@, exiting)] ELSE sess
        /\ UNCHANGED <<registry, sid, policy, at, cancelled, operation, alive,
                       stop, clientVars, historyVars, appVars>>

\* The process runs, untracked by the session; once the process owner is
\* closed a new tree is terminated under the same lock that registered it.
Spawn(o) ==
    /\ pc[o] = "probing"
    /\ Goto(o, "spawned")
    /\ alive' = IF closed THEN alive ELSE alive \cup {o}
    /\ UNCHANGED <<registryVars, sid, policy, at, cancelled, operation, stop,
                   clientVars, historyVars, appVars>>

\* The spawned process is attached to the session, or killed as an orphan.
Attach(o) ==
    LET e == at[o]
    IN  /\ pc[o] = "spawned"
        /\ IF Withdrawn(o)
           THEN /\ sess' = [sess EXCEPT ![e] = Unattached(@)]
                /\ alive' = alive \ {o}
                /\ Goto(o, "unwinding")
           ELSE /\ sess' = [sess EXCEPT ![e] = Attached(@, o)]
                /\ Goto(o, "loading")
                /\ UNCHANGED alive
        /\ UNCHANGED <<registry, sid, policy, at, cancelled, operation, stop,
                       clientVars, historyVars, appVars>>

\* wait_ready saw its own process answer the readiness probe.
Confirm(o) ==
    /\ pc[o] = "loading"
    /\ sess[at[o]].child = o
    /\ Goto(o, "confirmed")
    /\ UNCHANGED <<registryVars, sid, policy, at, cancelled, operation, alive,
                   stop, clientVars, historyVars, appVars>>

\* wait_ready gave up: the process exited, was taken away, or timed out.
LoadFails(o) ==
    LET e == at[o]
    IN  /\ pc[o] = "loading"
        /\ Goto(o, "unwinding")
        /\ IF sess[e].launch = o
           THEN /\ sess' = [sess EXCEPT ![e] = LaunchFailed(@, exiting)]
                /\ alive' = Killed(e)
           ELSE UNCHANGED <<sess, alive>>
        /\ UNCHANGED <<registry, sid, policy, at, cancelled, operation, stop,
                       clientVars, historyVars, appVars>>

\* The launch becomes ready, unless it was overtaken after the probe.
Publish(o) ==
    LET e == at[o]
    IN  /\ pc[o] = "confirmed"
        /\ Goto(o, "unwinding")
        /\ IF Withdrawn(o)
           THEN /\ sess' = [sess EXCEPT ![e] = Withheld(@)]
                /\ alive' = Killed(e)
           ELSE /\ sess' = [sess EXCEPT ![e] = Published(@, o)]
                /\ UNCHANGED alive
        /\ UNCHANGED <<registry, sid, policy, at, cancelled, operation, stop,
                       clientVars, historyVars, appVars>>

\* The command's future is dropped at one of its awaits.
Abandon(o) ==
    /\ pc[o] \in {"queued", "validating", "probing", "loading"}
    /\ Goto(o, "unwinding")
    /\ UNCHANGED <<registryVars, sid, policy, at, cancelled, operation, alive,
                   stop, clientVars, historyVars, appVars>>

\* The command returns: the launch guard, the operation lock and the pending
\* token are dropped, in that order.
OperationKept(o) == operation
OperationFreed(o) == IF operation = o THEN None ELSE operation

Finish(o) ==
    LET e == at[o]
        s == Disowned(sess[e], o)
    IN  /\ pc[o] = "unwinding"
        /\ Goto(o, "done")
        /\ IF e = None
           THEN UNCHANGED <<sess, alive>>
           ELSE /\ sess' = [sess EXCEPT ![e] = s]
                /\ alive' = IF s = sess[e] THEN alive ELSE Killed(e)
        /\ operation' = OperationFreed(o)
        /\ UNCHANGED <<registry, sid, policy, at, cancelled, stop, clientVars,
                       historyVars, appVars>>

StartStep(o) ==
    \/ Admit(o) \/ Validated(o) \/ StopForReplacement(o) \/ Place(o)
    \/ BeginLaunch(o) \/ Recheck(o) \/ ProbeFails(o) \/ SpawnFails(o) \/ Spawn(o)
    \/ Attach(o) \/ Confirm(o) \/ LoadFails(o) \/ Publish(o) \/ Finish(o)

-----------------------------------------------------------------------------
(* Stop and unload commands *)

\* stop_server, session_stop, unload_model or session_unload: queued starts of
\* the session are cancelled first.
StopRequest(w) ==
    /\ stop[w].pc = "idle"
    /\ \E i \in Ids, f \in BOOLEAN :
          /\ stop' = [stop EXCEPT ![w] = [pc |-> "cancelled", id |-> i, forget |-> f,
                                         saw |-> Pending(i), of |-> None]]
          /\ cancelled' = CancelPending(i)
    /\ UNCHANGED <<registryVars, startVars, operation, alive, clientVars,
                   historyVars, appVars>>

\* The rest of stop_session_by_id: refused while a response is in flight, a
\* success without effect when nothing is tracked under the id.
StopTeardown(w) ==
    LET i == stop[w].id
        e == registry[i]
        next == IF stop[w].forget /\ i # Default THEN "forget" ELSE "idle"
    IN  /\ stop[w].pc = "cancelled"
        /\ IF e # None /\ Responding(sess[e])
           THEN /\ stop' = [stop EXCEPT ![w].pc = "idle", ![w].saw = {}]
                /\ UNCHANGED <<sess, alive, overtaken>>
           ELSE /\ stop' = [stop EXCEPT ![w].pc = next, ![w].saw = {}]
                /\ overtaken' = overtaken \cup stop[w].saw
                /\ IF e = None
                   THEN UNCHANGED <<sess, alive>>
                   ELSE /\ sess' = [sess EXCEPT ![e] = TornDown(@)]
                        /\ alive' = Killed(e)
        /\ UNCHANGED <<registry, startVars, cancelled, operation, clientVars,
                       superseded, appVars>>

\* session_unload's second half, SessionManager::forget: whatever entry the id resolves
\* to by now is taken out of the registry ...
Forget(w) ==
    LET i == stop[w].id
        e == registry[i]
    IN  /\ stop[w].pc = "forget"
        /\ registry' = [registry EXCEPT ![i] = None]
        /\ stop' = [stop EXCEPT ![w].pc = IF e = None THEN "idle" ELSE "retire",
                               ![w].of = e]
        /\ UNCHANGED <<sess, startVars, cancelled, operation, alive, clientVars,
                       historyVars, appVars>>

\* ... retired under its own lock ...
Retire(w) ==
    LET e == stop[w].of
    IN  /\ stop[w].pc = "retire"
        /\ sess' = [sess EXCEPT ![e] = Retired(@)]
        /\ alive' = Killed(e)
        /\ stop' = [stop EXCEPT ![w].pc = "forgotten", ![w].of = None]
        /\ UNCHANGED <<registry, startVars, cancelled, operation, clientVars,
                       historyVars, appVars>>

\* ... and starts registered meanwhile are cancelled too.
CancelForgotten(w) ==
    /\ stop[w].pc = "forgotten"
    /\ stop' = [stop EXCEPT ![w].pc = "idle"]
    /\ cancelled' = CancelPending(stop[w].id)
    /\ UNCHANGED <<registryVars, startVars, operation, alive, clientVars,
                   historyVars, appVars>>

StopStep(w) ==
    StopRequest(w) \/ StopTeardown(w) \/ Forget(w) \/ Retire(w) \/ CancelForgotten(w)

-----------------------------------------------------------------------------
(* Background work and processes *)

\* The idle watchdog unloads a ready session nobody is using.  It holds the
\* operation lock, so it waits out a launch.
IdleUnload(e) ==
    /\ operation = None
    /\ e \in Tracked
    /\ sess[e].life = "ready"
    /\ sess[e].exec # None
    /\ sess[e].active = 0
    /\ sess' = [sess EXCEPT ![e] = TornDown(@)]
    /\ alive' = Killed(e)
    /\ UNCHANGED <<registry, startVars, cancelled, operation, stop, clientVars,
                   historyVars, appVars>>

\* A model process dies by itself.
Crash(o) ==
    /\ o \in alive
    /\ alive' = alive \ {o}
    /\ UNCHANGED <<registryVars, startVars, cancelled, operation, stop,
                   clientVars, historyVars, appVars>>

\* A status command or an API snapshot visits a ready session whose process is
\* gone and moves it to crashed.
Reap(e) ==
    /\ e \in Tracked
    /\ sess[e].life = "ready"
    /\ sess[e].child \notin alive
    /\ sess' = [sess EXCEPT ![e] = Reaped(@)]
    /\ UNCHANGED <<registry, startVars, cancelled, operation, alive, stop,
                   clientVars, historyVars, appVars>>

-----------------------------------------------------------------------------
(* Requests *)

\* ModelSource::snapshot finds a ready session with a running process and the
\* router selects it.
PickLease(r) ==
    /\ lease[r].pc = "idle"
    /\ \E e \in Tracked :
          /\ sess[e].life = "ready"
          /\ sess[e].key # None
          /\ sess[e].child \in alive
          /\ lease' = [lease EXCEPT ![r] = [pc |-> "picked", at |-> e, key |-> sess[e].key]]
    /\ UNCHANGED <<registryVars, startVars, cancelled, operation, alive, stop,
                   chat, historyVars, appVars>>

\* Lease::begin counts the request if the session still is the launch that the
\* snapshot saw, and refuses otherwise.
BeginLease(r) ==
    LET e == lease[r].at
        same == sess[e].life = "ready" /\ sess[e].key = lease[r].key
    IN  /\ lease[r].pc = "picked"
        /\ lease' = [lease EXCEPT ![r].pc = IF same THEN "open" ELSE "idle"]
        /\ sess' = IF same THEN [sess EXCEPT ![e] = RequestBegun(@)] ELSE sess
        /\ UNCHANGED <<registry, startVars, cancelled, operation, alive, stop,
                       chat, historyVars, appVars>>

\* Lease's Drop: the response ended, failed, or its connection was aborted.
CountsOnAnyLaunch(r) == TRUE
CountsOn(r) == sess[lease[r].at].key = lease[r].key

DropLease(r) ==
    /\ lease[r].pc = "open"
    /\ lease' = [lease EXCEPT ![r].pc = "idle"]
    /\ sess' = IF CountsOn(r)
                 THEN [sess EXCEPT ![lease[r].at] = RequestEnded(@)] ELSE sess
    /\ UNCHANGED <<registry, startVars, cancelled, operation, alive, stop, chat,
                   historyVars, appVars>>

\* server_activity("start"): the window begins a chat turn on a ready session.
ChatBegins(c) ==
    /\ chat[c] = None
    /\ \E i \in Ids :
          LET e == registry[i]
          IN  /\ e # None
              /\ sess[e].life = "ready"
              /\ sess' = [sess EXCEPT ![e] = RequestBegun(@)]
              /\ chat' = [chat EXCEPT ![c] = i]
    /\ UNCHANGED <<registry, startVars, cancelled, operation, alive, stop, lease,
                   historyVars, appVars>>

\* server_activity("end"): the turn is over.  The call names a session id, not a
\* launch; it only counts down on a session that is ready.
ChatEnds(c) ==
    LET e == registry[chat[c]]
    IN  /\ chat[c] # None
        /\ chat' = [chat EXCEPT ![c] = None]
        /\ sess' = IF e # None /\ sess[e].life = "ready"
                     THEN [sess EXCEPT ![e] = RequestEnded(@)] ELSE sess
        /\ UNCHANGED <<registry, startVars, cancelled, operation, alive, stop,
                       lease, historyVars, appVars>>

-----------------------------------------------------------------------------
SessionNext ==
    \/ \E o \in Starts : Register(o) \/ StartStep(o) \/ Abandon(o) \/ Crash(o)
    \/ \E w \in Stoppers : StopStep(w)
    \/ \E e \in Entries : IdleUnload(e) \/ Reap(e)
    \/ \E r \in Requests : PickLease(r) \/ BeginLease(r) \/ DropLease(r)
    \/ \E c \in Chats : ChatBegins(c) \/ ChatEnds(c)

Spec == Init /\ [][SessionNext]_vars

\* Every await of a start returns (probes and readiness have deadlines) and the
\* operation lock is a fair queue.
Fairness == \A o \in Starts : WF_vars(StartStep(o)) /\ SF_vars(Admit(o))

FairSpec == Spec /\ Fairness

-----------------------------------------------------------------------------
(* Properties *)

\* Every running model process is tracked by the session that launched it, or
\* is in the hands of the start command that just spawned it: no order of stop,
\* unload, replacement, dropped futures and exit leaks a process.
NoOrphanProcess ==
    \A o \in alive : pc[o] = "spawned" \/ \E e \in Entries : sess[e].child = o

\* A session is starting only while the start that owns its launch holds the
\* operation lock: a failed, cancelled or dropped start never leaves a session
\* loading with nobody to finish or stop it.
StartingIsOwned ==
    \A e \in Entries : sess[e].life = "starting" =>
        \E o \in Starts : operation = o /\ sess[e].launch = o /\ at[o] = e

\* A ready session runs the launch its key, process and settings belong to.
ReadyIsOneLaunch ==
    \A e \in Entries : sess[e].life = "ready" =>
        /\ sess[e].launch \in Starts
        /\ sess[e].key = sess[e].launch
        /\ sess[e].child = sess[e].launch
        /\ sess[e].exec = sess[e].launch
        /\ ~sess[e].retired

\* Once a stop or a replacement of a session succeeded, no start that was
\* pending when it was requested loads or serves that session, unless an unload
\* beside it removed the session and is about to retire it.
StopIsFinal ==
    \A e \in Entries \ InHand :
        sess[e].life \in {"starting", "ready"} => sess[e].launch \notin overtaken

\* No lease that is held on a launch is missing from its count of active requests (chat
\* turns count beside leases): a lease keeps idle unload and replacement away until it
\* is dropped, and one on an earlier launch is never subtracted from a newer one.
LeasesCounted ==
    \A e \in Entries : sess[e].life = "ready" =>
        sess[e].active >= Cardinality({r \in Requests :
            lease[r].pc = "open" /\ lease[r].at = e /\ lease[r].key = sess[e].key})

\* A start that was queued for another session when a replacement stopped every
\* model does not load one afterwards (commands/server.rs:409-410).
ReplacementIsFinal ==
    \A e \in Entries :
        sess[e].life \in {"starting", "ready"} => sess[e].launch \notin superseded

\* The process serving an open lease is only taken away by its own crash, by the
\* application's exit, or by forgetting the session.
Serving(r) == /\ lease[r].pc = "open"
              /\ sess[lease[r].at].child = lease[r].key
              /\ lease[r].key \in alive
ResponseSurvives ==
    [][\A r \in Requests :
          Serving(r) /\ lease[r].pc' = "open" /\ ~Serving(r)' =>
              \/ sess'[lease[r].at].child = lease[r].key
              \/ exiting
              \/ sess'[lease[r].at].retired]_vars

\* Every start command that was issued returns, and frees the operation lock.
StartsReturn == \A o \in Starts : pc[o] = "queued" ~> pc[o] = "done"
=============================================================================
