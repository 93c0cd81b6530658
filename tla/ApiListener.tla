---------------------------- MODULE ApiListener ----------------------------
(***************************************************************************)
(* The API listener of the application: commands that start and stop it    *)
(* under api_control, the task that serves it, and the cleanup of a quit   *)
(* or an update, which takes it without that lock.                         *)
(*                                                                         *)
(* A listener is named by the start command that bound it.                 *)
(***************************************************************************)
EXTENDS Naturals, FiniteSets

CONSTANTS Starts,  \* start_api_server, start_anthropic_gateway
          Stops,   \* stop_api_server, stop_anthropic_gateway
          Clients, \* connections to the listener
          Ports,   \* ports the settings may name
          None

Commands == Starts \cup Stops

ASSUME NamesAssumption == Starts \cap Stops = {} /\ None \notin Commands \cup Ports

VARIABLES
    control,    \* api_control: the command holding it
    slot,       \* AppState.gateway: the listener published there
    pc,         \* pc[c]: where command c is
    port,       \* port[l]: what listener l is bound to, None once it let go
    task,       \* task[l]: the task serving listener l
    conns,      \* conns[l]: the connections of listener l
    taken,      \* taken[w]: the listener stop w is waiting for
    exiting,    \* AppState.exiting
    normalExit, \* AppState.normal_exit
    wasExiting, \* what the update's gate found in exiting
    exit        \* exit[x]: how far the quit or the update is

listenerVars == <<port, task, conns>>
exitVars     == <<exiting, normalExit, wasExiting, exit>>
vars         == <<control, slot, pc, taken, listenerVars, exitVars>>

StartPCs == {"idle", "waiting", "entered", "binding", "bound", "refused", "reporting",
             "done", "failed"}
StopPCs  == {"idle", "waiting", "awaiting", "done", "failed"}
TaskStates == {"none", "running", "notified", "draining", "aborted", "closed"}

TypeOK ==
    /\ control \in Commands \cup {None}
    /\ slot \in Starts \cup {None}
    /\ pc \in [Commands -> StartPCs \cup StopPCs]
    /\ port \in [Starts -> Ports \cup {None}]
    /\ task \in [Starts -> TaskStates]
    /\ conns \in [Starts -> SUBSET Clients]
    /\ taken \in [Stops -> Starts \cup {None}]
    /\ {exiting, normalExit, wasExiting} \subseteq BOOLEAN
    /\ exit \in [{"quit", "update"} -> {"idle", "gated", "aborted"}]

Init ==
    /\ control = None /\ slot = None
    /\ pc = [c \in Commands |-> "idle"]
    /\ port = [l \in Starts |-> None]
    /\ task = [l \in Starts |-> "none"]
    /\ conns = [l \in Starts |-> {}]
    /\ taken = [w \in Stops |-> None]
    /\ exiting = FALSE /\ normalExit = FALSE /\ wasExiting = FALSE
    /\ exit = [x \in {"quit", "update"} |-> "idle"]

-----------------------------------------------------------------------------
(* Commands *)

Goto(c, where) == pc' = [pc EXCEPT ![c] = where]

\* The command answers, or its future is dropped; its lock is released.
LockKept(c, where) == Goto(c, where) /\ UNCHANGED control
Leave(c, where) == Goto(c, where) /\ control' = None

\* is_running of the published handle
SlotRunning == slot # None /\ task[slot] # "closed"

Issue(c) ==
    /\ pc[c] = "idle"
    /\ Goto(c, "waiting")
    /\ UNCHANGED <<control, slot, taken, listenerVars, exitVars>>

\* start_api has api_control and looks at exiting.
Enter(s) ==
    /\ pc[s] = "waiting"
    /\ control = None
    /\ IF exiting
       THEN Goto(s, "failed") /\ UNCHANGED control
       ELSE Goto(s, "entered") /\ control' = s
    /\ UNCHANGED <<slot, taken, listenerVars, exitVars>>

\* A running listener is reported as it is.
AlwaysNeeded == TRUE
NeedsListener == ~SlotRunning

Inspect(s) ==
    /\ pc[s] = "entered"
    /\ Goto(s, IF NeedsListener THEN "binding" ELSE "reporting")
    /\ UNCHANGED <<control, slot, taken, listenerVars, exitVars>>

\* gateway::start: the port must be free; its task is spawned.
Bind(s) ==
    /\ pc[s] = "binding"
    /\ \E p \in Ports :
          /\ \A l \in Starts : port[l] # p
          /\ port' = [port EXCEPT ![s] = p]
    /\ task' = [task EXCEPT ![s] = "running"]
    /\ Goto(s, "bound")
    /\ UNCHANGED <<control, slot, taken, conns, exitVars>>

BindFails(s) ==
    /\ pc[s] = "binding"
    /\ Leave(s, "failed")
    /\ UNCHANGED <<slot, taken, listenerVars, exitVars>>

\* A handle that is dropped aborts its task.
Aborted(S) ==
    [l \in Starts |-> IF l \in S /\ task[l] # "closed" THEN "aborted" ELSE task[l]]
Stopping(l) == [task EXCEPT ![l] = IF @ = "closed" THEN @ ELSE "notified"]

\* publish: exiting is read under the lock of the slot.
NeverRefused == FALSE
Refused == exiting

Publish(s) ==
    /\ pc[s] = "bound"
    /\ ~Refused
    /\ slot' = s
    /\ task' = Aborted({slot})
    /\ Goto(s, "reporting")
    /\ UNCHANGED <<control, taken, port, conns, exitVars>>

\* The refused listener is stopped here.
HandleForgotten(s) == task
Withdrawn(s) == Stopping(s)

Refuse(s) ==
    /\ pc[s] = "bound"
    /\ Refused
    /\ task' = Withdrawn(s)
    /\ Goto(s, "refused")
    /\ UNCHANGED <<control, slot, taken, port, conns, exitVars>>

RefusalEnds(s) ==
    /\ pc[s] = "refused"
    /\ task[s] = "closed"
    /\ Leave(s, "failed")
    /\ UNCHANGED <<slot, taken, listenerVars, exitVars>>

\* status_of
Report(s) ==
    /\ pc[s] = "reporting"
    /\ Leave(s, "done")
    /\ UNCHANGED <<slot, taken, listenerVars, exitVars>>

\* stop_api has api_control, takes the handle and notifies its task ...
Take(w) ==
    /\ pc[w] = "waiting"
    /\ control = None
    /\ control' = w
    /\ Goto(w, "awaiting")
    /\ slot' = None
    /\ taken' = [taken EXCEPT ![w] = slot]
    /\ task' = IF slot = None THEN task ELSE Stopping(slot)
    /\ UNCHANGED <<port, conns, exitVars>>

\* ... and waits for it.
NotAwaited(w) == TRUE
Awaited(w) == \A l \in {taken[w]} \ {None} : task[l] = "closed"

StopEnds(w) ==
    /\ pc[w] = "awaiting"
    /\ Awaited(w)
    /\ Leave(w, "done")
    /\ UNCHANGED <<slot, taken, listenerVars, exitVars>>

\* The command's future is dropped at an await: while it waits for the lock, binds,
\* or waits for a task, whose handle it drops.
Abandon(c) ==
    /\ pc[c] \in {"waiting", "binding", "refused", "awaiting"}
    /\ Goto(c, "failed")
    /\ control' = IF control = c THEN None ELSE control
    /\ task' = IF c \in Stops THEN Aborted({taken[c]})
               ELSE IF pc[c] = "refused" THEN Aborted({c}) ELSE task
    /\ UNCHANGED <<slot, taken, port, conns, exitVars>>

-----------------------------------------------------------------------------
(* The task of listener l: gateway.rs run *)

\* A task that was told to stop may still accept before it looks.
Accept(l, k) ==
    /\ task[l] \in {"running", "notified", "aborted"}
    /\ k \notin UNION {conns[m] : m \in Starts}
    /\ conns' = [conns EXCEPT ![l] = @ \cup {k}]
    /\ UNCHANGED <<control, slot, pc, taken, port, task, exitVars>>

\* The socket is closed and every connection aborted.
Drain(l) ==
    /\ task[l] = "notified"
    /\ task' = [task EXCEPT ![l] = "draining"]
    /\ port' = [port EXCEPT ![l] = None]
    /\ UNCHANGED <<control, slot, pc, taken, conns, exitVars>>

Joined(l) == conns[l] = {}

Drained(l) ==
    /\ task[l] = "draining"
    /\ Joined(l)
    /\ task' = [task EXCEPT ![l] = "closed"]
    /\ UNCHANGED <<control, slot, pc, taken, port, conns, exitVars>>

\* The runtime drops an aborted task, or a running one panics: its socket is closed
\* and its connections are aborted, without waiting for them.
Collect(l) ==
    /\ task[l] \in {"running", "aborted"}
    /\ task' = [task EXCEPT ![l] = "closed"]
    /\ port' = [port EXCEPT ![l] = None]
    /\ UNCHANGED <<control, slot, pc, taken, conns, exitVars>>

\* A connection is over, or drops its lease because it was aborted.
DoomedByDrain(l) == task[l] = "draining"
Doomed(l) == task[l] \in {"draining", "closed"}

ConnectionEnds(l, k) ==
    /\ k \in conns[l]
    /\ conns' = [conns EXCEPT ![l] = @ \ {k}]
    /\ UNCHANGED <<control, slot, pc, taken, port, task, exitVars>>

ConnectionDropped(l, k) == Doomed(l) /\ ConnectionEnds(l, k)

-----------------------------------------------------------------------------
(* Closing *)

\* begin_normal_exit
QuitGates ==
    /\ exit["quit"] = "idle"
    /\ exit' = [exit EXCEPT !["quit"] = "gated"]
    /\ normalExit' = TRUE
    /\ exiting' = TRUE
    /\ UNCHANGED <<control, slot, pc, taken, listenerVars, wasExiting>>

\* gate_update_exiting
UpdateGates ==
    /\ exit["update"] = "idle"
    /\ exit' = [exit EXCEPT !["update"] = "gated"]
    /\ wasExiting' = exiting
    /\ exiting' = TRUE
    /\ UNCHANGED <<control, slot, pc, taken, listenerVars, normalExit>>

\* abort_gateway_now, within shutdown_managed_processes
AbortGateway(x) ==
    /\ exit[x] = "gated"
    /\ exit' = [exit EXCEPT ![x] = "aborted"]
    /\ slot' = None
    /\ task' = Aborted({slot})
    /\ UNCHANGED <<control, pc, taken, port, conns, exiting, normalExit, wasExiting>>

\* release_update_gate
UpdateFails ==
    /\ exit["update"] = "aborted"
    /\ exit' = [exit EXCEPT !["update"] = "idle"]
    /\ exiting' = (wasExiting \/ normalExit)
    /\ UNCHANGED <<control, slot, pc, taken, listenerVars, normalExit, wasExiting>>

-----------------------------------------------------------------------------
StartStep(s) == \/ Enter(s) \/ Inspect(s) \/ Bind(s) \/ BindFails(s) \/ Publish(s)
                \/ Refuse(s) \/ RefusalEnds(s) \/ Report(s)
StopStep(w) == Take(w) \/ StopEnds(w)
TaskStep(l) == Drain(l) \/ Drained(l) \/ (task[l] = "aborted" /\ Collect(l))

Next ==
    \/ \E c \in Commands : Issue(c) \/ Abandon(c)
    \/ \E s \in Starts : StartStep(s)
    \/ \E w \in Stops : StopStep(w)
    \/ \E l \in Starts : \/ Drain(l) \/ Drained(l) \/ Collect(l)
                         \/ \E k \in Clients : Accept(l, k) \/ ConnectionEnds(l, k)
    \/ QuitGates \/ UpdateGates \/ UpdateFails
    \/ \E x \in {"quit", "update"} : AbortGateway(x)

Spec == Init /\ [][Next]_vars

\* Tasks and commands are polled while they can go on, and an aborted connection
\* is dropped at its next await; a connection need not end by itself.
FairSpec ==
    /\ Spec
    /\ \A s \in Starts : WF_vars(StartStep(s)) /\ WF_vars(TaskStep(s))
    /\ \A w \in Stops : WF_vars(StopStep(w))
    /\ \A l \in Starts, k \in Clients : WF_vars(ConnectionDropped(l, k))

-----------------------------------------------------------------------------
(* Properties *)

\* A listener that serves is published, where a stop and the cleanup find it, or its
\* start is about to publish it (commands/gateway.rs:95-98).
NoStrayListener ==
    \A l \in Starts : task[l] = "running" => slot = l \/ pc[l] = "bound"

\* Never do two listeners serve, whatever ports the settings name in between.
OneListener ==
    \A l, m \in Starts : task[l] = "running" /\ task[m] = "running" => l = m

\* After the cleanup of an exit or an update nothing is published until the gate
\* reopens, and a listener that is still serving is about to be refused.
ExitClosesApi ==
    \A x \in {"quit", "update"} : exit[x] = "aborted" =>
        /\ slot = None /\ exiting
        /\ \A l \in Starts : task[l] = "running" => pc[l] = "bound"

\* When a stop returns, no listener serves or is still waiting to be told: whatever
\* was open is closed, or was aborted by a cleanup or by a dropped command.
StopClosesApi ==
    [][\A w \in Stops : pc[w] = "awaiting" /\ pc'[w] = "done" =>
          \A l \in Starts : task'[l] \in {"none", "aborted", "closed"}]_vars

\* Every start and stop returns, although each waits for the other's lock and stops
\* wait for the listener and all of its connections.
CommandsReturn ==
    \A c \in Commands : pc[c] = "waiting" ~> pc[c] \in {"done", "failed"}

\* Once a listener is told to stop, aborted or dead, all its connections end and
\* with them the leases they hold (gateway.rs:244-247).
ConnectionsEnd ==
    \A l \in Starts : task[l] \in {"notified", "aborted", "closed"} ~> conns[l] = {}
=============================================================================
