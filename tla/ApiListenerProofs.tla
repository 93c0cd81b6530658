------------------------- MODULE ApiListenerProofs -------------------------
(***************************************************************************)
(* What the listener's protocol promises for any number of commands,       *)
(* connections and ports.                                                  *)
(***************************************************************************)
EXTENDS ApiListener, TLAPS

InControl == {"entered", "binding", "bound", "refused", "reporting", "awaiting"}

Shapes ==
    /\ control \in Commands \cup {None}
    /\ slot \in Starts \cup {None}
    /\ pc \in [Commands -> StartPCs \cup StopPCs]
    /\ task \in [Starts -> TaskStates]
    /\ taken \in [Stops -> Starts \cup {None}]
    /\ exiting \in BOOLEAN /\ normalExit \in BOOLEAN /\ wasExiting \in BOOLEAN
    /\ exit \in [{"quit", "update"} -> {"idle", "gated", "aborted"}]

\* A command between its first and its last step holds api_control.
Controlled == \A c \in Commands : pc[c] \in InControl => control = c

\* A published listener is served or dead, and its start is past publishing.
SlotServed ==
    slot # None => task[slot] \in {"running", "closed"} /\ pc[slot] \in {"reporting", "done"}

\* A start that binds or has bound found no listener serving, and has none before.
BindsAlone ==
    \A s \in Starts :
        /\ pc[s] \in {"binding", "bound"} => ~SlotRunning
        /\ pc[s] \in {"idle", "waiting", "entered", "binding"} => task[s] = "none"
        /\ pc[s] = "bound" => task[s] \in {"running", "closed"}

\* A listener that is going down is awaited, and what a stop has taken never serves.
GoingDown ==
    \A l \in Starts : task[l] \in {"notified", "draining"} =>
        pc[l] = "refused" \/ \E w \in Stops : pc[w] = "awaiting" /\ taken[w] = l

TakenDown ==
    \A w \in Stops :
        /\ pc[w] = "awaiting" => slot = None
        /\ pc[w] \notin StartPCs \ StopPCs
        /\ taken[w] # None => /\ taken[w] # slot /\ task[taken[w]] # "running"
                              /\ pc[taken[w]] \in {"reporting", "done"}

\* A cleanup that has taken the listener still has the gate.
Gated ==
    /\ exit["quit"] # "idle" => normalExit /\ exiting
    /\ exit["update"] # "idle" => exiting
    /\ \A x \in {"quit", "update"} : exit[x] = "aborted" => slot = None

IInv == /\ Shapes /\ Controlled /\ SlotServed /\ BindsAlone /\ NoStrayListener
        /\ GoingDown /\ TakenDown /\ Gated

LEMMA InitInvariant == Init => IInv
<1> SUFFICES ASSUME Init PROVE IInv
  OBVIOUS
<1>1. Shapes
  BY DEF Init, Shapes, Commands, StartPCs, StopPCs, TaskStates
<1>2. Controlled /\ SlotServed /\ BindsAlone /\ NoStrayListener /\ GoingDown
  BY DEF Init, Controlled, SlotServed, BindsAlone, NoStrayListener, GoingDown, Commands,
         InControl, SlotRunning
<1>3. TakenDown
  BY DEF Init, TakenDown, Commands, StartPCs, StopPCs
<1>4. Gated
  BY DEF Init, Gated
<1> QED
  BY <1>1, <1>2, <1>3, <1>4 DEF IInv

LEMMA StepInvariant == IInv /\ [Next]_vars => IInv'
<1> SUFFICES ASSUME IInv, [Next]_vars PROVE IInv'
  OBVIOUS
<1> USE NamesAssumption
    DEF IInv, Shapes, Controlled, SlotServed, BindsAlone, NoStrayListener, GoingDown,
        TakenDown, Gated, Commands, InControl, StartPCs, StopPCs, TaskStates, SlotRunning
<1>1. ASSUME NEW c \in Commands, Issue(c) PROVE IInv'
  BY <1>1 DEF Issue, Goto, listenerVars, exitVars
<1>2. ASSUME NEW s \in Starts, Enter(s) PROVE IInv'
  BY <1>2 DEF Enter, Goto, listenerVars, exitVars
<1>3. ASSUME NEW s \in Starts, Inspect(s) PROVE IInv'
  BY <1>3 DEF Inspect, NeedsListener, Goto, listenerVars, exitVars
<1>4. ASSUME NEW s \in Starts, Bind(s) PROVE IInv'
  BY <1>4 DEF Bind, Goto, exitVars
<1>5. ASSUME NEW s \in Starts, BindFails(s) PROVE IInv'
  BY <1>5 DEF BindFails, Leave, Goto, listenerVars, exitVars
<1>6. ASSUME NEW s \in Starts, Publish(s) PROVE IInv'
  <2>1. control = s /\ ~SlotRunning /\ ~exiting /\ control' = s /\ slot' = s
    BY <1>6 DEF Publish, Refused
  <2>2. Shapes'
    BY <1>6 DEF Publish, Aborted, Goto, exitVars
  <2>3. Controlled'
    BY <1>6, <2>1 DEF Publish, Goto
  <2>4. SlotServed'
    BY <1>6, <2>1 DEF Publish, Aborted, Goto
  <2>5. BindsAlone'
    BY <1>6, <2>1 DEF Publish, Aborted, Goto
  <2>6. NoStrayListener'
    BY <1>6, <2>1 DEF Publish, Aborted, Goto
  <2>7. GoingDown' /\ TakenDown'
    BY <1>6, <2>1 DEF Publish, Aborted, Goto
  <2>8. Gated'
    BY <1>6, <2>1 DEF Publish, exitVars
  <2> QED
    BY <2>2, <2>3, <2>4, <2>5, <2>6, <2>7, <2>8
<1>7. ASSUME NEW s \in Starts, Refuse(s) PROVE IInv'
  BY <1>7 DEF Refuse, Withdrawn, Stopping, Goto, exitVars
<1>8. ASSUME NEW s \in Starts, RefusalEnds(s) PROVE IInv'
  BY <1>8 DEF RefusalEnds, Leave, Goto, listenerVars, exitVars
<1>9. ASSUME NEW s \in Starts, Report(s) PROVE IInv'
  BY <1>9 DEF Report, Leave, Goto, listenerVars, exitVars
<1>10. ASSUME NEW w \in Stops, Take(w) PROVE IInv'
  BY <1>10 DEF Take, Stopping, Goto, exitVars
<1>11. ASSUME NEW w \in Stops, StopEnds(w) PROVE IInv'
  BY <1>11 DEF StopEnds, Awaited, Leave, Goto, listenerVars, exitVars
<1>12. ASSUME NEW c \in Commands, Abandon(c) PROVE IInv'
  BY <1>12 DEF Abandon, Aborted, Goto, exitVars
<1>13. ASSUME NEW l \in Starts, Drain(l) \/ Drained(l) \/ Collect(l) PROVE IInv'
  BY <1>13 DEF Drain, Drained, Collect, exitVars
<1>14. ASSUME NEW l \in Starts, NEW k \in Clients, Accept(l, k) \/ ConnectionEnds(l, k)
       PROVE  IInv'
  BY <1>14 DEF Accept, ConnectionEnds, exitVars
<1>15. CASE QuitGates \/ UpdateGates \/ UpdateFails
  <2>1. /\ UNCHANGED <<control, slot, pc, taken, port, task, conns>>
        /\ exiting' \in BOOLEAN /\ normalExit' \in BOOLEAN /\ wasExiting' \in BOOLEAN
        /\ exit' \in [{"quit", "update"} -> {"idle", "gated", "aborted"}]
    <3>1. CASE QuitGates
      BY <3>1 DEF QuitGates, listenerVars
    <3>2. CASE UpdateGates
      BY <3>2 DEF UpdateGates, listenerVars
    <3>3. CASE UpdateFails
      <4>1. wasExiting \/ normalExit \in BOOLEAN
        OBVIOUS
      <4> QED
        BY <3>3, <4>1 DEF UpdateFails, listenerVars
    <3> QED
      BY <1>15, <3>1, <3>2, <3>3
  <2>2. Gated'
    <3>1. CASE QuitGates
      BY <3>1 DEF QuitGates
    <3>2. CASE UpdateGates
      BY <3>2 DEF UpdateGates
    <3>3. CASE UpdateFails
      BY <3>3 DEF UpdateFails
    <3> QED
      BY <1>15, <3>1, <3>2, <3>3
  <2> QED
    BY <2>1, <2>2
<1>16. ASSUME NEW x \in {"quit", "update"}, AbortGateway(x) PROVE IInv'
  BY <1>16 DEF AbortGateway, Aborted
<1>17. CASE UNCHANGED vars
  BY <1>17 DEF vars, listenerVars, exitVars
<1> QED
  BY <1>1, <1>2, <1>3, <1>4, <1>5, <1>6, <1>7, <1>8, <1>9, <1>10, <1>11, <1>12,
     <1>13, <1>14, <1>15, <1>16, <1>17 DEF Next, StartStep, StopStep

LEMMA InvariantHolds == Spec => []IInv
BY InitInvariant, StepInvariant, PTL DEF Spec

\* The locks, the handles, the tasks and the flags keep their types
\* (commands/gateway.rs, gateway.rs:101-118).
THEOREM ListenerTypesKept == Spec => []TypeOK
<1>1. Init => TypeOK
  <2> SUFFICES ASSUME Init PROVE TypeOK
    OBVIOUS
  <2>1. Shapes
    BY InitInvariant DEF IInv
  <2>2. port \in [Starts -> Ports \cup {None}] /\ conns \in [Starts -> SUBSET Clients]
    BY DEF Init
  <2> QED
    BY <2>1, <2>2 DEF Shapes, TypeOK
<1>2. IInv /\ IInv' /\ TypeOK /\ [Next]_vars => TypeOK'
  <2> SUFFICES ASSUME IInv', TypeOK, [Next]_vars PROVE TypeOK'
    OBVIOUS
  <2> DEFINE OthersTyped ==
        port \in [Starts -> Ports \cup {None}] /\ conns \in [Starts -> SUBSET Clients]
  <2>1. OthersTyped'
    <3> USE DEF TypeOK
    <3>1. ASSUME NEW s \in Starts, Bind(s) PROVE OthersTyped'
      BY <3>1 DEF Bind
    <3>2. ASSUME NEW l \in Starts, Drain(l) \/ Collect(l) PROVE OthersTyped'
      BY <3>2 DEF Drain, Collect
    <3>3. ASSUME NEW l \in Starts, NEW k \in Clients, Accept(l, k) \/ ConnectionEnds(l, k)
          PROVE  OthersTyped'
      BY <3>3 DEF Accept, ConnectionEnds
    <3>4. CASE UNCHANGED <<port, conns>>
      BY <3>4
    <3> QED
      BY <3>1, <3>2, <3>3, <3>4
      DEF Next, StartStep, StopStep, vars, listenerVars, Issue, Abandon, Enter, Inspect,
          BindFails, Publish, Refuse, RefusalEnds, Report, Take, StopEnds, Drained,
          QuitGates, UpdateGates, UpdateFails, AbortGateway
  <2> QED
    BY <2>1 DEF IInv, Shapes, TypeOK
<1> QED
  BY <1>1, <1>2, InvariantHolds, PTL DEF Spec

\* No listener serves where neither a stop nor the cleanup can find it
\* (commands/gateway.rs:95-121).
THEOREM NoListenerStrays == Spec => []NoStrayListener
<1>1. IInv => NoStrayListener
  BY DEF IInv
<1> QED
  BY <1>1, InvariantHolds, PTL

\* At most one listener serves, whatever ports the starts are given
\* (commands/gateway.rs:77-93).
THEOREM OneListenerServes == Spec => []OneListener
<1>1. IInv => OneListener
  BY NamesAssumption
     DEF IInv, Shapes, NoStrayListener, Controlled, BindsAlone, SlotServed, SlotRunning,
         OneListener, InControl, Commands
<1> QED
  BY <1>1, InvariantHolds, PTL

\* A cleanup leaves no published listener, and none is published until the gate
\* reopens (lib.rs:87, commands/gateway.rs:95-113).
THEOREM CleanupClosesApi == Spec => []ExitClosesApi
<1>1. IInv => ExitClosesApi
  <2> SUFFICES ASSUME IInv, NEW x \in {"quit", "update"}, exit[x] = "aborted"
               PROVE  /\ slot = None /\ exiting
                      /\ \A l \in Starts : task[l] = "running" => pc[l] = "bound"
    BY DEF ExitClosesApi
  <2>1. slot = None
    BY DEF IInv, Gated
  <2>2. exiting
    BY DEF IInv, Gated
  <2>3. \A l \in Starts : task[l] = "running" => pc[l] = "bound"
    BY <2>1, NamesAssumption DEF IInv, NoStrayListener, Commands
  <2> QED
    BY <2>1, <2>2, <2>3
<1> QED
  BY <1>1, InvariantHolds, PTL

\* Only a stop's own last step makes it answer.
LEMMA OnlyStopEnds ==
    ASSUME IInv, Next, NEW w \in Stops, pc[w] = "awaiting", pc'[w] = "done"
    PROVE  StopEnds(w)
<1> USE NamesAssumption DEF IInv, Shapes, Commands
<1>1. ASSUME NEW s \in Starts, StartStep(s) PROVE FALSE
  BY <1>1 DEF StartStep, Enter, Inspect, Bind, BindFails, Publish, Refuse, RefusalEnds,
              Report, Leave, Goto
<1>2. ASSUME NEW c \in Commands, Issue(c) \/ Abandon(c) PROVE FALSE
  BY <1>2 DEF Issue, Abandon, Goto
<1>3. ASSUME NEW v \in Stops, StopStep(v) PROVE StopEnds(w)
  BY <1>3 DEF StopStep, Take, StopEnds, Leave, Goto
<1>4. ASSUME NEW l \in Starts,
             \/ Drain(l) \/ Drained(l) \/ Collect(l)
             \/ \E k \in Clients : Accept(l, k) \/ ConnectionEnds(l, k)
      PROVE  FALSE
  BY <1>4 DEF Drain, Drained, Collect, Accept, ConnectionEnds
<1>5. ASSUME \/ QuitGates \/ UpdateGates \/ UpdateFails
             \/ \E x \in {"quit", "update"} : AbortGateway(x)
      PROVE  FALSE
  BY <1>5 DEF QuitGates, UpdateGates, UpdateFails, AbortGateway
<1> QED
  BY <1>1, <1>2, <1>3, <1>4, <1>5 DEF Next

\* A stop that returns leaves no listener serving or going down by itself
\* (commands/gateway.rs:124-135).
THEOREM StopsCloseApi == Spec => StopClosesApi
<1> DEFINE Closes == \A w \in Stops : pc[w] = "awaiting" /\ pc'[w] = "done" =>
                        \A l \in Starts : task'[l] \in {"none", "aborted", "closed"}
<1>1. IInv /\ [Next]_vars => [Closes]_vars
  <2> SUFFICES ASSUME IInv, Next, NEW w \in Stops, pc[w] = "awaiting", pc'[w] = "done",
                      NEW l \in Starts
               PROVE  task'[l] \in {"none", "aborted", "closed"}
    OBVIOUS
  <2>1. StopEnds(w)
    BY OnlyStopEnds
  <2>2. \A c \in Commands : pc[c] \in InControl => c = w
    BY NamesAssumption DEF IInv, Controlled, InControl, Commands
  <2>3. task' = task /\ slot = None /\ \A m \in {taken[w]} \ {None} : task[m] = "closed"
    BY <2>1 DEF StopEnds, Awaited, listenerVars, IInv, TakenDown
  <2>4. task[l] # "running"
    BY <2>2, <2>3, NamesAssumption DEF IInv, NoStrayListener, InControl, Commands
  <2>5. task[l] \notin {"notified", "draining"}
    BY <2>2, <2>3, NamesAssumption DEF IInv, GoingDown, InControl, Commands
  <2> QED
    BY <2>3, <2>4, <2>5 DEF IInv, Shapes, TaskStates
<1> QED
  BY <1>1, InvariantHolds, PTL DEF Spec, StopClosesApi
=============================================================================
