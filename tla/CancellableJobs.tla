-------------------------- MODULE CancellableJobs --------------------------
(***************************************************************************)
(* Operations the window can cancel by identifier, also before their       *)
(* command has begun.  Three registries share one design: launch           *)
(* preflights (launch_jobs.rs), media preparations (media/jobs.rs) and     *)
(* model scans (models/scan_jobs.rs).  The registries share no state, so a *)
(* behaviour is about one of them, whichever Init picks.                   *)
(*                                                                         *)
(* The window draws a fresh identifier for every operation, so an element  *)
(* of Ops is an operation, its command and its identifier.                 *)
(***************************************************************************)
EXTENDS Naturals, Sequences, FiniteSets, Retain

CONSTANTS Ops,          \* operations of one registry
          MaxActive,    \* operations a registry admits at a time
          MaxTombstones \* early cancellations a registry remembers

ASSUME BoundsAssumption == MaxActive \in Nat /\ MaxTombstones \in Nat

\* preflight_launch; transcribe_media and extract_video_frames; list_models and
\* list_model_artifacts
Registries == {{"preflight"}, {"transcription", "extraction"}, {"scan"}}

VARIABLES
    kind,        \* kind[c]: what operation c is, chosen once
    active,      \* Jobs.active: the operations holding a slot
    tombstones,  \* Jobs.cancelled: cancellations that came before their command
    order,       \* Jobs.order: the same, oldest first
    flag,        \* flag[c]: the cancel flag of c, once it has begun
    pc,          \* pc[c]: where the command of c is; "ok" and "err" are its answer
    exiting,     \* AppState.exiting
    normalExit,  \* AppState.normal_exit
    wasExiting,  \* what the update's gate found in exiting
    exit,        \* exit[x]: how far the quit or the update is
    heard,       \* history: cancelled before the last look at the flag, not forgotten
    swept        \* history: at work when a cleanup cancelled the registry

jobVars  == <<active, tombstones, order, flag, pc>>
exitVars == <<exiting, normalExit, wasExiting, exit>>
vars     == <<kind, jobVars, exitVars, heard, swept>>

PCs == {"queued", "cleared", "admitted", "working", "finished", "detached", "ok", "err"}

Kinds == UNION Registries

Preflights  == {c \in Ops : kind[c] = "preflight"}
Media       == {c \in Ops : kind[c] \in {"transcription", "extraction"}}
Extractions == {c \in Ops : kind[c] = "extraction"}
Scans       == {c \in Ops : kind[c] = "scan"}

TypeOK ==
    /\ kind \in [Ops -> Kinds]
    /\ active \subseteq Ops
    /\ tombstones \subseteq Ops
    /\ order \in Seq(Ops)
    /\ flag \in [Ops -> BOOLEAN]
    /\ pc \in [Ops -> PCs]
    /\ {exiting, normalExit, wasExiting} \subseteq BOOLEAN
    /\ exit \in [{"quit", "update"} -> {"idle", "cancelled", "gated", "swept"}]
    /\ heard \subseteq Ops /\ swept \subseteq Ops

Init ==
    /\ \E r \in Registries : kind \in [Ops -> r]
    /\ active = {} /\ tombstones = {} /\ order = << >>
    /\ flag = [c \in Ops |-> FALSE]
    /\ pc = [c \in Ops |-> "queued"]
    /\ exiting = FALSE /\ normalExit = FALSE /\ wasExiting = FALSE
    /\ exit = [x \in {"quit", "update"} |-> "idle"]
    /\ heard = {} /\ swept = {}

-----------------------------------------------------------------------------
(* The command of operation c *)

Goto(c, where) == pc' = [pc EXCEPT ![c] = where]

\* A media command looks at exiting before it asks for a slot.
Clear(c) ==
    /\ c \in Media
    /\ pc[c] = "queued"
    /\ Goto(c, IF exiting THEN "err" ELSE "cleared")
    /\ UNCHANGED <<kind, active, tombstones, order, flag, exitVars, heard, swept>>

\* The cancellation queue without c.
NothingRetained(c) == order
Retained(c) == Retain(order, Ops \ {c})

\* The flag an operation begins with.
EarlyCancelled(c) == c \in tombstones

\* begin: refused when the registry is full; otherwise an early cancellation is
\* consumed and becomes the flag.
Begin(c) ==
    /\ pc[c] = IF c \in Media THEN "cleared" ELSE "queued"
    /\ IF Cardinality(active) >= MaxActive
       THEN /\ Goto(c, "err")
            /\ UNCHANGED <<active, tombstones, order, flag>>
       ELSE /\ Goto(c, "admitted")
            /\ active' = active \cup {c}
            /\ flag' = [flag EXCEPT ![c] = EarlyCancelled(c)]
            /\ tombstones' = tombstones \ {c}
            /\ order' = Retained(c)
    /\ UNCHANGED <<kind, exitVars, heard, swept>>

\* What stops an operation that looks: its flag, for a preflight exiting too.
Stopped(c) == flag[c] \/ (c \in Preflights /\ exiting)

\* The first look, before any work.
FirstLook(c) ==
    /\ pc[c] = "admitted"
    /\ Goto(c, IF Stopped(c) THEN "err" ELSE "working")
    /\ UNCHANGED <<kind, active, tombstones, order, flag, exitVars, heard, swept>>

\* The work polls the flag ...
Notice(c) ==
    /\ pc[c] = "working"
    /\ flag[c]
    /\ Goto(c, "err")
    /\ UNCHANGED <<kind, active, tombstones, order, flag, exitVars, heard, swept>>

\* ... or fails or completes without having seen it.
Finish(c) ==
    /\ pc[c] = "working"
    /\ \E where \in {"finished", "err"} : Goto(c, where)
    /\ UNCHANGED <<kind, active, tombstones, order, flag, exitVars, heard, swept>>

\* Preflights and scans look once more before they answer; a transcription
\* takes whichever of answer and cancellation is polled first, and an extraction
\* has its last look before the last frame is stored.
NoLastLook(c) == TRUE
LastLook(c) == c \in Media \/ ~Stopped(c)

Answer(c) ==
    /\ pc[c] = "finished"
    /\ Goto(c, IF LastLook(c) THEN "ok" ELSE "err")
    /\ UNCHANGED <<kind, active, tombstones, order, flag, exitVars, heard, swept>>

\* The guard is dropped: the slot is free and whoever still works is told to stop.
FlagKept(c) == flag[c]
FlagAfterDrop(c) == c \notin Scans \/ flag[c]

SlotKept(c) == active' = active /\ flag' = [flag EXCEPT ![c] = FlagAfterDrop(c)]
Released(c) ==
    /\ active' = active \ {c}
    /\ flag' = [flag EXCEPT ![c] = FlagAfterDrop(c)]

Drop(c) ==
    /\ pc[c] \in {"ok", "err"}
    /\ c \in active
    /\ Released(c)
    /\ UNCHANGED <<kind, tombstones, order, pc, exitVars, heard, swept>>

\* The command's future is dropped while it awaits its work.  An extraction goes
\* on in its thread; the guard of a scan belongs to the thread, so nothing changes.
Abandon(c) ==
    /\ c \notin Scans
    /\ pc[c] = "working"
    /\ Released(c)
    /\ Goto(c, IF c \in Extractions THEN "detached" ELSE "err")
    /\ UNCHANGED <<kind, tombstones, order, exitVars, heard, swept>>

\* A detached extraction sees its flag, or ends without anyone to answer.
DetachedEnds(c) ==
    /\ pc[c] = "detached"
    /\ Goto(c, "err")
    /\ UNCHANGED <<kind, active, tombstones, order, flag, exitVars, heard, swept>>

-----------------------------------------------------------------------------
(* preflight_launch_cancel, cancel_media_operation, cancel_model_scan *)

BeforeLastLook(c) ==
    \/ pc[c] \in {"queued", "cleared", "admitted"}
    \/ c \notin Media /\ pc[c] \in {"working", "finished"}

Heard(c) == IF BeforeLastLook(c) THEN heard \cup {c} ELSE heard

CancelActive(c) ==
    /\ c \in active
    /\ flag' = [flag EXCEPT ![c] = TRUE]
    /\ heard' = Heard(c)
    /\ UNCHANGED <<kind, active, tombstones, order, pc, exitVars, swept>>

\* The command has not begun, or is over: the cancellation is remembered, and
\* the oldest one is forgotten when there are too many.
Remembered(c) == Append(order, c)
Forgotten(q) == IF Len(q) > MaxTombstones THEN {Head(q)} ELSE {}

CancelEarly(c) ==
    /\ c \notin active \cup tombstones
    /\ LET queue == Remembered(c)
           old == Forgotten(queue)
       IN  /\ order' = IF old = {} THEN queue ELSE Tail(queue)
           /\ tombstones' = (tombstones \cup {c}) \ old
           /\ heard' = Heard(c) \ old
    /\ UNCHANGED <<kind, active, flag, pc, exitVars, swept>>

-----------------------------------------------------------------------------
(* Closing *)

\* cancel_all: the flags of the operations of set S that are in the registry.
CancelAll(S) == flag' = [c \in Ops |-> flag[c] \/ c \in active \cap S]

\* begin_normal_exit cancels preflights and media preparations first ...
QuitCancels ==
    /\ exit["quit"] = "idle"
    /\ exit' = [exit EXCEPT !["quit"] = "cancelled"]
    /\ CancelAll(Preflights \cup Media)
    /\ UNCHANGED <<kind, active, tombstones, order, pc, exiting, normalExit, wasExiting,
                   heard, swept>>

\* ... and raises exiting afterwards.
QuitGates ==
    /\ exit["quit"] = "cancelled"
    /\ exit' = [exit EXCEPT !["quit"] = "gated"]
    /\ normalExit' = TRUE
    /\ exiting' = TRUE
    /\ UNCHANGED <<kind, jobVars, wasExiting, heard, swept>>

\* gate_update_exiting
UpdateGates ==
    /\ exit["update"] = "idle"
    /\ exit' = [exit EXCEPT !["update"] = "gated"]
    /\ wasExiting' = exiting
    /\ exiting' = TRUE
    /\ UNCHANGED <<kind, jobVars, normalExit, heard, swept>>

\* The part of shutdown_managed_processes about the registries: preflights only.
NothingSwept == {}
SweptKinds == Preflights

Sweep(x) ==
    /\ exit[x] = "gated"
    /\ exit' = [exit EXCEPT ![x] = "swept"]
    /\ CancelAll(SweptKinds)
    /\ swept' = swept \cup {c \in active \cap Preflights : BeforeLastLook(c)}
    /\ UNCHANGED <<kind, active, tombstones, order, pc, exiting, normalExit, wasExiting,
                   heard>>

\* release_update_gate: the installer could not be spawned.
UpdateFails ==
    /\ exit["update"] = "swept"
    /\ exit' = [exit EXCEPT !["update"] = "idle"]
    /\ exiting' = (wasExiting \/ normalExit)
    /\ UNCHANGED <<kind, jobVars, normalExit, wasExiting, heard, swept>>

-----------------------------------------------------------------------------
Own(c) == \/ Clear(c) \/ Begin(c) \/ FirstLook(c) \/ Notice(c)
          \/ Answer(c) \/ Drop(c) \/ DetachedEnds(c)

Next ==
    \/ \E c \in Ops : \/ Own(c) \/ Finish(c) \/ Abandon(c)
                      \/ CancelActive(c) \/ CancelEarly(c)
    \/ QuitCancels \/ QuitGates \/ UpdateGates \/ UpdateFails
    \/ \E x \in {"quit", "update"} : Sweep(x)

Spec == Init /\ [][Next]_vars

\* A runnable command runs, and work polls its flag; nothing says that work on
\* its own ever completes.
FairSpec == Spec /\ \A c \in Ops : WF_vars(Own(c))

-----------------------------------------------------------------------------
(* Properties *)

\* The set of early cancellations and the queue that ages them never drift apart,
\* so a cancellation is forgotten only for MaxTombstones later ones
\* (launch_jobs.rs:48-49 and 66-73).
TombstonesInStep ==
    /\ {order[i] : i \in 1..Len(order)} = tombstones
    /\ Len(order) = Cardinality(tombstones)
    /\ Len(order) <= MaxTombstones
    /\ tombstones \cap active = {}

\* An operation whose cancellation came before its last look never answers with a
\* result, whether the cancellation overtook the command, met it at work or raced
\* its last step; only a cancellation pushed out of the queue is lost
\* (commands/launch.rs:24-32).
CancelHonoured == \A c \in heard : pc[c] # "ok"

\* A preflight at work when an exit or an update cleaned up never hands settings
\* to the window, even after the failed update has reopened the gate.
SweepIsFinal == \A c \in swept : pc[c] # "ok"

\* Work that goes on without its command's slot has been told to stop.
UnownedWorkIsFlagged ==
    \A c \in Ops : pc[c] \in {"admitted", "working", "finished", "detached"}
                   /\ c \notin active => flag[c]

\* A cancelled operation ends and gives its slot back although its work might
\* never complete, unless its early cancellation is pushed out of the queue.
CancelEnds ==
    \A c \in Ops : c \in heard ~> (pc[c] \in {"ok", "err"} /\ c \notin active) \/ c \notin heard
=============================================================================
