---------------------------- MODULE ServerState ----------------------------
(***************************************************************************)
(* One model process bundle: the record behind every session's mutex       *)
(* (src-tauri/src/server.rs, ServerState) and the transitions its critical *)
(* sections apply to it.  Each operator maps the record found under the    *)
(* lock to the record left behind.                                         *)
(*                                                                         *)
(* A launch is identified by the start command that owns it, because a     *)
(* start command launches at most once.  The 64-bit launch generation is   *)
(* therefore the field "launch": begin_launch sets it to the launching     *)
(* command, cancel_launch moves it away from every earlier launch (None),  *)
(* and is_current_launch(generation of l) is launch = l.  The same         *)
(* identity stands for the process a launch spawns (child), for its        *)
(* private API key (key) and for its launch settings (exec).  URL, model   *)
(* names, engine description, error texts and activity times carry no      *)
(* decision modelled here and are left out.                                *)
(*                                                                         *)
(* Operators without a use (RespondingTwice, StillOwned, ...) are plausible*)
(* faults of the operator that follows them: with one in its place a       *)
(* property named in the README fails.                                     *)
(***************************************************************************)
EXTENDS Integers

CONSTANTS Starts,  \* the start commands issued in a behaviour
          None     \* "no launch", "no process", "no key"

ASSUME NoneAssumption == None \notin Starts

Lifecycle == {"stopped", "starting", "ready", "stopping", "failed", "crashed"}

Launch == Starts \cup {None}

Server == [life : Lifecycle, launch : Launch, child : Launch, key : Launch,
           exec : Launch, active : Nat, retired : BOOLEAN]

NewServer == [life |-> "stopped", launch |-> None, child |-> None, key |-> None,
              exec |-> None, active |-> 0, retired |-> FALSE]

\* A lifecycle that keeps runtimes, models and benchmarks off its resources.
BlocksResourceChange(s) == s.life \in {"starting", "ready", "stopping"}

\* A response is in flight on a session that may not be replaced under it.
RespondingTwice(s) == BlocksResourceChange(s) /\ s.active > 1
Responding(s) == BlocksResourceChange(s) /\ s.active > 0

-----------------------------------------------------------------------------
\* begin_launch and the clearing around it: a new generation, no process.
Begun(s, l) == [s EXCEPT !.life = "starting", !.launch = l, !.child = None,
                         !.key = None, !.exec = None, !.active = 0]

\* cancel_launch: the generation moves on, so no launch is current.
LaunchCancelled(s) == [s EXCEPT !.life = "stopped", !.launch = None, !.exec = None]

\* attach_starting: the spawned process, its URL and key become tracked.
Attached(s, l) == [s EXCEPT !.life = "starting", !.child = l, !.key = l, !.active = 0]

\* A spawned process that may not be attached: the record is reset around it.
Unattached(s) == [s EXCEPT !.life = "stopped", !.key = None]

\* The spawn itself failed.
SpawnFailed(s, exiting) == [s EXCEPT !.life = IF exiting THEN "stopped" ELSE "failed"]

\* The readiness probe succeeded and the launch was published.
Published(s, l) == [s EXCEPT !.life = "ready", !.exec = l]

\* The launch reached readiness but was overtaken by a stop, a cancel or exit.
Withheld(s) == [s EXCEPT !.life = "stopped", !.child = None, !.key = None]

\* The readiness probe failed: the process exited or the deadline passed.
LaunchFailed(s, exiting) ==
    [s EXCEPT !.life = IF exiting THEN "stopped" ELSE "failed",
              !.child = None, !.key = None]

\* LaunchGuard's Drop: a launch that is still starting dies with its owner.
StillOwned(s, l) == s
Disowned(s, l) == IF s.launch = l /\ s.life = "starting"
                    THEN [LaunchCancelled(s) EXCEPT !.child = None, !.key = None]
                    ELSE s

\* stop_target, shared by stop, unload, idle unload and replacement.
TornDown(s) == [LaunchCancelled(s) EXCEPT !.child = None, !.key = None, !.active = 0]

\* SessionManager::forget on the removed entry.
Retired(s) == [LaunchCancelled(s) EXCEPT !.child = None, !.retired = TRUE]

\* reap_if_exited on a ready session whose process is gone.
Reaped(s) == [s EXCEPT !.life = "crashed", !.child = None, !.key = None,
                       !.exec = None, !.active = 0]

\* shutdown_managed_processes on one session.
ShutDown(s) == [LaunchCancelled(s) EXCEPT !.child = None, !.key = None]

\* begin_request and end_request (saturating at zero).
RequestBegun(s) == [s EXCEPT !.active = @ + 1]
RequestEndedUnchecked(s) == [s EXCEPT !.active = @ - 1]
RequestEnded(s) == [s EXCEPT !.active = IF @ = 0 THEN 0 ELSE @ - 1]
=============================================================================
