--------------------------- MODULE SharingPermits ---------------------------
(***************************************************************************)
(* The commands that publish a benchmark, and the measurements they must   *)
(* not disturb (commands/benchmark_sharing.rs, benchmark/sharing/permits.rs*)
(* and guard.rs, run_performance_bench in commands/benchmark.rs).  A       *)
(* command snapshots the epoch and the generation of its submission; a     *)
(* measurement or a cancel raises them and aborts the requests in flight.  *)
(***************************************************************************)
EXTENDS Naturals, SequencesExt, Retain

CONSTANTS Commands,    \* sharing commands, each issued at most once
          Submissions,
          ShareKinds,  \* the kinds of command the instance issues
          NoOne,
          MaxTracked,  \* MAX_TRACKED_PER_SUBMISSION
          MaxOrder,    \* MAX_TRACKED_SUBMISSIONS * MAX_TRACKED_PER_SUBMISSION
          MaxEpoch,    \* bound on measurements
          MaxCancels   \* bound on cancels of one submission

ASSUME PermitBounds == /\ {MaxTracked, MaxOrder} \subseteq Nat \ {0}
                       /\ {MaxEpoch, MaxCancels} \subseteq Nat
ASSUME CommandNames == /\ {NoOne, "measurement"} \cap Commands = {}
                       /\ NoOne # "measurement"

\* What a command does after its snapshot.  "generation" then "quiet" is
\* ensure_live; "idle" is ensure_idle and "epoch" ensure_epoch_live.
Request == <<"generation", "quiet", "request", "generation", "quiet">>
Script ==
    [prepare |-> <<"work", "generation", "quiet">>,
     verify  |-> <<"work">> \o Request \o <<"work">>,
     poll    |-> <<"work">> \o Request \o <<"store">>,
     submit  |-> <<"work", "generation", "quiet", "attach", "request",
                   "generation", "quiet">>,
     manage  |-> <<"work">> \o Request \o <<"work">>,
     copy    |-> <<"work", "generation", "quiet", "work">>,
     export  |-> <<"work", "generation", "quiet", "dialog",
                   "generation", "quiet", "work">>,
     import  |-> <<"dialog", "idle", "epoch", "work">>]

ASSUME KindNames == ShareKinds \subseteq DOMAIN Script

VARIABLES
    epoch,      \* Ephemeral.epoch
    generation, \* Ephemeral.generations
    permit,     \* Ephemeral.permits, with the snapshot of the poll that got it
    tracked,    \* Ephemeral.requests: commands with a registered request
    arrivals,   \* Ephemeral.order
    aborted,    \* commands whose abort handle was used
    operation,  \* who holds AppState.operation
    mutating,   \* exiting, runtime_busy or a tracked bench process
    measure,    \* the benchmark: "off", "admitted" or "measuring"
    cmd         \* cmd[c]: the command, its snapshot and where it is

ephemeral == <<epoch, generation, permit, tracked, arrivals, aborted>>
shareVars == <<ephemeral, operation, mutating, measure, cmd>>

Phases == {"new", "admitted", "snapped", "ready", "dialog", "gated", "working",
           "requesting", "clearing", "done"}

Current(s) == [epoch |-> epoch, gen |-> generation[s]]

PermitsTypeOK ==
    /\ epoch \in Nat /\ generation \in [Submissions -> Nat]
    /\ permit \in [Submissions -> [epoch : Nat, gen : Nat] \cup {NoOne}]
    /\ tracked \in [Submissions -> Seq(Commands)]
    /\ arrivals \in Seq(Commands) /\ Len(arrivals) <= MaxOrder
    /\ aborted \subseteq Commands
    /\ operation \in Commands \cup {NoOne, "measurement"}
    /\ mutating \in BOOLEAN
    /\ measure \in {"off", "admitted", "measuring"}
    /\ cmd \in [Commands -> [kind : DOMAIN Script, sub : Submissions, at : Nat \ {0},
                             epoch : Nat, gen : Nat, phase : Phases, dropped : BOOLEAN]]

ShareInit ==
    /\ epoch = 0 /\ generation = [s \in Submissions |-> 0]
    /\ permit = [s \in Submissions |-> NoOne]
    /\ tracked = [s \in Submissions |-> <<>>]
    /\ arrivals = <<>> /\ aborted = {}
    /\ operation = NoOne /\ mutating = FALSE /\ measure = "off"
    /\ cmd \in [Commands -> [kind : ShareKinds, sub : Submissions, at : {1}, epoch : {0},
                             gen : {0}, phase : {"new"}, dropped : {FALSE}]]

-----------------------------------------------------------------------------
(* Guards and helpers *)

\* guard::measurement_active; the peek at the lock is instantaneous.
MeasurementActive == mutating \/ operation # NoOne

\* A recovery import knows its submission only when it has read the file.
KnowsSubmission(c) == cmd[c].kind # "import"

\* ensure_generation_live and ensure_epoch_live: both numbers only grow, so
\* two reads that agree with the snapshot agree at the first of them.
LiveByEpoch(c) == cmd[c].epoch = epoch
Live(c) == /\ cmd[c].epoch = epoch
           /\ KnowsSubmission(c) => cmd[c].gen = generation[cmd[c].sub]

To(c, phase) == cmd' = [cmd EXCEPT ![c].phase = phase]

\* The next step of the script, or the return of the command.
Past(c) == IF cmd[c].at = Len(Script[cmd[c].kind]) \/ cmd[c].dropped
           THEN [cmd[c] EXCEPT !.phase = "done"]
           ELSE [cmd[c] EXCEPT !.phase = "ready", !.at = @ + 1]
Advance(c) == cmd' = [cmd EXCEPT ![c] = Past(c)]

At(c, step) == /\ cmd[c].phase = "ready"
               /\ Script[cmd[c].kind][cmd[c].at] = step

\* A stale command forgets the permit of its submission before it returns.
Fail(c) == To(c, IF KnowsSubmission(c) THEN "clearing" ELSE "done")

-----------------------------------------------------------------------------
(* Sharing commands *)

Admit(c) ==
    /\ cmd[c].phase = "new"
    /\ To(c, IF MeasurementActive THEN "done" ELSE "admitted")
    /\ UNCHANGED <<ephemeral, operation, mutating, measure>>

\* snapshot_live takes the lock twice.
ReadEpoch(c) ==
    /\ cmd[c].phase = "admitted"
    /\ cmd' = [cmd EXCEPT ![c].phase = "snapped", ![c].epoch = epoch]
    /\ UNCHANGED <<ephemeral, operation, mutating, measure>>

ReadGeneration(c) ==
    /\ cmd[c].phase = "snapped"
    /\ cmd' = [cmd EXCEPT ![c].phase = "ready", ![c].gen = generation[cmd[c].sub]]
    /\ UNCHANGED <<ephemeral, operation, mutating, measure>>

\* spawn_privileged_blocking: the gate is taken without waiting, or not at all.
TryWork(c) ==
    /\ At(c, "work")
    /\ IF MeasurementActive
       THEN To(c, "done") /\ UNCHANGED operation
       ELSE To(c, "gated") /\ operation' = c
    /\ UNCHANGED <<ephemeral, mutating, measure>>

\* The blocking closure looks at the snapshot first.
GatedCheck(c) ==
    /\ cmd[c].phase = "gated"
    /\ IF Live(c) THEN To(c, "working") /\ UNCHANGED operation
       ELSE /\ Fail(c)
            /\ operation' = IF KnowsSubmission(c) THEN operation ELSE NoOne
    /\ UNCHANGED <<ephemeral, mutating, measure>>

\* The vault, the records, the browser or the clipboard, with the gate held
\* by the closure; the command goes on with what it returns.
EndWork(c) ==
    /\ cmd[c].phase = "working"
    /\ operation' = NoOne
    /\ Advance(c) \/ To(c, "done")
    /\ UNCHANGED <<ephemeral, mutating, measure>>

CheckGeneration(c) ==
    /\ At(c, "generation")
    /\ IF Live(c) THEN Advance(c) ELSE Fail(c)
    /\ UNCHANGED <<ephemeral, operation, mutating, measure>>

CheckQuiet(c) ==
    /\ At(c, "quiet")
    /\ IF MeasurementActive THEN Fail(c) ELSE Advance(c)
    /\ UNCHANGED <<ephemeral, operation, mutating, measure>>

CheckIdle(c) ==
    /\ At(c, "idle")
    /\ IF MeasurementActive THEN To(c, "done") ELSE Advance(c)
    /\ UNCHANGED <<ephemeral, operation, mutating, measure>>

CheckEpoch(c) ==
    /\ At(c, "epoch")
    /\ IF LiveByEpoch(c) THEN Advance(c) ELSE To(c, "done")
    /\ UNCHANGED <<ephemeral, operation, mutating, measure>>

\* live_permit: cloned for the request, when there is one.
Attach(c) ==
    /\ At(c, "attach")
    /\ Advance(c)
    /\ UNCHANGED <<ephemeral, operation, mutating, measure>>

\* A file dialog opens; the user closes it with a path, or without.
OpenDialog(c) ==
    /\ At(c, "dialog")
    /\ To(c, "dialog")
    /\ UNCHANGED <<ephemeral, operation, mutating, measure>>

CloseDialog(c) ==
    /\ cmd[c].phase = "dialog"
    /\ Advance(c) \/ To(c, "done")
    /\ UNCHANGED <<ephemeral, operation, mutating, measure>>

\* What registering one more request pushes out: the oldest of its own
\* submission, then the oldest of all.
OwnOverflow(queue) ==
    IF Len(queue) > MaxTracked THEN {Head(queue)} ELSE {}
OldestOverflow(line) ==
    IF Len(line) > MaxOrder THEN {Head(line)} ELSE {}

Unlisted(queue, gone) == Retain(queue, Commands \ gone)
EvictedSilently(c) == {}
Evicted(c) ==
    LET own == OwnOverflow(Append(tracked[cmd[c].sub], c))
        oldest == OldestOverflow(Append(arrivals, c))
    IN  own \cup {d \in oldest : \E s \in Submissions : Contains(tracked[s], d)}

\* track_request_if_live: the check and the registration are one critical section.
MayRegisterByEpoch(c) == LiveByEpoch(c)
MayRegister(c) == Live(c)

Register(c) ==
    /\ At(c, "request")
    /\ MayRegister(c)
    /\ LET own    == OwnOverflow(Append(tracked[cmd[c].sub], c))
           oldest == OldestOverflow(Append(arrivals, c))
       IN  /\ tracked' =
                 [s \in Submissions |->
                    Unlisted(IF s = cmd[c].sub THEN Append(tracked[s], c) ELSE tracked[s],
                             own \cup oldest)]
           /\ arrivals' = IF oldest = {} THEN Append(arrivals, c) ELSE Tail(Append(arrivals, c))
    /\ aborted' = aborted \cup Evicted(c)
    /\ To(c, "requesting")
    /\ UNCHANGED <<epoch, generation, permit, operation, mutating, measure>>

RegisterStale(c) ==
    /\ At(c, "request")
    /\ ~MayRegister(c)
    /\ Fail(c)
    /\ UNCHANGED <<ephemeral, operation, mutating, measure>>

\* untrack_request; the entry in the order stays.
Untrack(c) ==
    /\ tracked' = [tracked EXCEPT ![cmd[c].sub] = Unlisted(@, {c})]
    /\ UNCHANGED <<epoch, generation, permit, arrivals, aborted>>

\* The service answers, or the request fails by itself.
Answered(c) ==
    /\ cmd[c].phase = "requesting" /\ c \notin aborted
    /\ Untrack(c)
    /\ Advance(c) \/ To(c, "done")
    /\ UNCHANGED <<operation, mutating, measure>>

NoticeAbort(c) ==
    /\ cmd[c].phase = "requesting" /\ c \in aborted
    /\ Untrack(c)
    /\ Fail(c)
    /\ UNCHANGED <<operation, mutating, measure>>

\* The end of a poll: verified with a permit, expired, or still pending.
Store(c) ==
    /\ At(c, "store")
    /\ \E p \in {permit[cmd[c].sub], [epoch |-> cmd[c].epoch, gen |-> cmd[c].gen], NoOne} :
          permit' = [permit EXCEPT ![cmd[c].sub] = p]
    /\ Advance(c)
    /\ UNCHANGED <<epoch, generation, tracked, arrivals, aborted, operation, mutating, measure>>

\* clear_permit before the error is returned, with the gate still held in a closure.
ClearPermit(c) ==
    /\ cmd[c].phase = "clearing"
    /\ permit' = [permit EXCEPT ![cmd[c].sub] = NoOne]
    /\ operation' = IF operation = c THEN NoOne ELSE operation
    /\ To(c, "done")
    /\ UNCHANGED <<epoch, generation, tracked, arrivals, aborted, mutating, measure>>

\* The future of a command is dropped at an await: a request dies with it and
\* stays listed, a blocking closure goes on and keeps its gate.
GateDropped(c) == IF operation = c THEN NoOne ELSE operation
GateAfterDrop(c) == operation

DropCommand(c) ==
    /\ cmd[c].phase \in {"requesting", "gated", "working"} /\ ~cmd[c].dropped
    /\ cmd' = [cmd EXCEPT ![c].dropped = TRUE,
                          ![c].phase = IF @ = "requesting" THEN "done" ELSE @]
    /\ operation' = GateAfterDrop(c)
    /\ UNCHANGED <<ephemeral, mutating, measure>>

-----------------------------------------------------------------------------
(* Cancels, measurements and the rest of the application *)

\* What a cancel of s, or a measurement, aborts.
AbortedBy(subs) == UNION {ToSet(tracked[s]) : s \in subs}

\* cancel_submission
Cancel(s) ==
    /\ generation[s] < MaxCancels
    /\ generation' = [generation EXCEPT ![s] = @ + 1]
    /\ permit' = [permit EXCEPT ![s] = NoOne]
    /\ aborted' = aborted \cup AbortedBy({s})
    /\ tracked' = [tracked EXCEPT ![s] = <<>>]
    /\ UNCHANGED <<epoch, arrivals, operation, mutating, measure, cmd>>

\* A permit outlives its five minutes.
Expire(s) ==
    /\ permit[s] # NoOne
    /\ permit' = [permit EXCEPT ![s] = NoOne]
    /\ UNCHANGED <<epoch, generation, tracked, arrivals, aborted,
                   operation, mutating, measure, cmd>>

\* run_performance_bench: the operation lock without waiting, the
\* validation, then note_measurement_start before anything is timed.
AdmitMeasurement ==
    /\ measure = "off" /\ operation = NoOne
    /\ epoch < MaxEpoch
    /\ operation' = "measurement" /\ measure' = "admitted"
    /\ UNCHANGED <<ephemeral, mutating, cmd>>

RefuseMeasurement ==
    /\ measure = "admitted"
    /\ operation' = NoOne /\ measure' = "off"
    /\ UNCHANGED <<ephemeral, mutating, cmd>>

NoteMeasurement ==
    /\ measure = "admitted" /\ ~mutating
    /\ epoch' = epoch + 1
    /\ permit' = [s \in Submissions |-> NoOne]
    /\ aborted' = aborted \cup AbortedBy(Submissions)
    /\ tracked' = [s \in Submissions |-> <<>>]
    /\ arrivals' = <<>>
    /\ measure' = "measuring"
    /\ UNCHANGED <<generation, operation, mutating, cmd>>

EndMeasurement ==
    /\ measure = "measuring"
    /\ operation' = NoOne /\ measure' = "off"
    /\ UNCHANGED <<ephemeral, mutating, cmd>>

\* A runtime operation begins or ends, or the application closes.
Mutate ==
    /\ mutating' = ~mutating
    /\ UNCHANGED <<ephemeral, operation, measure, cmd>>

\* The steps a command takes without anyone else's doing.
CommandMoves(c) ==
    \/ ReadEpoch(c) \/ ReadGeneration(c)
    \/ TryWork(c) \/ GatedCheck(c) \/ EndWork(c)
    \/ CheckGeneration(c) \/ CheckQuiet(c) \/ CheckIdle(c) \/ CheckEpoch(c)
    \/ Attach(c) \/ OpenDialog(c) \/ Register(c) \/ RegisterStale(c)
    \/ NoticeAbort(c) \/ Store(c) \/ ClearPermit(c)

ShareNext ==
    \/ \E c \in Commands : \/ Admit(c) \/ CommandMoves(c) \/ CloseDialog(c)
                            \/ Answered(c) \/ DropCommand(c)
    \/ \E s \in Submissions : Cancel(s) \/ Expire(s)
    \/ AdmitMeasurement \/ RefuseMeasurement \/ NoteMeasurement \/ EndMeasurement \/ Mutate

ShareSpec == ShareInit /\ [][ShareNext]_shareVars
ShareFairSpec == ShareSpec /\ \A c \in Commands : WF_shareVars(CommandMoves(c))

-----------------------------------------------------------------------------
(* Properties *)

InFlight(c) == cmd[c].phase = "requesting" /\ c \notin aborted

\* A request that can still reach the service belongs to the present epoch and
\* generation, and is listed where the next cancel or measurement finds it.
InFlightIsLive ==
    \A c \in Commands :
        InFlight(c) => Live(c) /\ c \in ToSet(tracked[cmd[c].sub])

\* Once a measurement is timed no request is in flight and no closure touches
\* the vault, the records or the browser, not even one whose command is gone.
MeasurementUndisturbed ==
    measure = "measuring" =>
        \A c \in Commands : ~InFlight(c) /\ cmd[c].phase \notin {"gated", "working"}

Stale(c) == /\ cmd[c].phase \notin {"new", "admitted", "snapped", "done"}
            /\ ~Live(c)

\* A command overtaken by a cancel or a measurement returns, without waiting
\* for the service; only an open file dialog may keep it.
StaleCommandsEnd ==
    \A c \in Commands : Stale(c) ~> (cmd[c].phase \in {"dialog", "done"})
==============================================================================
