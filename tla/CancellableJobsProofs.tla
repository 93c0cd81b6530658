----------------------- MODULE CancellableJobsProofs -----------------------
(***************************************************************************)
(* What the cancellation registries promise for any number of operations,  *)
(* slots and remembered cancellations.                                     *)
(***************************************************************************)
EXTENDS CancellableJobs, SequenceLemmas

AtWork == {"admitted", "working", "finished"}

\* What the proofs need of the types.
Shapes ==
    /\ active \subseteq Ops
    /\ flag \in [Ops -> BOOLEAN]
    /\ pc \in [Ops -> PCs]
    /\ heard \subseteq Ops
    /\ swept \subseteq Preflights

\* A command at work holds its slot; only commands that have begun do.
SlotsOwned ==
    /\ \A c \in Ops : pc[c] \in AtWork => c \in active
    /\ \A c \in active : pc[c] \in AtWork \cup {"ok", "err"}

\* A detached extraction was flagged when its guard was dropped.
DetachedFlagged == \A c \in Ops : pc[c] = "detached" => flag[c] /\ c \in Extractions

\* Where the cancellation of c is while c has not answered: in the queue of early
\* ones until the command begins, then in its flag; a media command that got past
\* its first look was cancelled too late to be owed anything.
Owed ==
    \A c \in heard :
        /\ pc[c] \in {"queued", "cleared"} => c \in tombstones
        /\ pc[c] = "admitted" => flag[c]
        /\ pc[c] \in {"working", "finished"} => c \notin Media /\ flag[c]
        /\ pc[c] # "ok"

\* A preflight a cleanup found at work keeps its flag until it has answered.
SweptFlagged ==
    \A c \in swept : pc[c] = "err" \/ (pc[c] \in AtWork /\ flag[c])

IInv == Shapes /\ SlotsOwned /\ DetachedFlagged /\ Owed /\ SweptFlagged

LEMMA InitInvariant == Init => IInv
BY DEF Init, IInv, Shapes, SlotsOwned, DetachedFlagged, Owed, SweptFlagged, AtWork, PCs

\* Preflights are no media operations, and both are operations.
LEMMA KindsApart == /\ Preflights \subseteq Ops /\ Media \subseteq Ops
                    /\ Preflights \cap Media = {} /\ Extractions \subseteq Media
                    /\ Scans \cap Media = {} /\ Extractions \cap Scans = {}
BY DEF Preflights, Media, Extractions, Scans

\* No step changes what an operation is.
LEMMA KindsStay == [Next]_vars => /\ Preflights' = Preflights /\ Media' = Media
                                 /\ Extractions' = Extractions /\ Scans' = Scans
<1> SUFFICES ASSUME [Next]_vars PROVE kind' = kind
  BY DEF Preflights, Media, Extractions, Scans
<1> QED
  BY DEF Next, Own, Clear, Begin, FirstLook, Notice, Finish, Answer, Drop, Abandon,
         DetachedEnds, CancelActive, CancelEarly, QuitCancels, QuitGates, UpdateGates,
         UpdateFails, Sweep, vars

LEMMA StepInvariant == IInv /\ [Next]_vars => IInv'
<1> SUFFICES ASSUME IInv, [Next]_vars PROVE IInv'
  OBVIOUS
<1> USE KindsApart, KindsStay DEF IInv, Shapes, SlotsOwned, DetachedFlagged, Owed, SweptFlagged, AtWork, PCs
<1>1. ASSUME NEW c \in Ops, Clear(c) PROVE IInv'
  BY <1>1 DEF Clear, Goto
<1>2. ASSUME NEW c \in Ops, Begin(c) PROVE IInv'
  <2>1. CASE Cardinality(active) >= MaxActive
    BY <1>2, <2>1 DEF Begin, Goto
  <2>2. CASE ~(Cardinality(active) >= MaxActive)
    <3>1. /\ pc' = [pc EXCEPT ![c] = "admitted"]
          /\ active' = active \cup {c}
          /\ flag' = [flag EXCEPT ![c] = (c \in tombstones)]
          /\ tombstones' = tombstones \ {c}
          /\ heard' = heard /\ swept' = swept
          /\ pc[c] \in {"queued", "cleared"}
      BY <1>2, <2>2 DEF Begin, Goto, EarlyCancelled
    <3>2. Shapes'
      BY <3>1
    <3>3. SlotsOwned' /\ DetachedFlagged'
      BY <3>1
    <3>4. Owed'
      BY <3>1
    <3>5. SweptFlagged'
      BY <3>1
    <3> QED
      BY <3>2, <3>3, <3>4, <3>5
  <2> QED
    BY <2>1, <2>2
<1>3. ASSUME NEW c \in Ops, FirstLook(c) PROVE IInv'
  BY <1>3 DEF FirstLook, Goto, Stopped
<1>4. ASSUME NEW c \in Ops, Notice(c) PROVE IInv'
  BY <1>4 DEF Notice, Goto
<1>5. ASSUME NEW c \in Ops, Finish(c) PROVE IInv'
  BY <1>5 DEF Finish, Goto
<1>6. ASSUME NEW c \in Ops, Answer(c) PROVE IInv'
  BY <1>6 DEF Answer, Goto, LastLook, Stopped
<1>7. ASSUME NEW c \in Ops, Drop(c) PROVE IInv'
  BY <1>7 DEF Drop, Released, FlagAfterDrop
<1>8. ASSUME NEW c \in Ops, Abandon(c) PROVE IInv'
  BY <1>8 DEF Abandon, Released, FlagAfterDrop, Goto
<1>9. ASSUME NEW c \in Ops, DetachedEnds(c) PROVE IInv'
  BY <1>9 DEF DetachedEnds, Goto
<1>10. ASSUME NEW c \in Ops, CancelActive(c) PROVE IInv'
  BY <1>10 DEF CancelActive, Heard, BeforeLastLook
<1>11. ASSUME NEW c \in Ops, CancelEarly(c) PROVE IInv'
  BY <1>11 DEF CancelEarly, Heard, BeforeLastLook, Forgotten
<1>12. CASE QuitCancels
  BY <1>12 DEF QuitCancels, CancelAll
<1>13. ASSUME NEW x \in {"quit", "update"}, Sweep(x) PROVE IInv'
  BY <1>13 DEF Sweep, CancelAll, SweptKinds, BeforeLastLook
<1>14. CASE QuitGates \/ UpdateGates \/ UpdateFails
  BY <1>14 DEF QuitGates, UpdateGates, UpdateFails, jobVars
<1>15. CASE UNCHANGED vars
  BY <1>15 DEF vars, jobVars
<1> QED
  BY <1>1, <1>2, <1>3, <1>4, <1>5, <1>6, <1>7, <1>8, <1>9, <1>10, <1>11, <1>12,
     <1>13, <1>14, <1>15 DEF Next, Own

LEMMA InvariantHolds == Spec => []IInv
BY InitInvariant, StepInvariant, PTL DEF Spec

\* A cancellation that came before an operation's last look at its flag keeps the
\* operation from answering with a result, for any number of operations, slots and
\* remembered cancellations (launch_jobs.rs:37-76, commands/launch.rs:21-35).
THEOREM CancellationsAreHonoured == Spec => []CancelHonoured
<1>1. IInv => CancelHonoured
  BY DEF IInv, Owed, CancelHonoured
<1> QED
  BY <1>1, InvariantHolds, PTL

\* A preflight at work during a cleanup never publishes, however often updates
\* fail and reopen the gate afterwards (lib.rs:70-72, commands/launch.rs:28-32).
THEOREM SweepsAreFinal == Spec => []SweepIsFinal
<1>1. IInv => SweepIsFinal
  BY DEF IInv, SweptFlagged, AtWork, SweepIsFinal
<1> QED
  BY <1>1, InvariantHolds, PTL

\* Work that has lost its slot has been told to stop (media/jobs.rs:86-93).
THEOREM UnownedWorkIsStopped == Spec => []UnownedWorkIsFlagged
<1>1. IInv => UnownedWorkIsFlagged
  BY DEF IInv, SlotsOwned, DetachedFlagged, AtWork, UnownedWorkIsFlagged
<1> QED
  BY <1>1, InvariantHolds, PTL

-----------------------------------------------------------------------------
(* The early cancellations                                                 *)

\* The queue lists the set of early cancellations, each once, within its bound, and
\* no command that has begun is in it.
QueueInStep ==
    /\ order \in Seq(Ops)
    /\ NoDuplicates(order)
    /\ Elements(order) = tombstones
    /\ Len(order) <= MaxTombstones
    /\ tombstones \cap active = {}

\* A step that lets no operation in and forgets no cancellation changes neither the
\* set nor the queue.
LEMMA QueueUntouched ==
  ASSUME QueueInStep, UNCHANGED <<order, tombstones>>, active' \subseteq active
  PROVE QueueInStep'
BY DEF QueueInStep, NoDuplicates, Elements

\* begin consumes the cancellation of its own command in both.
LEMMA BeginKeepsQueue ==
  ASSUME IInv, QueueInStep, NEW c \in Ops, Begin(c)
  PROVE QueueInStep'
<1>1. CASE Cardinality(active) >= MaxActive
  BY <1>1, QueueUntouched DEF Begin
<1>2. CASE ~(Cardinality(active) >= MaxActive)
  <2>1. /\ order' = Retain(order, Ops \ {c}) /\ tombstones' = tombstones \ {c}
        /\ active' = active \cup {c}
    BY <1>2 DEF Begin, Retained
  <2>2. order \in Seq(Ops) /\ NoDuplicates(order) /\ Elements(order) = tombstones
    BY DEF QueueInStep
  <2> DEFINE q == Retain(order, Ops \ {c})
  <2>3. /\ q \in Seq(Ops) /\ NoDuplicates(q) /\ Elements(q) = tombstones \cap (Ops \ {c})
        /\ Len(q) <= Len(order)
    BY <2>2, RetainElements, RetainShorter
  <2> HIDE DEF q
  <2>4. order' = q
    BY <2>1 DEF q
  <2>5. tombstones \subseteq Ops
    BY <2>2 DEF Elements
  <2>8. NoDuplicates(order)' /\ Elements(order)' = Elements(q)
    BY <2>3, <2>4 DEF NoDuplicates, Elements
  <2>9. Elements(q) = tombstones' /\ tombstones' \cap active' = {}
    BY <2>1, <2>3, <2>5 DEF QueueInStep
  <2>6. /\ order' \in Seq(Ops) /\ NoDuplicates(order)' /\ Elements(order)' = tombstones'
        /\ tombstones' \cap active' = {}
    BY <2>3, <2>4, <2>8, <2>9
  <2>7. Len(order)' <= MaxTombstones
    BY <2>2, <2>3, <2>4, BoundsAssumption DEF QueueInStep
  <2> QED BY <2>6, <2>7 DEF QueueInStep
<1> QED BY <1>1, <1>2

\* A cancellation is pushed into both, and the oldest one popped from both.
LEMMA CancelKeepsQueue ==
  ASSUME IInv, QueueInStep, NEW c \in Ops, CancelEarly(c)
  PROVE QueueInStep'
<1> DEFINE q == Append(order, c)
<1>1. /\ order \in Seq(Ops) /\ NoDuplicates(order) /\ Elements(order) = tombstones
      /\ Len(order) <= MaxTombstones /\ c \notin tombstones /\ c \notin active
      /\ active' = active /\ tombstones \cap active = {}
  BY DEF QueueInStep, CancelEarly
<1>2. /\ q \in Seq(Ops) /\ NoDuplicates(q) /\ Elements(q) = tombstones \cup {c}
      /\ Len(q) = Len(order) + 1 /\ q # << >>
  BY <1>1, AppendElements
<1>3. /\ order' = IF Forgotten(q) = {} THEN q ELSE Tail(q)
      /\ tombstones' = (tombstones \cup {c}) \ Forgotten(q)
  BY DEF CancelEarly, Remembered
<1> HIDE DEF q
<1>4. CASE Len(q) > MaxTombstones
  <2>1. order' = Tail(q) /\ tombstones' = Elements(q) \ {Head(q)}
    BY <1>2, <1>3, <1>4 DEF Forgotten
  <2>2. NoDuplicates(Tail(q)) /\ Elements(Tail(q)) = Elements(q) \ {Head(q)}
    BY <1>2, TailElements
  <2>3. Tail(q) \in Seq(Ops) /\ Len(Tail(q)) = Len(order)
    BY <1>1, <1>2
  <2>4. NoDuplicates(order)' /\ Elements(order)' = tombstones'
    BY <2>1, <2>2 DEF NoDuplicates, Elements
  <2> QED BY <1>1, <1>2, <2>1, <2>3, <2>4 DEF QueueInStep
<1>5. CASE ~(Len(q) > MaxTombstones)
  <2>1. order' = q /\ tombstones' = Elements(q)
    BY <1>2, <1>3, <1>5 DEF Forgotten
  <2>2. NoDuplicates(order)' /\ Elements(order)' = tombstones'
    BY <1>2, <2>1 DEF NoDuplicates, Elements
  <2>3. Len(q) <= MaxTombstones
    BY <1>1, <1>2, <1>5, BoundsAssumption
  <2> QED BY <1>1, <1>2, <2>1, <2>2, <2>3 DEF QueueInStep
<1> QED BY <1>4, <1>5

LEMMA StepKeepsQueue == IInv /\ QueueInStep /\ [Next]_vars => QueueInStep'
<1> SUFFICES ASSUME IInv, QueueInStep, [Next]_vars PROVE QueueInStep'
  OBVIOUS
<1>1. ASSUME NEW c \in Ops, Clear(c) \/ FirstLook(c) \/ Notice(c) \/ Finish(c) \/ Answer(c)
                            \/ DetachedEnds(c) \/ CancelActive(c) PROVE QueueInStep'
  BY <1>1, QueueUntouched
     DEF Clear, FirstLook, Notice, Finish, Answer, DetachedEnds, CancelActive
<1>2. ASSUME NEW c \in Ops, Drop(c) \/ Abandon(c) PROVE QueueInStep'
  BY <1>2, QueueUntouched DEF Drop, Abandon, Released
<1>3. CASE QuitCancels \/ QuitGates \/ UpdateGates \/ UpdateFails
  BY <1>3, QueueUntouched DEF QuitCancels, QuitGates, UpdateGates, UpdateFails, jobVars
<1>4. ASSUME NEW x \in {"quit", "update"}, Sweep(x) PROVE QueueInStep'
  BY <1>4, QueueUntouched DEF Sweep
<1>5. CASE UNCHANGED vars
  BY <1>5, QueueUntouched DEF vars, jobVars
<1> QED
  BY <1>1, <1>2, <1>3, <1>4, <1>5, BeginKeepsQueue, CancelKeepsQueue DEF Next, Own

LEMMA InitQueue == Init => QueueInStep
<1> SUFFICES ASSUME Init PROVE QueueInStep
  OBVIOUS
<1>1. order = << >> /\ tombstones = {} /\ active = {}
  BY DEF Init
<1> QED BY <1>1, BoundsAssumption DEF QueueInStep, NoDuplicates, Elements

LEMMA QueueHolds == Spec => []QueueInStep
<1>1. QueueInStep /\ IInv /\ [Next]_vars => QueueInStep'
  BY StepKeepsQueue
<1> QED BY InitQueue, <1>1, InvariantHolds, PTL DEF Spec

\* The early cancellations and the queue that ages them never drift apart, whatever
\* commands begin and cancellations arrive, for any bound: a cancellation is forgotten
\* only for MaxTombstones later ones (launch_jobs.rs:48-49 and 66-73).
THEOREM QueuesStayInStep == Spec => []TombstonesInStep
<1>1. QueueInStep => TombstonesInStep
  <2> SUFFICES ASSUME QueueInStep PROVE TombstonesInStep
    OBVIOUS
  <2>1. Cardinality(tombstones) = Len(order)
    BY LengthIsCount DEF QueueInStep
  <2> QED BY <2>1 DEF QueueInStep, TombstonesInStep, Elements
<1> QED BY <1>1, QueueHolds, PTL

\* What neither invariant says of the types: what an operation is, and the exits.
ExitTypes ==
    /\ kind \in [Ops -> Kinds]
    /\ {exiting, normalExit, wasExiting} \subseteq BOOLEAN
    /\ exit \in [{"quit", "update"} -> {"idle", "cancelled", "gated", "swept"}]

LEMMA StepExitTypes == ExitTypes /\ [Next]_vars => ExitTypes'
<1> SUFFICES ASSUME ExitTypes, [Next]_vars PROVE ExitTypes'
  OBVIOUS
<1> USE DEF ExitTypes
<1>1. ASSUME NEW c \in Ops, Own(c) \/ Finish(c) \/ Abandon(c) \/ CancelActive(c)
                            \/ CancelEarly(c) PROVE ExitTypes'
  BY <1>1 DEF Own, Clear, Begin, FirstLook, Notice, Finish, Answer, Drop, Abandon,
              DetachedEnds, CancelActive, CancelEarly, exitVars
<1>2. CASE QuitCancels \/ QuitGates \/ UpdateGates \/ UpdateFails
  BY <1>2 DEF QuitCancels, QuitGates, UpdateGates, UpdateFails
<1>3. ASSUME NEW x \in {"quit", "update"}, Sweep(x) PROVE ExitTypes'
  BY <1>3 DEF Sweep
<1>4. CASE UNCHANGED vars
  BY <1>4 DEF vars, exitVars
<1> QED BY <1>1, <1>2, <1>3, <1>4 DEF Next

\* Type correctness of the registries, their commands and the exits.
THEOREM TypesHold == Spec => []TypeOK
<1>1. Init => ExitTypes
  BY DEF Init, ExitTypes, Registries, Kinds
<1>2. IInv /\ QueueInStep /\ ExitTypes => TypeOK
  BY KindsApart DEF IInv, Shapes, QueueInStep, ExitTypes, Elements, TypeOK
<1> QED BY <1>1, <1>2, StepExitTypes, InvariantHolds, QueueHolds, PTL DEF Spec
=============================================================================
