---------------------------- MODULE SharingProofs ----------------------------
(***************************************************************************)
(* Proofs about benchmark sharing, for any number of commands, requests,   *)
(* instances, bodies, services and keys: what the permits of the shared    *)
(* commands allow, and who owns a published benchmark when a vault loses a *)
(* key, a user the records, or a command stops between any two writes.     *)
(***************************************************************************)
EXTENDS SharingPermits, OwnerKeys, SequenceLemmas

-----------------------------------------------------------------------------
(* Permits: the scripts of the commands                                    *)

Steps == {"work", "generation", "quiet", "request", "store", "attach", "dialog",
          "idle", "epoch"}

\* A command sends at most one request, and works under the gate before everything
\* else; only an import begins with its dialog, and it sends none.
WellFormed(k) ==
    LET script == Script[k]
    IN  /\ script \in Seq(Steps) /\ Len(script) > 0
        /\ \A i, j \in 1..Len(script) : script[i] = "request" /\ script[j] = "request" => i = j
        /\ k # "import" => script[1] = "work"
        /\ k = "import" => \A i \in 1..Len(script) : script[i] # "request"

LEMMA ScriptsWellFormed == \A k \in DOMAIN Script : WellFormed(k)
<1>1. DOMAIN Script = {"prepare", "verify", "poll", "submit", "manage", "copy",
                       "export", "import"}
  BY DEF Script
<1> USE DEF WellFormed, Steps, Script, Request
<1>2. WellFormed("prepare")
  OBVIOUS
<1>3. WellFormed("verify")
  OBVIOUS
<1>4. WellFormed("poll")
  OBVIOUS
<1>5. WellFormed("submit")
  OBVIOUS
<1>6. WellFormed("manage")
  OBVIOUS
<1>7. WellFormed("copy")
  OBVIOUS
<1>8. WellFormed("export")
  OBVIOUS
<1>9. WellFormed("import")
  OBVIOUS
<1> HIDE DEF WellFormed, Steps, Script, Request
<1> QED
  BY <1>1, <1>2, <1>3, <1>4, <1>5, <1>6, <1>7, <1>8, <1>9

-----------------------------------------------------------------------------
(* The invariant                                                           *)

Command == [kind : DOMAIN Script, sub : Submissions, at : Nat \ {0},
            epoch : Nat, gen : Nat, phase : Phases, dropped : BOOLEAN]

\* Where a command is in its script, and what its phase says about the step it is at.
Placed(r) ==
    /\ r.at \in 1..Len(Script[r.kind])
    /\ r.phase \in {"new", "admitted", "snapped"} => r.at = 1
    /\ r.phase = "requesting" => Script[r.kind][r.at] = "request"
    /\ r.phase \in {"gated", "working"} => Script[r.kind][r.at] = "work"

\* A command that has had its turn to send its request.
Sent(r) ==
    \/ r.phase \in {"requesting", "clearing", "done"}
    \/ \E i \in 1..Len(Script[r.kind]) : i < r.at /\ Script[r.kind][i] = "request"

\* Nobody who took its snapshot of the present epoch gets past its first work while
\* the measurement of this epoch is timed.
Behind(r) ==
    /\ r.epoch <= epoch
    /\ (measure = "measuring" /\ r.epoch = epoch /\ r.kind # "import")
       => \/ r.phase \in {"new", "admitted", "done", "clearing"}
          \/ r.at = 1 /\ r.phase \in {"snapped", "ready"}

\* The gate is held by the closure at work, or by the measurement.
GateIsHeld ==
    /\ \A c \in Commands : cmd[c].phase \in {"gated", "working"} => operation = c
    /\ measure # "off" => operation = "measurement"

\* Whatever is listed, or waits to be evicted, belongs to a command that had its turn.
ListsAreSent ==
    /\ \A c \in Elements(arrivals) : Sent(cmd[c])
    /\ \A s \in Submissions : \A c \in Elements(tracked[s]) : Sent(cmd[c])

PermitInv ==
    /\ PermitsTypeOK
    /\ \A c \in Commands : Placed(cmd[c]) /\ Behind(cmd[c])
    /\ ListsAreSent
    /\ GateIsHeld
    /\ InFlightIsLive

\* The set of a list's elements, as the model writes it.
LEMMA ToSetIsElements == ASSUME NEW T, NEW s \in Seq(T) PROVE ToSet(s) = Elements(s)
BY DEF ToSet, Elements

LEMMA TypesOfCommands == PermitsTypeOK => cmd \in [Commands -> Command]
BY DEF PermitsTypeOK, Command

-----------------------------------------------------------------------------
(* What becomes of a command's record                                      *)

\* A record that takes the place of the record of c.
Follows(c, r) ==
    /\ r \in Command /\ r.kind = cmd[c].kind /\ r.sub = cmd[c].sub
    /\ Placed(r) /\ Behind(r) /\ (Sent(cmd[c]) => Sent(r))
    /\ r.phase # "requesting"

\* A command returns, or is about to forget its permit and to return.
LEMMA EndFollows ==
  ASSUME PermitInv, NEW c \in Commands, NEW p \in {"done", "clearing"}
  PROVE Follows(c, [cmd[c] EXCEPT !.phase = p])
<1>1. cmd[c] \in Command /\ Placed(cmd[c]) /\ Behind(cmd[c])
  BY TypesOfCommands DEF PermitInv
<1> DEFINE r == [cmd[c] EXCEPT !.phase = p]
<1>2. /\ r \in Command /\ r.kind = cmd[c].kind /\ r.sub = cmd[c].sub /\ r.at = cmd[c].at
      /\ r.phase = p /\ r.epoch = cmd[c].epoch
  BY <1>1 DEF Command, Phases
<1> HIDE DEF r
<1>3. Placed(r) /\ Behind(r) /\ Sent(r)
  BY <1>1, <1>2 DEF Placed, Behind, Sent
<1> QED
  BY <1>2, <1>3 DEF Follows, r

\* A command goes on to the next step of its script, from anywhere but a first work
\* it has not done.
LEMMA PastFollows ==
  ASSUME PermitInv, NEW c \in Commands,
         \/ cmd[c].phase \in {"requesting", "working", "dialog"}
         \/ cmd[c].phase = "ready" /\ Script[cmd[c].kind][cmd[c].at] \notin {"work", "request"}
  PROVE Follows(c, Past(c)) /\ Past(c).phase \in {"ready", "done"}
<1>1. cmd[c] \in Command /\ Placed(cmd[c]) /\ Behind(cmd[c]) /\ WellFormed(cmd[c].kind)
  BY TypesOfCommands, ScriptsWellFormed DEF PermitInv, Command
<1>2. CASE cmd[c].at = Len(Script[cmd[c].kind]) \/ cmd[c].dropped
  <2>1. Past(c) = [cmd[c] EXCEPT !.phase = "done"]
    BY <1>2 DEF Past
  <2>2. Past(c).phase = "done"
    BY <1>1, <2>1 DEF Command
  <2> QED
    BY <2>1, <2>2, EndFollows
<1>3. CASE ~(cmd[c].at = Len(Script[cmd[c].kind]) \/ cmd[c].dropped)
  <2> DEFINE r == [cmd[c] EXCEPT !.phase = "ready", !.at = @ + 1]
  <2>1. Past(c) = r
    BY <1>3 DEF Past
  <2>2. /\ r \in Command /\ r.kind = cmd[c].kind /\ r.sub = cmd[c].sub
        /\ r.at = cmd[c].at + 1 /\ r.phase = "ready" /\ r.epoch = cmd[c].epoch
    <3> DEFINE n == cmd[c].at + 1
               q == [cmd[c] EXCEPT !.phase = "ready", !.at = n]
    <3>1. n \in Nat \ {0}
      BY <1>1 DEF Command
    <3>2. r = q
      OBVIOUS
    <3> HIDE DEF n
    <3>3. /\ q \in Command /\ q.kind = cmd[c].kind /\ q.sub = cmd[c].sub
          /\ q.at = n /\ q.phase = "ready" /\ q.epoch = cmd[c].epoch
      BY <1>1, <3>1 DEF Command, Phases
    <3> QED
      BY <3>2, <3>3 DEF n
  <2> HIDE DEF r
  <2>3. Placed(r)
    BY <1>1, <1>3, <2>2 DEF Placed, WellFormed, Command
  <2>4. Behind(r)
    BY <1>1, <2>2 DEF Behind, WellFormed
  <2>5. Sent(cmd[c]) => Sent(r)
    <3>1. cmd[c].at \in Nat /\ r.at = cmd[c].at + 1 /\ Len(Script[r.kind]) \in Nat
      BY <1>1, <2>2 DEF Command, WellFormed
    <3>2. CASE cmd[c].phase = "requesting"
      BY <1>1, <2>2, <3>1, <3>2 DEF Sent, Placed
    <3>3. CASE cmd[c].phase # "requesting"
      <4> SUFFICES ASSUME Sent(cmd[c]) PROVE Sent(r)
        OBVIOUS
      <4>1. PICK i \in 1..Len(Script[r.kind]) : i < cmd[c].at /\ Script[r.kind][i] = "request"
        BY <2>2, <3>3 DEF Sent
      <4>2. i < r.at
        BY <3>1, <4>1
      <4> QED
        BY <4>1, <4>2 DEF Sent
    <3> QED
      BY <3>2, <3>3
  <2> QED
    BY <2>1, <2>2, <2>3, <2>4, <2>5 DEF Follows
<1> QED
  BY <1>2, <1>3

-----------------------------------------------------------------------------
(* The steps                                                               *)

\* The lists of commands.
ListTypes ==
    /\ epoch \in Nat /\ generation \in [Submissions -> Nat]
    /\ permit \in [Submissions -> [epoch : Nat, gen : Nat] \cup {NoOne}]
    /\ tracked \in [Submissions -> Seq(Commands)]
    /\ arrivals \in Seq(Commands) /\ Len(arrivals) <= MaxOrder
    /\ aborted \subseteq Commands

LEMMA TypesSplit ==
  PermitsTypeOK <=> /\ ListTypes /\ cmd \in [Commands -> Command]
                    /\ operation \in Commands \cup {NoOne, "measurement"}
                    /\ mutating \in BOOLEAN
                    /\ measure \in {"off", "admitted", "measuring"}
BY DEF PermitsTypeOK, ListTypes, Command

\* The step of a command that leaves it no new request: whatever it does to its permit
\* and to its own entry in the lists, the others find their requests as they were.
LEMMA CommandStep ==
  ASSUME PermitInv, NEW c \in Commands, NEW r, Follows(c, r),
         cmd' = [cmd EXCEPT ![c] = r],
         UNCHANGED <<epoch, generation, arrivals, aborted, measure>>,
         mutating' \in BOOLEAN,
         permit' \in [Submissions -> [epoch : Nat, gen : Nat] \cup {NoOne}],
         tracked' \in [Submissions -> Seq(Commands)],
         \A s \in Submissions : /\ Elements(tracked'[s]) \subseteq Elements(tracked[s])
                                /\ Elements(tracked[s]) \ {c} \subseteq Elements(tracked'[s]),
         operation' \in Commands \cup {NoOne, "measurement"},
         GateIsHeld'
  PROVE PermitInv'
<1>1. cmd \in [Commands -> Command] /\ ListTypes /\ r \in Command
  BY TypesSplit DEF PermitInv, Follows
<1>2. /\ cmd' \in [Commands -> Command] /\ cmd'[c] = r
      /\ \A d \in Commands : d # c => cmd'[d] = cmd[d]
  BY <1>1
<1>3. PermitsTypeOK'
  <2>1. ListTypes'
    BY <1>1 DEF ListTypes
  <2>2. measure' \in {"off", "admitted", "measuring"}
    BY TypesSplit DEF PermitInv
  <2> QED
    BY <1>2, <2>1, <2>2, TypesSplit DEF PermitsTypeOK, ListTypes, Command
<1>4. \A d \in Commands : (Placed(cmd[d]) /\ Behind(cmd[d]))'
  BY <1>2 DEF PermitInv, Follows, Placed, Behind
<1>5. \A d \in Commands : Sent(cmd[d]) => Sent(cmd'[d])
  BY <1>2 DEF Follows
<1>6. ListsAreSent'
  <2>1. \A d \in Elements(arrivals) : d \in Commands
    BY <1>1 DEF ListTypes, Elements
  <2>2. \A s \in Submissions : \A d \in Elements(tracked[s]) : d \in Commands
    BY <1>1 DEF ListTypes, Elements
  <2>3. Elements(arrivals') = Elements(arrivals)
    OBVIOUS
  <2>4. \A d \in Elements(arrivals') : Sent(cmd'[d])
    BY <1>5, <2>1, <2>3 DEF PermitInv, ListsAreSent
  <2>5. \A s \in Submissions : \A d \in Elements(tracked'[s]) : Sent(cmd'[d])
    BY <1>5, <2>2 DEF PermitInv, ListsAreSent
  <2> QED
    BY <2>4, <2>5 DEF ListsAreSent, Elements, Sent
<1>7. InFlightIsLive'
  <2> SUFFICES ASSUME NEW d \in Commands, InFlight(d)'
               PROVE (Live(d) /\ d \in ToSet(tracked[cmd[d].sub]))'
    BY DEF InFlightIsLive
  <2>1. d # c
    BY <1>2 DEF InFlight, Follows
  <2>2. cmd'[d] = cmd[d] /\ InFlight(d) /\ cmd[d].sub \in Submissions
    BY <1>1, <1>2, <2>1 DEF InFlight, Command
  <2>3. Live(d) /\ d \in ToSet(tracked[cmd[d].sub])
    BY <2>2 DEF PermitInv, InFlightIsLive
  <2>4. d \in Elements(tracked[cmd[d].sub])
    BY <1>1, <2>2, <2>3, ToSetIsElements DEF ListTypes
  <2>5. d \in Elements(tracked'[cmd[d].sub])
    BY <2>1, <2>2, <2>4
  <2>6. d \in ToSet(tracked'[cmd[d].sub])
    BY <2>2, <2>5, ToSetIsElements
  <2> QED
    BY <2>2, <2>3, <2>6 DEF Live, KnowsSubmission
<1> QED
  BY <1>3, <1>4, <1>6, <1>7 DEF PermitInv

\* The same for a step that touches the command only: its gate stays as it is.
LEMMA QuietStep ==
  ASSUME PermitInv, NEW c \in Commands, NEW r, Follows(c, r),
         r.phase \notin {"gated", "working"},
         cmd' = [cmd EXCEPT ![c] = r],
         UNCHANGED <<ephemeral, operation, mutating, measure>>
  PROVE PermitInv'
<1>1. cmd \in [Commands -> Command] /\ ListTypes /\ r \in Command
      /\ operation \in Commands \cup {NoOne, "measurement"} /\ mutating \in BOOLEAN
  BY TypesSplit DEF PermitInv, Follows
<1>2. GateIsHeld'
  BY <1>1 DEF PermitInv, GateIsHeld
<1> QED
  BY <1>1, <1>2, CommandStep DEF ephemeral, ListTypes

LEMMA QuietEnd ==
  ASSUME PermitInv, NEW c \in Commands, NEW p \in {"done", "clearing"}, To(c, p),
         UNCHANGED <<ephemeral, operation, mutating, measure>>
  PROVE PermitInv'
<1> DEFINE r == [cmd[c] EXCEPT !.phase = p]
<1>1. Follows(c, r)
  BY EndFollows
<1>2. r.phase = p
  BY TypesOfCommands DEF PermitInv, Command
<1>3. cmd' = [cmd EXCEPT ![c] = r]
  BY DEF To
<1> QED
  BY <1>1, <1>2, <1>3, QuietStep

LEMMA QuietFail ==
  ASSUME PermitInv, NEW c \in Commands, Fail(c),
         UNCHANGED <<ephemeral, operation, mutating, measure>>
  PROVE PermitInv'
BY QuietEnd DEF Fail

LEMMA QuietAdvance ==
  ASSUME PermitInv, NEW c \in Commands, Advance(c),
         \/ cmd[c].phase = "dialog"
         \/ cmd[c].phase = "ready" /\ Script[cmd[c].kind][cmd[c].at] \notin {"work", "request"},
         UNCHANGED <<ephemeral, operation, mutating, measure>>
  PROVE PermitInv'
<1>1. Follows(c, Past(c)) /\ Past(c).phase \in {"ready", "done"}
  BY PastFollows
<1> QED
  BY <1>1, QuietStep DEF Advance

\* A command at the start of its script.
LEMMA SnapshotKeeps ==
  ASSUME PermitInv, NEW c \in Commands, Admit(c) \/ ReadEpoch(c) \/ ReadGeneration(c)
  PROVE PermitInv'
<1>1. cmd \in [Commands -> Command] /\ ListTypes /\ Placed(cmd[c]) /\ Behind(cmd[c])
  BY TypesSplit DEF PermitInv
<1>2. CASE Admit(c)
  <2>1. CASE MeasurementActive
    BY <1>2, <2>1, QuietEnd DEF Admit
  <2>2. CASE ~MeasurementActive
    <3> DEFINE r == [cmd[c] EXCEPT !.phase = "admitted"]
    <3>1. /\ r \in Command /\ r.kind = cmd[c].kind /\ r.sub = cmd[c].sub /\ r.at = cmd[c].at
          /\ r.phase = "admitted" /\ r.epoch = cmd[c].epoch /\ cmd[c].phase = "new"
      BY <1>1, <1>2 DEF Admit, Command, Phases
    <3>2. cmd' = [cmd EXCEPT ![c] = r]
      BY <1>2, <2>2 DEF Admit, To
    <3> HIDE DEF r
    <3>3. Follows(c, r)
      BY <1>1, <3>1 DEF Follows, Placed, Behind, Sent
    <3> QED
      BY <1>2, <3>1, <3>2, <3>3, QuietStep DEF Admit
  <2> QED
    BY <2>1, <2>2
<1>3. CASE ReadEpoch(c)
  <2> DEFINE r == [cmd[c] EXCEPT !.phase = "snapped", !.epoch = epoch]
  <2>1. /\ r \in Command /\ r.kind = cmd[c].kind /\ r.sub = cmd[c].sub /\ r.at = cmd[c].at
        /\ r.phase = "snapped" /\ r.epoch = epoch /\ cmd[c].phase = "admitted"
    BY <1>1, <1>3 DEF ReadEpoch, Command, Phases, ListTypes
  <2>2. cmd' = [cmd EXCEPT ![c] = r]
    BY <1>3 DEF ReadEpoch
  <2> HIDE DEF r
  <2>3. Follows(c, r)
    BY <1>1, <2>1 DEF Follows, Placed, Behind, Sent, ListTypes
  <2> QED
    BY <1>3, <2>1, <2>2, <2>3, QuietStep DEF ReadEpoch
<1>4. CASE ReadGeneration(c)
  <2> DEFINE g == generation[cmd[c].sub]
             r == [cmd[c] EXCEPT !.phase = "ready", !.gen = g]
  <2>1. g \in Nat
    BY <1>1 DEF ListTypes, Command
  <2>2. cmd' = [cmd EXCEPT ![c] = r]
    BY <1>4 DEF ReadGeneration
  <2> HIDE DEF g
  <2>3. /\ r \in Command /\ r.kind = cmd[c].kind /\ r.sub = cmd[c].sub /\ r.at = cmd[c].at
        /\ r.phase = "ready" /\ r.epoch = cmd[c].epoch /\ cmd[c].phase = "snapped"
    BY <1>1, <1>4, <2>1 DEF ReadGeneration, Command, Phases
  <2> HIDE DEF r
  <2>4. Follows(c, r)
    BY <1>1, <2>3 DEF Follows, Placed, Behind, Sent
  <2> QED
    BY <1>4, <2>2, <2>3, <2>4, QuietStep DEF ReadGeneration
<1> QED
  BY <1>2, <1>3, <1>4

\* A command looks whether it is still live, or waits for a file dialog.
LEMMA LookKeeps ==
  ASSUME PermitInv, NEW c \in Commands,
         \/ CheckGeneration(c) \/ CheckQuiet(c) \/ CheckIdle(c) \/ CheckEpoch(c)
         \/ Attach(c) \/ OpenDialog(c) \/ CloseDialog(c) \/ RegisterStale(c)
  PROVE PermitInv'
<1>1. CASE CheckGeneration(c) \/ CheckQuiet(c)
  BY <1>1, QuietFail, QuietAdvance DEF CheckGeneration, CheckQuiet, At
<1>2. CASE CheckIdle(c) \/ CheckEpoch(c)
  BY <1>2, QuietEnd, QuietAdvance DEF CheckIdle, CheckEpoch, At
<1>3. CASE Attach(c)
  BY <1>3, QuietAdvance DEF Attach, At
<1>4. CASE OpenDialog(c)
  <2> DEFINE r == [cmd[c] EXCEPT !.phase = "dialog"]
  <2>1. cmd[c] \in Command /\ Placed(cmd[c]) /\ Behind(cmd[c]) /\ WellFormed(cmd[c].kind)
    BY TypesOfCommands, ScriptsWellFormed DEF PermitInv, Command
  <2>2. /\ r \in Command /\ r.kind = cmd[c].kind /\ r.sub = cmd[c].sub /\ r.at = cmd[c].at
        /\ r.phase = "dialog" /\ r.epoch = cmd[c].epoch /\ cmd[c].phase = "ready"
        /\ Script[cmd[c].kind][cmd[c].at] = "dialog"
    BY <1>4, <2>1 DEF OpenDialog, At, Command, Phases
  <2>3. cmd' = [cmd EXCEPT ![c] = r]
    BY <1>4 DEF OpenDialog, To
  <2> HIDE DEF r
  <2>4. Placed(r) /\ (Sent(cmd[c]) => Sent(r))
    BY <2>1, <2>2 DEF Placed, Sent
  <2>5. Behind(r)
    BY <2>1, <2>2 DEF Behind, WellFormed
  <2>6. Follows(c, r)
    BY <2>2, <2>4, <2>5 DEF Follows
  <2> QED
    BY <1>4, <2>2, <2>3, <2>6, QuietStep DEF OpenDialog
<1>5. CASE CloseDialog(c)
  BY <1>5, QuietEnd, QuietAdvance DEF CloseDialog
<1>6. CASE RegisterStale(c)
  BY <1>6, QuietFail DEF RegisterStale
<1> QED
  BY <1>1, <1>2, <1>3, <1>4, <1>5, <1>6

\* A step that moves the gate and the command, and leaves the lists alone.
LEMMA GateStep ==
  ASSUME PermitInv, NEW c \in Commands, NEW r, Follows(c, r),
         cmd' = [cmd EXCEPT ![c] = r],
         operation' \in Commands \cup {NoOne, "measurement"},
         GateIsHeld',
         UNCHANGED <<ephemeral, mutating, measure>>
  PROVE PermitInv'
<1>1. ListTypes /\ mutating \in BOOLEAN
  BY TypesSplit DEF PermitInv
<1> QED
  BY <1>1, CommandStep DEF ephemeral, ListTypes

\* The work of a command under the gate.
LEMMA WorkKeeps ==
  ASSUME PermitInv, NEW c \in Commands,
         TryWork(c) \/ GatedCheck(c) \/ EndWork(c) \/ DropCommand(c)
  PROVE PermitInv'
<1>1. /\ cmd \in [Commands -> Command] /\ ListTypes
      /\ operation \in Commands \cup {NoOne, "measurement"}
      /\ cmd[c] \in Command /\ Placed(cmd[c]) /\ Behind(cmd[c]) /\ GateIsHeld
  BY TypesSplit DEF PermitInv
<1>2. NoOne \notin Commands /\ "measurement" \notin Commands
  BY CommandNames
<1>3. CASE TryWork(c)
  <2>1. CASE MeasurementActive
    BY <1>3, <2>1, QuietEnd DEF TryWork
  <2>2. CASE ~MeasurementActive
    <3> DEFINE r == [cmd[c] EXCEPT !.phase = "gated"]
    <3>1. /\ r \in Command /\ r.kind = cmd[c].kind /\ r.sub = cmd[c].sub /\ r.at = cmd[c].at
          /\ r.phase = "gated" /\ r.epoch = cmd[c].epoch /\ cmd[c].phase = "ready"
          /\ Script[cmd[c].kind][cmd[c].at] = "work"
      BY <1>1, <1>3 DEF TryWork, At, Command, Phases
    <3>2. cmd' = [cmd EXCEPT ![c] = r] /\ operation' = c /\ operation = NoOne
      BY <1>3, <2>2 DEF TryWork, To, MeasurementActive
    <3>3. measure = "off"
      BY <1>1, <1>2, <3>2, CommandNames DEF GateIsHeld
    <3> HIDE DEF r
    <3>4. Follows(c, r)
      BY <1>1, <3>1, <3>3 DEF Follows, Placed, Behind, Sent
    <3>5. \A d \in Commands : d # c => cmd'[d].phase \notin {"gated", "working"}
      BY <1>1, <1>2, <3>2 DEF GateIsHeld
    <3>6. GateIsHeld'
      BY <1>1, <1>3, <3>1, <3>2, <3>3, <3>5 DEF GateIsHeld, TryWork
    <3> QED
      BY <1>3, <3>2, <3>4, <3>6, GateStep DEF TryWork
  <2> QED
    BY <2>1, <2>2
<1>4. CASE GatedCheck(c)
  <2>1. cmd[c].phase = "gated" /\ operation = c
    BY <1>1, <1>4 DEF GatedCheck, GateIsHeld
  <2>2. measure = "off"
    BY <1>1, <1>2, <2>1 DEF GateIsHeld
  <2>3. CASE Live(c)
    <3> DEFINE r == [cmd[c] EXCEPT !.phase = "working"]
    <3>1. /\ r \in Command /\ r.kind = cmd[c].kind /\ r.sub = cmd[c].sub /\ r.at = cmd[c].at
          /\ r.phase = "working" /\ r.epoch = cmd[c].epoch
      BY <1>1 DEF Command, Phases
    <3>2. cmd' = [cmd EXCEPT ![c] = r] /\ operation' = operation
      BY <1>4, <2>3 DEF GatedCheck, To
    <3> HIDE DEF r
    <3>3. Follows(c, r)
      BY <1>1, <2>1, <2>2, <3>1 DEF Follows, Placed, Behind, Sent
    <3>4. GateIsHeld'
      BY <1>1, <1>4, <2>1, <2>2, <3>1, <3>2 DEF GateIsHeld, GatedCheck
    <3> QED
      BY <1>1, <1>4, <3>2, <3>3, <3>4, GateStep DEF GatedCheck
  <2>4. CASE ~Live(c)
    <3> DEFINE p == IF KnowsSubmission(c) THEN "clearing" ELSE "done"
               r == [cmd[c] EXCEPT !.phase = p]
    <3>1. cmd' = [cmd EXCEPT ![c] = r] /\ operation' \in {operation, NoOne}
      BY <1>4, <2>4 DEF GatedCheck, Fail, To
    <3>2. p \in {"done", "clearing"}
      OBVIOUS
    <3>3. r.phase = p
      BY <1>1 DEF Command
    <3> HIDE DEF p
    <3>4. Follows(c, r)
      BY <3>2, EndFollows
    <3> HIDE DEF r
    <3>5. \A d \in Commands : d # c => cmd'[d].phase \notin {"gated", "working"}
      BY <1>1, <2>1, <3>1 DEF GateIsHeld
    <3>6. cmd'[c].phase \notin {"gated", "working"}
      BY <1>1, <3>1, <3>2, <3>3
    <3>7. GateIsHeld'
      BY <1>4, <2>2, <3>5, <3>6 DEF GateIsHeld, GatedCheck
    <3> QED
      BY <1>1, <1>4, <3>1, <3>4, <3>7, GateStep DEF GatedCheck
  <2> QED
    BY <2>3, <2>4
<1>5. CASE EndWork(c)
  <2>1. cmd[c].phase = "working" /\ operation = c /\ operation' = NoOne
    BY <1>1, <1>5 DEF EndWork, GateIsHeld
  <2>2. measure = "off"
    BY <1>1, <1>2, <2>1 DEF GateIsHeld
  <2>3. PICK r : Follows(c, r) /\ r.phase \in {"ready", "done"} /\ cmd' = [cmd EXCEPT ![c] = r]
    <3>1. CASE Advance(c)
      BY <2>1, <3>1, PastFollows DEF Advance
    <3>2. CASE To(c, "done")
      <4>1. [cmd[c] EXCEPT !.phase = "done"].phase = "done"
        BY <1>1 DEF Command
      <4>2. Follows(c, [cmd[c] EXCEPT !.phase = "done"])
        BY EndFollows
      <4> QED
        BY <3>2, <4>1, <4>2 DEF To
    <3> QED
      BY <1>5, <3>1, <3>2 DEF EndWork
  <2>4. \A d \in Commands : cmd'[d].phase \notin {"gated", "working"}
    BY <1>1, <2>1, <2>3 DEF GateIsHeld
  <2>5. GateIsHeld'
    BY <1>5, <2>2, <2>4 DEF GateIsHeld, EndWork
  <2> QED
    BY <1>1, <1>5, <2>3, <2>5, GateStep DEF EndWork
<1>6. CASE DropCommand(c)
  <2> DEFINE p == IF cmd[c].phase = "requesting" THEN "done" ELSE cmd[c].phase
             r == [cmd[c] EXCEPT !.dropped = TRUE, !.phase = p]
  <2>1. cmd[c].phase \in {"requesting", "gated", "working"} /\ operation' = operation
    BY <1>6 DEF DropCommand, GateAfterDrop
  <2>2. cmd' = [cmd EXCEPT ![c] = r]
    BY <1>6 DEF DropCommand
  <2>3. /\ r \in Command /\ r.kind = cmd[c].kind /\ r.sub = cmd[c].sub /\ r.at = cmd[c].at
        /\ r.phase = p /\ r.epoch = cmd[c].epoch
    BY <1>1 DEF Command, Phases
  <2> HIDE DEF r
  <2>4. Follows(c, r)
    BY <1>1, <2>1, <2>3 DEF Follows, Placed, Behind, Sent
  <2>5. GateIsHeld'
    BY <1>1, <1>6, <2>1, <2>2, <2>3 DEF GateIsHeld, DropCommand
  <2> QED
    BY <1>1, <1>6, <2>1, <2>2, <2>4, <2>5, GateStep DEF DropCommand
<1> QED
  BY <1>3, <1>4, <1>5, <1>6

\* Unlisting keeps the commands that are not gone.
LEMMA UnlistedElements ==
  ASSUME NEW q \in Seq(Commands), NEW gone
  PROVE /\ Unlisted(q, gone) \in Seq(Commands)
        /\ Elements(Unlisted(q, gone)) = Elements(q) \ gone
<1>1. Elements(q) \subseteq Commands
  BY DEF Elements
<1>2. /\ Retain(q, Commands \ gone) \in Seq(Commands)
      /\ Elements(Retain(q, Commands \ gone)) = Elements(q) \cap (Commands \ gone)
  BY RetainElements
<1> QED
  BY <1>1, <1>2 DEF Unlisted

\* The end of a request, and what a command does to its permit.
LEMMA AnswerKeeps ==
  ASSUME PermitInv, NEW c \in Commands, Answered(c) \/ NoticeAbort(c)
  PROVE PermitInv'
<1>1. /\ cmd \in [Commands -> Command] /\ ListTypes /\ cmd[c].sub \in Submissions
      /\ operation \in Commands \cup {NoOne, "measurement"} /\ mutating \in BOOLEAN
      /\ GateIsHeld /\ cmd[c] \in Command
  BY TypesSplit DEF PermitInv, Command
<1>2. cmd[c].phase = "requesting" /\ Untrack(c)
      /\ UNCHANGED <<operation, mutating, measure>>
  BY DEF Answered, NoticeAbort
<1>3. PICK r : /\ Follows(c, r) /\ cmd' = [cmd EXCEPT ![c] = r]
               /\ r.phase \in {"ready", "done", "clearing"}
  <2>1. CASE Advance(c)
    BY <1>2, <2>1, PastFollows DEF Advance
  <2>2. ASSUME NEW p \in {"done", "clearing"}, To(c, p)
        PROVE \E r : /\ Follows(c, r) /\ cmd' = [cmd EXCEPT ![c] = r]
                     /\ r.phase \in {"ready", "done", "clearing"}
    <3>1. [cmd[c] EXCEPT !.phase = p].phase = p
      BY <1>1 DEF Command
    <3>2. Follows(c, [cmd[c] EXCEPT !.phase = p])
      BY EndFollows
    <3> QED
      BY <2>2, <3>1, <3>2 DEF To
  <2>3. Advance(c) \/ To(c, "done") \/ To(c, "clearing")
    BY DEF Answered, NoticeAbort, Fail
  <2> QED
    BY <2>1, <2>2, <2>3
<1>4. /\ tracked' \in [Submissions -> Seq(Commands)]
      /\ \A s \in Submissions : /\ Elements(tracked'[s]) \subseteq Elements(tracked[s])
                                /\ Elements(tracked[s]) \ {c} \subseteq Elements(tracked'[s])
  <2> DEFINE q == Unlisted(tracked[cmd[c].sub], {c})
  <2>1. tracked' = [tracked EXCEPT ![cmd[c].sub] = q]
    BY <1>2 DEF Untrack
  <2>2. q \in Seq(Commands) /\ Elements(q) = Elements(tracked[cmd[c].sub]) \ {c}
    BY <1>1, UnlistedElements DEF ListTypes
  <2> HIDE DEF q
  <2> QED
    BY <1>1, <2>1, <2>2 DEF ListTypes
<1>5. GateIsHeld'
  BY <1>1, <1>2, <1>3 DEF GateIsHeld
<1> QED
  BY <1>1, <1>2, <1>3, <1>4, <1>5, CommandStep DEF Untrack, ListTypes

LEMMA StoreKeeps ==
  ASSUME PermitInv, NEW c \in Commands, Store(c)
  PROVE PermitInv'
<1>1. /\ cmd \in [Commands -> Command] /\ ListTypes /\ cmd[c] \in Command
      /\ operation \in Commands \cup {NoOne, "measurement"} /\ mutating \in BOOLEAN
      /\ GateIsHeld
  BY TypesSplit DEF PermitInv
<1>2. Follows(c, Past(c)) /\ Past(c).phase \in {"ready", "done"}
  BY PastFollows DEF Store, At
<1>3. GateIsHeld'
  BY <1>1, <1>2 DEF Store, Advance, GateIsHeld
<1>4. permit' \in [Submissions -> [epoch : Nat, gen : Nat] \cup {NoOne}]
  <2>1. permit[cmd[c].sub] \in [epoch : Nat, gen : Nat] \cup {NoOne}
        /\ [epoch |-> cmd[c].epoch, gen |-> cmd[c].gen] \in [epoch : Nat, gen : Nat]
    BY <1>1 DEF ListTypes, Command
  <2>2. PICK p \in {permit[cmd[c].sub], [epoch |-> cmd[c].epoch, gen |-> cmd[c].gen], NoOne} :
          permit' = [permit EXCEPT ![cmd[c].sub] = p]
    BY DEF Store
  <2>3. p \in [epoch : Nat, gen : Nat] \cup {NoOne}
    BY <2>1
  <2>4. permit \in [Submissions -> [epoch : Nat, gen : Nat] \cup {NoOne}]
    BY <1>1 DEF ListTypes
  <2> QED
    BY <2>2, <2>3, <2>4
<1> QED
  BY <1>1, <1>2, <1>3, <1>4, CommandStep DEF Store, Advance, ListTypes

LEMMA ClearKeeps ==
  ASSUME PermitInv, NEW c \in Commands, ClearPermit(c)
  PROVE PermitInv'
<1>1. /\ cmd \in [Commands -> Command] /\ ListTypes /\ cmd[c] \in Command
      /\ operation \in Commands \cup {NoOne, "measurement"} /\ mutating \in BOOLEAN
      /\ GateIsHeld
  BY TypesSplit DEF PermitInv
<1> DEFINE r == [cmd[c] EXCEPT !.phase = "done"]
<1>2. cmd' = [cmd EXCEPT ![c] = r] /\ Follows(c, r)
  BY EndFollows DEF ClearPermit, To
<1>3. r.phase = "done"
  BY <1>1 DEF Command
<1> HIDE DEF r
<1>4. cmd[c].phase = "clearing" /\ operation' = (IF operation = c THEN NoOne ELSE operation)
      /\ measure' = measure
  BY DEF ClearPermit
<1>5. GateIsHeld'
  BY <1>1, <1>2, <1>3, <1>4, CommandNames DEF GateIsHeld
<1>6. permit' \in [Submissions -> [epoch : Nat, gen : Nat] \cup {NoOne}]
  BY <1>1 DEF ClearPermit, ListTypes
<1> QED
  BY <1>1, <1>2, <1>4, <1>5, <1>6, CommandStep DEF ClearPermit, ListTypes

\* A command about to send its request has not been listed before.
LEMMA NotYetSent ==
  ASSUME PermitInv, NEW c \in Commands, At(c, "request")
  PROVE ~Sent(cmd[c])
<1>1. cmd[c] \in Command /\ Placed(cmd[c]) /\ WellFormed(cmd[c].kind)
  BY TypesOfCommands, ScriptsWellFormed DEF PermitInv, Command
<1>2. cmd[c].phase = "ready" /\ Script[cmd[c].kind][cmd[c].at] = "request"
  BY DEF At
<1>3. ASSUME NEW i \in 1..Len(Script[cmd[c].kind]), i < cmd[c].at,
             Script[cmd[c].kind][i] = "request"
      PROVE FALSE
  BY <1>1, <1>2, <1>3 DEF WellFormed, Placed
<1> QED
  BY <1>2, <1>3 DEF Sent

\* One more entry at the end of a list, and the first one out when there are too many.
LEMMA PushElements ==
  ASSUME NEW q \in Seq(Commands), NEW c \in Commands, NEW bound \in Nat \ {0},
         Len(q) <= bound
  PROVE /\ Append(q, c) \in Seq(Commands) /\ Elements(Append(q, c)) = Elements(q) \cup {c}
        /\ Len(Append(q, c)) > bound =>
             /\ Head(Append(q, c)) \in Elements(q)
             /\ Tail(Append(q, c)) \in Seq(Commands)
             /\ Len(Tail(Append(q, c))) = Len(q)
             /\ Elements(Tail(Append(q, c))) \subseteq Elements(Append(q, c))
<1>1. Append(q, c) \in Seq(Commands) /\ Elements(Append(q, c)) = Elements(q) \cup {c}
  BY AppendElements
<1>2. ASSUME Len(Append(q, c)) > bound PROVE Head(Append(q, c)) \in Elements(q)
  <2>1. Len(q) >= 1 /\ Head(Append(q, c)) = q[1]
    BY <1>2
  <2> QED
    BY <2>1 DEF Elements
<1>3. /\ Tail(Append(q, c)) \in Seq(Commands) /\ Len(Tail(Append(q, c))) = Len(q)
      /\ \A i \in 1..Len(q) : Tail(Append(q, c))[i] = Append(q, c)[i + 1]
  OBVIOUS
<1>4. Elements(Tail(Append(q, c))) \subseteq Elements(Append(q, c))
  <2>1. Len(Append(q, c)) = Len(q) + 1 /\ Len(q) \in Nat
    OBVIOUS
  <2> QED
    BY <1>3, <2>1 DEF Elements
<1> QED
  BY <1>1, <1>2, <1>3, <1>4

LEMMA RegisterKeeps ==
  ASSUME PermitInv, NEW c \in Commands, Register(c)
  PROVE PermitInv'
<1> DEFINE u == cmd[c].sub
           own == OwnOverflow(Append(tracked[u], c))
           oldest == OldestOverflow(Append(arrivals, c))
           r == [cmd[c] EXCEPT !.phase = "requesting"]
<1>1. /\ cmd \in [Commands -> Command] /\ ListTypes /\ cmd[c] \in Command
      /\ operation \in Commands \cup {NoOne, "measurement"} /\ mutating \in BOOLEAN
      /\ measure \in {"off", "admitted", "measuring"} /\ u \in Submissions
      /\ GateIsHeld /\ Placed(cmd[c]) /\ Behind(cmd[c]) /\ WellFormed(cmd[c].kind)
  BY TypesSplit, ScriptsWellFormed DEF PermitInv, Command
<1>2. /\ Live(c) /\ cmd[c].phase = "ready" /\ Script[cmd[c].kind][cmd[c].at] = "request"
      /\ ~Sent(cmd[c])
  BY NotYetSent DEF Register, MayRegister, At
<1>3. /\ tracked' = [s \in Submissions |->
                       Unlisted(IF s = u THEN Append(tracked[s], c) ELSE tracked[s],
                                own \cup oldest)]
      /\ arrivals' = IF oldest = {} THEN Append(arrivals, c) ELSE Tail(Append(arrivals, c))
      /\ aborted' = aborted \cup Evicted(c)
      /\ cmd' = [cmd EXCEPT ![c] = r]
      /\ UNCHANGED <<epoch, generation, permit, operation, mutating, measure>>
  BY DEF Register, To
<1>4. /\ r \in Command /\ r.kind = cmd[c].kind /\ r.sub = u /\ r.at = cmd[c].at
      /\ r.phase = "requesting" /\ r.epoch = cmd[c].epoch /\ r.gen = cmd[c].gen
  BY <1>1 DEF Command, Phases
<1> HIDE DEF r
<1>5. /\ cmd' \in [Commands -> Command] /\ cmd'[c] = r
      /\ \A d \in Commands : d # c => cmd'[d] = cmd[d]
  BY <1>1, <1>3, <1>4
<1>6. tracked[u] \in Seq(Commands) /\ arrivals \in Seq(Commands)
  BY <1>1 DEF ListTypes
<1>7. c \notin Elements(tracked[u]) /\ c \notin Elements(arrivals)
  BY <1>1, <1>2 DEF PermitInv, ListsAreSent
<1>8. MaxTracked \in Nat \ {0} /\ MaxOrder \in Nat \ {0}
  BY PermitBounds
<1>9. /\ Append(tracked[u], c) \in Seq(Commands)
      /\ Elements(Append(tracked[u], c)) = Elements(tracked[u]) \cup {c}
      /\ c \notin own /\ own \subseteq Commands
  <2>1. ASSUME Len(Append(tracked[u], c)) > MaxTracked
        PROVE Head(Append(tracked[u], c)) \in Elements(tracked[u])
    <3>1. Len(tracked[u]) >= 1 /\ Head(Append(tracked[u], c)) = tracked[u][1]
      BY <1>6, <1>8, <2>1
    <3> QED
      BY <3>1 DEF Elements
  <2>2. Elements(tracked[u]) \subseteq Commands
    BY <1>6 DEF Elements
  <2> QED
    BY <1>6, <1>7, <2>1, <2>2, AppendElements DEF OwnOverflow
<1>10. /\ arrivals' \in Seq(Commands) /\ Len(arrivals') <= MaxOrder
       /\ Elements(arrivals') \subseteq Elements(arrivals) \cup {c}
       /\ c \notin oldest /\ oldest \subseteq Commands
  <2> DEFINE q == Append(arrivals, c)
  <2>1. Len(arrivals) <= MaxOrder
    BY <1>1 DEF ListTypes
  <2>2. Elements(arrivals) \subseteq Commands
    BY <1>6 DEF Elements
  <2>3. CASE Len(q) > MaxOrder
    <3>1. oldest = {Head(q)} /\ arrivals' = Tail(q)
      BY <1>3, <2>3 DEF OldestOverflow
    <3> QED
      BY <1>6, <1>7, <1>8, <2>1, <2>2, <2>3, <3>1, PushElements
  <2>4. CASE ~(Len(q) > MaxOrder)
    <3>1. oldest = {} /\ arrivals' = q
      BY <1>3, <2>4 DEF OldestOverflow
    <3>2. Len(q) <= MaxOrder
      BY <1>6, <1>8, <2>4
    <3>3. q \in Seq(Commands) /\ Elements(q) = Elements(arrivals) \cup {c}
      BY <1>6, AppendElements
    <3> QED
      BY <3>1, <3>2, <3>3
  <2> QED
    BY <2>3, <2>4
<1>11. Evicted(c) = own \cup {d \in oldest : \E s \in Submissions : Contains(tracked[s], d)}
  BY DEF Evicted
<1> HIDE DEF own, oldest
<1>12. /\ tracked' \in [Submissions -> Seq(Commands)]
       /\ Elements(tracked'[u]) = (Elements(tracked[u]) \cup {c}) \ (own \cup oldest)
       /\ \A s \in Submissions : s # u =>
             Elements(tracked'[s]) = Elements(tracked[s]) \ (own \cup oldest)
  <2>1. ASSUME NEW s \in Submissions, s # u
        PROVE /\ tracked'[s] \in Seq(Commands)
              /\ Elements(tracked'[s]) = Elements(tracked[s]) \ (own \cup oldest)
    <3>1. tracked'[s] = Unlisted(tracked[s], own \cup oldest) /\ tracked[s] \in Seq(Commands)
      BY <1>1, <1>3, <2>1 DEF ListTypes
    <3> QED
      BY <3>1, UnlistedElements
  <2>2. /\ tracked'[u] \in Seq(Commands)
        /\ Elements(tracked'[u]) = (Elements(tracked[u]) \cup {c}) \ (own \cup oldest)
    <3> DEFINE q == Append(tracked[u], c)
    <3>1. tracked'[u] = Unlisted(q, own \cup oldest)
      BY <1>1, <1>3
    <3>2. q \in Seq(Commands) /\ Elements(q) = Elements(tracked[u]) \cup {c}
      BY <1>9
    <3> HIDE DEF q, u
    <3>3. /\ Unlisted(q, own \cup oldest) \in Seq(Commands)
          /\ Elements(Unlisted(q, own \cup oldest)) = Elements(q) \ (own \cup oldest)
      BY <3>2, UnlistedElements
    <3> QED
      BY <3>1, <3>2, <3>3
  <2>3. tracked' = [s \in Submissions |-> tracked'[s]]
    BY <1>3
  <2> QED
    BY <2>1, <2>2, <2>3
<1>13. PermitsTypeOK'
  <2>1. aborted' \subseteq Commands
    BY <1>1, <1>3, <1>9, <1>10, <1>11 DEF ListTypes
  <2>2. ListTypes'
    BY <1>1, <1>3, <1>10, <1>12, <2>1 DEF ListTypes
  <2> QED
    BY <1>1, <1>3, <1>5, <2>2, TypesSplit DEF PermitsTypeOK, ListTypes, Command
<1>14. \A d \in Commands : (Placed(cmd[d]) /\ Behind(cmd[d]))'
  <2>1. Placed(r)
    BY <1>1, <1>2, <1>4 DEF Placed
  <2>2. Behind(r)
    BY <1>1, <1>2, <1>4 DEF Behind, WellFormed
  <2> QED
    BY <1>3, <1>5, <2>1, <2>2 DEF PermitInv, Placed, Behind
<1>15. ListsAreSent'
  <2>1. Sent(cmd'[c])
    BY <1>4, <1>5 DEF Sent
  <2>2. \A d \in Elements(arrivals) : d \in Commands
    BY <1>6 DEF Elements
  <2>3. \A s \in Submissions : \A d \in Elements(tracked[s]) : d \in Commands
    BY <1>1 DEF ListTypes, Elements
  <2>4. \A d \in Commands : Sent(cmd[d]) => Sent(cmd'[d])
    BY <1>2, <1>5
  <2>5. \A d \in Elements(arrivals') : Sent(cmd'[d])
    BY <1>10, <2>1, <2>2, <2>4 DEF PermitInv, ListsAreSent
  <2>6. ASSUME NEW s \in Submissions, NEW d \in Elements(tracked'[s]) PROVE Sent(cmd'[d])
    <3>1. d \in Elements(tracked[s]) \/ d = c
      BY <1>12, <2>6
    <3> QED
      BY <2>1, <2>3, <2>4, <3>1 DEF PermitInv, ListsAreSent
  <2> QED
    BY <2>5, <2>6 DEF ListsAreSent, Elements, Sent
<1>16. GateIsHeld'
  BY <1>1, <1>3, <1>4, <1>5 DEF GateIsHeld
<1>17. InFlightIsLive'
  <2> SUFFICES ASSUME NEW d \in Commands, InFlight(d)'
               PROVE (Live(d) /\ d \in ToSet(tracked[cmd[d].sub]))'
    BY DEF InFlightIsLive
  <2>1. cmd'[d].sub = cmd[d].sub /\ cmd[d].sub \in Submissions
    BY <1>1, <1>4, <1>5 DEF Command
  <2>2. Live(d)' /\ d \in Elements(tracked'[cmd[d].sub])
    <3>1. CASE d = c
      <4>1. Live(c)'
        BY <1>2, <1>3, <1>4, <1>5 DEF Live, KnowsSubmission
      <4>2. c \in Elements(tracked'[u])
        BY <1>9, <1>10, <1>12
      <4> QED
        BY <3>1, <4>1, <4>2
    <3>2. CASE d # c
      <4>1. cmd'[d] = cmd[d] /\ InFlight(d) /\ d \notin Evicted(c)
        BY <1>3, <1>5, <3>2 DEF InFlight
      <4>2. Live(d) /\ d \in Elements(tracked[cmd[d].sub])
        BY <1>1, <2>1, <4>1, ToSetIsElements DEF PermitInv, InFlightIsLive, ListTypes
      <4>3. Contains(tracked[cmd[d].sub], d)
        BY <4>2 DEF Contains, Elements
      <4>4. d \notin own \cup oldest
        BY <1>11, <2>1, <4>1, <4>3
      <4>5. Live(d)'
        BY <1>3, <4>1, <4>2 DEF Live, KnowsSubmission
      <4> QED
        BY <1>12, <2>1, <4>2, <4>4, <4>5
    <3> QED
      BY <3>1, <3>2
  <2>3. d \in ToSet(tracked'[cmd[d].sub])
    BY <1>12, <2>1, <2>2, ToSetIsElements
  <2> QED
    BY <2>1, <2>2, <2>3
<1> QED
  BY <1>13, <1>14, <1>15, <1>16, <1>17 DEF PermitInv

-----------------------------------------------------------------------------
(* Cancels, measurements and the rest of the application                   *)

\* A step that empties lists: every command it no longer lists has been aborted.
LEMMA AbortStep ==
  ASSUME PermitInv, UNCHANGED <<cmd, operation, mutating>>,
         ListTypes', measure' \in {"off", "admitted", "measuring"},
         \A c \in Commands : Behind(cmd[c])',
         GateIsHeld',
         Elements(arrivals') \subseteq Elements(arrivals),
         aborted \subseteq aborted',
         \A s \in Submissions : \/ tracked'[s] = tracked[s]
                                \/ tracked'[s] = << >> /\ Elements(tracked[s]) \subseteq aborted',
         \A c \in Commands : Live(c) => Live(c)' \/ Elements(tracked[cmd[c].sub]) \subseteq aborted'
  PROVE PermitInv'
<1>1. ListTypes /\ cmd \in [Commands -> Command]
      /\ operation \in Commands \cup {NoOne, "measurement"} /\ mutating \in BOOLEAN
  BY TypesSplit DEF PermitInv
<1>2. PermitsTypeOK'
  BY <1>1 DEF PermitsTypeOK, ListTypes, Command
<1>3. \A c \in Commands : (Placed(cmd[c]) /\ Behind(cmd[c]))'
  BY DEF PermitInv, Placed
<1>4. ListsAreSent'
  <2>1. \A d \in Elements(arrivals') : Sent(cmd[d])
    BY DEF PermitInv, ListsAreSent
  <2>2. ASSUME NEW s \in Submissions, NEW d \in Elements(tracked'[s]) PROVE Sent(cmd[d])
    <3>1. tracked'[s] = tracked[s]
      BY <2>2 DEF Elements
    <3> QED
      BY <2>2, <3>1 DEF PermitInv, ListsAreSent
  <2>3. cmd' = cmd
    OBVIOUS
  <2> QED
    BY <2>1, <2>2, <2>3 DEF ListsAreSent, Elements, Sent
<1>5. InFlightIsLive'
  <2> SUFFICES ASSUME NEW d \in Commands, InFlight(d)'
               PROVE (Live(d) /\ d \in ToSet(tracked[cmd[d].sub]))'
    BY DEF InFlightIsLive
  <2>1. InFlight(d) /\ cmd'[d] = cmd[d] /\ cmd[d].sub \in Submissions /\ d \notin aborted'
    BY <1>1 DEF InFlight, Command
  <2>2. Live(d) /\ d \in Elements(tracked[cmd[d].sub])
    BY <1>1, <2>1, ToSetIsElements DEF PermitInv, InFlightIsLive, ListTypes
  <2>3. Live(d)' /\ tracked'[cmd[d].sub] = tracked[cmd[d].sub]
    BY <2>1, <2>2
  <2>4. d \in ToSet(tracked'[cmd[d].sub])
    BY <1>1, <2>1, <2>2, <2>3, ToSetIsElements DEF ListTypes
  <2> QED
    BY <2>1, <2>3, <2>4
<1> QED
  BY <1>2, <1>3, <1>4, <1>5 DEF PermitInv

\* What an abort reaches.
LEMMA AbortReaches ==
  ASSUME PermitInv, NEW S \in SUBSET Submissions
  PROVE /\ AbortedBy(S) \subseteq Commands
        /\ \A s \in S : Elements(tracked[s]) \subseteq AbortedBy(S)
<1>1. \A s \in Submissions : tracked[s] \in Seq(Commands)
  BY TypesSplit DEF PermitInv, ListTypes
<1>2. \A s \in Submissions : /\ ToSet(tracked[s]) = Elements(tracked[s])
                             /\ Elements(tracked[s]) \subseteq Commands
  BY <1>1, ToSetIsElements DEF Elements
<1> QED
  BY <1>2 DEF AbortedBy

LEMMA CancelKeeps ==
  ASSUME PermitInv, NEW s \in Submissions, Cancel(s) \/ Expire(s)
  PROVE PermitInv'
<1>1. ListTypes /\ cmd \in [Commands -> Command] /\ GateIsHeld
      /\ measure \in {"off", "admitted", "measuring"} /\ measure' = measure
      /\ \A c \in Commands : Behind(cmd[c])
  BY TypesSplit DEF PermitInv, Cancel, Expire
<1>2. epoch' = epoch /\ arrivals' = arrivals /\ UNCHANGED <<cmd, operation, mutating>>
  BY DEF Cancel, Expire
<1>3. GateIsHeld' /\ \A c \in Commands : Behind(cmd[c])'
  BY <1>1, <1>2 DEF GateIsHeld, Behind
<1>4. CASE Cancel(s)
  <2>1. /\ aborted' = aborted \cup AbortedBy({s}) /\ tracked' = [tracked EXCEPT ![s] = << >>]
        /\ AbortedBy({s}) \subseteq Commands /\ Elements(tracked[s]) \subseteq AbortedBy({s})
        /\ generation' = [generation EXCEPT ![s] = @ + 1]
    BY <1>4, AbortReaches DEF Cancel
  <2>2. ListTypes'
    <3>1. generation[s] + 1 \in Nat /\ << >> \in Seq(Commands)
          /\ permit' = [permit EXCEPT ![s] = NoOne]
      BY <1>1, <1>4 DEF ListTypes, Cancel
    <3>2. /\ generation' \in [Submissions -> Nat]
          /\ tracked' \in [Submissions -> Seq(Commands)]
          /\ aborted' \subseteq Commands
      BY <1>1, <2>1, <3>1 DEF ListTypes
    <3>3. permit' \in [Submissions -> [epoch : Nat, gen : Nat] \cup {NoOne}]
      BY <1>1, <3>1 DEF ListTypes
    <3> QED
      BY <1>1, <1>2, <3>2, <3>3 DEF ListTypes
  <2>3. \A c \in Commands : Live(c) => Live(c)' \/ cmd[c].sub = s
    BY <1>1, <1>2, <2>1 DEF Live, KnowsSubmission, Command, ListTypes
  <2>4. \A v \in Submissions : \/ tracked'[v] = tracked[v]
                               \/ tracked'[v] = << >> /\ Elements(tracked[v]) \subseteq aborted'
    BY <1>1, <2>1 DEF ListTypes
  <2>5. \A c \in Commands : Live(c) => Live(c)' \/ Elements(tracked[cmd[c].sub]) \subseteq aborted'
    BY <2>1, <2>3
  <2> QED
    BY <1>1, <1>2, <1>3, <2>1, <2>2, <2>4, <2>5, AbortStep DEF Elements
<1>5. CASE Expire(s)
  <2>1. UNCHANGED <<generation, tracked, aborted>> /\ permit' = [permit EXCEPT ![s] = NoOne]
    BY <1>5 DEF Expire
  <2>2. ListTypes'
    BY <1>1, <1>2, <2>1 DEF ListTypes
  <2>3. \A c \in Commands : Live(c) => Live(c)'
    BY <1>2, <2>1 DEF Live, KnowsSubmission
  <2> QED
    BY <1>1, <1>2, <1>3, <2>1, <2>2, <2>3, AbortStep DEF Elements
<1> QED
  BY <1>4, <1>5

LEMMA MeasurementKeeps ==
  ASSUME PermitInv,
         AdmitMeasurement \/ RefuseMeasurement \/ EndMeasurement \/ Mutate
  PROVE PermitInv'
<1>1. ListTypes /\ cmd \in [Commands -> Command] /\ GateIsHeld /\ mutating \in BOOLEAN
      /\ measure \in {"off", "admitted", "measuring"}
      /\ operation \in Commands \cup {NoOne, "measurement"}
      /\ \A c \in Commands : Placed(cmd[c]) /\ Behind(cmd[c])
  BY TypesSplit DEF PermitInv
<1>2. UNCHANGED ephemeral /\ cmd' = cmd
  BY DEF AdmitMeasurement, RefuseMeasurement, EndMeasurement, Mutate
<1>3. /\ mutating' \in BOOLEAN /\ measure' \in {"off", "admitted", "measuring"}
      /\ operation' \in Commands \cup {NoOne, "measurement"}
      /\ measure' = "measuring" => measure = "measuring"
  BY <1>1 DEF AdmitMeasurement, RefuseMeasurement, EndMeasurement, Mutate
<1>4. PermitsTypeOK'
  BY <1>1, <1>2, <1>3 DEF PermitsTypeOK, ListTypes, Command, ephemeral
<1>5. \A c \in Commands : (Placed(cmd[c]) /\ Behind(cmd[c]))'
  BY <1>1, <1>2, <1>3 DEF Placed, Behind, ephemeral
<1>6. ListsAreSent' /\ InFlightIsLive'
  BY <1>2 DEF PermitInv, ListsAreSent, InFlightIsLive, ephemeral, Elements, Sent, ToSet,
              InFlight, Live, KnowsSubmission
<1>7. GateIsHeld'
  BY <1>1, <1>2, CommandNames
     DEF GateIsHeld, AdmitMeasurement, RefuseMeasurement, EndMeasurement, Mutate
<1> QED
  BY <1>4, <1>5, <1>6, <1>7 DEF PermitInv

\* The measurement takes the next epoch, so nobody's snapshot is of it.
LEMMA NoteKeeps ==
  ASSUME PermitInv, NoteMeasurement
  PROVE PermitInv'
<1>1. ListTypes /\ cmd \in [Commands -> Command] /\ GateIsHeld
      /\ \A c \in Commands : Behind(cmd[c])
  BY TypesSplit DEF PermitInv
<1>2. /\ measure = "admitted" /\ measure' = "measuring" /\ epoch' = epoch + 1
      /\ permit' = [s \in Submissions |-> NoOne] /\ arrivals' = << >>
      /\ aborted' = aborted \cup AbortedBy(Submissions)
      /\ tracked' = [s \in Submissions |-> << >>]
      /\ UNCHANGED <<generation, operation, mutating, cmd>>
  BY DEF NoteMeasurement
<1>3. /\ AbortedBy(Submissions) \subseteq Commands
      /\ \A s \in Submissions : Elements(tracked[s]) \subseteq AbortedBy(Submissions)
  BY AbortReaches
<1>4. ListTypes'
  <2>1. MaxOrder \in Nat /\ << >> \in Seq(Commands) /\ Len(<< >>) = 0
    BY PermitBounds
  <2> QED
    BY <1>1, <1>2, <1>3, <2>1 DEF ListTypes
<1>5. \A c \in Commands : Behind(cmd[c])'
  <2>1. \A c \in Commands : cmd[c].epoch <= epoch /\ cmd[c].epoch \in Nat
    BY <1>1 DEF Behind, Command
  <2> QED
    BY <1>1, <1>2, <2>1 DEF Behind, ListTypes
<1>6. GateIsHeld'
  BY <1>1, <1>2 DEF GateIsHeld
<1>7. /\ aborted \subseteq aborted'
      /\ \A s \in Submissions : tracked'[s] = << >> /\ Elements(tracked[s]) \subseteq aborted'
      /\ \A c \in Commands : Elements(tracked[cmd[c].sub]) \subseteq aborted'
      /\ Elements(arrivals') \subseteq Elements(arrivals)
  BY <1>1, <1>2, <1>3 DEF Command, Elements
<1> QED
  BY <1>2, <1>4, <1>5, <1>6, <1>7, AbortStep

-----------------------------------------------------------------------------
(* What holds always                                                       *)

LEMMA InitPermits == ShareInit => PermitInv
<1> SUFFICES ASSUME ShareInit PROVE PermitInv
  OBVIOUS
<1>1. /\ epoch = 0 /\ generation = [s \in Submissions |-> 0]
      /\ permit = [s \in Submissions |-> NoOne] /\ tracked = [s \in Submissions |-> << >>]
      /\ arrivals = << >> /\ aborted = {}
      /\ operation = NoOne /\ mutating = FALSE /\ measure = "off"
  BY DEF ShareInit
<1> DEFINE First == [kind : ShareKinds, sub : Submissions, at : {1}, epoch : {0},
                     gen : {0}, phase : {"new"}, dropped : {FALSE}]
<1>2. cmd \in [Commands -> First]
  BY DEF ShareInit
<1>3. ASSUME NEW r \in First
      PROVE r \in Command /\ r.at = 1 /\ r.epoch = 0 /\ r.phase = "new"
  <2> DEFINE K == DOMAIN Script
  <2>1. ShareKinds \subseteq K
    BY KindNames
  <2> HIDE DEF K
  <2>2. /\ r.kind \in ShareKinds /\ r.sub \in Submissions /\ r.at = 1 /\ r.epoch = 0
        /\ r.gen = 0 /\ r.phase = "new" /\ r.dropped = FALSE
        /\ r = [kind |-> r.kind, sub |-> r.sub, at |-> r.at, epoch |-> r.epoch,
                gen |-> r.gen, phase |-> r.phase, dropped |-> r.dropped]
    BY <1>3
  <2>3. r.kind \in K /\ r.phase \in Phases /\ r.at \in Nat \ {0}
        /\ r.epoch \in Nat /\ r.gen \in Nat
    BY <2>1, <2>2 DEF Phases
  <2>4. r.dropped \in BOOLEAN
    BY <2>2, Zenon
  <2>5. /\ r \in [kind : K, sub : Submissions, at : Nat \ {0}, epoch : Nat, gen : Nat,
                 phase : Phases, dropped : BOOLEAN]
        /\ r.at = 1 /\ r.epoch = 0 /\ r.phase = "new"
    <3> HIDE DEF First
    <3> QED
      BY <2>2, <2>3, <2>4
  <2> QED
    BY <2>5 DEF Command, K
<1>4. /\ cmd \in [Commands -> Command]
      /\ \A c \in Commands : cmd[c] \in Command /\ cmd[c].at = 1 /\ cmd[c].epoch = 0
                               /\ cmd[c].phase = "new"
  BY <1>2, <1>3
<1>5. PermitsTypeOK
  <2>1. ListTypes
    <3>1. MaxOrder \in Nat /\ << >> \in Seq(Commands) /\ Len(<< >>) = 0
      BY PermitBounds
    <3> QED
      BY <1>1, <3>1 DEF ListTypes
  <2> QED
    BY <1>1, <1>4, <2>1, TypesSplit
<1>6. \A c \in Commands : Placed(cmd[c]) /\ Behind(cmd[c])
  <2>1. \A k \in DOMAIN Script : Len(Script[k]) \in Nat /\ Len(Script[k]) > 0
    BY ScriptsWellFormed DEF WellFormed
  <2> QED
    BY <1>1, <1>4, <2>1 DEF Placed, Behind, Command
<1>7. ListsAreSent
  BY <1>1 DEF ListsAreSent, Elements
<1>8. GateIsHeld /\ InFlightIsLive
  BY <1>1, <1>4 DEF GateIsHeld, InFlightIsLive, InFlight
<1> QED
  BY <1>5, <1>6, <1>7, <1>8 DEF PermitInv

LEMMA StepPermits == PermitInv /\ [ShareNext]_shareVars => PermitInv'
<1> SUFFICES ASSUME PermitInv, [ShareNext]_shareVars PROVE PermitInv'
  OBVIOUS
<1>1. ASSUME NEW c \in Commands, Admit(c) \/ CommandMoves(c) \/ CloseDialog(c)
                                  \/ Answered(c) \/ DropCommand(c)
      PROVE PermitInv'
  BY <1>1, SnapshotKeeps, LookKeeps, WorkKeeps, AnswerKeeps, StoreKeeps, ClearKeeps,
     RegisterKeeps DEF CommandMoves
<1>2. CASE UNCHANGED shareVars
  BY <1>2 DEF shareVars, ephemeral, PermitInv, PermitsTypeOK, Placed, Behind, Sent,
              ListsAreSent, Elements, GateIsHeld, InFlightIsLive, InFlight, Live,
              KnowsSubmission, ToSet
<1> QED
  BY <1>1, <1>2, CancelKeeps, MeasurementKeeps, NoteKeeps DEF ShareNext

LEMMA PermitsHold == ShareSpec => []PermitInv
BY InitPermits, StepPermits, PTL DEF ShareSpec

\* Type correctness of the permits, the lists of requests and the commands
\* (benchmark/sharing/permits.rs).
THEOREM PermitsAreTyped == ShareSpec => []PermitsTypeOK
<1>1. PermitInv => PermitsTypeOK
  BY DEF PermitInv
<1> QED
  BY <1>1, PermitsHold, PTL

\* A request that can still reach the service is of the present epoch and generation and
\* is listed where the next cancel or measurement aborts it, however many requests the
\* bounds have pushed out before.
THEOREM RequestsInFlightAreLive == ShareSpec => []InFlightIsLive
<1>1. PermitInv => InFlightIsLive
  BY DEF PermitInv
<1> QED
  BY <1>1, PermitsHold, PTL

\* While a measurement is timed no request is in flight and no closure is at work under
\* the gate, not even one whose command is gone.
THEOREM MeasurementsAreUndisturbed == ShareSpec => []MeasurementUndisturbed
<1>1. PermitInv => MeasurementUndisturbed
  <2> SUFFICES ASSUME PermitInv, measure = "measuring", NEW c \in Commands
               PROVE ~InFlight(c) /\ cmd[c].phase \notin {"gated", "working"}
    BY DEF MeasurementUndisturbed
  <2>1. operation = "measurement" /\ operation # c
    BY CommandNames DEF PermitInv, GateIsHeld
  <2>2. cmd[c].phase \notin {"gated", "working"}
    BY <2>1 DEF PermitInv, GateIsHeld
  <2>3. ASSUME InFlight(c) PROVE FALSE
    <3>1. cmd[c] \in Command /\ Placed(cmd[c]) /\ Behind(cmd[c]) /\ WellFormed(cmd[c].kind)
      BY TypesOfCommands, ScriptsWellFormed DEF PermitInv, Command
    <3>2. cmd[c].epoch = epoch /\ cmd[c].phase = "requesting"
      BY <2>3 DEF PermitInv, InFlightIsLive, InFlight, Live
    <3>3. cmd[c].kind # "import"
      BY <3>1, <3>2 DEF Placed, WellFormed
    <3> QED
      BY <3>1, <3>2, <3>3 DEF Behind
  <2> QED
    BY <2>2, <2>3
<1> QED
  BY <1>1, PermitsHold, PTL

-----------------------------------------------------------------------------
(* Keys of the owners                                                      *)

Secrets == {x.secret : x \in used} \cup {x.secret : x \in backups}

\* A command between its lock and its return holds the lock file.
Locked == \A p \in Instances : at[p].stage \notin {"idle", "using"} => holder = p

\* Commands wait for the migration; before it nothing has been published.
MigratedFirst ==
    legacy # Nothing =>
        /\ pending = Nothing
        /\ used = {} /\ backups = {}
        /\ \A p \in Instances : at[p].stage = "idle"

\* What the lock lets a command rely on at each of its steps.
Relies(p) ==
    LET stage == at[p].stage
    IN  /\ stage \in {"staged", "minted", "cleared"} => record = Nothing
        /\ stage = "staged" => key = Nothing
        /\ stage \in {"staged", "minted"} => pending # Nothing
        /\ stage \in {"minted", "imported", "cleared"} => lost \/ key # Nothing
        /\ stage \in {"committed", "bound", "using"} => record # Nothing
        /\ stage \in {"import", "imported", "cleared"} =>
              \E x \in backups : x.secret = at[p].secret
        /\ stage \in {"imported", "cleared"} /\ ~lost => key = at[p].secret

StepsRely == \A p \in Instances : Relies(p)

\* Until something is lost, whatever was published has its record, and a record its key.
RecordsAreKept ==
    ~lost => /\ Secrets # {} => record # Nothing
             /\ record # Nothing \/ legacy # Nothing => key # Nothing

\* Whatever signed or was exported is the key of the vault; without it nobody mints.
OneKey ==
    /\ \A x, y \in Secrets : x = y
    /\ key # Nothing => \A x \in Secrets : x = key
    /\ Secrets # {} => record # Nothing \/ key # Nothing

KeysInv == /\ KeysTypeOK /\ Locked /\ MigratedFirst /\ StepsRely
           /\ RecordsAreKept /\ OneKey /\ NoOrphanKey

\* A fresh home, and one of an earlier version whose registry.json is still to be migrated.
LEMMA KeysInvInit == KeysInit => KeysInv
<1> SUFFICES ASSUME KeysInit PROVE KeysInv
  OBVIOUS
<1>1. Idle \in [stage : Stages, body : Bodies \cup {Unknown},
                origin : Origins, secret : Keys \cup {Nothing}]
  BY KeyNames DEF Idle, Stages
<1>2. KeysTypeOK
  BY <1>1 DEF KeysTypeOK, KeysInit
<1>3. at = [p \in Instances |-> Idle] /\ Idle.stage = "idle"
  BY DEF KeysInit, Idle
<1> QED
  BY <1>2, <1>3, KeyNames DEF KeysInv, KeysInit, Locked, MigratedFirst, StepsRely,
     Relies, RecordsAreKept, OneKey, NoOrphanKey, KeyHasTrace, Secrets

\* A step keeps the types; completing and importing rely on what their lock protects.
LEMMA TypesOfKeys == KeysTypeOK /\ StepsRely /\ [KeysNext]_keyVars => KeysTypeOK'
<1> SUFFICES ASSUME KeysTypeOK, StepsRely, [KeysNext]_keyVars PROVE KeysTypeOK'
  OBVIOUS
<1>1. Idle \in [stage : Stages, body : Bodies \cup {Unknown},
                origin : Origins, secret : Keys \cup {Nothing}]
  BY KeyNames DEF Idle, Stages
<1> USE <1>1, KeyNames DEF KeysTypeOK
<1>2. ASSUME NEW p \in Instances, MigrateLegacy(p) PROVE KeysTypeOK'
  BY <1>2 DEF MigrateLegacy, Migrated, keyHistory
<1>3. ASSUME NEW p \in Instances, NEW o \in Origins, ReadBinding(p, o) PROVE KeysTypeOK'
  BY <1>3 DEF ReadBinding, Bindings, Idle, Stages, keyFiles, keyHistory
<1>4. ASSUME NEW p \in Instances, NEW o \in Origins, NEW b \in Bodies, Prepare(p, b, o)
      PROVE KeysTypeOK'
  BY <1>4 DEF Prepare, Lock, Stages, keyFiles, keyHistory
<1>5. ASSUME NEW p \in Instances, FindRecord(p) \/ Refuse(p) \/ Resume(p) \/ Stage(p)
      PROVE KeysTypeOK'
  BY <1>5 DEF FindRecord, Refuse, Resume, Stage, Staged, Move, Return, Stages, Bindings,
     keyFiles, keyHistory
<1>6. ASSUME NEW p \in Instances, Mint(p) PROVE KeysTypeOK'
  BY <1>6 DEF Mint, Move, Return, Stages
<1>7. ASSUME NEW p \in Instances, CommitStaged(p) \/ ClearStaged(p) PROVE KeysTypeOK'
  BY <1>7 DEF CommitStaged, ClearStaged, Move, Stages, keyHistory
<1>8. ASSUME NEW p \in Instances, Complete(p) PROVE KeysTypeOK'
  BY <1>8 DEF StepsRely, Relies, Complete, Adopted, Return, Bindings, keyHistory
<1>9. ASSUME NEW p \in Instances, ReadKey(p) PROVE KeysTypeOK'
  BY <1>9 DEF ReadKey, Return, keyFiles
<1>10. ASSUME NEW p \in Instances, NEW backup \in backups, Import(p, backup)
       PROVE KeysTypeOK'
  BY <1>10 DEF Import, Lock, Stages, keyFiles, keyHistory
<1>11. ASSUME NEW p \in Instances, RestoreKey(p) PROVE KeysTypeOK'
  BY <1>11 DEF StepsRely, Relies, RestoreKey, MayRestore, Move, Return, Stages, keyHistory
<1>12. ASSUME NEW p \in Instances, DropIntent(p) \/ InsertBinding(p) PROVE KeysTypeOK'
  BY <1>12 DEF DropIntent, InsertBinding, Move, Return, Stages, Bindings, keyHistory
<1>13. ASSUME NEW p \in Instances, Interrupted(p) PROVE KeysTypeOK'
  BY <1>13 DEF Interrupted, Return, keyFiles, keyHistory
<1>14. CASE Loss
  BY <1>14 DEF Loss
<1>15. CASE UNCHANGED keyVars
  BY <1>15 DEF keyVars, keyFiles, keyHistory
<1> QED
  BY <1>2, <1>3, <1>4, <1>5, <1>6, <1>7, <1>8, <1>9, <1>10, <1>11, <1>12, <1>13, <1>14,
     <1>15 DEF KeysNext

\* Every step of every command keeps the invariant, and so do a kill, a refused vault and
\* a loss.
LEMMA KeysInvKept == KeysInv /\ [KeysNext]_keyVars => KeysInv'
<1> SUFFICES ASSUME KeysInv, [KeysNext]_keyVars PROVE KeysInv'
  OBVIOUS
<1>0. KeysTypeOK'
  BY TypesOfKeys DEF KeysInv
<1> USE <1>0, KeyNames DEF KeysInv
<1>1. ASSUME NEW p \in Instances, MigrateLegacy(p) PROVE KeysInv'
  BY <1>1 DEF MigrateLegacy, Migrated, keyHistory, Locked, MigratedFirst, StepsRely,
     Relies, RecordsAreKept, OneKey, NoOrphanKey, KeyHasTrace, Secrets, KeysTypeOK, Idle
<1>2. ASSUME NEW p \in Instances, FindRecord(p) PROVE KeysInv'
  BY <1>2 DEF FindRecord, Unbound, Move, keyFiles, keyHistory, Locked, MigratedFirst,
     StepsRely, Relies, RecordsAreKept, OneKey, NoOrphanKey, KeyHasTrace, Secrets, KeysTypeOK, Idle
<1>3. ASSUME NEW p \in Instances, Refuse(p) PROVE KeysInv'
  BY <1>3 DEF Refuse, Unbound, Return, keyFiles, keyHistory, Locked, MigratedFirst,
     StepsRely, Relies, RecordsAreKept, OneKey, NoOrphanKey, KeyHasTrace, Secrets, KeysTypeOK, Idle
<1>4. ASSUME NEW p \in Instances, Resume(p) PROVE KeysInv'
  <2> USE <1>4 DEF Resume, Unbound, Move, keyFiles, keyHistory
  <2>1. /\ at[p].stage \notin {"idle", "using"} /\ legacy = Nothing
        /\ \A q \in Instances \ {p} : at'[q] = at[q] /\ at[q].stage \in {"idle", "using"}
    BY DEF Locked, MigratedFirst, KeysTypeOK
  <2>2. Locked' /\ MigratedFirst'
    BY <2>1 DEF Locked, MigratedFirst, KeysTypeOK, Idle
  <2>3. Relies(p)'
    BY <2>1 DEF StepsRely, Relies, KeysTypeOK, Idle
  <2>4. ASSUME NEW q \in Instances \ {p} PROVE Relies(q)'
    BY <2>1, <2>4 DEF StepsRely, Relies
  <2>5. RecordsAreKept' /\ OneKey'
    BY <2>1 DEF RecordsAreKept, OneKey, Secrets, StepsRely, Relies
  <2>6. NoOrphanKey'
    BY <2>1 DEF NoOrphanKey, KeyHasTrace, StepsRely, Relies, RecordsAreKept
  <2> QED
    BY <2>2, <2>3, <2>4, <2>5, <2>6 DEF StepsRely
<1>5. ASSUME NEW p \in Instances, Stage(p) PROVE KeysInv'
  <2> USE <1>5 DEF Stage, Unbound, Staged, Bindings, Move, keyHistory
  <2>1. /\ at[p].stage \notin {"idle", "using"} /\ legacy = Nothing
        /\ \A q \in Instances \ {p} : at'[q] = at[q] /\ at[q].stage \in {"idle", "using"}
    BY DEF Locked, MigratedFirst, KeysTypeOK
  <2>2. Locked' /\ MigratedFirst'
    BY <2>1 DEF Locked, MigratedFirst, KeysTypeOK, Idle
  <2>3. Relies(p)'
    BY <2>1 DEF StepsRely, Relies, KeysTypeOK, Idle
  <2>4. ASSUME NEW q \in Instances \ {p} PROVE Relies(q)'
    BY <2>1, <2>4 DEF StepsRely, Relies
  <2>5. RecordsAreKept' /\ OneKey'
    BY <2>1 DEF RecordsAreKept, OneKey, Secrets, StepsRely, Relies
  <2>6. NoOrphanKey'
    BY <2>1 DEF NoOrphanKey, KeyHasTrace, StepsRely, Relies, RecordsAreKept
  <2> QED
    BY <2>2, <2>3, <2>4, <2>5, <2>6 DEF StepsRely
<1>6. ASSUME NEW p \in Instances, Mint(p) PROVE KeysInv'
  <2> USE <1>6 DEF Mint, Move, Return
  <2>1. /\ at[p].stage \notin {"idle", "using"} /\ legacy = Nothing
        /\ \A q \in Instances \ {p} : at'[q] = at[q] /\ at[q].stage \in {"idle", "using"}
    BY DEF Locked, MigratedFirst, KeysTypeOK
  <2>2. Locked' /\ MigratedFirst'
    BY <2>1 DEF Locked, MigratedFirst, KeysTypeOK, Idle
  <2>3. Relies(p)'
    BY <2>1 DEF StepsRely, Relies, KeysTypeOK, Idle
  <2>4. ASSUME NEW q \in Instances \ {p} PROVE Relies(q)'
    BY <2>1, <2>4 DEF StepsRely, Relies
  <2>5. RecordsAreKept' /\ OneKey'
    BY <2>1 DEF RecordsAreKept, OneKey, Secrets, StepsRely, Relies
  <2>6. NoOrphanKey'
    BY <2>1 DEF NoOrphanKey, KeyHasTrace, StepsRely, Relies, RecordsAreKept
  <2> QED
    BY <2>2, <2>3, <2>4, <2>5, <2>6 DEF StepsRely
<1>7. ASSUME NEW p \in Instances, CommitStaged(p) PROVE KeysInv'
  BY <1>7 DEF CommitStaged, Move, keyHistory, Locked, MigratedFirst, StepsRely, Relies,
     RecordsAreKept, OneKey, NoOrphanKey, KeyHasTrace, Secrets, KeysTypeOK, Idle
<1>8. ASSUME NEW p \in Instances, ClearStaged(p) PROVE KeysInv'
  BY <1>8 DEF ClearStaged, Move, keyHistory, Locked, MigratedFirst, StepsRely, Relies,
     RecordsAreKept, OneKey, NoOrphanKey, KeyHasTrace, Secrets, KeysTypeOK, Idle
<1>9. ASSUME NEW p \in Instances, Complete(p) PROVE KeysInv'
  <2>1. /\ at[p].stage = "bound" /\ legacy = Nothing /\ record # Nothing /\ holder = p
        /\ UNCHANGED <<key, pending, legacy, backups, used, lost, unmoved>>
        /\ at'[p].stage = "idle" /\ holder' = Nothing
        /\ \A q \in Instances \ {p} : at'[q] = at[q] /\ at[q].stage \in {"idle", "using"}
    BY <1>9 DEF Complete, Return, Locked, MigratedFirst, StepsRely, Relies, KeysTypeOK,
       Idle,
       keyHistory
  <2>2. record' # Nothing
    BY <1>9, <2>1 DEF Complete, Adopted, Bindings, KeysTypeOK
  <2>3. Locked' /\ MigratedFirst'
    BY <2>1 DEF Locked, MigratedFirst
  <2>4. ASSUME NEW q \in Instances PROVE Relies(q)'
    BY <2>1, <2>2, <2>4 DEF StepsRely, Relies
  <2>5. RecordsAreKept' /\ OneKey'
    BY <2>1, <2>2 DEF RecordsAreKept, OneKey, Secrets
  <2>6. NoOrphanKey'
    BY <2>1, <2>2 DEF NoOrphanKey, KeyHasTrace
  <2> QED
    BY <2>3, <2>4, <2>5, <2>6 DEF StepsRely
<1>10. ASSUME NEW p \in Instances, ReadKey(p) PROVE KeysInv'
  <2>1. /\ at[p].stage = "using" /\ legacy = Nothing /\ record # Nothing
        /\ UNCHANGED <<key, record, pending, legacy, lost, unmoved>>
        /\ \A q \in Instances \ {p} : at'[q] = at[q]
        /\ at'[p].stage = "idle" /\ holder' = IF holder = p THEN Nothing ELSE holder
    BY <1>10 DEF ReadKey, Return, keyFiles, MigratedFirst, StepsRely, Relies,
       KeysTypeOK, Idle
  <2>2. \/ UNCHANGED <<used, backups>>
        \/ /\ key # Nothing /\ backups \subseteq backups'
           /\ \A x \in Secrets' : x \in Secrets \/ x = key
    BY <1>10 DEF ReadKey, Secrets
  <2>3. Locked' /\ MigratedFirst'
    BY <2>1 DEF Locked, MigratedFirst
  <2>4. ASSUME NEW q \in Instances PROVE Relies(q)'
    BY <2>1, <2>2, <2>4 DEF StepsRely, Relies
  <2>5. RecordsAreKept' /\ OneKey'
    <3>1. CASE UNCHANGED <<used, backups>>
      BY <2>1, <3>1 DEF RecordsAreKept, OneKey, Secrets
    <3>2. CASE key # Nothing /\ \A x \in Secrets' : x \in Secrets \/ x = key
      BY <2>1, <3>2 DEF RecordsAreKept, OneKey
    <3> QED
      BY <2>2, <3>1, <3>2
  <2>6. NoOrphanKey'
    BY <2>1 DEF NoOrphanKey, KeyHasTrace
  <2> QED
    BY <2>3, <2>4, <2>5, <2>6 DEF StepsRely
<1>11. ASSUME NEW p \in Instances, RestoreKey(p) PROVE KeysInv'
  <2>1. /\ at[p].stage = "import" /\ legacy = Nothing /\ holder = p
        /\ UNCHANGED <<record, pending, legacy, backups, used, lost, unmoved>>
        /\ \A q \in Instances \ {p} : at'[q] = at[q] /\ at[q].stage \in {"idle", "using"}
    BY <1>11 DEF RestoreKey, Move, Return, keyHistory, Locked, MigratedFirst, KeysTypeOK
  <2>2. PICK x \in backups : x.secret = at[p].secret
    BY <2>1 DEF StepsRely, Relies
  <2>3. at[p].secret \in Secrets /\ at[p].secret # Nothing
    BY <2>2 DEF Secrets, KeysTypeOK
  <2>4. \/ /\ key' = at[p].secret /\ at'[p].stage = "imported"
           /\ at'[p].secret = at[p].secret /\ holder' = p
        \/ key' = key /\ at'[p].stage = "idle" /\ holder' = Nothing
    BY <1>11, <2>1 DEF RestoreKey, Move, Return, KeysTypeOK, Idle
  <2>5. Locked' /\ MigratedFirst'
    BY <2>1, <2>4 DEF Locked, MigratedFirst
  <2>6. Relies(p)'
    BY <2>1, <2>2, <2>3, <2>4 DEF Relies
  <2>7. ASSUME NEW q \in Instances \ {p} PROVE Relies(q)'
    BY <2>1, <2>7 DEF StepsRely, Relies
  <2>8. Secrets' = Secrets
    BY <2>1 DEF Secrets
  <2>9. RecordsAreKept' /\ OneKey'
    BY <2>1, <2>3, <2>4, <2>8 DEF RecordsAreKept, OneKey
  <2>10. NoOrphanKey'
    BY <2>1, <2>2, <2>4 DEF NoOrphanKey, KeyHasTrace
  <2> QED
    BY <2>5, <2>6, <2>7, <2>9, <2>10 DEF StepsRely
<1>12. ASSUME NEW p \in Instances, DropIntent(p) PROVE KeysInv'
  <2> USE <1>12 DEF DropIntent, Move, Return, keyHistory
  <2>1. /\ at[p].stage \notin {"idle", "using"} /\ legacy = Nothing
        /\ \A q \in Instances \ {p} : at'[q] = at[q] /\ at[q].stage \in {"idle", "using"}
    BY DEF Locked, MigratedFirst, KeysTypeOK
  <2>2. Locked' /\ MigratedFirst'
    BY <2>1 DEF Locked, MigratedFirst, KeysTypeOK, Idle
  <2>3. Relies(p)'
    BY <2>1 DEF StepsRely, Relies, KeysTypeOK, Idle
  <2>4. ASSUME NEW q \in Instances \ {p} PROVE Relies(q)'
    BY <2>1, <2>4 DEF StepsRely, Relies
  <2>5. RecordsAreKept' /\ OneKey'
    <3>1. UNCHANGED <<key, record, legacy, lost, Secrets>>
      BY DEF Secrets
    <3> HIDE <1>12 DEF DropIntent
    <3> QED
      BY <3>1 DEF RecordsAreKept, OneKey
  <2>6. NoOrphanKey'
    BY <2>1 DEF NoOrphanKey, KeyHasTrace, StepsRely, Relies, RecordsAreKept
  <2> QED
    BY <2>2, <2>3, <2>4, <2>5, <2>6 DEF StepsRely
<1>13. ASSUME NEW p \in Instances, InsertBinding(p) PROVE KeysInv'
  BY <1>13 DEF InsertBinding, Return, keyHistory, Locked, MigratedFirst, StepsRely,
     Relies, RecordsAreKept, OneKey, NoOrphanKey, KeyHasTrace, Secrets, KeysTypeOK, Idle
<1>14. ASSUME NEW p \in Instances, Interrupted(p) PROVE KeysInv'
  BY <1>14 DEF Interrupted, Return, keyFiles, keyHistory, Locked, MigratedFirst,
     StepsRely, Relies, RecordsAreKept, OneKey, NoOrphanKey, KeyHasTrace, Secrets, KeysTypeOK, Idle
<1>15. ASSUME NEW p \in Instances, NEW o \in Origins, ReadBinding(p, o) PROVE KeysInv'
  BY <1>15 DEF ReadBinding, keyFiles, keyHistory, Locked, MigratedFirst, StepsRely,
     Relies, RecordsAreKept, OneKey, NoOrphanKey, KeyHasTrace, Secrets, KeysTypeOK, Idle
<1>16. ASSUME NEW p \in Instances, NEW o \in Origins, NEW b \in Bodies, Prepare(p, b, o)
      PROVE KeysInv'
  BY <1>16 DEF Prepare, Lock, keyFiles, keyHistory, Locked, MigratedFirst, StepsRely,
     Relies, RecordsAreKept, OneKey, NoOrphanKey, KeyHasTrace, Secrets, KeysTypeOK, Idle
<1>17. ASSUME NEW p \in Instances, NEW backup \in backups, Import(p, backup)
      PROVE KeysInv'
  BY <1>17 DEF Import, Lock, keyFiles, keyHistory, Locked, MigratedFirst, StepsRely,
     Relies, RecordsAreKept, OneKey, NoOrphanKey, KeyHasTrace, Secrets, KeysTypeOK, Idle
<1>18. CASE Loss
  BY <1>18 DEF Loss, Locked, MigratedFirst, StepsRely, Relies, RecordsAreKept, OneKey,
     NoOrphanKey, KeyHasTrace, Secrets, KeysTypeOK, Idle
<1>19. CASE UNCHANGED keyVars
  BY <1>19 DEF keyVars, keyFiles, keyHistory, Locked, MigratedFirst, StepsRely, Relies,
     RecordsAreKept, OneKey, NoOrphanKey, KeyHasTrace, Secrets, KeysTypeOK, Idle
<1> QED
  BY <1>1, <1>2, <1>3, <1>4, <1>5, <1>6, <1>7, <1>8, <1>9, <1>10, <1>11, <1>12, <1>13,
     <1>14, <1>15, <1>16, <1>17, <1>18, <1>19 DEF KeysNext

-----------------------------------------------------------------------------
(* Theorems *)

\* What every instance of the application keeps, whoever is killed between two writes.
LEMMA KeysInvAlways == KeysSpec => []KeysInv
<1> QED
  BY KeysInvInit, KeysInvKept, PTL DEF KeysSpec

\* Types: the vault, the records, the intents, the commands and the backups stay what they
\* are declared to be.
THEOREM KeysTypesKept == KeysSpec => []KeysTypeOK
<1>1. KeysInv => KeysTypeOK
  BY DEF KeysInv
<1> QED
  BY <1>1, KeysInvAlways, PTL

\* Everything ever signed or exported for a submission is under one key: prepare_inner and
\* import_path_inner never replace a lost key by another one.
THEOREM OneAuthorityAlways == KeysSpec => []OneAuthority
<1>1. KeysInv => OneAuthority
  <2> SUFFICES ASSUME KeysInv,
                      NEW u \in {x.secret : x \in used} \cup {x.secret : x \in backups},
                      NEW v \in {x.secret : x \in used} \cup {x.secret : x \in backups}
               PROVE  u = v
    BY DEF OneAuthority
  <2> QED
    BY DEF KeysInv, OneKey, Secrets
<1> QED
  BY <1>1, KeysInvAlways, PTL

\* A key of the vault keeps a record, an intent or a backup by which a command completes
\* or restores it, wherever the commands were interrupted.  The one exception is the key of
\* an earlier version whose record ensure_migrated failed to write before it renamed
\* registry.json aside.
THEOREM NoOrphanKeyAlways == KeysSpec => []NoOrphanKey
<1>1. KeysInv => NoOrphanKey
  BY DEF KeysInv
<1> QED
  BY <1>1, KeysInvAlways, PTL

\* complete_bound is the only step that changes a record, and it gives a body to one that
\* has none; commit_pending and the import write where there is no record.
THEOREM RecordsNeverDrift == KeysSpec => BindingNeverDrifts
<1> DEFINE Kept == record # Nothing /\ record' # record /\ lost' = lost =>
                      /\ record' # Nothing /\ record'.origin = record.origin
                      /\ record.body = Unknown
<1>1. KeysInv /\ [KeysNext]_keyVars => [Kept]_keyVars
  <2> SUFFICES ASSUME KeysInv, KeysNext, record # Nothing, record' # record, lost' = lost
               PROVE  Kept
    OBVIOUS
  <2>1. record \in Bindings
    BY DEF KeysInv, KeysTypeOK
  <2>2. ASSUME NEW p \in Instances, Complete(p) PROVE Kept
    <3>1. record.body = Unknown /\ record' = [record EXCEPT !.body = at[p].body]
      BY <2>2 DEF Complete, Adopted
    <3>2. at[p].body \in Bodies \cup {Unknown}
      BY DEF KeysInv, KeysTypeOK
    <3>3. record' \in Bindings /\ record'.origin = record.origin
      BY <2>1, <3>1, <3>2 DEF Bindings
    <3> QED
      BY <3>1, <3>3, KeyNames
  <2>3. ASSUME NEW p \in Instances, CommitStaged(p) \/ InsertBinding(p) PROVE FALSE
    BY <2>3 DEF CommitStaged, InsertBinding, KeysInv, StepsRely, Relies
  <2>4. ASSUME NEW p \in Instances, MigrateLegacy(p) PROVE FALSE
    BY <2>4 DEF MigrateLegacy, Migrated
  <2>5. ASSUME NEW p \in Instances,
               \/ FindRecord(p) \/ Refuse(p) \/ Resume(p) \/ Stage(p) \/ Mint(p)
               \/ ClearStaged(p) \/ ReadKey(p) \/ RestoreKey(p) \/ DropIntent(p)
               \/ Interrupted(p)
        PROVE  FALSE
    BY <2>5 DEF FindRecord, Refuse, Resume, Stage, Mint, ClearStaged, ReadKey, RestoreKey,
       DropIntent, Interrupted, keyFiles
  <2>6. ASSUME NEW p \in Instances,
               \/ \E o \in Origins : ReadBinding(p, o) \/ \E b \in Bodies : Prepare(p, b, o)
               \/ \E backup \in backups : Import(p, backup)
        PROVE  FALSE
    BY <2>6 DEF ReadBinding, Prepare, Import, Lock, keyFiles
  <2>7. ~Loss
    BY DEF Loss, KeysInv, KeysTypeOK
  <2> QED
    BY <2>2, <2>3, <2>4, <2>5, <2>6, <2>7 DEF KeysNext
<1> QED
  BY <1>1, KeysInvAlways, PTL DEF KeysSpec, BindingNeverDrifts
=============================================================================
