----------------------------- MODULE MCRegistries -----------------------------
(* What commands register themselves in, for TLC: the operations a window can   *)
(* cancel, and the requests and permits of benchmark sharing.  They share no    *)
(* state, so a behaviour works on one of them, chosen in its initial state.     *)
EXTENDS SharingPermits, CancellableJobs

CONSTANTS c1, c2, q1, q2
VARIABLE part

\* The sharing commands are interchangeable: one order of their kinds is enough.
MCKinds == <<"verify", "submit", "import", "poll">>
MCInOrder == \E m, n \in DOMAIN MCKinds :
                /\ m <= n
                /\ cmd[q1].kind = MCKinds[m] /\ cmd[q2].kind = MCKinds[n]

\* The part a behaviour does not work on has one initial state.
MCInit ==
    /\ part \in {"operations", "permits"}
    /\ Init /\ ShareInit
    /\ IF part = "operations" THEN \A q \in Commands : cmd[q].kind = "verify"
       ELSE MCInOrder /\ \A c \in Ops : kind[c] = "preflight"

MCNext ==
    /\ UNCHANGED part
    /\ \/ part = "operations" /\ Next /\ UNCHANGED shareVars
       \/ part = "permits" /\ ShareNext /\ UNCHANGED vars

partVars == <<part, vars, shareVars>>

\* The fairness of FairSpec and ShareFairSpec: an operation or a command, as the part may be.
Moves(c, q) == \/ part = "operations" /\ Own(c) /\ UNCHANGED <<part, shareVars>>
               \/ part = "permits" /\ CommandMoves(q) /\ UNCHANGED <<part, vars>>

MCFairSpec ==
    /\ MCInit /\ [][MCNext]_partVars
    /\ WF_partVars(Moves(c1, q1)) /\ WF_partVars(Moves(c2, q2))
===============================================================================
