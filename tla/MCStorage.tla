----------------------------- MODULE MCStorage -----------------------------
(* The stores of files the application keeps, for TLC.  They share no state, *)
(* so a behaviour works on one of them, chosen in its initial state, and     *)
(* leaves the others as they were installed.                                 *)
EXTENDS RunStore, RuntimeInstall, MCModelSnapshots, OwnerKeys

VARIABLE store

\* Runs, processes, jobs, commits and instances are interchangeable.
MCSymmetry == Permutations(Runs) \cup Permutations(Procs) \cup Permutations(Receipts)
                  \cup Permutations(Installers) \cup Permutations(Commits)
                  \cup Permutations(Instances)

MCInit ==
    /\ store \in {"runs", "runtime", "snapshot", "keys"}
    /\ StoreInit /\ SnapInit
    /\ InstallInit /\ KeysInit
    /\ store # "runtime" => \A p \in Places : place[p] = Absent
    /\ store # "keys" => legacy = Nothing

MCNext ==
    /\ UNCHANGED store
    /\ \/ store = "runs" /\ StoreNext /\ UNCHANGED <<installVars, snapVars, keyVars>>
       \/ store = "runtime" /\ InstallNext /\ UNCHANGED <<storeVars, snapVars, keyVars>>
       \/ store = "snapshot" /\ SnapNext /\ UNCHANGED <<storeVars, installVars, keyVars>>
       \/ store = "keys" /\ KeysNext /\ UNCHANGED <<storeVars, installVars, snapVars>>

MCSpec == MCInit /\ [][MCNext]_<<store, storeVars, installVars, snapVars, keyVars>>
============================================================================
