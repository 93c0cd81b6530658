---------------------------- MODULE ResourceUse ----------------------------
(***************************************************************************)
(* What the operation lock, the runtime_busy flag and the lifecycle checks *)
(* promise together: loaded models share the installed runtimes and model  *)
(* files, a resource job has them for itself.  Loading is refused while a  *)
(* job works; a job is refused while a model is loading, ready or stopping.*)
(* Module AppLifecycle implements this specification.                      *)
(***************************************************************************)
EXTENDS FiniteSets

CONSTANTS Models, Workers

VARIABLES loaded,   \* the models that are loading or loaded
          working   \* the resource jobs at work: at most one

vars == <<loaded, working>>

Init == loaded = {} /\ working = {}

Load(m) == working = {} /\ loaded' = loaded \cup {m} /\ UNCHANGED working

\* One model fails, stops or crashes, or a replacement stops them all.
Unload == \E S \in SUBSET loaded : loaded' = loaded \ S /\ UNCHANGED working

Acquire(j) == loaded = {} /\ working = {} /\ working' = {j} /\ UNCHANGED loaded

Release(j) == j \in working /\ working' = working \ {j} /\ UNCHANGED loaded

Next == \/ \E m \in Models : Load(m)
        \/ Unload
        \/ \E j \in Workers : Acquire(j) \/ Release(j)

Spec == Init /\ [][Next]_vars
=============================================================================
