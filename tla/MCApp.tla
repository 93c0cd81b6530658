-------------------------------- MODULE MCApp --------------------------------
(* One instance of AppLifecycle in three scenes: beside its two starts a       *)
(* behaviour has two resource jobs, or one job and an unload, or it closes the *)
(* application.                                                                *)
EXTENDS MCAppLifecycle

\* The scene of a behaviour, chosen in its initial state: a bound.
VARIABLE scene

AtWork == {j \in Jobs : job[j] # [pc |-> "idle", kind |-> "exclusive"]}

MCSpec ==
    /\ scene \in {"jobs", "unloads", "exits"}
    /\ AppInit
    /\ [][/\ AppNext /\ UNCHANGED scene
          /\ scene = "exits" => UNCHANGED job
          /\ scene # "exits" => UNCHANGED exit
          /\ scene = "unloads" => Cardinality(AtWork') <= 1 /\ UNCHANGED jobCancel
          /\ scene # "unloads" => UNCHANGED stop]_<<allVars, scene>>
==============================================================================
