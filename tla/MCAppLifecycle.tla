---------------------------- MODULE MCAppLifecycle ----------------------------
(* Small instances of AppLifecycle for TLC. *)
EXTENDS AppLifecycle, TLC

\* Start commands, stop commands, requests and jobs are interchangeable.
MCSymmetry == Permutations(Starts) \cup Permutations(Stoppers)
                  \cup Permutations(Requests) \cup Permutations(Jobs)
==============================================================================
