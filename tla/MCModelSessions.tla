---------------------------- MODULE MCModelSessions ---------------------------
(* Small instances of ModelSessions for TLC. *)
EXTENDS ModelSessions, TLC

\* Start commands, stop commands, requests and chat turns are interchangeable.
MCSymmetry == Permutations(Starts) \cup Permutations(Stoppers)
                  \cup Permutations(Requests) \cup Permutations(Chats)

\* The same for two starts where liveness rules out symmetry: s1 is issued first.
CONSTANTS s1, s2
MCIssuedInOrder == pc[s1] = "idle" => pc[s2] = "idle"
===============================================================================
