--------------------------- MODULE MCModelSnapshots ---------------------------
(* A small instance of ModelSnapshots for TLC. *)
EXTENDS ModelSnapshots, TLC

CONSTANTS f1, f2, f3, c1, c2, c3, c4

\* The second revision changes a file, retires one and adds one.
MCPublished == ("r1" :> (f1 :> c1 @@ f2 :> c2)) @@ ("r2" :> (f1 :> c3 @@ f3 :> c4))
MCFileOrder == <<f1, f2, f3>>
===============================================================================
