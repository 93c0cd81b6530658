---------------------------- MODULE MCApiListener ----------------------------
(* Small instances of ApiListener for TLC. *)
EXTENDS ApiListener
==============================================================================
