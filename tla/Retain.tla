------------------------------- MODULE Retain -------------------------------
(***************************************************************************)
(* What Vec::retain and VecDeque::retain keep of a list.  Written as a     *)
(* recursive function, so that proofs can reason about it.                 *)
(***************************************************************************)
LOCAL INSTANCE Naturals
LOCAL INSTANCE Sequences

\* The elements of s that are in S, in their order.
Retain(s, S) ==
    LET kept[n \in 0..Len(s)] ==
            IF n = 0 THEN << >>
            ELSE IF s[n] \in S THEN Append(kept[n - 1], s[n]) ELSE kept[n - 1]
    IN  kept[Len(s)]
=============================================================================
