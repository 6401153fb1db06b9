------------------------------- MODULE Pointers -------------------------------
(***************************************************************************)
(* Following pointers: what a list looks like from its first node.         *)
(***************************************************************************)
EXTENDS Integers

(* The node at each of n steps from the first one, null once the list ends. *)
Follow(first, next, null, n) ==
    LET at[k \in 0 .. n] ==
            IF k = 0 THEN first
            ELSE IF at[k - 1] = null THEN null ELSE next[at[k - 1]]
    IN  at
=============================================================================
