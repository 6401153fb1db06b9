------------------------------ MODULE Hashing -------------------------------
(***************************************************************************)
(* The hash of a key (algo/params.h) and the table sizes it is used with   *)
(* (inc/utils.c), on machine integers.  The specifications take the hash   *)
(* as an arbitrary function of the key; the model-checking modules give it *)
(* this value.                                                             *)
(***************************************************************************)
EXTENDS Integers, Bitwise

(* IDHASH: keep the bits of the mask, drop the lowest `bitskip' bits.      *)
IDHASH(x, mask, bitskip) == (x & mask) \div 2^bitskip

(* next_pow_2 computes 2^ceil(log2(x)): the least power of two >= x, for x >= 1. *)
NextPow2(x) == 2^(CHOOSE e \in 0 .. x : 2^e >= x /\ \A d \in 0 .. e - 1 : 2^d < x)
=============================================================================
