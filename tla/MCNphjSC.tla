------------------------------ MODULE MCNphjSC ------------------------------
(***************************************************************************)
(* Instances of NphjSC.  Five R tuples over two head buckets: with two     *)
(* slots to a bucket and all keys odd one chain takes a head and two       *)
(* overflow buckets, and an overflow buffer of one bucket makes a thread   *)
(* chain a second buffer.  The two build threads get shares of 2 and 3.    *)
(* Keys 1 and 3 share a bucket; the last row only may have key 3, which is *)
(* enough to tell equal keys from equal hashes.  S holds every key, one of *)
(* them twice, and a key R never has.                                      *)
(*                                                                         *)
(* ptr_nphj.c is run with unique keys: with all of them odd, and with two  *)
(* chains.  A line of the buffer takes two pairs, and the two threads find *)
(* 0 to 2 and 1 to 3 pairs.                                                *)
(***************************************************************************)
EXTENDS PtrNphjSC, Hashing, TLC

MCKeys    == {1, 2, 3, 4, 5, 7, 9}
MCIdHash  == [k \in MCKeys |-> IDHASH(k, NumBuckets - 1, 0)]
MCPlainRInputs == {f \in [Rows(NR) -> {1, 2, 3}] : \A i \in Rows(NR - 1) : f[i] # 3}
MCPtrRInputs ==
    {(0 :> 1) @@ (1 :> 3) @@ (2 :> 5) @@ (3 :> 7) @@ (4 :> 9),
     (0 :> 3) @@ (1 :> 5) @@ (2 :> 1) @@ (3 :> 4) @@ (4 :> 2),
     (0 :> 5) @@ (1 :> 2) @@ (2 :> 7) @@ (3 :> 4) @@ (4 :> 3)}
MCRInputs == MCPlainRInputs \cup MCPtrRInputs
MCSInputs == {(0 :> 3) @@ (1 :> 1) @@ (2 :> 4) @@ (3 :> 2) @@ (4 :> 3)}
=============================================================================
