---------------------------- MODULE MCJoinKernels ----------------------------
(***************************************************************************)
(* An instance of JoinKernels: two tasks, the first of which fills tables  *)
(* that the second then finds in its memory.                               *)
(***************************************************************************)
EXTENDS JoinKernels

AllKernels == {"bc", "lp", "sc", "hr", "hro"}

(* The key of hash h in the partition with one radix bit, 1. *)
KeyOfHash(h) == 2 * h + 1
Relation(hashes) == [j \in Rows(Len(hashes)) |-> KeyOfHash(hashes[j + 1])]

(* One to five rows: apart, in one chain, in the end of a full table.      *)
MCRHashes == {<<0>>, <<1, 3>>, <<0, 1, 3>>, <<0, 4, 8>>, <<3, 7, 2, 11>>, <<1, 2, 3, 0>>,
              <<3, 11, 19, 27, 35>>, <<0, 8, 7, 15, 16>>}

(* Lookups of keys that are there and, mostly, of one that is not. *)
MCSHashes == {<<3, 3, 0>>, <<1, 8, 4, 0>>, <<7, 3, 5, 2, 11>>}

First == [r |-> Relation(<<3, 7, 11, 15, 0>>), s |-> Relation(<<0>>)]
MCInputs == {<<[r |-> Relation(rh), s |-> Relation(sh)]>> : rh \in MCRHashes, sh \in MCSHashes}
MCTasks == {<<First>> \o q : q \in MCInputs} \cup MCInputs

(* Up to 8, the memory is as tight as it can be; 9 is what hro_join needs. *)
MCMaxBuilds == {2, 4, 5, 9}
=============================================================================
