-------------------------- MODULE MCRadixPartition --------------------------
(***************************************************************************)
(* Instances of RadixPartition.  Five tuples over three threads make       *)
(* shares of 1, 1 and 3; every distribution of the tuples over the three   *)
(* partitions is considered, empty partitions included.                    *)
(***************************************************************************)
EXTENDS RadixPartition

MCKeys   == 0 .. Fanout - 1
MCHash   == [k \in MCKeys |-> k]
MCInputs == [Rows(N) -> MCKeys]
=============================================================================
