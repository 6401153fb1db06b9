----------------------- MODULE MCRadixPartitionSwwcb -----------------------
(***************************************************************************)
(* An instance of RadixPartitionSwwcb: lines of four tuples, the real size; *)
(* seven tuples over three threads (two, two and three), so that several   *)
(* rooms share a line and some begin and end within one; every distribution *)
(* of the tuples over two partitions.  The task begins in the middle of a  *)
(* line, behind another task.                                              *)
(***************************************************************************)
EXTENDS RadixPartitionSwwcb

MCKeys   == 0 .. Fanout - 1
MCHash   == [k \in MCKeys |-> k]
MCInputs == [Rows(N) -> MCKeys]
=============================================================================
