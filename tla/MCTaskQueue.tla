---------------------------- MODULE MCTaskQueue ----------------------------
(***************************************************************************)
(* An instance of TaskQueue: three threads add one task each in the second *)
(* pass, and thread 0 adds another one behind the barrier, for a large     *)
(* partition.  With blocks of two task_t the allocator needs a second      *)
(* block, in whichever thread's turn the first one is used up.             *)
(***************************************************************************)
EXTENDS TaskQueue

MCAddNum == [t \in Threads |-> 1]
=============================================================================
