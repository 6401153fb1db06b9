------------------------------ MODULE MCNphjLP ------------------------------
(***************************************************************************)
(* Instances of NphjLP.  Four R tuples in four entries fill the table, so  *)
(* that inserts and lookups wrap around at its end; three R tuples leave   *)
(* one entry free.  With the keys drawn from 1 .. 6 up to two rows share a *)
(* home entry.  The build threads meet on the same entries.                *)
(*                                                                         *)
(* ptr_nphj.c is run with two of these contents of R.  A line of its       *)
(* buffer takes two pairs, and the two threads find one and two.           *)
(***************************************************************************)
EXTENDS PtrNphjLP, Hashing, TLC

MCKeys    == 1 .. 6
MCEntries == NextPow2(NR)
MCIdHash  == [k \in MCKeys |-> IDHASH(k, NumEntries - 1, 0)]

(* Two key sets, with two pairs of rows to an entry and with one, in every  *)
(* order the generator may shuffle them to (but for the first two rows).   *)
MCRInputs == {f \in [Rows(NR) -> MCKeys] :
                 /\ \A i, j \in Rows(NR) : f[i] = f[j] => i = j
                 /\ \E K \in {{1, 2, 5, 6}, {2, 3, 4, 6}} : \A i \in Rows(NR) : f[i] \in K
                 /\ f[0] < f[1]}

MCPtrRInputs ==
    {(0 :> 2) @@ (1 :> 6) @@ (2 :> 1) @@ (3 :> 5),
     (0 :> 4) @@ (1 :> 6) @@ (2 :> 2) @@ (3 :> 3)}

(* Foreign keys: every one has its row in R. *)
MCForeignKeys == {(0 :> 6) @@ (1 :> 2) @@ (2 :> 6)}

(* A selectivity data set: one of the keys 1 and 4 is in no row of R.      *)
MCSelectivity == {(0 :> 6) @@ (1 :> 1) @@ (2 :> 4)}

(* A compare-and-swap or a latch, with and without TEST_SELECTIVITY.       *)
MCBuilds ==
    {[lockInBucket |-> FALSE, testSelectivity |-> TRUE],
     [lockInBucket |-> TRUE, testSelectivity |-> FALSE]}
MCSelectivityBuilds == {b \in MCBuilds : b.testSelectivity}

MCAllKeys == MCForeignKeys \cup MCSelectivity
=============================================================================
