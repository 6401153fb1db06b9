------------------------------ MODULE JoinSpec ------------------------------
(***************************************************************************)
(* What a hash join that builds a table promises, whatever its table looks *)
(* like and however many threads work on it: every row of R enters the     *)
(* table once and stays, nothing else does, and the answer that is         *)
(* eventually printed is the answer of the join.                           *)
(***************************************************************************)
EXTENDS Relations

CONSTANTS NR, RInputs, SInputs, RowidBits, NULL

VARIABLES r, s,     \* the relations
          inserted, \* the R rows in the table
          answer    \* what is printed, NULL before

JoinInit ==
    /\ r \in RInputs /\ s \in SInputs
    /\ inserted = {}
    /\ answer = NULL

Insert ==
    /\ \E i \in Rows(NR) \ inserted : inserted' = inserted \cup {i}
    /\ UNCHANGED <<r, s, answer>>

Answer ==
    /\ inserted = Rows(NR)
    /\ answer = NULL
    /\ answer' = JoinAnswer(RowidBits, r, s)
    /\ UNCHANGED <<r, s, inserted>>

JoinNext == Insert \/ Answer

JoinBehaviour == JoinInit /\ [][JoinNext]_<<r, s, inserted, answer>>
=============================================================================
