------------------------------ MODULE PairSpec ------------------------------
(***************************************************************************)
(* What a partitioned hash join promises.  There is no table of all of R   *)
(* here, so the promise is about the pairs: they are found in portions,    *)
(* none is forgotten again, and what is printed is the answer of the join, *)
(* when all are found.                                                     *)
(***************************************************************************)
EXTENDS Relations

CONSTANTS RInputs, SInputs, RowidBits, NULL

VARIABLES r, s,   \* the relations
          found,  \* the matching pairs that have been found
          answer  \* what is printed, NULL before

PairInit ==
    /\ r \in RInputs /\ s \in SInputs
    /\ found = {}
    /\ answer = NULL

Find ==
    /\ found \subseteq found' /\ found' \subseteq Matches(r, s)
    /\ UNCHANGED <<r, s, answer>>

Answer ==
    /\ found = Matches(r, s)
    /\ answer = NULL
    /\ answer' = JoinAnswer(RowidBits, r, s)
    /\ UNCHANGED <<r, s, found>>

PairBehaviour == PairInit /\ [][Find \/ Answer]_<<r, s, found, answer>>
=============================================================================
