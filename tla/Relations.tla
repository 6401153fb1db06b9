------------------------------ MODULE Relations ------------------------------
(***************************************************************************)
(* The two relations of a hash join and what joining them must return.     *)
(*                                                                         *)
(* A relation is a function from row numbers 0..n-1 to keys.  The          *)
(* generators number the rows before they shuffle them; as a join only     *)
(* adds row ids up, the models number the rows where they stand, and a row *)
(* number stands for the whole tuple_t.  The drivers (nphj.c, phj.c, ...)  *)
(* reduce a join to two numbers that they print: matched_cnt and checksum, *)
(* the sum of the row ids of every matching pair in the width of rowid_t.  *)
(***************************************************************************)
EXTENDS Integers, FiniteSets, FiniteSetsExt, Functions

Rows(n) == 0 .. n - 1

(* tuple.row_id = idx + 1, as gen.c numbers the rows of R and S. *)
RowId(i) == i + 1

(* How every driver splits n items over k threads: n \div k items each, the *)
(* last thread takes the remainder as well.                                *)
ShareBegin(n, k, t) == t * (n \div k)
ShareEnd(n, k, t)   == IF t = k - 1 THEN n ELSE (t + 1) * (n \div k)
Share(n, k, t)      == ShareBegin(n, k, t) .. ShareEnd(n, k, t) - 1

(* The pairs of rows <<i, j>> with equal keys. *)
Matches(r, s) == {p \in (DOMAIN r) \X (DOMAIN s) : r[p[1]] = s[p[2]]}

(* A sum of row ids wraps around in a rowid_t of `bits' bits. *)
RowidSum(bits, pairs) == SumFunction([p \in pairs |-> RowId(p[1]) + RowId(p[2])]) % 2^bits

(* The answer of the join: the number of matching pairs and their checksum. *)
JoinAnswer(bits, r, s) ==
    [matched  |-> Cardinality(Matches(r, s)),
     checksum |-> RowidSum(bits, Matches(r, s))]
=============================================================================
