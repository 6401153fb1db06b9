-------------------------------- MODULE MCPhj --------------------------------
(***************************************************************************)
(* An instance of Phj: three radix bits, which two passes split into one   *)
(* and two.  The keys of R are unique, as the generators make them, and    *)
(* those of S are theirs, in the input with four tuples in a partition.    *)
(***************************************************************************)
EXTENDS Phj

MCKeys == 1 .. 10

MCBuild(p, s_, w, k) ==
    [file |-> "phj", passes |-> p, skew |-> s_, swwcb |-> w, kernel |-> k]

(* One pass, two, and two with skew handling, with each of the kernels.    *)
MCBuilds ==
    {MCBuild(1, FALSE, TRUE, "bc"), MCBuild(2, FALSE, FALSE, "lp"),
     MCBuild(2, FALSE, TRUE, "hr"), MCBuild(2, TRUE, TRUE, "bc"),
     MCBuild(2, TRUE, FALSE, "sc"), MCBuild(2, TRUE, TRUE, "hro")}

(* Even partitions; one first-pass partition with all but one tuple, two   *)
(* and three of which share their second-pass partition; nothing in common *)
(* between the first bits of the two relations' partitions but one.        *)
MCRInputs == {<<1, 2, 3, 4, 6>>, <<2, 10, 4, 6, 5>>, <<8, 1, 9, 4, 3>>}
MCSInputs == {<<2, 2, 10, 6, 4>>, <<3, 9, 1, 1, 8>>}

Zeroed(f, n) == [i \in Rows(n) |-> f[i + 1]]
MCR == {Zeroed(f, NR) : f \in MCRInputs}
MCS == {Zeroed(f, NS) : f \in MCSInputs}
=============================================================================
