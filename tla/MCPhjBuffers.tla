---------------------------- MODULE MCPhjBuffers ----------------------------
(***************************************************************************)
(* Instances of PhjBuffers: two radix bits, one for each pass, and buffers *)
(* of two tuples, so that three tuples of a partition take two of them.    *)
(***************************************************************************)
EXTENDS PhjBuffers

MCKeys == 1 .. 8

MCBuild(f, p, s_, w, k) ==
    [file |-> f, passes |-> p, skew |-> s_, swwcb |-> w, kernel |-> k]

(* One pass, two, and two with skew handling; lp_join's table holds one    *)
(* tuple of each entry, the tables of the other kernels hold all.          *)
MCBuilds ==
    {MCBuild("phj_shr", 1, FALSE, FALSE, "hr"), MCBuild("phj_shr", 2, FALSE, TRUE, "lp"),
     MCBuild("phj_shr", 2, TRUE, FALSE, "lp"),
     MCBuild("phj_ind", 1, FALSE, TRUE, "lp"), MCBuild("phj_ind", 2, FALSE, FALSE, "hr"),
     MCBuild("phj_ind", 2, TRUE, FALSE, "lp"), MCBuild("phj_ind", 2, TRUE, TRUE, "hr")}

MCRInputs == {<<2, 4, 6, 1>>}
MCSInputs == {<<2, 6, 4, 1>>, <<2, 6, 2, 1>>}

Zeroed(f, n) == [i \in Rows(n) |-> f[i + 1]]
MCR == {Zeroed(f, NR) : f \in MCRInputs}
MCS == {Zeroed(f, NS) : f \in MCSInputs}
=============================================================================
