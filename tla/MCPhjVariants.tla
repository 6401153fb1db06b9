--------------------------- MODULE MCPhjVariants ---------------------------
(***************************************************************************)
(* Instances of PhjVariants.  In the first, three build threads, of which  *)
(* one or two write, so that a thread writes the share of another one and  *)
(* a task may be counted by one thread and written by another.             *)
(***************************************************************************)
EXTENDS PhjVariants

MCKeys == 1 .. 10

MCBuild(f, s_, w, k) == [file |-> f, passes |-> 2, skew |-> s_, swwcb |-> w, kernel |-> k,
                         nontemp |-> k \in {"lp", "sc"}]

(* Each kernel of each file, with and without skew handling and buffers,   *)
(* but both together in ptr_phj_bw_reg.c, which loses tuples then.         *)
MCSkewed ==
    {MCBuild("eth", FALSE, FALSE, "bc"), MCBuild("eth", TRUE, TRUE, "hr"),
     MCBuild("eth", TRUE, FALSE, "hro"),
     MCBuild("phj_asymm_radix", TRUE, TRUE, "bc"),
     MCBuild("phj_asymm_radix", TRUE, FALSE, "sc"),
     MCBuild("phj_asymm_radix", FALSE, FALSE, "hr"),
     MCBuild("phj_asymm_radix", FALSE, TRUE, "hro"),
     MCBuild("phj_bw_reg", FALSE, TRUE, "bc"), MCBuild("phj_bw_reg", FALSE, FALSE, "lp"),
     MCBuild("phj_bw_reg", TRUE, TRUE, "sc"), MCBuild("phj_bw_reg", TRUE, FALSE, "hr"),
     MCBuild("phj_bw_reg", TRUE, FALSE, "hro"),
     MCBuild("phj_asymm_radix_bw_reg", FALSE, TRUE, "bc"),
     MCBuild("phj_asymm_radix_bw_reg", TRUE, FALSE, "sc"),
     MCBuild("phj_asymm_radix_bw_reg", TRUE, TRUE, "hr"),
     MCBuild("phj_asymm_radix_bw_reg", TRUE, FALSE, "hro"),
     MCBuild("ptr_phj", FALSE, TRUE, "bc"), MCBuild("ptr_phj", TRUE, TRUE, "lp"),
     MCBuild("ptr_phj", TRUE, FALSE, "sc"), MCBuild("ptr_phj", FALSE, FALSE, "hr"),
     MCBuild("ptr_phj_bw_reg", FALSE, TRUE, "bc"),
     MCBuild("ptr_phj_bw_reg", TRUE, FALSE, "lp"),
     MCBuild("ptr_phj_bw_reg", TRUE, FALSE, "sc"),
     MCBuild("ptr_phj_bw_reg", TRUE, FALSE, "hr")}

(* ... and of the files for keys that are spread evenly.                   *)
MCUniform ==
    {MCBuild("phj_shr_uni", FALSE, FALSE, "bc"),
     MCBuild("phj_ind_uni", FALSE, TRUE, "bc"), MCBuild("phj_ind_uni", FALSE, FALSE, "lp")}
MCUniformSkew ==
    {MCBuild("phj_shr_uni", TRUE, TRUE, "hro"),
     MCBuild("phj_ind_uni", TRUE, FALSE, "sc"), MCBuild("phj_ind_uni", TRUE, TRUE, "hr")}

MCBuilds == MCSkewed \cup MCUniform \cup MCUniformSkew

Zeroed(f, n) == [i \in Rows(n) |-> f[i + 1]]

(* Partitions on both sides of the thresholds; even ones that rooms of a   *)
(* fixed size hold, without and with one above the first threshold.        *)
MCDatum(b, x, y) == [builds |-> b, r |-> {Zeroed(x, NR)}, s |-> {Zeroed(y, NS)}]

MCData ==
    {MCDatum(MCSkewed, <<2, 10, 4, 6, 5>>, <<2, 2, 10, 6, 5>>),
     MCDatum(MCUniform, <<2, 10, 1, 3, 5>>, <<1, 3, 2, 2, 10>>),
     MCDatum(MCUniformSkew, <<2, 10, 1, 3, 5>>, <<1, 2, 2, 10, 4>>)}

MCR == UNION {d.r : d \in MCData}
MCS == UNION {d.s : d \in MCData}
-----------------------------------------------------------------------------
(***************************************************************************)
(* ptr_phj.c with uniform keys and one partner for each tuple of S, in as  *)
(* many tuples as make the share and a fifth of a thread less than all     *)
(* of S.                                                                   *)
(***************************************************************************)
MaterKeys   == 1 .. 4
MaterBuilds == {[file |-> "ptr_phj", passes |-> 1, skew |-> FALSE, swwcb |-> FALSE,
                 kernel |-> "bc", nontemp |-> FALSE]}
MaterR == {[i \in Rows(NR) |-> i + 1]}
MaterS == {[i \in Rows(NS) |-> 1 + (i % 4)]}

MaterData == {[builds |-> MaterBuilds, r |-> MaterR, s |-> MaterS]}
-----------------------------------------------------------------------------
(***************************************************************************)
(* ptr_phj_bw_reg.c with one partition that is put aside, and a thread     *)
(* that copies the share of another one.                                   *)
(***************************************************************************)
SwwcbKeys   == {2, 4, 6, 8}
SwwcbBuilds == {[file |-> "ptr_phj_bw_reg", passes |-> 2, skew |-> TRUE, swwcb |-> TRUE,
                 kernel |-> "bc", nontemp |-> FALSE]}
SwwcbR == {[i \in Rows(NR) |-> 2 * (i + 1)]}

SwwcbData == {[builds |-> SwwcbBuilds, r |-> SwwcbR, s |-> SwwcbR]}
=============================================================================
