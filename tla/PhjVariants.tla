---------------------------- MODULE PhjVariants ----------------------------
(***************************************************************************)
(* The variants of the partitioned hash join that keep its framework of    *)
(* rooms, tasks and barriers, each in a file and a build of its own:       *)
(* eth.c, phj_asymm_radix.c, phj_bw_reg.c, phj_asymm_radix_bw_reg.c,       *)
(* ptr_phj.c, ptr_phj_bw_reg.c, phj_shr_uni.c and phj_ind_uni.c.           *)
(***************************************************************************)
EXTENDS PhjEth, PhjAsymm, PhjAsymmBwReg, PtrPhjBwReg, PhjShrUni, PhjIndUni

CONSTANT Data            \* which data files each build runs with: [builds, r, s]

ASSUME DataAssumption ==
    \A d \in Data : d.builds \subseteq Builds /\ d.r \subseteq RInputs /\ d.s \subseteq SInputs

others == <<bwvars, ptrvars>>
vvars  == <<vars, others>>

VLoad ==
    \/ EthLoad /\ EthPool /\ BwFresh /\ PtrFresh
    \/ AsymmLoad /\ AsymmPool /\ BwFresh /\ PtrFresh
    \/ BwLoad /\ BwPool /\ BwFresh /\ PtrFresh
    \/ AsymmBwLoad /\ AsymmBwPool /\ AsymmBwFresh /\ PtrFresh
    \/ PtrLoad("ptr_phj") /\ PtrPool /\ BwFresh /\ PtrFresh
    \/ PtrBwLoad /\ PtrBwPool /\ BwFresh /\ PtrFresh
    \/ ShrUniLoad /\ ShrUniPool /\ BwFresh /\ PtrFresh
    \/ IndUniLoad /\ IndUniPool /\ BwFresh /\ PtrFresh

VInit == VLoad /\ \E d \in Data : build \in d.builds /\ r \in d.r /\ s \in d.s

VBuildpart(t) ==
    \/ build.file = "eth" /\ EthBuildpart(t) /\ UNCHANGED others
    \/ build.file = "phj_asymm_radix" /\ AsymmBuildpart(t) /\ UNCHANGED others
    \/ build.file = "phj_bw_reg" /\ BwBuildpart(t) /\ UNCHANGED ptrvars
    \/ build.file = "phj_asymm_radix_bw_reg" /\ AsymmBwBuildpart(t) /\ UNCHANGED ptrvars
    \/ build.file = "ptr_phj" /\ PtrBuildpart(t) /\ UNCHANGED bwvars
    \/ build.file = "ptr_phj_bw_reg" /\ PtrBwBuildpart(t)
    \/ build.file = "phj_shr_uni" /\ ShrUniBuildpart(t) /\ UNCHANGED others
    \/ build.file = "phj_ind_uni" /\ IndUniBuildpart(t) /\ UNCHANGED others

VProbejoin(p) ==
    \/ build.file = "eth" /\ EthProbejoin(p) /\ UNCHANGED others
    \/ build.file = "phj_asymm_radix" /\ AsymmProbejoin(p) /\ UNCHANGED others
    \/ build.file = "phj_bw_reg" /\ BwProbejoin(p) /\ UNCHANGED ptrvars
    \/ build.file = "phj_asymm_radix_bw_reg" /\ AsymmBwProbejoin(p) /\ UNCHANGED ptrvars
    \/ build.file = "ptr_phj" /\ PtrProbejoin(p) /\ UNCHANGED bwvars
    \/ build.file = "ptr_phj_bw_reg" /\ PtrBwProbejoin(p)
    \/ build.file = "phj_shr_uni" /\ ShrUniProbejoin(p) /\ UNCHANGED others
    \/ build.file = "phj_ind_uni" /\ IndUniProbejoin(p) /\ UNCHANGED others

VRetrieve(q) ==
    \/ build.file = "ptr_phj" /\ PtrRetrieve(q) /\ UNCHANGED bwvars
    \/ build.file = "ptr_phj_bw_reg" /\ PtrBwRetrieve(q)

VMain ==
    \/ build.file = "eth" /\ EthMain /\ UNCHANGED others
    \/ build.file = "phj_asymm_radix" /\ AsymmMain /\ UNCHANGED others
    \/ build.file = "phj_bw_reg" /\ BwMain /\ UNCHANGED ptrvars
    \/ build.file = "phj_asymm_radix_bw_reg" /\ AsymmBwMain /\ UNCHANGED ptrvars
    \/ build.file = "ptr_phj" /\ PtrMain /\ UNCHANGED bwvars
    \/ build.file = "ptr_phj_bw_reg" /\ PtrBwMain
    \/ build.file = "phj_shr_uni" /\ ShrUniMain /\ UNCHANGED others
    \/ build.file = "phj_ind_uni" /\ IndUniMain /\ UNCHANGED others

VNext == \/ \E t \in Builders : VBuildpart(t)
         \/ \E p \in Probers : VProbejoin(p)
         \/ \E q \in Retrievers : VRetrieve(q)
         \/ VMain
         \/ Terminated /\ UNCHANGED others

VSpec == VInit /\ [][VNext]_vvars

(* As long as some thread can go on, one does: the scheduler need not even *)
(* be fair to each of them, since those that have nothing to do wait.      *)
VFairSpec == VSpec /\ WF_vvars(VNext)
-----------------------------------------------------------------------------
(***************************************************************************)
(* Properties.                                                             *)
(***************************************************************************)

(* Tasks on their way through the two halves of a regulated second pass.   *)
VOutstanding ==
    Outstanding
        @@ [h \in {"mid"} \X DOMAIN mid_queue |-> TaskPairs(mid_queue[h[2]].task)]
        @@ [h \in {"between"} \X {t \in Builders : pc[t] \in {"claim", "count2", "defer"}} |->
                TaskPairs(task[h[2]])]

(* PairsConserved of Phj, for the variants: neither a task that is handed  *)
(* to another thread in the middle of its partitioning nor an S room that  *)
(* is in several tasks loses or doubles a pair (phj_bw_reg.c:687-707,      *)
(* phj_asymm_radix.c:464-487).                                             *)
VPairsConserved ==
    LET left == VOutstanding
        sum  == MapThenSumSet(LAMBDA h : Cardinality(left[h]), DOMAIN left)
    IN  Made =>
            /\ sum = Cardinality(UNION Range(left))
            /\ sum + MapThenSumSet(LAMBDA p : acc[p].matched, Probers)
                   = Cardinality(Matches(r, s))

(* Tables have room for the R partition of each task; eth.c allocates them *)
(* when it knows it (phj_bw_reg.c:680, 1586, 1904-1919).                   *)
VIntermediateFits == build.file # "eth" => IntermediateFits

(* A task that a thread hands on goes with the histograms of its rooms, in *)
(* a slot of its own, until a writer has made its join tasks: nobody else  *)
(* counts into them, and nobody has counted twice (phj_bw_reg.c:623-626,   *)
(* 696-697).                                                               *)
HistogramsCurrent ==
    LET handed == {<<mid_queue[i].task, mid_queue[i].slot>> : i \in DOMAIN mid_queue}
                      \cup {<<task[t], slot[t]>> :
                               t \in {u \in Builders : pc[u] \in {"defer", "cluster"}}}
    IN  build.file \in {"phj_bw_reg", "phj_asymm_radix_bw_reg", "ptr_phj_bw_reg"} =>
            \A h \in handed :
                /\ \A g \in handed : g[2] = h[2] => g = h
                /\ \A X \in SecondRels, p \in 0 .. Fanout2 - 1 :
                       hist2[h[2]][X][p] = CountIn(X, h[1][X], Fanout2, Skip, p)

(* Each variant implements the abstract join, too. *)
VPromise == INSTANCE PairSpec WITH
    found  <- IF Made THEN Matches(r, s) \ UNION Range(VOutstanding) ELSE {},
    answer <- result

VRefinesPairs == VPromise!PairBehaviour

(* The barriers are in balance for threads that write and those that only  *)
(* count: the join ends (phj_bw_reg.c:438, 469, 1570).                     *)
VTermination == <>(result # NULL)
=============================================================================
