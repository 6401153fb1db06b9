----------------------------- MODULE PtrNphjSC -----------------------------
(***************************************************************************)
(* ptr_nphj_sc in src/algo/ptr_nphj.c: the join of NphjSC over keys and    *)
(* row ids.                                                                *)
(*                                                                         *)
(* The table holds keys and row ids and is built as in nphj.c.  What a     *)
(* probe thread finds it stores as pairs of row ids, and the checksum is   *)
(* made of them by the retrieving threads of RowPairs.  FilesSpec is one   *)
(* of the two programs, as `file' has it.                                  *)
(***************************************************************************)
EXTENDS NphjSC, RowPairs

CONSTANT PtrRInputs     \* the contents of R that ptr_nphj.c is run with

(* A primary key in R: the room for pairs relies on it. *)
ASSUME PtrInputAssumption ==
    PtrRInputs \subseteq {f \in RInputs : \A i, j \in Rows(NR) : f[i] = f[j] => i = j}

VARIABLE file           \* "nphj" or "ptr_nphj"

ptrvars == <<file, pairvars>>

PtrInit ==
    /\ Init
    /\ r \in PtrRInputs
    /\ PairInit([p \in Probers |-> Cardinality(Share(NS, ProbeNum, p))])
-----------------------------------------------------------------------------
(***************************************************************************)
(* ptr_run_nphj_sc_buildpart: as in nphj.c, with buckets of keys and row   *)
(* ids.                                                                    *)
(***************************************************************************)
PtrMemset(t)      == Memset(t)
PtrReleaseBuild   == ReleaseBuild
PtrTimer(t)       == Timer(t)
PtrLock(t)        == Lock(t)
PtrNewBucket(t)   == NewBucket(t)
PtrInspect(t)     == Inspect(t)
PtrUpdate(t)      == Update(t)
PtrUnlock(t)      == Unlock(t)
PtrStore(t)       == Store(t)
PtrFinishBuild(t) == FinishBuild(t)
-----------------------------------------------------------------------------
(***************************************************************************)
(* ptr_run_nphj_sc_probejoin and ptr_probe_hashtable_nphj_sc.              *)
(***************************************************************************)
PtrSpawnProbers == SpawnProbers /\ UNCHANGED pairvars

PtrStartTuple(p) ==
    /\ StartTuple(p)
    /\ IF sidx[p] < ShareEnd(NS, ProbeNum, p)
       THEN UNCHANGED pairvars
       ELSE StoreRest(p, acc[p].matched)

(* The pairs that bucket b holds for S row j, in the order of its slots. *)
PairsIn(b, j) ==
    LET hits == SetToSortSeq({x[2] : x \in FoundIn(b, j)}, <)
    IN  [k \in DOMAIN hits |-> <<tuples[<<b, hits[k]>>], j>>]

(* Compare one bucket, store the pairs, and follow its overflow pointer.   *)
PtrScan(p) ==
    /\ ppc[p] = "scan"
    /\ LET pairs == PairsIn(bkt[p], sidx[p])
       IN  /\ StorePairs(p, acc[p].matched, pairs)
           /\ acc' = [acc EXCEPT ![p].matched = @ + Len(pairs)]
    /\ bkt' = [bkt EXCEPT ![p] = next[bkt[p]]]
    /\ IF next[bkt[p]] = NULL
       THEN /\ sidx' = [sidx EXCEPT ![p] = @ + 1]
            /\ ppc' = [ppc EXCEPT ![p] = "start"]
       ELSE UNCHANGED <<sidx, ppc>>
    /\ UNCHANGED <<inputs, table, builder, result>>

PtrReleaseProbe == ReleaseProbe /\ UNCHANGED pairvars
-----------------------------------------------------------------------------
(***************************************************************************)
(* ptr_run_nphj_sc_retrieve, and the end of ptr_nphj_sc.                   *)
(***************************************************************************)
PtrSpawnRetrievers ==
    /\ \A p \in Probers : ppc[p] = "exit"
    /\ StartRetrieve
    /\ UNCHANGED vars

PtrRetrieve(q) ==
    /\ RetrievePairs(q, [p \in Probers |-> acc[p].matched], RowidBits)
    /\ UNCHANGED vars

PtrReleaseRetrieve == ReleaseRetrieve /\ UNCHANGED vars

PtrCollect ==
    /\ result = NULL /\ Retrieved
    /\ result' = [matched  |-> MapThenSumSet(LAMBDA p : acc[p].matched, Probers),
                  checksum |-> RetrievedSum(RowidBits)]
    /\ UNCHANGED <<inputs, table, builder, prober, pairvars>>
-----------------------------------------------------------------------------
PtrBuild(t) ==
    /\ \/ PtrMemset(t) \/ PtrTimer(t) \/ PtrLock(t) \/ PtrInspect(t)
       \/ PtrUpdate(t) \/ PtrUnlock(t) \/ PtrStore(t) \/ PtrFinishBuild(t)
    /\ UNCHANGED pairvars

PtrProbe(p) == PtrStartTuple(p) \/ PtrScan(p)

PtrMain ==
    \/ PtrReleaseBuild /\ UNCHANGED pairvars
    \/ PtrSpawnProbers \/ PtrReleaseProbe
    \/ PtrSpawnRetrievers \/ PtrReleaseRetrieve \/ PtrCollect

(* nphj_sc knows nothing of pairs. *)
PlainInit ==
    /\ Init
    /\ PairInit([p \in Probers |-> 0]) /\ ~nontemp

FilesInit ==
    \/ file = "nphj" /\ PlainInit
    \/ file = "ptr_nphj" /\ PtrInit

(* A step of the one that runs. *)
Either(plain, ptr) ==
    /\ \/ file = "nphj" /\ plain /\ UNCHANGED pairvars
       \/ file = "ptr_nphj" /\ ptr
    /\ UNCHANGED file

AnyBuild(t) == Either(Build(t), PtrBuild(t))
AnyProbe(p) == Either(Probe(p), PtrProbe(p))
AnyRetrieve(q) == file = "ptr_nphj" /\ PtrRetrieve(q) /\ UNCHANGED file
AnyMain == Either(Main, PtrMain)

FilesNext ==
    \/ \E t \in Builders : AnyBuild(t)
    \/ \E p \in Probers : AnyProbe(p)
    \/ \E q \in Retrievers : AnyRetrieve(q)
    \/ AnyMain
    \/ Terminated /\ UNCHANGED ptrvars

(* Every thread is scheduled, as Fairness has it. *)
FilesFairness ==
    /\ \A t \in Builders : WF_<<vars, ptrvars>>(AnyBuild(t))
    /\ \A p \in Probers : WF_<<vars, ptrvars>>(AnyProbe(p))
    /\ \A q \in Retrievers : WF_<<vars, ptrvars>>(AnyRetrieve(q))
    /\ WF_<<vars, ptrvars>>(AnyMain)

FilesSpec == FilesInit /\ [][FilesNext]_<<vars, ptrvars>> /\ FilesFairness
=============================================================================
