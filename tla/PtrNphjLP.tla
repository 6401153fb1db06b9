----------------------------- MODULE PtrNphjLP -----------------------------
(***************************************************************************)
(* ptr_nphj_lp in src/algo/ptr_nphj.c: the join of NphjLP over keys and    *)
(* row ids.                                                                *)
(*                                                                         *)
(* The entries hold keys and row ids and are claimed as in nphj.c.  What a *)
(* lookup finds is stored as a pair of row ids, and the checksum is made   *)
(* of them by the retrieving threads of RowPairs.  FilesSpec is one of the *)
(* two programs, as `file' has it.                                         *)
(***************************************************************************)
EXTENDS NphjLP, RowPairs

CONSTANT PtrRInputs     \* the contents of R that ptr_nphj.c is run with

ASSUME PtrInputAssumption == PtrRInputs \subseteq RInputs

VARIABLE file           \* "nphj" or "ptr_nphj"

ptrvars == <<file, pairvars>>

PtrInit ==
    /\ Init
    /\ r \in PtrRInputs
    /\ PairInit([p \in Probers |-> Cardinality(Share(NS, ProbeNum, p))])
-----------------------------------------------------------------------------
(***************************************************************************)
(* ptr_run_nphj_lp_buildpart: as in nphj.c, with entries of keys and row   *)
(* ids.                                                                    *)
(***************************************************************************)
PtrMemset(t)      == Memset(t)
PtrReleaseBuild   == ReleaseBuild
PtrTimer(t)       == Timer(t)
PtrStartInsert(t) == StartInsert(t)
PtrPeek(t)        == Peek(t)
PtrClaim(t)       == Claim(t)
PtrLock(t)        == Lock(t)
PtrTest(t)        == Test(t)
PtrWrite(t)       == Write(t)
PtrUnlock(t)      == Unlock(t)
PtrStore(t)       == Store(t)
PtrFinishBuild(t) == FinishBuild(t)
-----------------------------------------------------------------------------
(***************************************************************************)
(* ptr_run_nphj_lp_probejoin and ptr_probe_hashtable_nphj_lp.              *)
(***************************************************************************)
PtrSpawnProbers == SpawnProbers /\ UNCHANGED pairvars

PtrStartTuple(p) ==
    /\ StartTuple(p)
    /\ IF sidx[p] < ShareEnd(NS, ProbeNum, p)
       THEN UNCHANGED pairvars
       ELSE StoreRest(p, acc[p].matched)

PtrWalk(p) == Walk(p) /\ UNCHANGED pairvars

(* The lookup returns keys and a row id, and the caller stores the pair.   *)
PtrHit(p) ==
    /\ ppc[p] = "look"
    /\ hashkey[ppos[p]] # 0 /\ SameKey(tuples[ppos[p]], sidx[p]) /\ ~Wrapped(p)
    /\ StorePairs(p, acc[p].matched, << <<tuples[ppos[p]], sidx[p]>> >>)
    /\ acc' = [acc EXCEPT ![p].matched = @ + 1]
    /\ sidx' = [sidx EXCEPT ![p] = @ + 1]
    /\ ppc' = [ppc EXCEPT ![p] = "start"]
    /\ UNCHANGED <<inputs, table, builder, ppos, flag, fault, result>>

(* It returns NULL.  Here too the caller reads found_keyrid->row_id before *)
(* it multiplies it by 0.                                                  *)
PtrMiss(p) == Miss(p) /\ UNCHANGED pairvars

PtrReleaseProbe == ReleaseProbe /\ UNCHANGED pairvars
-----------------------------------------------------------------------------
(***************************************************************************)
(* ptr_run_nphj_lp_retrieve, and the end of ptr_nphj_lp.                   *)
(***************************************************************************)
PtrSpawnRetrievers ==
    /\ \A p \in Probers : ppc[p] = "exit"
    /\ StartRetrieve
    /\ UNCHANGED vars

PtrRetrieve(q) ==
    /\ RetrievePairs(q, [p \in Probers |-> acc[p].matched], RowidBits)
    /\ UNCHANGED vars

PtrReleaseRetrieve == ReleaseRetrieve /\ UNCHANGED vars

PtrCollect ==
    /\ result = NULL /\ Retrieved
    /\ result' = [matched  |-> MapThenSumSet(LAMBDA p : acc[p].matched, Probers),
                  checksum |-> RetrievedSum(RowidBits)]
    /\ UNCHANGED <<inputs, table, builder, prober, pairvars>>
-----------------------------------------------------------------------------
PtrBuild(t) ==
    /\ \/ PtrMemset(t) \/ PtrTimer(t) \/ PtrStartInsert(t) \/ PtrPeek(t)
       \/ PtrClaim(t) \/ PtrLock(t) \/ PtrTest(t) \/ PtrWrite(t) \/ PtrUnlock(t)
       \/ PtrStore(t) \/ PtrFinishBuild(t)
    /\ UNCHANGED pairvars

PtrProbe(p) == PtrStartTuple(p) \/ PtrWalk(p) \/ PtrHit(p) \/ PtrMiss(p)

PtrMain ==
    \/ PtrReleaseBuild /\ UNCHANGED pairvars
    \/ PtrSpawnProbers \/ PtrReleaseProbe
    \/ PtrSpawnRetrievers \/ PtrReleaseRetrieve \/ PtrCollect

(* nphj_lp knows nothing of pairs. *)
PlainInit ==
    /\ Init
    /\ PairInit([p \in Probers |-> 0]) /\ ~nontemp

FilesInit ==
    \/ file = "nphj" /\ PlainInit
    \/ file = "ptr_nphj" /\ PtrInit

(* A step of the one that runs. *)
Either(plain, ptr) ==
    /\ ~fault
    /\ \/ file = "nphj" /\ plain /\ UNCHANGED pairvars
       \/ file = "ptr_nphj" /\ ptr
    /\ UNCHANGED file

AnyBuild(t) == Either(Build(t), PtrBuild(t))
AnyProbe(p) == Either(Probe(p), PtrProbe(p))
AnyRetrieve(q) == file = "ptr_nphj" /\ PtrRetrieve(q) /\ UNCHANGED file
AnyMain == Either(Main, PtrMain)

FilesNext ==
    \/ \E t \in Builders : AnyBuild(t)
    \/ \E p \in Probers : AnyProbe(p)
    \/ \E q \in Retrievers : AnyRetrieve(q)
    \/ AnyMain
    \/ Terminated /\ UNCHANGED ptrvars

(* Every thread is scheduled while the process lives, as Fairness has it.  *)
FilesFairness ==
    /\ \A t \in Builders : WF_<<vars, ptrvars>>(AnyBuild(t))
    /\ \A p \in Probers : WF_<<vars, ptrvars>>(AnyProbe(p))
    /\ \A q \in Retrievers : WF_<<vars, ptrvars>>(AnyRetrieve(q))
    /\ WF_<<vars, ptrvars>>(AnyMain)

FilesSpec == FilesInit /\ [][FilesNext]_<<vars, ptrvars>> /\ FilesFairness
=============================================================================
