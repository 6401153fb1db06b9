---------------------------- MODULE PtrPhjBwReg ----------------------------
(***************************************************************************)
(* ptr_phj_bw_reg.c: the join over keys and row ids with regulated         *)
(* bandwidth.  What it writes are the arrays of ptr_phj.c, who writes them *)
(* is as in phj_bw_reg.c, and the kernels and the retrieving threads are   *)
(* those of ptr_phj.c.  As in that file, the first pass and skew handling  *)
(* have their own copies of the two ways to partition; that of the skew    *)
(* handling which uses write-combining buffers differs.                    *)
(***************************************************************************)
EXTENDS PtrPhj, PhjBwReg

PtrBwLoad == PtrLoad("ptr_phj_bw_reg")
PtrBwPool == PtrPool

PtrBwRelease == BwRelease
-----------------------------------------------------------------------------
(***************************************************************************)
(* The first pass, from the tuples to the keys and row ids.                *)
(***************************************************************************)
PtrBwMemset(t) == PtrMemset(t) /\ UNCHANGED bwvars
PtrBwZero(t)   == BwZero(t)

PtrBwCountFirst(t, X)      == part[t] = "first" /\ BwCount(t, X)
PtrBwSumFirst(t, X)        == part[t] = "first" /\ BwSum(t, X)
PtrBwScatterFirst(t, X)    == part[t] = "first" /\ BwScatter(t, X)
PtrBwStoreLinesFirst(t, X) == part[t] = "first" /\ BwStoreLines(t, X)
PtrBwStoreRestsFirst(t, X) == part[t] = "first" /\ BwStoreRests(t, X)
PtrBwStandByFirst(t, X)    == part[t] = "first" /\ BwStandBy(t, X)

PtrBwPartTask(t, total, p) == BwPartTask(t, total, p)
PtrBwFirstTasks(t) == [i \in 1 .. Fanout1 |-> PtrBwPartTask(t, Size, i - 1)]

PtrBwMakeTasks(t) ==
    /\ pc[t] = "tasks"
    /\ \/ /\ t = 0
          /\ PtrAddTasks(PtrBwFirstTasks(t))
          /\ lmax' = [lmax EXCEPT ![t] = Largest(@, PtrParts(PtrBwFirstTasks(t)))]
       \/ t # 0 /\ UNCHANGED <<skew_queue, part_queue, lmax>>
    /\ Goto(t, "queued")
    /\ UNCHANGED <<inputs, mem, join_queue, hist, skewtask, maxBuild, part, task, next,
                   prober, bwvars>>
-----------------------------------------------------------------------------
(***************************************************************************)
(* The second pass.                                                        *)
(***************************************************************************)
PtrBwStartSecondPass(t) == BwStartSecondPass(t)
PtrBwPopPart(t)         == BwPopPart(t)
PtrBwClaim(t)           == BwClaim(t)
PtrBwCount2(t)          == BwCount2(t)
PtrBwDefer(t)           == BwDefer(t)
PtrBwCluster(t)         == BwCluster(t)
PtrBwEmit(t)            == BwEmit(t)
PtrBwPopMid(t)          == BwPopMid(t)
PtrBwShareMax(t)        == BwShareMax(t)
-----------------------------------------------------------------------------
(***************************************************************************)
(* Skew handling.                                                          *)
(***************************************************************************)
PtrBwFetchSkew(t) == BwFetchSkew(t)
PtrBwLook(t)      == BwLook(t)
PtrBwZeroSkew(t)  == BwZeroSkew(t)

PtrBwCountFollowing(t, X)   == part[t] = "skew" /\ BwCount(t, X)
PtrBwSumFollowing(t, X)     == part[t] = "skew" /\ BwSum(t, X)
PtrBwScatterFollowing(t, X) == part[t] = "skew" /\ BwScatter(t, X)
PtrBwStandByFollowing(t, X) == part[t] = "skew" /\ BwStandBy(t, X)

(* A writer takes the hash values of the share of thread u, but copies the *)
(* k-th tuple of its own share, &rel.keyrids[idx], for the k-th of those.  *)
Copied(t, u, X) ==
    LET room == BwSource(t, u, X)
        nth(i) == CHOOSE k \in Places(X, room) : At(X, room, k) = i
    IN  {[m EXCEPT !.tuple = At(X, BwSource(t, t, X), nth(@))] :
            m \in Moves(X, room, BwStarts(t, u, X), Fanout(t), SkipOf(t))}

PtrBwStoreLinesFollowing(t, X) ==
    /\ part[t] = "skew"
    /\ pc[t] = [R |-> "scatterR", S |-> "scatterS"][X] /\ t \in Writers /\ build.swwcb
    /\ LET lines == InLines(Copied(t, next[t], X))
       IN  mem' = Stored(X, Target(t, X), lines, UNION {LineOf(m.to) : m \in lines})
    /\ \/ /\ BwMore(t)
          /\ next' = [next EXCEPT ![t] = @ + WriteNum]
          /\ UNCHANGED pc
       \/ /\ ~BwMore(t)
          /\ next' = [next EXCEPT ![t] = t]
          /\ Goto(t, [R |-> "linedR", S |-> "linedS"][X])
    /\ UNCHANGED <<inputs, queues, hist, skewtask, maxBuild, part, task, lmax, prober,
                   bwvars>>

PtrBwStoreRestsFollowing(t, X) ==
    /\ part[t] = "skew"
    /\ pc[t] = [R |-> "restsR", S |-> "restsS"][X] /\ t \in Writers
    /\ LET all == Copied(t, next[t], X)
       IN  mem' = Stored(X, Target(t, X), all \ InLines(all), {})
    /\ \/ /\ BwMore(t)
          /\ next' = [next EXCEPT ![t] = @ + WriteNum]
          /\ UNCHANGED pc
       \/ ~BwMore(t) /\ Partitioned(t, X) /\ UNCHANGED next
    /\ UNCHANGED <<inputs, queues, hist, skewtask, maxBuild, part, task, lmax, prober,
                   bwvars>>

PtrBwSkewTasks(t) ==
    [i \in 1 .. Fanout2 |-> PtrBwPartTask(t, [X \in Rels |-> skewtask[X].num], i - 1)]

PtrBwMakeSkewTasks(t) ==
    /\ pc[t] = "skewtasks"
    /\ \/ /\ t = 0
          /\ PtrAddSkewTasks(PtrBwSkewTasks(t))
          /\ lmax' = [lmax EXCEPT ![t] = Largest(@, PtrBwSkewTasks(t))]
       \/ t # 0 /\ UNCHANGED <<part_queue, join_queue, lmax>>
    /\ Goto(t, "fetch")
    /\ UNCHANGED <<inputs, mem, skew_queue, hist, skewtask, maxBuild, part, task, next,
                   prober, bwvars>>

PtrBwDrainParts(t) == BwDrainParts(t)
PtrBwFindMax(t)    == BwFindMax(t)
-----------------------------------------------------------------------------
(***************************************************************************)
(* The probe threads, the retrieving threads and ptr_join_init_run.        *)
(***************************************************************************)
PtrBwWipe(p)    == PtrWipe(p) /\ UNCHANGED bwvars
PtrBwPopJoin(p) == PtrPopJoin(p) /\ UNCHANGED bwvars
PtrBwBuildBc(p) == PtrBuildBc(p) /\ UNCHANGED <<ptrvars, bwvars>>
PtrBwBuildLp(p) == PtrBuildLp(p) /\ UNCHANGED <<ptrvars, bwvars>>
PtrBwBuildSc(p) == PtrBuildSc(p) /\ UNCHANGED <<ptrvars, bwvars>>
PtrBwBuildHr(p) == PtrBuildHr(p) /\ UNCHANGED <<ptrvars, bwvars>>
PtrBwProbeBc(p) == PtrProbeBc(p) /\ UNCHANGED bwvars
PtrBwProbeLp(p) == PtrProbeLp(p) /\ UNCHANGED bwvars
PtrBwProbeSc(p) == PtrProbeSc(p) /\ UNCHANGED bwvars
PtrBwProbeHr(p) == PtrProbeHr(p) /\ UNCHANGED bwvars

PtrBwSpawnProbers    == PtrSpawnProbers /\ UNCHANGED bwvars
PtrBwReleaseProbe    == PtrReleaseProbe /\ UNCHANGED bwvars
PtrBwSpawnRetrievers == SpawnRetrievers /\ UNCHANGED bwvars
PtrBwRetrieve(q)     == Retrieve(q) /\ UNCHANGED bwvars
PtrBwReleaseRetrieve == ReleaseRetrieve /\ UNCHANGED bwvars
PtrBwCollect         == PtrCollect /\ UNCHANGED bwvars
-----------------------------------------------------------------------------
PtrBwFirstPass(t) ==
    \E X \in Rels : \/ PtrBwCountFirst(t, X) \/ PtrBwSumFirst(t, X)
                    \/ PtrBwScatterFirst(t, X) \/ PtrBwStandByFirst(t, X)
                    \/ PtrBwStoreLinesFirst(t, X) \/ PtrBwStoreRestsFirst(t, X)

PtrBwSkewPass(t) ==
    \E X \in Rels : \/ PtrBwCountFollowing(t, X) \/ PtrBwSumFollowing(t, X)
                    \/ PtrBwScatterFollowing(t, X) \/ PtrBwStandByFollowing(t, X)
                    \/ PtrBwStoreLinesFollowing(t, X) \/ PtrBwStoreRestsFollowing(t, X)

PtrBwBuildpart(t) ==
    /\ \/ PtrBwMemset(t) \/ PtrBwZero(t) \/ PtrBwFirstPass(t) \/ PtrBwMakeTasks(t)
       \/ PtrBwStartSecondPass(t) \/ PtrBwPopPart(t) \/ PtrBwClaim(t) \/ PtrBwCount2(t)
       \/ PtrBwDefer(t) \/ PtrBwCluster(t) \/ PtrBwEmit(t) \/ PtrBwPopMid(t)
       \/ PtrBwShareMax(t) \/ PtrBwFetchSkew(t) \/ PtrBwLook(t) \/ PtrBwZeroSkew(t)
       \/ PtrBwSkewPass(t) \/ PtrBwMakeSkewTasks(t) \/ PtrBwDrainParts(t)
       \/ PtrBwFindMax(t)
    /\ UNCHANGED ptrvars

PtrBwProbejoin(p) ==
    \/ PtrBwWipe(p) \/ PtrBwPopJoin(p)
    \/ PtrBwBuildBc(p) \/ PtrBwBuildLp(p) \/ PtrBwBuildSc(p) \/ PtrBwBuildHr(p)
    \/ PtrBwProbeBc(p) \/ PtrBwProbeLp(p) \/ PtrBwProbeSc(p) \/ PtrBwProbeHr(p)

PtrBwMain ==
    \/ PtrBwRelease /\ UNCHANGED ptrvars
    \/ PtrBwSpawnProbers \/ PtrBwReleaseProbe
    \/ PtrBwSpawnRetrievers \/ PtrBwReleaseRetrieve \/ PtrBwCollect
-----------------------------------------------------------------------------
(***************************************************************************)
(* Properties.                                                             *)
(***************************************************************************)

(* `copy tuples to their corresponding SWWCBs' (ptr_phj_bw_reg.c:658): when *)
(* all threads have partitioned a task of skew_queue, each of its tuples is *)
(* somewhere in the target.                                                *)
SkewTaskCopied ==
    (skewtask # NULL /\ \A t \in Builders : pc[t] = "skewed") =>
        \A X \in Rels : RowsAt(X, skewtask[X])
                            \subseteq {mem[X][Other(skewtask[X].arr)][c] : c \in Cells(X)}
=============================================================================
