--------------------------- MODULE PhjAsymmBwReg ---------------------------
(***************************************************************************)
(* phj_asymm_radix_bw_reg.c: regulated bandwidth and asymmetric radix.  It *)
(* is PhjBwReg with R as the one relation in SecondRels: histograms of the *)
(* second pass, offsets of skew handling and buffers exist for R alone.    *)
(***************************************************************************)
EXTENDS PhjBwReg

(* NUM_PASSES must be 2. *)
AsymmBwLoad  == Load /\ build.file = "phj_asymm_radix_bw_reg" /\ build.passes = 2
AsymmBwFresh == BwFresh
AsymmBwPool  == Pool

AsymmBwRelease == BwRelease
-----------------------------------------------------------------------------
(***************************************************************************)
(* The first pass, of both relations.                                      *)
(***************************************************************************)
AsymmBwMemset(t)        == BwMemset(t)
AsymmBwZero(t)          == part[t] = "first" /\ BwZero(t)
AsymmBwCount(t, X)      == BwCount(t, X)
AsymmBwSum(t, X)        == BwSum(t, X)
AsymmBwScatter(t, X)    == BwScatter(t, X)
AsymmBwStoreLines(t, X) == BwStoreLines(t, X)
AsymmBwStoreRests(t, X) == BwStoreRests(t, X)
AsymmBwStandBy(t, X)    == BwStandBy(t, X)

AsymmBwFirstTasks(t) == [i \in 1 .. Fanout1 |-> BwPartTask(t, Size, i - 1)]

AsymmBwMakeTasks(t) ==
    /\ pc[t] = "tasks"
    /\ \/ /\ t = 0
          /\ AddTasks(AsymmBwFirstTasks(t))
          /\ lmax' = [lmax EXCEPT ![t] = Largest(@, Parts(AsymmBwFirstTasks(t)))]
       \/ t # 0 /\ UNCHANGED <<skew_queue, part_queue, lmax>>
    /\ Goto(t, "queued")
    /\ UNCHANGED <<inputs, mem, join_queue, hist, skewtask, maxBuild, part, task, next,
                   prober, bwvars>>
-----------------------------------------------------------------------------
(***************************************************************************)
(* The second pass, of R.                                                  *)
(***************************************************************************)
AsymmBwStartSecondPass(t) == BwStartSecondPass(t)
AsymmBwPopPart(t)         == BwPopPart(t)
AsymmBwClaim(t)           == BwClaim(t)

AsymmBwCount2(t) ==
    /\ pc[t] = "count2"
    /\ hist2' = [hist2 EXCEPT ![slot[t]].R = [p \in DOMAIN NoCounts |-> @[p] +
           IF p < Fanout2 THEN CountIn("R", task[t].R, Fanout2, Skip, p) ELSE 0]]
    /\ Goto(t, IF t \in Writers THEN "cluster" ELSE "defer")
    /\ UNCHANGED <<inputs, mem, queues, hist, skewtask, maxBuild, local, prober, offs,
                   mid_queue, used, slot, before>>

AsymmBwDefer(t)        == BwDefer(t)
AsymmBwClustered(x, k) == BwClustered(x, k, "R")

AsymmBwCluster(t) ==
    /\ pc[t] = "cluster"
    /\ mem' = [mem EXCEPT !.R = AsymmBwClustered(task[t], slot[t])]
    /\ next' = [next EXCEPT ![t] = 0]
    /\ Goto(t, "emit")
    /\ UNCHANGED <<inputs, queues, hist, skewtask, maxBuild, part, task, lmax, prober,
                   bwvars>>

(* A partition of R with all of the task's S. *)
AsymmBwClusterTask(x, k, p) ==
    Task(Room(Other(x.R.arr), x.R.base + BwClusterOffset(k, "R", p), hist2[k].R[p]), x.S)

AsymmBwEmit(t) ==
    /\ pc[t] = "emit"
    /\ \E x \in {AsymmBwClusterTask(task[t], slot[t], next[t])} :
           IF x.R.num > 0
           THEN /\ join_queue' = Pushed(join_queue, <<x>>)
                /\ lmax' = [lmax EXCEPT ![t] = Largest(@, <<x>>)]
           ELSE UNCHANGED <<join_queue, lmax>>
    /\ next' = [next EXCEPT ![t] = @ + 1]
    /\ Goto(t, IF next[t] < Fanout2 - 1 THEN "emit"
               ELSE IF before[t] THEN "pop" ELSE "popmid")
    /\ UNCHANGED <<inputs, mem, part_queue, skew_queue, hist, skewtask, maxBuild, part,
                   task, prober, bwvars>>

AsymmBwPopMid(t)   == BwPopMid(t)
AsymmBwShareMax(t) == BwShareMax(t)
-----------------------------------------------------------------------------
(***************************************************************************)
(* Skew handling, of R.                                                    *)
(***************************************************************************)
AsymmBwFetchSkew(t) == BwFetchSkew(t)
AsymmBwLook(t)      == BwLook(t)

AsymmBwZeroSkew(t) ==
    /\ pc[t] = "zero" /\ part[t] = "skew"
    /\ hist' = [hist EXCEPT !.R[t] = NoCounts]
    /\ offs' = [offs EXCEPT !.R[t] = NoCounts]
    /\ Goto(t, "zeroed")
    /\ UNCHANGED <<inputs, mem, queues, skewtask, maxBuild, local, prober, second>>

AsymmBwSkewTasks(t) ==
    [i \in 1 .. Fanout2 |->
        Task(Room(Other(skewtask.R.arr), skewtask.R.base + offs.R[t][i - 1],
                  BwPartNum(t, "R", skewtask.R.num, i - 1)),
             skewtask.S)]

AsymmBwMakeSkewTasks(t) ==
    /\ pc[t] = "skewtasks"
    /\ \/ /\ t = 0
          /\ AddSkewTasks(AsymmBwSkewTasks(t))
          /\ lmax' = [lmax EXCEPT ![t] = Largest(@, AsymmBwSkewTasks(t))]
       \/ t # 0 /\ UNCHANGED <<part_queue, join_queue, lmax>>
    /\ Goto(t, "fetch")
    /\ UNCHANGED <<inputs, mem, skew_queue, hist, skewtask, maxBuild, part, task, next,
                   prober, bwvars>>

AsymmBwDrainParts(t) == BwDrainParts(t)
AsymmBwFindMax(t)    == BwFindMax(t)
-----------------------------------------------------------------------------
(***************************************************************************)
(* The probe threads.                                                      *)
(***************************************************************************)
AsymmBwSpawnProbers == BwSpawnProbers
AsymmBwWipe(p)      == BwWipe(p)
AsymmBwPopJoin(p)   == BwPopJoin(p)
AsymmBwBcBuild(p)   == BwBcBuild(p)
AsymmBwScBuild(p)   == BwScBuild(p)
AsymmBwHrBuild(p)   == BwHrBuild(p)
AsymmBwHroBuild(p)  == BwHroBuild(p)
AsymmBwBcProbe(p)   == BwBcProbe(p)
AsymmBwScProbe(p)   == BwScProbe(p)
AsymmBwHrProbe(p)   == BwHrProbe(p)
AsymmBwHroProbe(p)  == BwHroProbe(p)
AsymmBwReleaseProbe == BwReleaseProbe
AsymmBwCollect      == BwCollect
-----------------------------------------------------------------------------
AsymmBwPartition(t, X) ==
    \/ AsymmBwCount(t, X) \/ AsymmBwSum(t, X) \/ AsymmBwScatter(t, X)
    \/ AsymmBwStoreLines(t, X) \/ AsymmBwStoreRests(t, X) \/ AsymmBwStandBy(t, X)

AsymmBwFirstPass(t) == part[t] = "first" /\ \E X \in Rels : AsymmBwPartition(t, X)

AsymmBwSkewPass(t)  == part[t] = "skew" /\ AsymmBwPartition(t, "R")

AsymmBwBuildpart(t) ==
    \/ AsymmBwMemset(t) \/ AsymmBwZero(t) \/ AsymmBwFirstPass(t) \/ AsymmBwMakeTasks(t)
    \/ AsymmBwStartSecondPass(t) \/ AsymmBwPopPart(t) \/ AsymmBwClaim(t)
    \/ AsymmBwCount2(t) \/ AsymmBwDefer(t) \/ AsymmBwCluster(t) \/ AsymmBwEmit(t)
    \/ AsymmBwPopMid(t) \/ AsymmBwShareMax(t) \/ AsymmBwFetchSkew(t) \/ AsymmBwLook(t)
    \/ AsymmBwZeroSkew(t) \/ AsymmBwSkewPass(t) \/ AsymmBwMakeSkewTasks(t) \/ AsymmBwDrainParts(t)
    \/ AsymmBwFindMax(t)

AsymmBwProbejoin(p) ==
    \/ AsymmBwWipe(p) \/ AsymmBwPopJoin(p)
    \/ AsymmBwBcBuild(p) \/ AsymmBwScBuild(p) \/ AsymmBwHrBuild(p) \/ AsymmBwHroBuild(p)
    \/ AsymmBwBcProbe(p) \/ AsymmBwScProbe(p) \/ AsymmBwHrProbe(p) \/ AsymmBwHroProbe(p)

AsymmBwMain ==
    AsymmBwRelease \/ AsymmBwSpawnProbers \/ AsymmBwReleaseProbe \/ AsymmBwCollect
=============================================================================
