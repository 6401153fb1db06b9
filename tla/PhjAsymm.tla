------------------------------ MODULE PhjAsymm ------------------------------
(***************************************************************************)
(* phj_asymm_radix.c: phj.c with asymmetric radix.  Both relations go      *)
(* through the first pass, of BitsPass1 bits, but only R through the       *)
(* second and through skew handling.  The join tasks of one first-pass     *)
(* partition share its S room, which stays where the first pass put it.    *)
(*                                                                         *)
(* What differs from phj.c is in Phj's SecondRels, the relations that are  *)
(* partitioned again; each step has its name and place of this file here.  *)
(***************************************************************************)
EXTENDS Phj

(* NUM_PASSES must be 2. *)
AsymmLoad == Load /\ build.file = "phj_asymm_radix" /\ build.passes = 2
AsymmPool == Pool

AsymmRelease == Open(AfterBarrier)
-----------------------------------------------------------------------------
(***************************************************************************)
(* The build threads: the first pass.                                      *)
(***************************************************************************)
AsymmMemset(t)        == Memset(t)
AsymmZero(t)          == part[t] = "first" /\ Zero(t)
AsymmCount(t, X)      == Count(t, X)
AsymmScatter(t, X)    == Scatter(t, X)
AsymmStoreLines(t, X) == StoreLines(t, X)
AsymmStoreRests(t, X) == StoreRests(t, X)

AsymmFirstTasks(t) == FirstTasks(t)

AsymmMakeTasks(t) ==
    /\ pc[t] = "tasks"
    /\ \/ /\ t = 0
          /\ AddTasks(AsymmFirstTasks(t))
          /\ lmax' = [lmax EXCEPT ![t] = Largest(@, Parts(AsymmFirstTasks(t)))]
       \/ t # 0 /\ UNCHANGED <<skew_queue, part_queue, lmax>>
    /\ Goto(t, "queued")
    /\ UNCHANGED <<inputs, mem, join_queue, hist, skewtask, maxBuild, part, task, next,
                   prober>>
-----------------------------------------------------------------------------
(***************************************************************************)
(* The second pass, of R.                                                  *)
(***************************************************************************)
AsymmStartSecondPass(t) == StartSecondPass(t)
AsymmPopPart(t)         == PopPart(t)
AsymmClustered(x)       == Clustered(x, "R")

AsymmCluster(t) ==
    /\ pc[t] = "cluster"
    /\ mem' = [mem EXCEPT !.R = AsymmClustered(task[t])]
    /\ next' = [next EXCEPT ![t] = 0]
    /\ Goto(t, "emit")
    /\ UNCHANGED <<inputs, queues, hist, skewtask, maxBuild, part, task, lmax, prober>>

(* A partition of R with all of the task's S. *)
AsymmClusterTask(x, p) ==
    Task(Room(Other(x.R.arr), x.R.base + ClusterOffset(x, "R", p),
              CountIn("R", x.R, Fanout2, Skip, p)),
         x.S)

AsymmEmit(t) ==
    /\ pc[t] = "emit"
    /\ \E x \in {AsymmClusterTask(task[t], next[t])} :
           IF x.R.num > 0
           THEN /\ join_queue' = Pushed(join_queue, <<x>>)
                /\ lmax' = [lmax EXCEPT ![t] = Largest(@, <<x>>)]
           ELSE UNCHANGED <<join_queue, lmax>>
    /\ next' = [next EXCEPT ![t] = @ + 1]
    /\ Goto(t, IF next[t] = Fanout2 - 1 THEN "pop" ELSE "emit")
    /\ UNCHANGED <<inputs, mem, part_queue, skew_queue, hist, skewtask, maxBuild, part,
                   task, prober>>

AsymmShareMax(t) == ShareMax(t)
-----------------------------------------------------------------------------
(***************************************************************************)
(* Skew handling, of R.                                                    *)
(***************************************************************************)
AsymmFetchSkew(t) == FetchSkew(t)
AsymmLook(t)      == Look(t)

AsymmZeroSkew(t) ==
    /\ pc[t] = "zero" /\ part[t] = "skew"
    /\ hist' = [hist EXCEPT !.R[t] = NoCounts]
    /\ Goto(t, "zeroed")
    /\ UNCHANGED <<inputs, mem, queues, skewtask, maxBuild, local, prober>>

AsymmSkewTasks(t) ==
    [i \in 1 .. Fanout2 |->
        Task(Room(Other(skewtask.R.arr), skewtask.R.base + Offset(t, "R", i - 1),
                  PartNum(t, "R", skewtask.R.num, i - 1)),
             skewtask.S)]

AsymmMakeSkewTasks(t) ==
    /\ pc[t] = "skewtasks"
    /\ \/ /\ t = 0
          /\ AddSkewTasks(AsymmSkewTasks(t))
          /\ lmax' = [lmax EXCEPT ![t] = Largest(@, AsymmSkewTasks(t))]
       \/ t # 0 /\ UNCHANGED <<part_queue, join_queue, lmax>>
    /\ Goto(t, "fetch")
    /\ UNCHANGED <<inputs, mem, skew_queue, hist, skewtask, maxBuild, part, task, next,
                   prober>>

AsymmDrainParts(t) == DrainParts(t)
AsymmFindMax(t)    == FindMax(t)
-----------------------------------------------------------------------------
(***************************************************************************)
(* The probe threads.                                                      *)
(***************************************************************************)
AsymmSpawnProbers == SpawnProbers
AsymmWipe(p)      == Wipe(p)
AsymmPopJoin(p)   == PopJoin(p)
AsymmBcBuild(p)   == build.kernel = "bc" /\ BuildTable(p)
AsymmScBuild(p)   == build.kernel = "sc" /\ BuildTable(p)
AsymmHrBuild(p)   == build.kernel = "hr" /\ Reorder(p)
AsymmHroBuild(p)  == build.kernel = "hro" /\ Reorder(p)
AsymmBcProbe(p)   == build.kernel = "bc" /\ ProbeTable(p)
AsymmScProbe(p)   == build.kernel = "sc" /\ ProbeTable(p)
AsymmHrProbe(p)   == build.kernel = "hr" /\ ProbeTable(p)
AsymmHroProbe(p)  == build.kernel = "hro" /\ ProbeTable(p)
AsymmReleaseProbe == ReleaseProbe
AsymmCollect      == Collect
-----------------------------------------------------------------------------
AsymmPartition(t, X) ==
    \/ AsymmCount(t, X) \/ AsymmScatter(t, X)
    \/ AsymmStoreLines(t, X) \/ AsymmStoreRests(t, X)

AsymmFirstPass(t) == part[t] = "first" /\ \E X \in Rels : AsymmPartition(t, X)

AsymmSkewPass(t)  == part[t] = "skew" /\ AsymmPartition(t, "R")

AsymmBuildpart(t) ==
    \/ AsymmMemset(t) \/ AsymmZero(t) \/ AsymmFirstPass(t) \/ AsymmMakeTasks(t)
    \/ AsymmStartSecondPass(t) \/ AsymmPopPart(t) \/ AsymmCluster(t) \/ AsymmEmit(t)
    \/ AsymmShareMax(t) \/ AsymmFetchSkew(t) \/ AsymmLook(t) \/ AsymmZeroSkew(t)
    \/ AsymmSkewPass(t) \/ AsymmMakeSkewTasks(t) \/ AsymmDrainParts(t) \/ AsymmFindMax(t)

AsymmProbejoin(p) ==
    \/ AsymmWipe(p) \/ AsymmPopJoin(p)
    \/ AsymmBcBuild(p) \/ AsymmScBuild(p) \/ AsymmHrBuild(p) \/ AsymmHroBuild(p)
    \/ AsymmBcProbe(p) \/ AsymmScProbe(p) \/ AsymmHrProbe(p) \/ AsymmHroProbe(p)

AsymmMain ==
    AsymmRelease \/ AsymmSpawnProbers \/ AsymmReleaseProbe \/ AsymmCollect
=============================================================================
