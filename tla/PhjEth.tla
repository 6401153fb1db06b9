------------------------------- MODULE PhjEth -------------------------------
(***************************************************************************)
(* eth.c: the radix joins of the earlier work that phj.c continues, in the *)
(* same framework.  Its threads partition as those of phj.c do.  The       *)
(* kernels eth_pro_join, eth_prh_join and eth_prho_join allocate their     *)
(* tables task by task, so that nobody looks for the largest partition,    *)
(* and there is no intermediate memory to wipe before the join phase.      *)
(***************************************************************************)
EXTENDS Phj

EthLoad == Load /\ build.file = "eth"
EthPool == Pool

(* Where the program has fewer barriers than phj.c. *)
EthAfterBarrier ==
    [b \in DOMAIN AfterBarrier \ {"maxed"} |->
        CASE b = "shared" /\ ~build.skew -> "exit"
          [] b = "drained"               -> "exit"
          [] OTHER                       -> AfterBarrier[b]]

EthRelease == Open(EthAfterBarrier)
-----------------------------------------------------------------------------
(***************************************************************************)
(* The build threads: the first pass and the rounds of skew handling.      *)
(***************************************************************************)
EthMemset(t)        == Memset(t)
EthZero(t)          == part[t] = "first" /\ Zero(t)
EthCount(t, X)      == Count(t, X)
EthScatter(t, X)    == Scatter(t, X)
EthStoreLines(t, X) == StoreLines(t, X)
EthStoreRests(t, X) == StoreRests(t, X)

EthPartTask(t, total, p) == PartTask(t, total, p)

EthFirstTasks(t) == [i \in 1 .. Fanout1 |-> EthPartTask(t, Size, i - 1)]

EthMakeTasks(t) ==
    /\ pc[t] = "tasks"
    /\ \/ t = 0 /\ AddTasks(EthFirstTasks(t))
       \/ t # 0 /\ UNCHANGED <<skew_queue, part_queue>>
    /\ Goto(t, "queued")
    /\ UNCHANGED <<inputs, mem, join_queue, hist, skewtask, maxBuild, local, prober>>

EthFetchSkew(t) == FetchSkew(t)
EthLook(t)      == Look(t)
EthZeroSkew(t)  == part[t] = "skew" /\ Zero(t)

EthSkewTasks(t) ==
    [i \in 1 .. Fanout2 |-> EthPartTask(t, [X \in Rels |-> skewtask[X].num], i - 1)]

EthMakeSkewTasks(t) ==
    /\ pc[t] = "skewtasks"
    /\ \/ t = 0 /\ AddSkewTasks(EthSkewTasks(t))
       \/ t # 0 /\ UNCHANGED <<part_queue, join_queue>>
    /\ Goto(t, "fetch")
    /\ UNCHANGED <<inputs, mem, skew_queue, hist, skewtask, maxBuild, local, prober>>

EthDrainParts(t) == DrainParts(t)
-----------------------------------------------------------------------------
(***************************************************************************)
(* The second pass.                                                        *)
(***************************************************************************)
EthPopPart(t) ==
    /\ pc[t] = "second"
    /\ \/ /\ part_queue # <<>>
          /\ task' = [task EXCEPT ![t] = Head(part_queue)]
          /\ part_queue' = Tail(part_queue)
          /\ Goto(t, "cluster")
       \/ /\ part_queue = <<>>
          /\ Goto(t, "share")
          /\ UNCHANGED <<part_queue, task>>
    /\ UNCHANGED <<inputs, mem, skew_queue, join_queue, hist, skewtask, maxBuild, part,
                   next, lmax, prober>>

EthClusterOffset(x, X, p) == ClusterOffset(x, X, p)
EthClustered(x, X)        == Clustered(x, X)

EthCluster(t) ==
    /\ pc[t] = "cluster"
    /\ mem' = [X \in Rels |-> EthClustered(task[t], X)]
    /\ next' = [next EXCEPT ![t] = 0]
    /\ Goto(t, "emit")
    /\ UNCHANGED <<inputs, queues, hist, skewtask, maxBuild, part, task, lmax, prober>>

EthEmit(t) ==
    /\ pc[t] = "emit"
    /\ \E x \in {ClusterTask(task[t], next[t])} :
           IF Joinable(x) THEN join_queue' = Pushed(join_queue, <<x>>)
                          ELSE UNCHANGED join_queue
    /\ next' = [next EXCEPT ![t] = @ + 1]
    /\ Goto(t, IF next[t] = Fanout2 - 1 THEN "second" ELSE "emit")
    /\ UNCHANGED <<inputs, mem, part_queue, skew_queue, hist, skewtask, maxBuild, part,
                   task, lmax, prober>>

EthEndSecond(t) ==
    /\ pc[t] = "share"
    /\ part' = IF build.skew THEN [part EXCEPT ![t] = "skew"] ELSE part
    /\ Goto(t, "shared")
    /\ UNCHANGED <<inputs, mem, queues, hist, skewtask, maxBuild, task, next, lmax, prober>>
-----------------------------------------------------------------------------
(***************************************************************************)
(* The probe threads: they take tasks at once.                             *)
(***************************************************************************)
EthSpawnProbers ==
    /\ \A t \in Builders : pc[t] = "exit"
    /\ \A p \in Probers : ppc[p] = "idle"
    /\ IF build.passes = 1
       THEN join_queue' = part_queue /\ part_queue' = join_queue
       ELSE UNCHANGED <<join_queue, part_queue>>
    /\ ppc' = [p \in Probers |-> "pop"]
    /\ UNCHANGED <<inputs, mem, skew_queue, builder, size, table, ptask, acc, result>>

EthPopJoin(p)    == PopJoin(p)
EthProBuild(p)   == build.kernel = "bc" /\ BuildTable(p)
EthPrhBuild(p)   == build.kernel = "hr" /\ Reorder(p)
EthPrhoBuild(p)  == build.kernel = "hro" /\ Reorder(p)
EthProProbe(p)   == build.kernel = "bc" /\ ProbeTable(p)
EthPrhProbe(p)   == build.kernel = "hr" /\ ProbeTable(p)
EthPrhoProbe(p)  == build.kernel = "hro" /\ ProbeTable(p)
EthReleaseProbe  == ReleaseProbe
EthCollect       == Collect
-----------------------------------------------------------------------------
EthPartition(t) ==
    \E X \in Rels : EthCount(t, X) \/ EthScatter(t, X) \/ EthStoreLines(t, X)
                                   \/ EthStoreRests(t, X)

EthFirstPass(t) == part[t] = "first" /\ EthPartition(t)

EthSkewPass(t)  == part[t] = "skew" /\ EthPartition(t)

EthBuildpart(t) ==
    \/ EthMemset(t) \/ EthZero(t) \/ EthFirstPass(t) \/ EthMakeTasks(t)
    \/ EthPopPart(t) \/ EthCluster(t) \/ EthEmit(t) \/ EthEndSecond(t)
    \/ EthFetchSkew(t) \/ EthLook(t) \/ EthZeroSkew(t) \/ EthSkewPass(t)
    \/ EthMakeSkewTasks(t) \/ EthDrainParts(t)

EthProbejoin(p) ==
    \/ EthPopJoin(p)
    \/ EthProBuild(p) \/ EthPrhBuild(p) \/ EthPrhoBuild(p)
    \/ EthProProbe(p) \/ EthPrhProbe(p) \/ EthPrhoProbe(p)

EthMain == EthRelease \/ EthSpawnProbers \/ EthReleaseProbe \/ EthCollect
=============================================================================
