----------------------------- MODULE PhjShrUni -----------------------------
(***************************************************************************)
(* phj_shr_uni.c: the partitioned hash join for keys that are spread       *)
(* evenly.  Nobody counts in advance: each partition has a room of the     *)
(* average size, times a factor, and all threads put their tuples into it, *)
(* at the place that a fetch-and-add of the partition's counter gives      *)
(* them.  Nothing checks that the room is large enough.                    *)
(*                                                                         *)
(* r_part_tup_num and s_part_tup_num, and the counters of skew handling    *)
(* that follow them, are hist[X][0] here.                                  *)
(***************************************************************************)
EXTENDS Phj

CONSTANT ShrUniScale     \* SHR_UNI_SCALING_FACTOR, in percent

ASSUME ShrUniAssumption == ShrUniScale \in Nat /\ ShrUniScale >= 100

(* avg_part_scaling_offset, and that of the second pass.                   *)
ShrUniAvg(X)  == (ShrUniScale * Size[X]) \div (100 * Fanout1)
ShrUniAvg2(X) == ShrUniAvg(X) \div Fanout2

ShrUniSpace(X) == 0 .. (ShrUniScale * Size[X]) \div 100 + 2^RadixBits * Pad - 1

(* What the keys have to be like: a partition fits into its room.          *)
ShrUniEven ==
    \A X \in Rels, h \in 0 .. Fanout1 - 1, p \in 0 .. Fanout2 - 1 :
        Cardinality({i \in Rows(Size[X]) : /\ Radix(KeyOf(X, i), Fanout1, 0) = h
                                           /\ Radix(KeyOf(X, i), Fanout2, Skip) = p})
            <= ShrUniAvg2(X)

ShrUniLoad ==
    /\ LoadInto([X \in Rels |-> ShrUniSpace(X)])
    /\ build.file = "phj_shr_uni" /\ ShrUniEven

ShrUniPool == Pool

(* No histograms to wait for; a barrier behind R.                          *)
ShrUniAfterBarrier ==
    [b \in (DOMAIN AfterBarrier \ {"countedR", "countedS", "linedR", "linedS"})
               \cup {"filledR"} |->
        CASE b = "ready" -> "zeroed" [] b = "zeroed" -> "scatterR" [] b = "filledR" -> "scatterS"
          [] OTHER       -> AfterBarrier[b]]

ShrUniRelease == Open(ShrUniAfterBarrier)
-----------------------------------------------------------------------------
(***************************************************************************)
(* All threads partition together: R and S, and later a task that is too   *)
(* large.                                                                  *)
(***************************************************************************)
ShrUniMemset(t) == Memset(t)

ShrUniOffset(t, X, p) ==
    p * ((IF part[t] = "first" THEN ShrUniAvg(X) ELSE ShrUniAvg2(X)) + Padding(t))

Scattering(t, X) == pc[t] = [R |-> "scatterR", S |-> "scatterS"][X]

(* The thread's next tuple goes to the place the counter gives it.  Nobody *)
(* else has that, or looks there before the barrier.                       *)
ShrUniStore(t, X) ==
    /\ Scattering(t, X) /\ next[t] < Source(t, X).num
    /\ LET p == HashAt(X, Source(t, X), next[t], Fanout(t), SkipOf(t))
           c == Begin(t, X) + hist[X][0][p] + ShrUniOffset(t, X, p)
       IN  /\ hist' = [hist EXCEPT ![X][0][p] = @ + 1]
           /\ mem' = [mem EXCEPT ![X][Target(t, X)][c] = At(X, Source(t, X), next[t])]
    /\ next' = [next EXCEPT ![t] = @ + 1]
    /\ UNCHANGED <<inputs, queues, skewtask, maxBuild, pc, part, task, lmax, prober>>

ShrUniEndScatter(t, X) ==
    /\ Scattering(t, X) /\ next[t] = Source(t, X).num
    /\ next' = [next EXCEPT ![t] = 0]
    /\ Goto(t, IF X = "R" THEN "filledR" ELSE IF part[t] = "first" THEN "parted" ELSE "skewed")
    /\ UNCHANGED <<inputs, mem, queues, hist, skewtask, maxBuild, part, task, lmax, prober>>

(* Thread 0 reads the sizes of the rooms off the counters. *)
ShrUniPartTask(t, p) ==
    LET room(X) == Room(Target(t, X), Begin(t, X) + ShrUniOffset(t, X, p), hist[X][0][p])
    IN  Task(room("R"), room("S"))

ShrUniFirstTasks(t) == [i \in 1 .. Fanout1 |-> ShrUniPartTask(t, i - 1)]

ShrUniMakeTasks(t) ==
    /\ pc[t] = "tasks"
    /\ \/ /\ t = 0
          /\ AddTasks(ShrUniFirstTasks(t))
          /\ lmax' = [lmax EXCEPT ![t] = Largest(@, Parts(ShrUniFirstTasks(t)))]
       \/ t # 0 /\ UNCHANGED <<skew_queue, part_queue, lmax>>
    /\ Goto(t, "queued")
    /\ UNCHANGED <<inputs, mem, join_queue, hist, skewtask, maxBuild, part, task, next,
                   prober>>
-----------------------------------------------------------------------------
(***************************************************************************)
(* The second pass.                                                        *)
(***************************************************************************)
ShrUniStartSecondPass(t) == StartSecondPass(t)
ShrUniPopPart(t)         == PopPart(t)

ShrUniClusterOffset(X, p) == p * (ShrUniAvg2(X) + Pad)

ShrUniStarts(x, X) ==
    [p \in 0 .. Fanout2 - 1 |-> x[X].base + ShrUniClusterOffset(X, p)]

ShrUniClustered(x, X) ==
    Scattered(X, x[X], Other(x[X].arr), ShrUniStarts(x, X), Fanout2, Skip)[X]

ShrUniClusteredOptimized(x, X) ==
    LinedAndRested(X, x[X], Other(x[X].arr), ShrUniStarts(x, X), Fanout2, Skip)[X]

ShrUniCluster(t) ==
    /\ pc[t] = "cluster"
    /\ mem' = [X \in Rels |-> IF build.swwcb THEN ShrUniClusteredOptimized(task[t], X)
                                             ELSE ShrUniClustered(task[t], X)]
    /\ next' = [next EXCEPT ![t] = 0]
    /\ Goto(t, "emit")
    /\ UNCHANGED <<inputs, queues, hist, skewtask, maxBuild, part, task, lmax, prober>>

ShrUniClusterTask(x, p) ==
    LET room(X) == Room(Other(x[X].arr), x[X].base + ShrUniClusterOffset(X, p),
                        CountIn(X, x[X], Fanout2, Skip, p))
    IN  Task(room("R"), room("S"))

ShrUniEmit(t) ==
    /\ pc[t] = "emit"
    /\ \E x \in {ShrUniClusterTask(task[t], next[t])} :
           IF Joinable(x)
           THEN /\ join_queue' = Pushed(join_queue, <<x>>)
                /\ lmax' = [lmax EXCEPT ![t] = Largest(@, <<x>>)]
           ELSE UNCHANGED <<join_queue, lmax>>
    /\ next' = [next EXCEPT ![t] = (@ + 1) % Fanout2]
    /\ Goto(t, IF next[t] = Fanout2 - 1 THEN "pop" ELSE "emit")
    /\ UNCHANGED <<inputs, mem, part_queue, skew_queue, hist, skewtask, maxBuild, part,
                   task, prober>>

ShrUniShareMax(t) == ShareMax(t)
-----------------------------------------------------------------------------
(***************************************************************************)
(* Skew handling.                                                          *)
(***************************************************************************)
ShrUniFetchSkew(t) == FetchSkew(t)
ShrUniLook(t)      == Look(t)

(* Every thread zeroes the counters of all. *)
ShrUniZeroSkew(t) ==
    /\ pc[t] = "zero"
    /\ hist' = [X \in Rels |-> [hist[X] EXCEPT ![0] = NoCounts]]
    /\ Goto(t, "zeroed")
    /\ UNCHANGED <<inputs, mem, queues, skewtask, maxBuild, local, prober>>

ShrUniSkewTasks(t) == [i \in 1 .. Fanout2 |-> ShrUniPartTask(t, i - 1)]

ShrUniMakeSkewTasks(t) ==
    /\ pc[t] = "skewtasks"
    /\ \/ /\ t = 0
          /\ AddSkewTasks(ShrUniSkewTasks(t))
          /\ lmax' = [lmax EXCEPT ![t] = Largest(@, ShrUniSkewTasks(t))]
       \/ t # 0 /\ UNCHANGED <<part_queue, join_queue, lmax>>
    /\ Goto(t, "fetch")
    /\ UNCHANGED <<inputs, mem, skew_queue, hist, skewtask, maxBuild, part, task, next,
                   prober>>

ShrUniDrainParts(t) == DrainParts(t)
ShrUniFindMax(t)    == FindMax(t)
-----------------------------------------------------------------------------
(***************************************************************************)
(* The probe threads.                                                      *)
(***************************************************************************)
ShrUniSpawnProbers == SpawnProbers
ShrUniWipe(p)      == Wipe(p)
ShrUniPopJoin(p)   == PopJoin(p)

(* The kernels are those of phj.c: bc_join, lp_join and sc_join build a    *)
(* table, hr_join and hro_join order the tuples in r_tmp.                  *)
ShrUniBuildTable(p) == BuildTable(p)
ShrUniReorder(p)    == Reorder(p)
ShrUniProbeTable(p) == ProbeTable(p)
ShrUniReleaseProbe == ReleaseProbe
ShrUniCollect      == Collect
-----------------------------------------------------------------------------
ShrUniPartition(t) ==
    \E X \in Rels : ShrUniStore(t, X) \/ ShrUniEndScatter(t, X)

ShrUniBuildpart(t) ==
    \/ ShrUniMemset(t) \/ ShrUniPartition(t) \/ ShrUniMakeTasks(t)
    \/ ShrUniStartSecondPass(t) \/ ShrUniPopPart(t) \/ ShrUniCluster(t) \/ ShrUniEmit(t)
    \/ ShrUniShareMax(t) \/ ShrUniFetchSkew(t) \/ ShrUniLook(t) \/ ShrUniZeroSkew(t)
    \/ ShrUniMakeSkewTasks(t) \/ ShrUniDrainParts(t) \/ ShrUniFindMax(t)

ShrUniProbejoin(p) ==
    \/ ShrUniWipe(p) \/ ShrUniPopJoin(p)
    \/ ShrUniBuildTable(p) \/ ShrUniReorder(p) \/ ShrUniProbeTable(p)

ShrUniMain ==
    ShrUniRelease \/ ShrUniSpawnProbers \/ ShrUniReleaseProbe \/ ShrUniCollect
=============================================================================
