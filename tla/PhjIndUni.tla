----------------------------- MODULE PhjIndUni -----------------------------
(***************************************************************************)
(* phj_ind_uni.c: the partitioned hash join for keys that are spread       *)
(* evenly, once more.  Here each thread has a region of its own in the     *)
(* room of each partition, and a counter of its own, so that nobody waits  *)
(* for a counter.  Regions are not full, and who reads a room finds the    *)
(* end of each at a zero key: the first pass leaves the zeroes of the      *)
(* memset behind its tuples, and the others, which copy to an array that   *)
(* held tuples before, write some as a mark.                               *)
(***************************************************************************)
EXTENDS Phj

CONSTANT IndUniScale     \* IND_UNI_SCALING_FACTOR, in percent

ASSUME IndUniAssumption == IndUniScale \in Nat /\ IndUniScale >= 100

(* avg_part_scaling_offset, avg_part_thr_scaling_offset, and those of the  *)
(* second pass: the tuples there is room for, in a partition and in the    *)
(* region of a thread.                                                     *)
IndUniAvg(X)     == (IndUniScale * Size[X]) \div (100 * Fanout1)
IndUniAvgThr(X)  == IndUniAvg(X) \div BuildNum
IndUniAvg2(X)    == IndUniAvg(X) \div Fanout2
IndUniAvgThr2(X) == IndUniAvgThr(X) \div Fanout2

IndUniSpace(X) ==
    0 .. (IndUniScale * Size[X]) \div 100 + BuildNum * 2^RadixBits * Pad - 1

(* What the keys have to be like: each partition fits into its room, and   *)
(* what a thread has of it into its region.                                *)
IndUniEven ==
    \A X \in Rels, h \in 0 .. Fanout1 - 1, p \in 0 .. Fanout2 - 1 :
        LET first(rows) == {i \in rows : Radix(KeyOf(X, i), Fanout1, 0) = h}
            both(rows)  == {i \in first(rows) : Radix(KeyOf(X, i), Fanout2, Skip) = p}
            mine(t)     == Share(Size[X], BuildNum, t)
        IN  /\ Cardinality(both(Rows(Size[X]))) <= IndUniAvg2(X)
            /\ \A t \in Builders :
                   /\ Cardinality(first(mine(t))) <= IndUniAvgThr(X)
                   /\ build.skew => Cardinality(both(mine(t))) <= IndUniAvgThr2(X)

IndUniLoad ==
    /\ LoadInto([X \in Rels |-> IndUniSpace(X)])
    /\ build.file = "phj_ind_uni" /\ IndUniEven

IndUniPool == Pool

(* No histograms to wait for, and not even a barrier behind R.             *)
IndUniAfterBarrier ==
    [b \in DOMAIN AfterBarrier \ {"countedR", "countedS", "linedR", "linedS"} |->
        IF b = "zeroed" THEN "scatterR" ELSE AfterBarrier[b]]

IndUniRelease == Open(IndUniAfterBarrier)
-----------------------------------------------------------------------------
(***************************************************************************)
(* All threads partition together: R and S, and later a task that is too   *)
(* large.                                                                  *)
(***************************************************************************)

(* From one region of a room to the next, in the first pass and in skew    *)
(* handling, and from one room to the next.                                *)
IndUniRegion(X)  == IndUniAvgThr(X) + Fanout2 * Pad
IndUniRegion2(X) == IndUniAvgThr2(X) + Pad
IndUniNext(X)    == IndUniAvg(X) + BuildNum * Fanout2 * Pad
IndUniNext2(X)   == IndUniAvg2(X) + BuildNum * Pad

Regions(length) == {t * length : t \in Builders}

(* A room whose tuples are in these regions of it.                         *)
Spaced(room, regions) == [regions |-> regions] @@ room

(* Tuples are stored behind the starts, directly or by whole lines,        *)
IndUniStored(X, from, target, starts, fanout, skip) ==
    IF build.swwcb THEN LinedAndRested(X, from, target, starts, fanout, skip)
                   ELSE Scattered(X, from, target, starts, fanout, skip)

(* and a line of zeroes behind those of each partition.                    *)
IndUniMarked(X, from, target, starts, fanout, skip) ==
    LET ends == {starts[p] + CountIn(X, from, fanout, skip, p) : p \in DOMAIN starts}
    IN  [IndUniStored(X, from, target, starts, fanout, skip) EXCEPT ![X][target] =
            [c \in UNION {e .. e + Pad - 1 : e \in ends} |-> Empty] @@ @]

IndUniCounted(t, X, from, fanout, skip) ==
    [hist EXCEPT ![X][t] = [p \in DOMAIN NoCounts |->
        IF p < fanout THEN @[p] + CountIn(X, from, fanout, skip, p) ELSE @[p]]]

IndUniMemset(t) == Memset(t)
IndUniZero(t)   == Zero(t)

InOrder(t, X) == pc[t] = [R |-> "scatterR", S |-> "scatterS"][X]
AfterOrder(t, X, done) == Goto(t, IF X = "R" THEN "scatterS" ELSE done)

(* ind_uni_parallel_partition_first: to the thread's regions of all rooms. *)
IndUniFirst(t, X) ==
    LET starts == [p \in 0 .. Fanout1 - 1 |-> t * IndUniRegion(X) + p * IndUniNext(X)]
    IN  /\ InOrder(t, X) /\ part[t] = "first"
        /\ mem' = IndUniStored(X, Source(t, X), "tmp", starts, Fanout1, 0)
        /\ hist' = IndUniCounted(t, X, Source(t, X), Fanout1, 0)
        /\ AfterOrder(t, X, "parted")
        /\ UNCHANGED <<inputs, queues, skewtask, maxBuild, local, prober>>

Sum(X, p) == MapThenSumSet(LAMBDA t : hist[X][t][p], Builders)

(* Thread 0 adds up the counters of all threads.                           *)
IndUniFirstTasks ==
    LET room(X, h) == Spaced(Room("tmp", h * IndUniNext(X), Sum(X, h)), Regions(IndUniRegion(X)))
    IN  [i \in 1 .. Fanout1 |-> Task(room("R", i - 1), room("S", i - 1))]

IndUniMakeTasks(t) ==
    /\ pc[t] = "tasks"
    /\ \/ /\ t = 0
          /\ AddTasks(IndUniFirstTasks)
          /\ lmax' = [lmax EXCEPT ![t] = Largest(@, Parts(IndUniFirstTasks))]
       \/ t # 0 /\ UNCHANGED <<skew_queue, part_queue, lmax>>
    /\ Goto(t, "queued")
    /\ UNCHANGED <<inputs, mem, join_queue, hist, skewtask, maxBuild, part, task, next,
                   prober>>
-----------------------------------------------------------------------------
(***************************************************************************)
(* The second pass, which has one region for each partition.               *)
(***************************************************************************)
IndUniStartSecondPass(t) == StartSecondPass(t)
IndUniPopPart(t)         == PopPart(t)

IndUniClusterOffset(X, p) == p * (IndUniAvg2(X) + Pad)

IndUniClustered(x, X) ==
    LET starts == [p \in 0 .. Fanout2 - 1 |-> x[X].base + IndUniClusterOffset(X, p)]
    IN  IndUniMarked(X, x[X], Other(x[X].arr), starts, Fanout2, Skip)[X]

IndUniCluster(t) ==
    /\ pc[t] = "cluster"
    /\ mem' = [X \in Rels |-> IndUniClustered(task[t], X)]
    /\ next' = [next EXCEPT ![t] = 0]
    /\ Goto(t, "emit")
    /\ UNCHANGED <<inputs, queues, hist, skewtask, maxBuild, part, task, lmax, prober>>

IndUniClusterTask(x, p) ==
    LET room(X) == Spaced(Room(Other(x[X].arr), x[X].base + IndUniClusterOffset(X, p),
                               CountIn(X, x[X], Fanout2, Skip, p)), {0})
    IN  Task(room("R"), room("S"))

IndUniEmit(t) ==
    /\ pc[t] = "emit"
    /\ \E x \in {IndUniClusterTask(task[t], next[t])} :
           IF Joinable(x)
           THEN /\ join_queue' = Pushed(join_queue, <<x>>)
                /\ lmax' = [lmax EXCEPT ![t] = Largest(@, <<x>>)]
           ELSE UNCHANGED <<join_queue, lmax>>
    /\ next' = [next EXCEPT ![t] = @ + 1]
    /\ Goto(t, IF next[t] = Fanout2 - 1 THEN "pop" ELSE "emit")
    /\ UNCHANGED <<inputs, mem, part_queue, skew_queue, hist, skewtask, maxBuild, part,
                   task, prober>>

IndUniShareMax(t) == ShareMax(t)
-----------------------------------------------------------------------------
(***************************************************************************)
(* Skew handling: each thread partitions its region of the task, and has a *)
(* region in each room again.                                              *)
(***************************************************************************)
IndUniFetchSkew(t) == FetchSkew(t)
IndUniLook(t)      == Look(t)

IndUniFollowing(t, X) ==
    LET from   == Spaced(skewtask[X], {t * IndUniRegion(X)})
        starts == [p \in 0 .. Fanout2 - 1 |->
                      skewtask[X].base + t * IndUniRegion2(X) + p * IndUniNext2(X)]
    IN  /\ InOrder(t, X) /\ part[t] = "skew"
        /\ mem' = IndUniMarked(X, from, Other(skewtask[X].arr), starts, Fanout2, Skip)
        /\ hist' = IndUniCounted(t, X, from, Fanout2, Skip)
        /\ AfterOrder(t, X, "skewed")
        /\ UNCHANGED <<inputs, queues, skewtask, maxBuild, local, prober>>

IndUniSkewRoom(X, p) ==
    Spaced(Room(Other(skewtask[X].arr), skewtask[X].base + p * IndUniNext2(X), Sum(X, p)),
           Regions(IndUniRegion2(X)))

IndUniSkewTasks ==
    [i \in 1 .. Fanout2 |-> Task(IndUniSkewRoom("R", i - 1), IndUniSkewRoom("S", i - 1))]

(* A large one in pieces, one for each build thread's region of S, which   *)
(* may be empty.                                                           *)
IndUniSplit(p) ==
    LET all == IndUniSkewRoom("S", p)
    IN  [j \in 1 .. BuildNum |-> Task(IndUniSkewRoom("R", p),
            Spaced(Room(all.arr, all.base + (j - 1) * IndUniRegion2("S"), hist["S"][j - 1][p]),
                   {0}))]

IndUniMakeSkewTasks(t) ==
    /\ pc[t] = "skewtasks"
    /\ \/ /\ t = 0
          /\ LET tasks == IndUniSkewTasks
                 splits == {i \in DOMAIN tasks : Joinable(tasks[i]) /\ Large(tasks[i])}
                 joins  == SelectSeq(tasks, LAMBDA x : Joinable(x) /\ ~Large(x))
             IN  /\ part_queue' = Pushed(part_queue, FlattenSeq([i \in DOMAIN tasks |->
                        IF i \in splits THEN IndUniSplit(i - 1) ELSE <<>>]))
                 /\ join_queue' = Pushed(join_queue, joins)
                 /\ lmax' = [lmax EXCEPT ![t] = Largest(@, tasks)]
       \/ t # 0 /\ UNCHANGED <<part_queue, join_queue, lmax>>
    /\ Goto(t, "fetch")
    /\ UNCHANGED <<inputs, mem, skew_queue, hist, skewtask, maxBuild, part, task, next,
                   prober>>

IndUniDrainParts(t) == DrainParts(t)
IndUniFindMax(t)    == FindMax(t)
-----------------------------------------------------------------------------
(***************************************************************************)
(* The probe threads.                                                      *)
(***************************************************************************)
IndUniSpawnProbers == SpawnProbers
IndUniWipe(p)      == Wipe(p)
IndUniPopJoin(p)   == PopJoin(p)

(* A kernel is told whether a room has one region or those of all threads, *)
(* and calculates for itself where these are.                              *)
KernelRegion(X) == ((IndUniScale * Size[X]) \div (100 * Fanout1 * Fanout2 * BuildNum)) + Pad

KernelRoom(p, X) ==
    LET room == ptask[p][X]
    IN  IF room.regions = {0} THEN room ELSE Spaced(room, Regions(KernelRegion(X)))

IndUniBuildTable(p) ==
    /\ ppc[p] = "build" /\ build.kernel \in {"bc", "lp", "sc"}
    /\ table' = [table EXCEPT ![p] = RowsAt("R", KernelRoom(p, "R"))]
    /\ ppc' = [ppc EXCEPT ![p] = "probe"]
    /\ UNCHANGED <<inputs, mem, queues, builder, size, ptask, acc, result>>

(* hr_join puts the tuples of all regions next to each other in r_tmp.     *)
IndUniReorder(p) ==
    /\ ppc[p] = "build" /\ build.kernel = "hr"
    /\ table' = [table EXCEPT ![p] = RowsAt("R", KernelRoom(p, "R"))]
    /\ mem' = Scattered("R", KernelRoom(p, "R"), Other(ptask[p].R.arr),
                        [q \in {0} |-> ptask[p].R.base], 1, 0)
    /\ ppc' = [ppc EXCEPT ![p] = "probe"]
    /\ UNCHANGED <<inputs, queues, builder, size, ptask, acc, result>>

IndUniTableRows(p) ==
    IF build.kernel = "bc" THEN table[p] \cap RowsAt("R", KernelRoom(p, "R")) ELSE TableRows(p)

IndUniProbeTable(p) ==
    /\ ppc[p] = "probe"
    /\ LET pairs == PairsOf(IndUniTableRows(p), KernelRoom(p, "S"))
       IN  acc' = [acc EXCEPT ![p] =
               [matched  |-> @.matched + Cardinality(pairs),
                checksum |-> (@.checksum + RowidSum(RowidBits, pairs)) % 2^RowidBits]]
    /\ ppc' = [ppc EXCEPT ![p] = "pop"]
    /\ UNCHANGED <<inputs, mem, queues, builder, size, table, ptask, result>>

IndUniBcBuild(p)   == build.kernel = "bc" /\ IndUniBuildTable(p)
IndUniLpBuild(p)   == build.kernel = "lp" /\ IndUniBuildTable(p)
IndUniScBuild(p)   == build.kernel = "sc" /\ IndUniBuildTable(p)
IndUniHrBuild(p)   == build.kernel = "hr" /\ IndUniReorder(p)
IndUniBcProbe(p)   == build.kernel = "bc" /\ IndUniProbeTable(p)
IndUniLpProbe(p)   == build.kernel = "lp" /\ IndUniProbeTable(p)
IndUniScProbe(p)   == build.kernel = "sc" /\ IndUniProbeTable(p)
IndUniHrProbe(p)   == build.kernel = "hr" /\ IndUniProbeTable(p)
IndUniReleaseProbe == ReleaseProbe
IndUniCollect      == Collect
-----------------------------------------------------------------------------
IndUniPartition(t) == \E X \in Rels : IndUniFirst(t, X) \/ IndUniFollowing(t, X)

IndUniBuildpart(t) ==
    \/ IndUniMemset(t) \/ IndUniZero(t) \/ IndUniPartition(t) \/ IndUniMakeTasks(t)
    \/ IndUniStartSecondPass(t) \/ IndUniPopPart(t) \/ IndUniCluster(t) \/ IndUniEmit(t)
    \/ IndUniShareMax(t) \/ IndUniFetchSkew(t) \/ IndUniLook(t) \/ IndUniMakeSkewTasks(t)
    \/ IndUniDrainParts(t) \/ IndUniFindMax(t)

IndUniProbejoin(p) ==
    \/ IndUniWipe(p) \/ IndUniPopJoin(p)
    \/ IndUniBcBuild(p) \/ IndUniLpBuild(p) \/ IndUniScBuild(p) \/ IndUniHrBuild(p)
    \/ IndUniBcProbe(p) \/ IndUniLpProbe(p) \/ IndUniScProbe(p) \/ IndUniHrProbe(p)

IndUniMain ==
    IndUniRelease \/ IndUniSpawnProbers \/ IndUniReleaseProbe \/ IndUniCollect
=============================================================================
