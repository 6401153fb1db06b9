------------------------------ MODULE PhjBwReg ------------------------------
(***************************************************************************)
(* phj_bw_reg.c: phj.c with regulated bandwidth.  All build threads count, *)
(* but only the first WriteNum of them write.  In the first pass and in    *)
(* skew handling a writer copies its share and those of other threads, to  *)
(* where their owners have computed; in the second pass a thread that does *)
(* not write counts the partitions of a task and hands the task on, with   *)
(* its histograms, to whichever writer takes it from mid_queue.            *)
(***************************************************************************)
EXTENDS Phj

CONSTANT WriteNum     \* BUILDPART_WRITE_THREAD_NUM

ASSUME WriteAssumption == WriteNum \in Nat \ {0}

VARIABLES
    offs,       \* offs[X][t]: output_offset of thread t, padding included
    mid_queue,  \* part_queue_2nd_pass: tasks with the slot of their histograms
    used,       \* idx_2nd_pass: how many slots are taken
    hist2,      \* hist2[k][X]: slot k of r_hist_2nd_pass and s_hist_2nd_pass
    slot,       \* the slot of the task of each build thread
    before      \* its before_mid_hist_flag

bwvars == <<offs, mid_queue, used, hist2, slot, before>>
second == <<mid_queue, used, hist2, slot, before>>

Writers   == {t \in Builders : t < WriteNum}
NoOffsets == [t \in Builders |-> NoCounts]

BwFresh ==
    /\ offs = [X \in Rels |-> NoOffsets]
    /\ mid_queue = <<>> /\ used = 0
    /\ hist2 = [k \in 0 .. Fanout1 - 1 |-> [X \in Rels |-> NoCounts]]
    /\ slot = [t \in Builders |-> 0] /\ before = [t \in Builders |-> TRUE]

BwLoad == Load /\ build.file = "phj_bw_reg"
BwPool == Pool

(* Two barriers more: behind the sums, and in the second pass between the  *)
(* half that counts and the half that only writes.                         *)
BwAfterBarrier ==
    [b \in DOMAIN AfterBarrier \cup {"summedR", "summedS", "midway"} |->
        CASE b = "countedR" -> "sumR" [] b = "summedR" -> "scatterR"
          [] b = "countedS" -> "sumS" [] b = "summedS" -> "scatterS"
          [] b = "midway"   -> "popmid"
          [] OTHER          -> AfterBarrier[b]]

BwRelease == Open(BwAfterBarrier) /\ UNCHANGED bwvars
-----------------------------------------------------------------------------
(***************************************************************************)
(* The first pass and the rounds of skew handling.                         *)
(***************************************************************************)
BwMemset(t) == Memset(t) /\ UNCHANGED bwvars

(* Histograms and offsets of thread t. *)
BwZeroCurrent(t) ==
    /\ Zero(t)
    /\ offs' = [X \in Rels |->
           IF X \in Current(t) THEN [offs[X] EXCEPT ![t] = NoCounts] ELSE offs[X]]
    /\ UNCHANGED second

BwZero(t)     == part[t] = "first" /\ BwZeroCurrent(t)
BwZeroSkew(t) == part[t] = "skew" /\ BwZeroCurrent(t)

BwCount(t, X) == Count(t, X) /\ UNCHANGED bwvars

(* Where the rooms of thread t begin, which its writer will read.          *)
BwSum(t, X) ==
    /\ pc[t] = [R |-> "sumR", S |-> "sumS"][X]
    /\ offs' = [offs EXCEPT ![X][t] = [p \in DOMAIN NoCounts |->
           IF p < Fanout(t) THEN @[p] + Offset(t, X, p) ELSE @[p]]]
    /\ next' = [next EXCEPT ![t] = t]
    /\ Goto(t, [R |-> "summedR", S |-> "summedS"][X])
    /\ UNCHANGED <<inputs, mem, queues, hist, skewtask, maxBuild, part, task, lmax,
                   prober, second>>

BwStarts(t, u, X) == [p \in 0 .. Fanout(t) - 1 |-> Begin(t, X) + offs[X][u][p]]
BwSource(t, u, X) == ShareOf(Whole(t, X), u)

(* Mutant: a writer only writes its own share. *)
BwMoreOwn(t) == FALSE

(* A writer goes on with the share of every WriteNum-th thread.            *)
BwMore(t) == next[t] + WriteNum < BuildNum

BwScatter(t, X) ==
    /\ pc[t] = [R |-> "scatterR", S |-> "scatterS"][X] /\ t \in Writers /\ ~build.swwcb
    /\ mem' = Scattered(X, BwSource(t, next[t], X), Target(t, X), BwStarts(t, next[t], X),
                        Fanout(t), SkipOf(t))
    /\ \/ /\ BwMore(t)
          /\ next' = [next EXCEPT ![t] = @ + WriteNum]
          /\ UNCHANGED pc
       \/ ~BwMore(t) /\ Partitioned(t, X) /\ UNCHANGED next
    /\ UNCHANGED <<inputs, queues, hist, skewtask, maxBuild, part, task, lmax, prober,
                   bwvars>>

(* Through the write-combining buffers of the owners: all full lines first, *)
BwStoreLines(t, X) ==
    /\ pc[t] = [R |-> "scatterR", S |-> "scatterS"][X] /\ t \in Writers /\ build.swwcb
    /\ mem' = Lined(X, BwSource(t, next[t], X), Target(t, X), BwStarts(t, next[t], X),
                    Fanout(t), SkipOf(t))
    /\ \/ /\ BwMore(t)
          /\ next' = [next EXCEPT ![t] = @ + WriteNum]
          /\ UNCHANGED pc
       \/ /\ ~BwMore(t)
          /\ next' = [next EXCEPT ![t] = t]
          /\ Goto(t, [R |-> "linedR", S |-> "linedS"][X])
    /\ UNCHANGED <<inputs, queues, hist, skewtask, maxBuild, part, task, lmax, prober,
                   bwvars>>

(* and what is left in them when all writers have stored theirs.           *)
BwStoreRests(t, X) ==
    /\ pc[t] = [R |-> "restsR", S |-> "restsS"][X] /\ t \in Writers
    /\ mem' = Rested(X, BwSource(t, next[t], X), Target(t, X), BwStarts(t, next[t], X),
                     Fanout(t), SkipOf(t))
    /\ \/ /\ BwMore(t)
          /\ next' = [next EXCEPT ![t] = @ + WriteNum]
          /\ UNCHANGED pc
       \/ ~BwMore(t) /\ Partitioned(t, X) /\ UNCHANGED next
    /\ UNCHANGED <<inputs, queues, hist, skewtask, maxBuild, part, task, lmax, prober,
                   bwvars>>

(* Mutant: they do not. *)
BwStandByUnbalanced(t, X) ==
    /\ t \notin Writers
    /\ pc[t] = [R |-> "scatterR", S |-> "scatterS"][X]
    /\ Partitioned(t, X)
    /\ UNCHANGED <<inputs, mem, queues, hist, skewtask, maxBuild, local, prober, bwvars>>

(* The other threads only keep the barrier in balance. *)
BwStandBy(t, X) ==
    /\ t \notin Writers
    /\ \/ /\ pc[t] = [R |-> "scatterR", S |-> "scatterS"][X] /\ build.swwcb
          /\ Goto(t, [R |-> "linedR", S |-> "linedS"][X])
       \/ /\ \/ pc[t] = [R |-> "scatterR", S |-> "scatterS"][X] /\ ~build.swwcb
             \/ pc[t] = [R |-> "restsR", S |-> "restsS"][X]
          /\ Partitioned(t, X)
    /\ UNCHANGED <<inputs, mem, queues, hist, skewtask, maxBuild, local, prober, bwvars>>

(* Thread 0 reads the rooms of the partitions off its own offsets.         *)
BwPartNum(t, X, total, p) ==
    IF p = Fanout(t) - 1 THEN total - offs[X][t][p] + p * Padding(t)
    ELSE offs[X][t][p + 1] - offs[X][t][p] - Padding(t)

BwPartTask(t, total, p) ==
    LET room(X) == IF X \in Current(t)
                   THEN Room(Target(t, X), Begin(t, X) + offs[X][t][p],
                             BwPartNum(t, X, total[X], p))
                   ELSE skewtask[X]
    IN  Task(room("R"), room("S"))

BwFirstTasks(t) == [i \in 1 .. Fanout1 |-> BwPartTask(t, Size, i - 1)]

BwMakeTasks(t) ==
    /\ pc[t] = "tasks"
    /\ \/ /\ t = 0
          /\ AddTasks(BwFirstTasks(t))
          /\ lmax' = [lmax EXCEPT ![t] = Largest(@, Parts(BwFirstTasks(t)))]
       \/ t # 0 /\ UNCHANGED <<skew_queue, part_queue, lmax>>
    /\ Goto(t, "queued")
    /\ UNCHANGED <<inputs, mem, join_queue, hist, skewtask, maxBuild, part, task, next,
                   prober, bwvars>>
-----------------------------------------------------------------------------
(***************************************************************************)
(* The second pass.                                                        *)
(***************************************************************************)
BwStartSecondPass(t) == StartSecondPass(t) /\ UNCHANGED bwvars

(* Mutant: no barrier between the halves. *)
BwPopPartUnawaited(t) ==
    /\ pc[t] = "pop"
    /\ \/ /\ part_queue # <<>>
          /\ task' = [task EXCEPT ![t] = Head(part_queue)]
          /\ part_queue' = Tail(part_queue)
          /\ Goto(t, "claim")
       \/ /\ part_queue = <<>>
          /\ Goto(t, "popmid")
          /\ UNCHANGED <<part_queue, task>>
    /\ UNCHANGED <<inputs, mem, skew_queue, join_queue, hist, skewtask, maxBuild, part,
                   next, lmax, prober, bwvars>>

BwPopPart(t) ==
    /\ pc[t] = "pop"
    /\ \/ /\ part_queue # <<>>
          /\ task' = [task EXCEPT ![t] = Head(part_queue)]
          /\ part_queue' = Tail(part_queue)
          /\ Goto(t, "claim")
       \/ /\ part_queue = <<>>
          /\ Goto(t, "midway")
          /\ UNCHANGED <<part_queue, task>>
    /\ UNCHANGED <<inputs, mem, skew_queue, join_queue, hist, skewtask, maxBuild, part,
                   next, lmax, prober, bwvars>>

(* __sync_fetch_and_add(&idx_2nd_pass, 1) *)
BwClaim(t) ==
    /\ pc[t] = "claim"
    /\ slot' = [slot EXCEPT ![t] = used]
    /\ used' = used + 1
    /\ Goto(t, "count2")
    /\ UNCHANGED <<inputs, mem, queues, hist, skewtask, maxBuild, local, prober, offs,
                   mid_queue, hist2, before>>

(* With before_mid_hist_flag each thread counts the task that it has taken. *)
BwCount2(t) ==
    /\ pc[t] = "count2"
    /\ hist2' = [hist2 EXCEPT ![slot[t]] = [X \in Rels |->
           IF X \in SecondRels
           THEN [p \in DOMAIN NoCounts |-> @[X][p] +
                    IF p < Fanout2 THEN CountIn(X, task[t][X], Fanout2, Skip, p) ELSE 0]
           ELSE @[X]]]
    /\ Goto(t, IF t \in Writers THEN "cluster" ELSE "defer")
    /\ UNCHANGED <<inputs, mem, queues, hist, skewtask, maxBuild, local, prober, offs,
                   mid_queue, used, slot, before>>

(* Mutant: the task goes without the slot, and its taker uses its own. *)
BwDeferBare(t) ==
    /\ pc[t] = "defer"
    /\ mid_queue' = <<[task |-> task[t], slot |-> 0]>> \o mid_queue
    /\ Goto(t, "pop")
    /\ UNCHANGED <<inputs, mem, queues, hist, skewtask, maxBuild, local, prober, offs,
                   used, hist2, slot, before>>

(* A thread that does not write hands on the task and its histograms.      *)
BwDefer(t) ==
    /\ pc[t] = "defer"
    /\ mid_queue' = <<[task |-> task[t], slot |-> slot[t]]>> \o mid_queue
    /\ Goto(t, "pop")
    /\ UNCHANGED <<inputs, mem, queues, hist, skewtask, maxBuild, local, prober, offs,
                   used, hist2, slot, before>>

BwClusterOffset(k, X, p) ==
    MapThenSumSet(LAMBDA q : hist2[k][X][q], 0 .. p - 1) + p * Pad

(* radix_cluster_bw_reg, the half of it that copies: the offsets are those *)
(* of the histogram, whoever counted it.                                   *)
BwClustered(x, k, X) ==
    LET to == [p \in 0 .. Fanout2 - 1 |-> x[X].base + BwClusterOffset(k, X, p)]
    IN  IF build.swwcb
        THEN LinedAndRested(X, x[X], Other(x[X].arr), to, Fanout2, Skip)[X]
        ELSE Scattered(X, x[X], Other(x[X].arr), to, Fanout2, Skip)[X]

BwCluster(t) ==
    /\ pc[t] = "cluster"
    /\ mem' = [X \in Rels |->
           IF X \in SecondRels THEN BwClustered(task[t], slot[t], X) ELSE mem[X]]
    /\ next' = [next EXCEPT ![t] = 0]
    /\ Goto(t, "emit")
    /\ UNCHANGED <<inputs, queues, hist, skewtask, maxBuild, part, task, lmax, prober,
                   bwvars>>

BwClusterTask(x, k, p) ==
    LET room(X) == IF X \in SecondRels
                   THEN Room(Other(x[X].arr), x[X].base + BwClusterOffset(k, X, p),
                             hist2[k][X][p])
                   ELSE x[X]
    IN  Task(room("R"), room("S"))

(* Back to part_queue, or to mid_queue if its tasks are handed out by now. *)
BwEmit(t) ==
    /\ pc[t] = "emit"
    /\ \E x \in {BwClusterTask(task[t], slot[t], next[t])} :
           IF Joinable(x)
           THEN /\ join_queue' = Pushed(join_queue, <<x>>)
                /\ lmax' = [lmax EXCEPT ![t] = Largest(@, <<x>>)]
           ELSE UNCHANGED <<join_queue, lmax>>
    /\ next' = [next EXCEPT ![t] = @ + 1]
    /\ Goto(t, IF next[t] < Fanout2 - 1 THEN "emit"
               ELSE IF before[t] THEN "pop" ELSE "popmid")
    /\ UNCHANGED <<inputs, mem, part_queue, skew_queue, hist, skewtask, maxBuild, part,
                   task, prober, bwvars>>

(* When all tasks are counted, the writers share those handed on. *)
BwPopMid(t) ==
    /\ pc[t] = "popmid"
    /\ \/ /\ t \in Writers /\ mid_queue # <<>>
          /\ task' = [task EXCEPT ![t] = Head(mid_queue).task]
          /\ slot' = [slot EXCEPT ![t] = Head(mid_queue).slot]
          /\ before' = [before EXCEPT ![t] = FALSE]
          /\ mid_queue' = Tail(mid_queue)
          /\ Goto(t, "cluster")
       \/ /\ t \notin Writers \/ mid_queue = <<>>
          /\ Goto(t, "share")
          /\ UNCHANGED <<task, slot, before, mid_queue>>
    /\ UNCHANGED <<inputs, mem, queues, hist, skewtask, maxBuild, part, next, lmax,
                   prober, offs, used, hist2>>

BwShareMax(t) == ShareMax(t) /\ UNCHANGED bwvars
-----------------------------------------------------------------------------
(***************************************************************************)
(* Skew handling.                                                          *)
(***************************************************************************)
BwFetchSkew(t) == FetchSkew(t) /\ UNCHANGED bwvars
BwLook(t)      == Look(t) /\ UNCHANGED bwvars

BwSkewTasks(t) ==
    [i \in 1 .. Fanout2 |-> BwPartTask(t, [X \in Rels |-> skewtask[X].num], i - 1)]

BwMakeSkewTasks(t) ==
    /\ pc[t] = "skewtasks"
    /\ \/ /\ t = 0
          /\ AddSkewTasks(BwSkewTasks(t))
          /\ lmax' = [lmax EXCEPT ![t] = Largest(@, BwSkewTasks(t))]
       \/ t # 0 /\ UNCHANGED <<part_queue, join_queue, lmax>>
    /\ Goto(t, "fetch")
    /\ UNCHANGED <<inputs, mem, skew_queue, hist, skewtask, maxBuild, part, task, next,
                   prober, bwvars>>

BwDrainParts(t) == DrainParts(t) /\ UNCHANGED bwvars

(* Mutant: thread 0 only shares what it has seen itself. *)
BwFindMaxOwn(t) == FindMaxOwn(t) /\ UNCHANGED bwvars

BwFindMax(t) == FindMax(t) /\ UNCHANGED bwvars
-----------------------------------------------------------------------------
(***************************************************************************)
(* The probe threads.                                                      *)
(***************************************************************************)
BwSpawnProbers == SpawnProbers /\ UNCHANGED bwvars
BwWipe(p)      == Wipe(p) /\ UNCHANGED bwvars
BwPopJoin(p)   == PopJoin(p) /\ UNCHANGED bwvars
BwBcBuild(p)   == build.kernel = "bc" /\ BuildTable(p) /\ UNCHANGED bwvars
BwLpBuild(p)   == build.kernel = "lp" /\ BuildTable(p) /\ UNCHANGED bwvars
BwScBuild(p)   == build.kernel = "sc" /\ BuildTable(p) /\ UNCHANGED bwvars
BwHrBuild(p)   == build.kernel = "hr" /\ Reorder(p) /\ UNCHANGED bwvars
BwHroBuild(p)  == build.kernel = "hro" /\ Reorder(p) /\ UNCHANGED bwvars
BwBcProbe(p)   == build.kernel = "bc" /\ ProbeTable(p) /\ UNCHANGED bwvars
BwLpProbe(p)   == build.kernel = "lp" /\ ProbeTable(p) /\ UNCHANGED bwvars
BwScProbe(p)   == build.kernel = "sc" /\ ProbeTable(p) /\ UNCHANGED bwvars
BwHrProbe(p)   == build.kernel = "hr" /\ ProbeTable(p) /\ UNCHANGED bwvars
BwHroProbe(p)  == build.kernel = "hro" /\ ProbeTable(p) /\ UNCHANGED bwvars
BwReleaseProbe == ReleaseProbe /\ UNCHANGED bwvars
BwCollect      == Collect /\ UNCHANGED bwvars
-----------------------------------------------------------------------------
BwPartition(t) ==
    \E X \in Rels : BwCount(t, X) \/ BwSum(t, X) \/ BwScatter(t, X)
                      \/ BwStoreLines(t, X) \/ BwStoreRests(t, X) \/ BwStandBy(t, X)

BwFirstPass(t) == part[t] = "first" /\ BwPartition(t)

BwSkewPass(t)  == part[t] = "skew" /\ BwPartition(t)

BwBuildpart(t) ==
    \/ BwMemset(t) \/ BwZero(t) \/ BwFirstPass(t) \/ BwMakeTasks(t)
    \/ BwStartSecondPass(t) \/ BwPopPart(t) \/ BwClaim(t) \/ BwCount2(t) \/ BwDefer(t)
    \/ BwCluster(t) \/ BwEmit(t) \/ BwPopMid(t) \/ BwShareMax(t)
    \/ BwFetchSkew(t) \/ BwLook(t) \/ BwZeroSkew(t) \/ BwSkewPass(t)
    \/ BwMakeSkewTasks(t) \/ BwDrainParts(t) \/ BwFindMax(t)

BwProbejoin(p) ==
    \/ BwWipe(p) \/ BwPopJoin(p)
    \/ BwBcBuild(p) \/ BwLpBuild(p) \/ BwScBuild(p) \/ BwHrBuild(p) \/ BwHroBuild(p)
    \/ BwBcProbe(p) \/ BwLpProbe(p) \/ BwScProbe(p) \/ BwHrProbe(p) \/ BwHroProbe(p)

BwMain == BwRelease \/ BwSpawnProbers \/ BwReleaseProbe \/ BwCollect
=============================================================================
