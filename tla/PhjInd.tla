------------------------------- MODULE PhjInd -------------------------------
(***************************************************************************)
(* phj_ind.c: linked partition buffers again, but each build thread has    *)
(* heads and lists of its own, into which it puts its tuples without a     *)
(* latch.  Thread 0 links the lists of one partition thread by thread.  So *)
(* that it need not look for their ends, the first buffer that a list gets *)
(* besides its head is the one that was put aside as its rear: buffers are *)
(* linked between these two.                                               *)
(***************************************************************************)
EXTENDS PhjShr

IndLoad == Load
IndPool == Pool
IndRelease == Release

(* A thread partitions a share alone: nobody looks at its lists or counts  *)
(* before the barrier behind.                                              *)
IndPut(X, t, h, fanout, rows, radix) ==
    LET parts == [p \in 0 .. fanout - 1 |-> chain[X][t][h + p]]
    IN  IF build.swwcb THEN Combined(parts, rows, radix) ELSE Direct(parts, rows, radix)

IndCounts(rows, radix) == [p \in Parts |-> Len(SelectSeq(rows, LAMBDA i : radix[i] = p))]

IndPartition(t, h, fanout, rows, radix) ==
    /\ chain' = [X \in Rels |-> [chain[X] EXCEPT ![t] = [i \in Heads |->
           IF i - h \in 0 .. fanout - 1
           THEN IndPut(X, t, h, fanout, rows[X], radix[X])[i - h] ELSE @[i]]]]
    /\ hist' = [X \in Rels |-> [hist[X] EXCEPT ![t] = [p \in Parts |->
           @[p] + IndCounts(rows[X], radix[X])[p]]]]

IndFirst(t) ==
    /\ pc[t] = "first"
    /\ IndPartition(t, 0, Fanout1, [X \in Rels |-> ShareRows(X, t)],
                    [X \in Rels |-> FirstRadix(X)])
    /\ Goto(t, "parted")
    /\ UNCHANGED <<inputs, linked, queues, shared, local, prober>>

(* The rear of each thread's list, or its head if it has no other buffer,  *)
(* leads to the head of the next thread's.                                 *)
IndLink(h, fanout) ==
    linked' = linked \cup {<<X, u, i>> : X \in Rels, u \in 0 .. BuildNum - 2, i \in h .. h + fanout - 1}

(* How many buffers that makes: each thread's head, even if it is empty,   *)
(* and those linked to it.                                                 *)
IndBuffers(h) ==
    [X \in Rels |-> MapThenSumSet(LAMBDA u : Len(chain[X][u][h]), Builders)]

IndFirstTasks == [i \in 1 .. Fanout1 |-> Task(0, i - 1, Totals(i - 1), IndBuffers(i - 1))]

IndMakeTasks(t) ==
    /\ pc[t] = "tasks"
    /\ \/ t = 0 /\ IndLink(0, Fanout1) /\ AddTasks(t, IndFirstTasks)
       \/ t # 0 /\ UNCHANGED <<linked, skew_queue, part_queue, lmax>>
    /\ Goto(t, "queued")
    /\ UNCHANGED <<inputs, chain, hist, join_queue, shared, base, partnum, todo, dest, task,
                   group, next, prober>>

(* The second pass is that of phj_shr.c, on lists of the thread's own.     *)
IndStartSecondPass(t) == StartSecondPass(t)
IndPopPart(t)         == PopPart(t)
IndCluster(t)         == Cluster(t)
IndEmit(t)            == Emit(t)
IndEndSecondPass(t)   == EndSecondPass(t)

IndFetchSkew(t) == FetchSkew(t)
IndLook(t)      == Look(t)

(* The heads for skewtask follow from how many tasks wait behind it.       *)
IndSkewGroup(t) == base[t] + Fanout2 * Len(skew_queue)

IndFollowing(t) ==
    /\ pc[t] = "following"
    /\ IndPartition(t, IndSkewGroup(t), Fanout2, [X \in Rels |-> ShareBuffers(X, t)],
                    [X \in Rels |-> SecondRadix(X)])
    /\ Goto(t, "skewed")
    /\ UNCHANGED <<inputs, linked, queues, shared, local, prober>>

IndSkewTasks(h) ==
    [i \in 1 .. Fanout2 |-> Task(0, h + i - 1, Totals(i - 1), IndBuffers(h + i - 1))]

IndMakeSkewTasks(t) ==
    /\ pc[t] = "skewtasks"
    /\ \/ /\ t = 0
          /\ IndLink(IndSkewGroup(t), Fanout2)
          /\ AddSkewTasks(t, IndSkewTasks(IndSkewGroup(t)))
       \/ t # 0 /\ UNCHANGED <<linked, part_queue, join_queue, lmax>>
    /\ Goto(t, "fetch")
    /\ UNCHANGED <<inputs, chain, hist, skew_queue, shared, base, partnum, todo, dest, task,
                   group, next, prober>>

IndDrainParts(t) == DrainParts(t)
IndFindMax(t)    == FindMax(t)

IndSpawnProbers  == SpawnProbers
IndWipe(p)       == Wipe(p)
IndReleaseProbe  == ReleaseProbe
IndPopJoin(p)    == PopJoin(p)
IndBuildTable(p) == BuildTable(p)
IndProbeTable(p) == ProbeTable(p)
IndCollect       == Collect
-----------------------------------------------------------------------------
IndBuildpart(t) ==
    \/ IndFirst(t) \/ IndMakeTasks(t)
    \/ IndStartSecondPass(t) \/ IndPopPart(t) \/ IndCluster(t) \/ IndEmit(t)
    \/ IndEndSecondPass(t)
    \/ IndFetchSkew(t) \/ IndLook(t) \/ IndFollowing(t) \/ IndMakeSkewTasks(t)
    \/ IndDrainParts(t) \/ IndFindMax(t)

IndProbejoin(p) == IndWipe(p) \/ IndPopJoin(p) \/ IndBuildTable(p) \/ IndProbeTable(p)

IndMain == IndRelease \/ IndSpawnProbers \/ IndReleaseProbe \/ IndCollect
=============================================================================
