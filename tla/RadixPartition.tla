--------------------------- MODULE RadixPartition ---------------------------
(***************************************************************************)
(* The parallel radix partitioning of one relation, parallel_radix_partition *)
(* in src/algo/phj.c: the first pass of the partitioned hash join, and the *)
(* pass by which all threads split one skewed partition again.             *)
(*                                                                         *)
(* Every thread counts the tuples of its share by partition, waits for the *)
(* others, and derives from everybody's counts where in tmp its tuples of  *)
(* each partition go; then all threads copy their tuples without a latch.  *)
(* Consecutive partitions are Padding positions apart.                     *)
(***************************************************************************)
EXTENDS Relations

CONSTANTS
    N,            \* the tuples of the relation
    Inputs,       \* the contents to consider, functions from rows to keys
    Keys,         \* the keys that occur in them
    Hash,         \* IDHASH(key, hashmask, bitskip), a function of the key
    ThreadNum,    \* BUILDPART_THREAD_NUM
    Fanout,       \* hashmask + 1, the number of partitions
    Padding,      \* padding_num
    Empty         \* the contents of a position nothing has been stored in

Parts     == 0 .. Fanout - 1
Threads   == 0 .. ThreadNum - 1
Positions == 0 .. N + (Fanout - 1) * Padding - 1

ASSUME PartitionAssumption ==
    /\ N \in Nat /\ Padding \in Nat
    /\ ThreadNum \in Nat \ {0} /\ Fanout \in Nat \ {0}
    /\ Inputs \subseteq [Rows(N) -> Keys]
    /\ Hash \in [Keys -> Parts]
    /\ Empty \notin Rows(N)

VARIABLES
    rel,     \* the relation
    hist,    \* hist[t]: per partition, thread t's tuples and their prefix sum
    offset,  \* offset[t][p]: thread t's output_offset of partition p
    idx,     \* the row thread t copies next
    tmp,     \* the output
    pc       \* where each thread stands

vars == <<rel, hist, offset, idx, tmp, pc>>

Zeros == [p \in Parts |-> 0]

TypeOK ==
    /\ rel \in Inputs
    /\ hist \in [Threads -> [count : [Parts -> 0 .. N], prefix : [Parts -> 0 .. N]]]
    /\ offset \in [Threads -> [Parts -> Nat]]
    /\ idx \in [Threads -> 0 .. N]
    /\ tmp \in [Positions -> Rows(N) \cup {Empty}]
    /\ pc \in [Threads -> {"hist", "barrier", "offset", "scatter", "done"}]

(* The histograms and offsets were zeroed before the barrier in front of the *)
(* first pass, and so was tmp.                                             *)
Init ==
    /\ rel \in Inputs
    /\ hist = [t \in Threads |-> [count |-> Zeros, prefix |-> Zeros]]
    /\ offset = [t \in Threads |-> Zeros]
    /\ idx = [t \in Threads |-> ShareBegin(N, ThreadNum, t)]
    /\ tmp = [q \in Positions |-> Empty]
    /\ pc = [t \in Threads |-> "hist"]

(* The rows of partition p in the share of thread t. *)
Mine(t, p) == {i \in Share(N, ThreadNum, t) : Hash[rel[i]] = p}

(* Thread t counts its tuples and sums the counts up over the partitions.  *)
Histogram(t) ==
    /\ pc[t] = "hist"
    /\ hist' = [hist EXCEPT ![t] =
                  [count  |-> [p \in Parts |-> Cardinality(Mine(t, p))],
                   prefix |-> [p \in Parts |->
                       SumFunction([o \in 0 .. p |-> Cardinality(Mine(t, o))])]]]
    /\ pc' = [pc EXCEPT ![t] = "barrier"]
    /\ UNCHANGED <<rel, offset, idx, tmp>>

(* Mutant: a thread does not wait for the histograms of the others.        *)
ReleaseEach ==
    /\ \E t \in Threads : pc[t] = "barrier" /\ pc' = [pc EXCEPT ![t] = "offset"]
    /\ UNCHANGED <<rel, hist, offset, idx, tmp>>

(* The barrier behind the histograms. *)
Release ==
    /\ \A t \in Threads : pc[t] = "barrier"
    /\ pc' = [t \in Threads |-> "offset"]
    /\ UNCHANGED <<rel, hist, offset, idx, tmp>>

(* Mutant: a thread adds its own counts to the ones in front of it.        *)
StartIncludingOwn(t, p) ==
    SumFunction([u \in 0 .. t |-> hist[u].prefix[p]])
    + (IF p = 0 THEN 0
       ELSE SumFunction([u \in t + 1 .. ThreadNum - 1 |-> hist[u].prefix[p - 1]]))

(* In front of thread t's tuples of partition p come the tuples of the     *)
(* threads before it up to partition p, and those of all others up to p - 1. *)
Start(t, p) ==
    SumFunction([u \in 0 .. t - 1 |-> hist[u].prefix[p]])
    + (IF p = 0 THEN 0
       ELSE SumFunction([u \in t .. ThreadNum - 1 |-> hist[u].prefix[p - 1]]))

Offsets(t) ==
    /\ pc[t] = "offset"
    /\ offset' = [offset EXCEPT ![t] = [p \in Parts |-> Start(t, p)]]
    /\ pc' = [pc EXCEPT ![t] = "scatter"]
    /\ UNCHANGED <<rel, hist, idx, tmp>>

(* Copy one tuple to its partition. *)
Scatter(t) ==
    /\ pc[t] = "scatter"
    /\ idx[t] < ShareEnd(N, ThreadNum, t)
    /\ LET p == Hash[rel[idx[t]]]
       IN  /\ tmp' = [tmp EXCEPT ![offset[t][p] + p * Padding] = idx[t]]
           /\ offset' = [offset EXCEPT ![t][p] = @ + 1]
    /\ idx' = [idx EXCEPT ![t] = @ + 1]
    /\ UNCHANGED <<rel, hist, pc>>

(* Mutant: the offsets are left behind the tuples. *)
RewindForgotten(t) ==
    /\ pc[t] = "scatter"
    /\ idx[t] >= ShareEnd(N, ThreadNum, t)
    /\ offset' = [offset EXCEPT ![t] = [p \in Parts |-> @[p] + p * Padding]]
    /\ pc' = [pc EXCEPT ![t] = "done"]
    /\ UNCHANGED <<rel, hist, idx, tmp>>

(* Move the offsets back to where the partitions start, padding included.  *)
Rewind(t) ==
    /\ pc[t] = "scatter"
    /\ idx[t] >= ShareEnd(N, ThreadNum, t)
    /\ offset' = [offset EXCEPT ![t] =
                    [p \in Parts |-> @[p] - hist[t].count[p] + p * Padding]]
    /\ pc' = [pc EXCEPT ![t] = "done"]
    /\ UNCHANGED <<rel, hist, idx, tmp>>

(* The threads go on with what the caller has for them. *)
Terminated ==
    /\ \A t \in Threads : pc[t] = "done"
    /\ UNCHANGED vars

Thread(t) == Histogram(t) \/ Offsets(t) \/ Scatter(t) \/ Rewind(t)

Next == (\E t \in Threads : Thread(t)) \/ Release \/ Terminated

Spec == Init /\ [][Next]_vars

-----------------------------------------------------------------------------
(***************************************************************************)
(* What the caller makes of it: thread 0 derives the partitions from its   *)
(* own offsets alone (prj_thread_buildpart).                               *)
(***************************************************************************)
TaskSize(p) ==
    IF p = Fanout - 1
    THEN N - offset[0][p] + p * Padding
    ELSE offset[0][p + 1] - offset[0][p] - Padding

TaskRange(p) == offset[0][p] .. offset[0][p] + TaskSize(p) - 1
-----------------------------------------------------------------------------
(***************************************************************************)
(* Properties.                                                             *)
(***************************************************************************)

(* Threads that copy at the same time never write to the same position: what *)
(* has been stored stays, and every thread knows where it goes without     *)
(* looking (phj.c:203-207).                                                *)
NoOverwrite ==
    [][\A q \in Positions : tmp[q] # Empty => tmp'[q] = tmp[q]]_vars

(* The room a thread still has in a partition is free, inside of tmp, and  *)
(* nobody else's.                                                          *)
Room(t, p) ==
    LET first == offset[t][p] + p * Padding
        left  == {i \in Mine(t, p) : i >= idx[t]}
    IN  first .. first + Cardinality(left) - 1

RoomsSeparate ==
    \A t \in Threads, p \in Parts : pc[t] = "scatter" =>
        /\ Room(t, p) \subseteq Positions
        /\ \A q \in Room(t, p) : tmp[q] = Empty
        /\ \A u \in Threads, o \in Parts :
               pc[u] = "scatter" /\ <<u, o>> # <<t, p>> => Room(t, p) \cap Room(u, o) = {}

(* Once all threads are through, the ranges thread 0 makes tasks of hold the *)
(* tuples of their partitions, each once, and nothing else is in tmp       *)
(* (phj.c:1258-1310).                                                      *)
TasksHoldPartitions ==
    (\A t \in Threads : pc[t] = "done") =>
        /\ \A p \in Parts :
               /\ TaskSize(p) = Cardinality({i \in Rows(N) : Hash[rel[i]] = p})
               /\ {tmp[q] : q \in TaskRange(p)} = {i \in Rows(N) : Hash[rel[i]] = p}
        /\ \A q \in Positions : tmp[q] # Empty => \E p \in Parts : q \in TaskRange(p)
=============================================================================
