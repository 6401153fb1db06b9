------------------------- MODULE RadixPartitionSwwcb -------------------------
(***************************************************************************)
(* The parallel radix partitioning with software write-combining buffers,  *)
(* parallel_radix_partition_optimized in src/algo/phj.c.                   *)
(*                                                                         *)
(* A thread gathers the tuples of each partition in a buffer of the size   *)
(* of a line and stores full lines with non-temporal stores.  A line is    *)
(* aligned, a thread's room in a partition is not: the first line a thread *)
(* stores also covers positions in front of its room, which belong to the  *)
(* threads before it or to nobody, and what it writes there is whatever    *)
(* its buffer held.  What is left in the buffers is stored tuple by tuple  *)
(* behind a second barrier.  The next free position is kept inside of the  *)
(* buffer, on top of the place for the last tuple of the line.             *)
(***************************************************************************)
EXTENDS Relations

CONSTANTS
    N, Inputs, Keys, Hash, ThreadNum, Fanout, Padding, Empty,  \* RadixPartition
    LineSize,      \* TUPLE_PER_SWWCB
    GlobalOffset,  \* global_offset: where in the whole array tmp begins
    Junk,          \* what a buffer or the padding holds that is no tuple
    Foreign        \* a tuple of somebody else

Parts   == 0 .. Fanout - 1
Threads == 0 .. ThreadNum - 1
InLine  == 0 .. LineSize - 1

(* Positions in the whole array, up to the padding behind the last partition: *)
(* tmp.tuples[x] is mem[GlobalOffset + x].                                 *)
Memory == 0 .. GlobalOffset + N + Fanout * Padding - 1

ASSUME SwwcbAssumption ==
    /\ N \in Nat /\ Padding \in Nat /\ GlobalOffset \in Nat
    /\ ThreadNum \in Nat \ {0} /\ Fanout \in Nat \ {0} /\ LineSize \in Nat \ {0}
    /\ Inputs \subseteq [Rows(N) -> Keys]
    /\ Hash \in [Keys -> Parts]
    \* PADDING_UNIT_NUM = TUPLE_PER_SWWCB
    /\ Padding >= LineSize
    \* A partition other than the first has padding in front of it.
    /\ GlobalOffset = 0 \/ GlobalOffset >= Padding
    /\ Rows(N) \cap {Empty, Junk, Foreign} = {}

VARIABLES
    rel, hist, offset, idx,  \* as in RadixPartition
    buf,     \* buf[t][p]: thread t's buffer for partition p
    slot,    \* slot[t][p]: swwcb[p].data.slot, its next free position
    mem,     \* the array that tmp is a part of
    part,    \* the partition whose rest thread t stores next
    pc       \* where each thread stands

vars == <<rel, hist, offset, idx, buf, slot, mem, part, pc>>

Zeros == [p \in Parts |-> 0]
Blank == [k \in InLine |-> Junk]

TypeOK ==
    /\ rel \in Inputs
    /\ hist \in [Threads -> [count : [Parts -> 0 .. N], prefix : [Parts -> 0 .. N]]]
    /\ offset \in [Threads -> [Parts -> Memory]]
    /\ idx \in [Threads -> 0 .. N]
    /\ buf \in [Threads -> [Parts -> [InLine -> Rows(N) \cup {Junk}]]]
    /\ slot \in [Threads -> [Parts -> Memory]]
    /\ mem \in [Memory -> Rows(N) \cup {Junk, Foreign}]
    /\ part \in [Threads -> 0 .. Fanout]
    /\ pc \in [Threads -> {"hist", "barrier1", "offset", "scatter", "barrier2",
                           "drain", "done"}]

(* The buffers still hold what the partitioning before left in them, and   *)
(* tmp what was there before; the task in front of this one ends Padding   *)
(* positions before it begins.                                             *)
Init ==
    /\ rel \in Inputs
    /\ hist = [t \in Threads |-> [count |-> Zeros, prefix |-> Zeros]]
    /\ offset = [t \in Threads |-> Zeros]
    /\ idx = [t \in Threads |-> ShareBegin(N, ThreadNum, t)]
    /\ buf = [t \in Threads |-> [p \in Parts |-> Blank]]
    /\ slot = [t \in Threads |-> Zeros]
    /\ mem = [a \in Memory |-> IF a < GlobalOffset - Padding THEN Foreign ELSE Junk]
    /\ part = [t \in Threads |-> 0]
    /\ pc = [t \in Threads |-> "hist"]

Mine(t, p) == {i \in Share(N, ThreadNum, t) : Hash[rel[i]] = p}

(* Thread t counts its tuples and sums the counts up over the partitions.  *)
Histogram(t) ==
    /\ pc[t] = "hist"
    /\ hist' = [hist EXCEPT ![t] =
                  [count  |-> [p \in Parts |-> Cardinality(Mine(t, p))],
                   prefix |-> [p \in Parts |->
                       SumFunction([o \in 0 .. p |-> Cardinality(Mine(t, o))])]]]
    /\ pc' = [pc EXCEPT ![t] = "barrier1"]
    /\ UNCHANGED <<rel, offset, idx, buf, slot, mem, part>>

AfterBarrier == [barrier1 |-> "offset", barrier2 |-> "drain"]

(* Mutant: the rests are stored without waiting for the full lines.        *)
ReleaseNotDraining ==
    \/ /\ \A t \in Threads : pc[t] = "barrier1"
       /\ pc' = [t \in Threads |-> "offset"]
       /\ UNCHANGED <<rel, hist, offset, idx, buf, slot, mem, part>>
    \/ /\ \E t \in Threads : pc[t] = "barrier2" /\ pc' = [pc EXCEPT ![t] = "drain"]
       /\ UNCHANGED <<rel, hist, offset, idx, buf, slot, mem, part>>

(* The barriers behind the histograms and behind the full lines. *)
Release ==
    \E b \in DOMAIN AfterBarrier :
        /\ \A t \in Threads : pc[t] = b
        /\ pc' = [t \in Threads |-> AfterBarrier[b]]
        /\ UNCHANGED <<rel, hist, offset, idx, buf, slot, mem, part>>

Start(t, p) ==
    SumFunction([u \in 0 .. t - 1 |-> hist[u].prefix[p]])
    + (IF p = 0 THEN 0
       ELSE SumFunction([u \in t .. ThreadNum - 1 |-> hist[u].prefix[p - 1]]))
    + p * Padding

(* Mutant: the slots count from the beginning of tmp, as if it were aligned. *)
OffsetsUnaligned(t) ==
    /\ pc[t] = "offset"
    /\ offset' = [offset EXCEPT ![t] = [p \in Parts |-> Start(t, p)]]
    /\ slot' = [slot EXCEPT ![t] = [p \in Parts |-> Start(t, p)]]
    /\ pc' = [pc EXCEPT ![t] = "scatter"]
    /\ UNCHANGED <<rel, hist, idx, buf, mem, part>>

(* The offsets, padding included, and the slots of the buffers. *)
Offsets(t) ==
    /\ pc[t] = "offset"
    /\ offset' = [offset EXCEPT ![t] = [p \in Parts |-> Start(t, p)]]
    /\ slot' = [slot EXCEPT ![t] = [p \in Parts |-> Start(t, p) + GlobalOffset]]
    /\ pc' = [pc EXCEPT ![t] = "scatter"]
    /\ UNCHANGED <<rel, hist, idx, buf, mem, part>>

LineOf(a) == a - (a % LineSize)

(* Memory after the line at a has been stored over it. *)
Flushed(a, line) ==
    [x \in Memory |-> IF LineOf(x) = LineOf(a) THEN line[x % LineSize] ELSE mem[x]]

(* Put one tuple into the buffer of its partition; the tuple that completes *)
(* the line makes the thread store it.  Then the new slot goes where the   *)
(* last tuple of the line has been.                                        *)
Scatter(t) ==
    /\ pc[t] = "scatter"
    /\ idx[t] < ShareEnd(N, ThreadNum, t)
    /\ LET p    == Hash[rel[idx[t]]]
           a    == slot[t][p]
           line == [buf[t][p] EXCEPT ![a % LineSize] = idx[t]]
       IN  /\ mem' = IF a % LineSize = LineSize - 1 THEN Flushed(a, line) ELSE mem
           /\ slot' = [slot EXCEPT ![t][p] = a + 1]
           /\ buf' = [buf EXCEPT ![t][p] = [line EXCEPT ![LineSize - 1] = Junk]]
    /\ idx' = [idx EXCEPT ![t] = @ + 1]
    /\ UNCHANGED <<rel, hist, offset, part, pc>>

(* All full lines are stored: arrive at the second barrier. *)
FinishScatter(t) ==
    /\ pc[t] = "scatter"
    /\ idx[t] >= ShareEnd(N, ThreadNum, t)
    /\ pc' = [pc EXCEPT ![t] = "barrier2"]
    /\ UNCHANGED <<rel, hist, offset, idx, buf, slot, mem, part>>

(* Mutant: the rest of a line is taken to begin with the line. *)
RestFromLineStart(t, p) == LineOf(slot[t][p]) .. slot[t][p] - 1

(* The positions of the line begun that are in thread t's room. *)
Rest(t, p) ==
    {a \in LineOf(slot[t][p]) .. slot[t][p] - 1 : a >= offset[t][p] + GlobalOffset}

(* Store what is left in the buffer of the next partition. *)
Drain(t) ==
    /\ pc[t] = "drain"
    /\ part[t] < Fanout
    /\ LET p == part[t]
       IN  mem' = [a \in Memory |->
                     IF a \in Rest(t, p) THEN buf[t][p][a % LineSize] ELSE mem[a]]
    /\ part' = [part EXCEPT ![t] = @ + 1]
    /\ UNCHANGED <<rel, hist, offset, idx, buf, slot, pc>>

FinishDrain(t) ==
    /\ pc[t] = "drain"
    /\ part[t] >= Fanout
    /\ pc' = [pc EXCEPT ![t] = "done"]
    /\ UNCHANGED <<rel, hist, offset, idx, buf, slot, mem, part>>

(* The threads go on with what the caller has for them. *)
Terminated ==
    /\ \A t \in Threads : pc[t] = "done"
    /\ UNCHANGED vars

Thread(t) ==
    \/ Histogram(t) \/ Offsets(t) \/ Scatter(t) \/ FinishScatter(t)
    \/ Drain(t) \/ FinishDrain(t)

Next == (\E t \in Threads : Thread(t)) \/ Release \/ Terminated

Spec == Init /\ [][Next]_vars
-----------------------------------------------------------------------------
(***************************************************************************)
(* Properties.                                                             *)
(***************************************************************************)

(* The lines stored in front of the room of a thread stay within the padding *)
(* between two tasks, so that two tasks can be worked on at the same time  *)
(* (phj.c:333, PADDING_UNIT_NUM in phj.h:18).                              *)
NeighbourUntouched ==
    \A a \in Memory : a < GlobalOffset - Padding => mem[a] = Foreign

(* What has been given to position a as its tuple so far: it is in the     *)
(* buffer of the thread whose room a is in while the line is incomplete,   *)
(* and in memory otherwise.                                                *)
Placed(t, p) ==
    IF pc[t] \in {"scatter", "barrier2", "drain", "done"}
    THEN GlobalOffset + offset[t][p] .. slot[t][p] - 1
    ELSE {}

InBuffer(t, p, a) ==
    /\ a >= LineOf(slot[t][p])
    /\ pc[t] \in {"scatter", "barrier2"} \/ (pc[t] = "drain" /\ part[t] <= p)

Logical(x) ==
    LET a == GlobalOffset + x
        owners == {o \in Threads \X Parts : a \in Placed(o[1], o[2])}
    IN  IF owners = {} THEN Empty
        ELSE LET o == CHOOSE o \in owners : TRUE
             IN  IF InBuffer(o[1], o[2], a) THEN buf[o[1]][o[2]][a % LineSize]
                 ELSE mem[a]

(* Whatever the lines clobber, no tuple is lost: seen through the buffers,   *)
(* the positions are filled one at a time exactly as without buffers, none *)
(* of them changes again, and behind the second barrier and the rests it   *)
(* is memory that holds them all (phj.c:319-358).                          *)
Plain == INSTANCE RadixPartition WITH
    offset <- [t \in Threads |->
                 IF pc[t] \in {"scatter", "barrier2", "drain"}
                 THEN [p \in Parts |-> slot[t][p] - GlobalOffset - p * Padding]
                 ELSE offset[t]],
    tmp <- [x \in 0 .. N + (Fanout - 1) * Padding - 1 |-> Logical(x)],
    pc <- [t \in Threads |->
             CASE pc[t] = "barrier1" -> "barrier"
               [] pc[t] \in {"barrier2", "drain"} -> "scatter"
               [] OTHER -> pc[t]]

RefinesPlain == Plain!Spec
=============================================================================
