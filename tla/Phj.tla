-------------------------------- MODULE Phj --------------------------------
(***************************************************************************)
(* The partitioned hash join: join_init_run, prj_thread_buildpart and      *)
(* prj_thread_probejoin of phj.c.                                          *)
(*                                                                         *)
(* The build threads partition R and S together, thread 0 makes one task   *)
(* of each pair of partitions, the threads partition those once more       *)
(* (NUM_PASSES = 2), all together again where they are too large           *)
(* (SKEW_HANDLING), and the probe threads join what is left in join_queue. *)
(* A relation has two arrays that each pass copies between, so that a room *)
(* in one is the source of one pass and the target of the next.  What      *)
(* keeps a pass from overwriting what another thread still reads are the   *)
(* barriers and the places of the rooms.                                   *)
(*                                                                         *)
(* Taken as promised here and checked where it is detailed: each operation *)
(* of a queue is a single step (TaskQueue), and so is the scatter of one   *)
(* thread (RadixPartition and RadixPartitionSwwcb: it only writes to its   *)
(* own rooms).                                                             *)
(***************************************************************************)
EXTENDS Relations, Sequences, SequencesExt

CONSTANTS
    NR, NS,            \* tuples of R and S
    Keys,
    RInputs, SInputs,  \* what the data files may hold
    Builds,            \* the builds: [file, passes, skew, swwcb, kernel]
    RadixBits,         \* NUM_RADIX_BITS
    BitsPass1,         \* NUM_RADIX_BITS_PASS1, for asymmetric radix
    Pad,               \* PADDING_UNIT_NUM, which is also TUPLE_PER_SWWCB
    Threshold0,        \* THRESHOLD_0, THRESHOLD_1: partitions that are too large
    Threshold1,
    BuildNum,          \* BUILDPART_THREAD_NUM
    ProbeNum,          \* PROBEJOIN_THREAD_NUM
    MemsetNum,         \* INTERMEDIATEMEMSET_THREAD_NUM
    RowidBits,
    NULL, Garbage, Empty

(* Keys start from 1.  With NUM_PASSES = 1 a task has no global offset and *)
(* SKEW_HANDLING does not compile.  `file' is "phj", or the file with the  *)
(* variant that a module on top of this one models; `swwcb' stands for     *)
(* USE_SWWCB_OPTIMIZED_PART and ..._RADIX_CLUSTER; `kernel' names the      *)
(* join kernel: "bc", "lp", "sc", "hr" or "hro".                           *)
ASSUME PhjAssumption ==
    /\ {NR, NS, BuildNum, ProbeNum, MemsetNum, RadixBits, RowidBits, Pad} \subseteq Nat \ {0}
    /\ BitsPass1 \in 0 .. RadixBits
    /\ Keys \subseteq Nat \ {0}
    /\ RInputs \subseteq [Rows(NR) -> Keys] /\ SInputs \subseteq [Rows(NS) -> Keys]
    /\ \A b \in Builds : b.passes \in {1, 2} /\ (b.skew => b.passes = 2)

(* NULL, which stands for no task, is none.                                *)
ASSUME NullAssumption ==
    LET rooms == [arr : {"org", "tmp", "ext"}, base : Int, num : Int]
    IN  NULL \notin [R : rooms, S : rooms]

Builders == 0 .. BuildNum - 1
Probers  == 0 .. ProbeNum - 1
Rels     == {"R", "S"}
Size     == [R |-> NR, S |-> NS]

VARIABLES
    build,      \* which build of the program runs
    r, s,       \* the relations
    mem,        \* mem[X].org, mem[X].tmp: the two arrays of relation X
    hist,       \* hist[X][t]: the histogram of thread t for relation X
    part_queue, skew_queue, join_queue,
    skewtask,   \* the task all threads partition together
    maxBuild,   \* max_build_side_tup_num[], shared
    pc,         \* where each build thread stands
    part,       \* its part_t: set up for the first pass or for skew handling
    task, next, \* the task it partitions, the partition it makes a task of next
    lmax,       \* its own max_build_side_tup_num
    size,       \* intermediate_size, in tuples a table has room for
    table,      \* table[p]: the R rows in the intermediate memory of probe thread p
    ppc, ptask, \* where each probe thread stands, and the task it joins
    acc,        \* its matched_cnt and checksum
    result      \* what join_init_run prints

inputs == <<build, r, s>>
queues == <<part_queue, skew_queue, join_queue>>
local  == <<part, task, next, lmax>>
builder == <<hist, skewtask, maxBuild, pc, local>>
prober == <<size, table, ppc, ptask, acc, result>>
vars   == <<inputs, mem, queues, builder, prober>>
-----------------------------------------------------------------------------
(***************************************************************************)
(* Radix, places and tasks.                                                *)
(***************************************************************************)

(* FANOUT_PASS1, FANOUT_PASS2, and the bits the second pass skips.         *)
Asymmetric == {"phj_asymm_radix", "phj_asymm_radix_bw_reg"}

Skip    == IF build.file \in Asymmetric THEN BitsPass1 ELSE RadixBits \div build.passes
Fanout1 == 2^Skip
Fanout2 == 2^(RadixBits - Skip)

(* What the second pass and skew handling partition. *)
SecondRels == IF build.file \in Asymmetric THEN {"R"} ELSE Rels

(* IDHASH(key, (fanout - 1) << skip, skip) *)
Radix(key, fanout, skip) == (key \div 2^skip) % fanout

KeyOf(X, i) == IF X = "R" THEN r[i] ELSE s[i]

(* What is allocated for each array of X, and the cells it has.            *)
Allocated(X) == 0 .. Size[X] + 2^RadixBits * Pad - 1
Cells(X)     == DOMAIN mem[X].org

(* The array that the second pass and skew handling copy to: that of the   *)
(* relation, or a third one if the relation is still needed.               *)
RowIds   == {"ptr_phj", "ptr_phj_bw_reg"}
Back     == IF build.file \in RowIds THEN "ext" ELSE "org"
Other(a) == IF a = "tmp" THEN Back ELSE "tmp"

(* A room is a piece of an array, a relation_t of the code: its beginning  *)
(* and the number of its tuples.  A task is a pair of rooms, one of each   *)
(* relation; r_tmp and s_tmp are at the same place of the other array.     *)
Room(a, b, n) == [arr |-> a, base |-> b, num |-> n]
Task(x, y)    == [R |-> x, S |-> y]

(* The tuple at place k of a room, and the places of it that hold tuples.  *)
(* A room with regions, of phj_ind_uni.c, has some from the beginning of   *)
(* each region to the first zero key.                                      *)
At(X, room, k)  == mem[X][room.arr][room.base + k]
Run(X, room, k) ==
    k .. (CHOOSE e \in k .. Cardinality(Cells(X)) : /\ At(X, room, e) = Empty
                                            /\ \A i \in k .. e - 1 : At(X, room, i) # Empty) - 1
Spread(X, room) == IF "regions" \in DOMAIN room
                   THEN UNION {Run(X, room, k) : k \in room.regions} ELSE Rows(room.num)
Places(X, room) == {k \in Spread(X, room) : At(X, room, k) \in Rows(Size[X])}
RowsAt(X, room) == {At(X, room, k) : k \in Places(X, room)}
HashAt(X, room, k, fanout, skip) == Radix(KeyOf(X, At(X, room, k)), fanout, skip)

(* How many tuples of a room belong to partition p. *)
CountIn(X, room, fanout, skip, p) ==
    Cardinality({k \in Places(X, room) : HashAt(X, room, k, fanout, skip) = p})

(* Copying the tuples of a room: each goes behind the place start[p] of    *)
(* its partition p, in their order.  `room' is what p has for them.        *)
Moves(X, room, start, fanout, skip) ==
    LET parts == {[p |-> p, begin |-> start[p],
                   end |-> start[p] + CountIn(X, room, fanout, skip, p)] :
                     p \in 0 .. fanout - 1}
        h(k)  == HashAt(X, room, k, fanout, skip)
        nth(k) == Cardinality({j \in Places(X, room) : j < k /\ h(j) = h(k)})
    IN  UNION {{[tuple |-> At(X, room, k), to |-> q.begin + nth(k), room |-> q] :
                   k \in {i \in Places(X, room) : h(i) = q.p}} : q \in parts}

(* The arrays after the tuples of some moves are stored, and lines in      *)
(* which a thread has no tuple of its own at some place.                   *)
Stored(X, target, moves, clobbered) ==
    LET to     == {m.to : m \in moves}
        new(c) == IF c \in to THEN (CHOOSE m \in moves : m.to = c).tuple ELSE Garbage
    IN  [mem EXCEPT ![X][target] = [c \in to \cup clobbered \cup DOMAIN @ |->
            IF c \in to \cup clobbered THEN new(c) ELSE @[c]]]

Scattered(X, room, target, start, fanout, skip) ==
    Stored(X, target, Moves(X, room, start, fanout, skip), {})

(* The same through write-combining buffers of one line.  A buffer that    *)
(* was filled up to the end of a line is stored whole, with whatever it    *)
(* has in front of the thread's tuples; other tuples follow as `rests'.    *)
LineOf(c)   == c - (c % Pad) .. c - (c % Pad) + Pad - 1
InLines(ms) == {m \in ms : Max(LineOf(m.to)) < m.room.end}

Lined(X, room, target, start, fanout, skip) ==
    LET lines == InLines(Moves(X, room, start, fanout, skip))
    IN  Stored(X, target, lines, UNION {LineOf(m.to) : m \in lines})

Rested(X, room, target, start, fanout, skip) ==
    LET all == Moves(X, room, start, fanout, skip)
    IN  Stored(X, target, all \ InLines(all), {})

LinedAndRested(X, room, target, start, fanout, skip) ==
    LET all == Moves(X, room, start, fanout, skip)
    IN  Stored(X, target, all, UNION {LineOf(m.to) : m \in InLines(all)})

(* task_queue_add of a sequence of tasks, one after the other. *)
Pushed(queue, tasks) == Reverse(tasks) \o queue

(* The tasks of a sequence that are in a set, in their order. *)
Among(tasks, set) ==
    FlattenSeq([i \in DOMAIN tasks |-> IF tasks[i] \in set THEN <<tasks[i]>> ELSE <<>>])
-----------------------------------------------------------------------------
(***************************************************************************)
(* Where a thread stands.  Each barrier leads to one place, but two:       *)
(* a program without a second pass or without skew handling goes on.       *)
(***************************************************************************)
AfterBarrier ==
    [ready    |-> "zero",
     zeroed   |-> "countR", countedR |-> "scatterR", countedS |-> "scatterS",
     linedR   |-> "restsR", linedS   |-> "restsS",
     parted   |-> "tasks",
     queued   |-> IF build.passes = 2 THEN "second" ELSE "share",
     shared   |-> IF build.skew THEN "fetch" ELSE "max",
     fetched  |-> "look",
     skewed   |-> "skewtasks",
     drained  |-> "max",
     maxed    |-> "exit"]

BuildPC  == DOMAIN AfterBarrier \cup {"memset", "zero", "countR", "scatterR", "restsR", "countS",
             "scatterS", "restsS", "tasks", "second", "pop", "cluster", "emit", "share", "fetch", "look", "skewtasks",
             "drain", "max", "exit"}
ProbePC  == {"idle", "wipe", "wiped", "pop", "build", "probe", "joined", "exit"}

Rooms(X) == {x \in [arr : {"org", "tmp"}, base : Cells(X), num : 0 .. Size[X]] :
                x.base + x.num - 1 \in Cells(X) \cup {-1}}
IsTask(x) == x.R \in Rooms("R") /\ x.S \in Rooms("S")

TypeOK ==
    /\ build \in Builds /\ r \in RInputs /\ s \in SInputs
    /\ \A X \in Rels : \A a \in {"org", "tmp"} :
           mem[X][a] \in [Allocated(X) -> Rows(Size[X]) \cup {Garbage, Empty}]
    /\ \A X \in Rels : hist[X] \in [Builders -> [0 .. 2^RadixBits - 1 -> 0 .. Size[X]]]
    /\ \A q \in {part_queue, skew_queue, join_queue} : \A i \in DOMAIN q : IsTask(q[i])
    /\ skewtask = NULL \/ IsTask(skewtask)
    /\ maxBuild \in [Builders -> 0 .. NR]
    /\ pc \in [Builders -> BuildPC] /\ part \in [Builders -> {"first", "skew"}]
    /\ \A t \in Builders : pc[t] \in {"cluster", "emit"} => IsTask(task[t])
    /\ next \in [Builders -> 0 .. 2^RadixBits] /\ lmax \in [Builders -> 0 .. NR]
    /\ size \in 0 .. NR /\ table \in [Probers -> SUBSET Rows(NR)]
    /\ ppc \in [Probers -> ProbePC]
    /\ \A p \in Probers : ppc[p] \in {"build", "probe"} => IsTask(ptask[p])

NoCounts == [p \in 0 .. 2^RadixBits - 1 |-> 0]

(* The relations are loaded, and the main thread has zeroed the padding of *)
(* the arrays.                                                             *)
LoadInto(cells) ==
    /\ build \in Builds /\ r \in RInputs /\ s \in SInputs
    /\ mem = [X \in Rels |->
                [org |-> [c \in cells[X] |-> IF c < Size[X] THEN c ELSE Empty],
                 tmp |-> [c \in cells[X] |-> IF c < Size[X] THEN Garbage ELSE Empty]]]
    /\ hist = [X \in Rels |-> [t \in Builders |-> NoCounts]]
    /\ part_queue = <<>> /\ skew_queue = <<>> /\ join_queue = <<>>
    /\ skewtask = NULL
    /\ maxBuild = [t \in Builders |-> 0]
    /\ size = 0

Load == LoadInto([X \in Rels |-> Allocated(X)])

(* The build threads start; the probe threads will when these are done.    *)
Pool ==
    /\ pc = [t \in Builders |-> "memset"]
    /\ part = [t \in Builders |-> "first"]
    /\ task = [t \in Builders |-> NULL] /\ next = [t \in Builders |-> 0]
    /\ lmax = [t \in Builders |-> 0]
    /\ table = [p \in Probers |-> {}]
    /\ ppc = [p \in Probers |-> "idle"] /\ ptask = [p \in Probers |-> NULL]
    /\ acc = [p \in Probers |-> [matched |-> 0, checksum |-> 0]]
    /\ result = NULL

Init == Load /\ Pool

Goto(t, place) == pc' = [pc EXCEPT ![t] = place]
-----------------------------------------------------------------------------
(***************************************************************************)
(* prj_thread_buildpart: all threads partition together, which they do     *)
(* first with R and S and later with each task of skew_queue.              *)
(***************************************************************************)

(* Thread t zeroes its share of the target arrays. *)
Memset(t) ==
    /\ pc[t] = "memset"
    /\ mem' = [X \in Rels |-> [mem[X] EXCEPT !.tmp = [c \in Cells(X) |->
                 IF c \in Share(Size[X], BuildNum, t) THEN Empty ELSE @[c]]]]
    /\ Goto(t, "ready")
    /\ UNCHANGED <<inputs, queues, hist, skewtask, maxBuild, local, prober>>

(* Mutant: nobody waits for anybody. *)
OpenEach(after) ==
    /\ \E b \in DOMAIN after, t \in Builders :
           /\ pc[t] = b
           /\ pc' = [pc EXCEPT ![t] = after[b]]
    /\ UNCHANGED <<inputs, mem, queues, hist, skewtask, maxBuild, local, prober>>

(* BARRIER_ARRIVE: the last one to arrive lets all go on.                  *)
Open(after) ==
    /\ pc[0] \in DOMAIN after /\ \A t \in Builders : pc[t] = pc[0]
    /\ pc' = [t \in Builders |-> after[pc[0]]]
    /\ UNCHANGED <<inputs, mem, queues, hist, skewtask, maxBuild, local, prober>>

Release == Open(AfterBarrier)

(* The relations that are partitioned now. *)
Current(t) == IF part[t] = "first" THEN Rels ELSE SecondRels

Zero(t) ==
    /\ pc[t] = "zero"
    /\ hist' = [X \in Rels |->
           IF X \in Current(t) THEN [hist[X] EXCEPT ![t] = NoCounts] ELSE hist[X]]
    /\ Goto(t, "zeroed")
    /\ UNCHANGED <<inputs, mem, queues, skewtask, maxBuild, local, prober>>

(* part.rel: the share of thread t in what is partitioned. *)
ShareOf(room, t) == Room(room.arr, room.base + ShareBegin(room.num, BuildNum, t),
                         Cardinality(Share(room.num, BuildNum, t)))
Whole(t, X)  == IF part[t] = "first" THEN Room("org", 0, Size[X]) ELSE skewtask[X]
Source(t, X) == ShareOf(Whole(t, X), t)

(* The other fields of part_t, and where partitions begin in part.tmp.     *)
Fanout(t)  == IF part[t] = "first" THEN Fanout1 ELSE Fanout2
SkipOf(t)  == IF part[t] = "first" THEN 0 ELSE Skip
Padding(t) == IF part[t] = "first" THEN Fanout2 * Pad ELSE Pad
Target(t, X) == IF part[t] = "first" THEN "tmp" ELSE Other(skewtask[X].arr)
Begin(t, X)  == IF part[t] = "first" THEN 0 ELSE skewtask[X].base

(* The first half of parallel_radix_partition: count the share. *)
Count(t, X) ==
    /\ pc[t] = [R |-> "countR", S |-> "countS"][X]
    /\ hist' = [hist EXCEPT ![X][t] = [p \in DOMAIN NoCounts |->
           @[p] + CountIn(X, Source(t, X), Fanout(t), SkipOf(t), p)]]
    /\ Goto(t, [R |-> "countedR", S |-> "countedS"][X])
    /\ UNCHANGED <<inputs, mem, queues, skewtask, maxBuild, local, prober>>

(* From the histograms of all threads, where the room of thread t is in    *)
(* partition p.  This is also what is left in thread 0's output_offset.    *)
Offset(t, X, p) ==
    LET total(q) == SumFunctionOnSet([u \in Builders |-> hist[X][u][q]], Builders)
    IN  SumFunctionOnSet([q \in 0 .. p - 1 |-> total(q)], 0 .. p - 1) + p * Padding(t)
            + SumFunctionOnSet([u \in 0 .. t - 1 |-> hist[X][u][p]], 0 .. t - 1)

Starts(t, X) == [p \in 0 .. Fanout(t) - 1 |-> Begin(t, X) + Offset(t, X, p)]

(* Mutant: no barrier behind the scatter of a skew task. *)
PartitionedUnawaited(t, X) ==
    Goto(t, CASE X = "R" -> "countS" [] X = "S" /\ part[t] = "first" -> "parted"
              [] OTHER -> "skewtasks")

(* S is partitioned after R.                                               *)
Partitioned(t, X) ==
    Goto(t, CASE X = "R" /\ "S" \in Current(t) -> "countS"
              [] X = "S" /\ part[t] = "first" -> "parted"
              [] OTHER -> "skewed")

(* The second half: copy the share to the rooms of this thread.            *)
Scatter(t, X) ==
    /\ pc[t] = [R |-> "scatterR", S |-> "scatterS"][X] /\ ~build.swwcb
    /\ mem' = Scattered(X, Source(t, X), Target(t, X), Starts(t, X), Fanout(t), SkipOf(t))
    /\ Partitioned(t, X)
    /\ UNCHANGED <<inputs, queues, hist, skewtask, maxBuild, local, prober>>

(* ... or, in parallel_radix_partition_optimized, the full lines of it,    *)
StoreLines(t, X) ==
    /\ pc[t] = [R |-> "scatterR", S |-> "scatterS"][X] /\ build.swwcb
    /\ mem' = Lined(X, Source(t, X), Target(t, X), Starts(t, X), Fanout(t), SkipOf(t))
    /\ Goto(t, [R |-> "linedR", S |-> "linedS"][X])
    /\ UNCHANGED <<inputs, queues, hist, skewtask, maxBuild, local, prober>>

(* and what is left in the buffers when all threads have stored theirs.    *)
StoreRests(t, X) ==
    /\ pc[t] = [R |-> "restsR", S |-> "restsS"][X]
    /\ mem' = Rested(X, Source(t, X), Target(t, X), Starts(t, X), Fanout(t), SkipOf(t))
    /\ Partitioned(t, X)
    /\ UNCHANGED <<inputs, queues, hist, skewtask, maxBuild, local, prober>>

(* Thread 0 reads off its offsets how many tuples partition p holds.       *)
PartNum(t, X, total, p) ==
    IF p = Fanout(t) - 1 THEN total - Offset(t, X, p) + p * Padding(t)
    ELSE Offset(t, X, p + 1) - Offset(t, X, p) - Padding(t)

PartTask(t, total, p) ==
    LET room(X) == IF X \in Current(t)
                   THEN Room(Target(t, X), Begin(t, X) + Offset(t, X, p),
                             PartNum(t, X, total[X], p))
                   ELSE skewtask[X]
    IN  Task(room("R"), room("S"))

Joinable(x)         == x.R.num > 0 /\ x.S.num > 0
Exceeds(x, maximum) == x.R.num > maximum \/ x.S.num > maximum
Largest(n, tasks)   == Max({n} \cup {x.R.num : x \in ToSet(tasks)})

(* A task of each partition with tuples of both relations; partitions      *)
(* above THRESHOLD_0 are put aside.                                        *)
Aside(x) == build.skew /\ Exceeds(x, Threshold0)
Parts(tasks)  == Among(tasks, {x \in ToSet(tasks) : Joinable(x) /\ ~Aside(x)})
Asides(tasks) == Among(tasks, {x \in ToSet(tasks) : Joinable(x) /\ Aside(x)})

AddTasks(tasks) ==
    \E all \in {tasks} :
        /\ skew_queue' = Pushed(skew_queue, Asides(all))
        /\ part_queue' = Pushed(part_queue, Parts(all))

FirstTasks(t) == [i \in 1 .. Fanout1 |-> PartTask(t, Size, i - 1)]

(* Thread 0 makes the tasks, without any lock. *)
MakeTasks(t) ==
    /\ pc[t] = "tasks"
    /\ \/ /\ t = 0
          /\ AddTasks(FirstTasks(t))
          /\ lmax' = [lmax EXCEPT ![t] = Largest(@, Parts(FirstTasks(t)))]
       \/ t # 0 /\ UNCHANGED <<skew_queue, part_queue, lmax>>
    /\ Goto(t, "queued")
    /\ UNCHANGED <<inputs, mem, join_queue, hist, skewtask, maxBuild, part, task, next,
                   prober>>
-----------------------------------------------------------------------------
(***************************************************************************)
(* The second pass: each thread partitions tasks of its own.               *)
(***************************************************************************)

(* What the first pass has counted in max_build_side_tup_num is dropped.   *)
StartSecondPass(t) ==
    /\ pc[t] = "second"
    /\ lmax' = [lmax EXCEPT ![t] = 0]
    /\ Goto(t, "pop")
    /\ UNCHANGED <<inputs, mem, queues, hist, skewtask, maxBuild, part, task, next, prober>>

PopPart(t) ==
    /\ pc[t] = "pop"
    /\ \/ /\ part_queue # <<>>
          /\ task' = [task EXCEPT ![t] = Head(part_queue)]
          /\ part_queue' = Tail(part_queue)
          /\ Goto(t, "cluster")
       \/ /\ part_queue = <<>>
          /\ Goto(t, "share")
          /\ UNCHANGED <<part_queue, task>>
    /\ UNCHANGED <<inputs, mem, skew_queue, join_queue, hist, skewtask, maxBuild, part,
                   next, lmax, prober>>

(* Mutant: the partitions of the second pass are not padded. *)
ClusterOffsetUnpadded(x, X, p) ==
    LET counts == [q \in 0 .. p - 1 |-> CountIn(X, x[X], Fanout2, Skip, q)]
    IN  SumFunctionOnSet(counts, 0 .. p - 1)

(* Where radix_cluster puts partition p of a task, within its room.        *)
ClusterOffset(x, X, p) ==
    LET counts == [q \in 0 .. p - 1 |-> CountIn(X, x[X], Fanout2, Skip, q)]
    IN  SumFunctionOnSet(counts, 0 .. p - 1) + p * Pad

(* radix_cluster or radix_cluster_optimized, from the task's room in one   *)
(* array to the same place in the other.                                   *)
Clustered(x, X) ==
    LET to == [p \in 0 .. Fanout2 - 1 |-> x[X].base + ClusterOffset(x, X, p)]
    IN  IF build.swwcb
        THEN LinedAndRested(X, x[X], Other(x[X].arr), to, Fanout2, Skip)[X]
        ELSE Scattered(X, x[X], Other(x[X].arr), to, Fanout2, Skip)[X]

Cluster(t) ==
    /\ pc[t] = "cluster"
    /\ mem' = [X \in Rels |->
           IF X \in SecondRels THEN Clustered(task[t], X) ELSE mem[X]]
    /\ next' = [next EXCEPT ![t] = 0]
    /\ Goto(t, "emit")
    /\ UNCHANGED <<inputs, queues, hist, skewtask, maxBuild, part, task, lmax, prober>>

ClusterTask(x, p) ==
    LET room(X) == IF X \in SecondRels
                   THEN Room(Other(x[X].arr), x[X].base + ClusterOffset(x, X, p),
                             CountIn(X, x[X], Fanout2, Skip, p))
                   ELSE x[X]
    IN  Task(room("R"), room("S"))

(* The loop of serial_radix_partition that makes join tasks.               *)
Emit(t) ==
    /\ pc[t] = "emit"
    /\ \E x \in {ClusterTask(task[t], next[t])} :
           IF Joinable(x)
           THEN /\ join_queue' = Pushed(join_queue, <<x>>)
                /\ lmax' = [lmax EXCEPT ![t] = Largest(@, <<x>>)]
           ELSE UNCHANGED <<join_queue, lmax>>
    /\ next' = [next EXCEPT ![t] = @ + 1]
    /\ Goto(t, IF next[t] = Fanout2 - 1 THEN "pop" ELSE "emit")
    /\ UNCHANGED <<inputs, mem, part_queue, skew_queue, hist, skewtask, maxBuild, part,
                   task, prober>>

(* The second pass is over for this thread: its maximum goes to its slot.  *)
ShareMax(t) ==
    /\ pc[t] = "share"
    /\ maxBuild' = IF build.passes = 2 THEN [maxBuild EXCEPT ![t] = lmax[t]] ELSE maxBuild
    /\ part' = IF build.skew THEN [part EXCEPT ![t] = "skew"] ELSE part
    /\ Goto(t, "shared")
    /\ UNCHANGED <<inputs, mem, queues, hist, skewtask, task, next, lmax, prober>>
-----------------------------------------------------------------------------
(***************************************************************************)
(* Skew handling: all threads partition one large task after the other.    *)
(***************************************************************************)

(* Mutant: only thread 0 waits at the barrier behind. *)
FetchSkewUnawaited(t) ==
    /\ pc[t] = "fetch"
    /\ \/ /\ t = 0
          /\ \/ /\ skew_queue # <<>>
                /\ skewtask' = Head(skew_queue) /\ skew_queue' = Tail(skew_queue)
             \/ /\ skew_queue = <<>>
                /\ skewtask' = NULL /\ UNCHANGED skew_queue
          /\ Goto(t, "fetched")
       \/ t # 0 /\ Goto(t, "look") /\ UNCHANGED <<skewtask, skew_queue>>
    /\ UNCHANGED <<inputs, mem, part_queue, join_queue, hist, maxBuild, local, prober>>

(* Thread 0 takes the next one, for all. *)
FetchSkew(t) ==
    /\ pc[t] = "fetch"
    /\ \/ /\ t = 0
          /\ \/ /\ skew_queue # <<>>
                /\ skewtask' = Head(skew_queue) /\ skew_queue' = Tail(skew_queue)
             \/ /\ skew_queue = <<>>
                /\ skewtask' = NULL /\ UNCHANGED skew_queue
       \/ t # 0 /\ UNCHANGED <<skewtask, skew_queue>>
    /\ Goto(t, "fetched")
    /\ UNCHANGED <<inputs, mem, part_queue, join_queue, hist, maxBuild, local, prober>>

Look(t) ==
    /\ pc[t] = "look"
    /\ Goto(t, IF skewtask = NULL THEN "drain" ELSE "zero")
    /\ UNCHANGED <<inputs, mem, queues, hist, skewtask, maxBuild, local, prober>>

(* Mutant: the last piece does not take the remainder. *)
SplitEvenly(x) ==
    LET n == x.S.num \div ProbeNum
    IN  [j \in 1 .. ProbeNum |-> Task(x.R, Room(x.S.arr, x.S.base + (j - 1) * n, n))]

(* The S room of a task in pieces, one for each probe thread, each to be   *)
(* joined with all of R.                                                   *)
Split(x) ==
    LET n == x.S.num \div ProbeNum
    IN  [j \in 1 .. ProbeNum |-> Task(x.R, Room(x.S.arr, x.S.base + (j - 1) * n,
             IF j = ProbeNum THEN x.S.num - (j - 1) * n ELSE n))]

(* A task of each partition, or one for each probe thread if it is above   *)
(* THRESHOLD_1, which with asymmetric radix R alone decides.  part_queue   *)
(* is empty and gets those.                                                *)
Large(x) == \E X \in SecondRels : x[X].num > Threshold1

AddSkewTasks(tasks) ==
    \E all \in {tasks} :
        LET joins  == Among(all, {x \in ToSet(all) : Joinable(x) /\ ~Large(x)})
            splits == Among(all, {x \in ToSet(all) : Joinable(x) /\ Large(x)})
        IN  /\ part_queue' = Pushed(part_queue,
                   FlattenSeq([i \in DOMAIN splits |-> Split(splits[i])]))
            /\ join_queue' = Pushed(join_queue, joins)

SkewTasks(t) ==
    [i \in 1 .. Fanout2 |-> PartTask(t, [X \in Rels |-> skewtask[X].num], i - 1)]

MakeSkewTasks(t) ==
    /\ pc[t] = "skewtasks"
    /\ \/ /\ t = 0
          /\ AddSkewTasks(SkewTasks(t))
          /\ lmax' = [lmax EXCEPT ![t] = Largest(@, SkewTasks(t))]
       \/ t # 0 /\ UNCHANGED <<part_queue, join_queue, lmax>>
    /\ Goto(t, "fetch")
    /\ UNCHANGED <<inputs, mem, skew_queue, hist, skewtask, maxBuild, part, task, next,
                   prober>>

(* Thread 0 moves the pieces to the front of join_queue. *)
DrainParts(t) ==
    /\ pc[t] = "drain"
    /\ \/ /\ t = 0
          /\ join_queue' = Pushed(join_queue, part_queue)
          /\ part_queue' = <<>>
       \/ t # 0 /\ UNCHANGED <<join_queue, part_queue>>
    /\ Goto(t, "drained")
    /\ UNCHANGED <<inputs, mem, skew_queue, hist, skewtask, maxBuild, local, prober>>

(* Mutant: thread 0 only shares what it has seen itself. *)
FindMaxOwn(t) ==
    /\ pc[t] = "max"
    /\ \/ t = 0 /\ maxBuild' = [u \in Builders |-> lmax[t]] /\ UNCHANGED lmax
       \/ t # 0 /\ UNCHANGED <<lmax, maxBuild>>
    /\ Goto(t, "maxed")
    /\ UNCHANGED <<inputs, mem, queues, hist, skewtask, part, task, next, prober>>

(* Thread 0 finds the largest R partition of all. *)
FindMax(t) ==
    /\ pc[t] = "max"
    /\ \/ /\ t = 0
          /\ LET m == Max({lmax[t]} \cup {maxBuild[u] : u \in Builders})
             IN  lmax' = [lmax EXCEPT ![t] = m] /\ maxBuild' = [u \in Builders |-> m]
       \/ t # 0 /\ UNCHANGED <<lmax, maxBuild>>
    /\ Goto(t, "maxed")
    /\ UNCHANGED <<inputs, mem, queues, hist, skewtask, part, task, next, prober>>
-----------------------------------------------------------------------------
(***************************************************************************)
(* join_init_run and prj_thread_probejoin.                                 *)
(***************************************************************************)

(* All build threads are joined.  One pass leaves the tasks in part_queue. *)
SpawnProbers ==
    /\ \A t \in Builders : pc[t] = "exit"
    /\ \A p \in Probers : ppc[p] = "idle"
    /\ IF build.passes = 1
       THEN join_queue' = part_queue /\ part_queue' = join_queue
       ELSE UNCHANGED <<join_queue, part_queue>>
    /\ size' = maxBuild[0]
    /\ ppc' = [p \in Probers |-> "wipe"]
    /\ UNCHANGED <<inputs, mem, skew_queue, builder, table, ptask, acc, result>>

(* The first MemsetNum threads zero the intermediate memory of all threads *)
(* in shares, which need not be those that the threads use.                *)
Wipe(p) ==
    /\ ppc[p] = "wipe"
    /\ LET all  == size * ProbeNum
           mine == IF p < MemsetNum THEN Share(all, MemsetNum, p) ELSE {}
       IN  table' = [q \in Probers |->
               IF mine \cap (q * size .. (q + 1) * size - 1) # {} THEN {} ELSE table[q]]
    /\ ppc' = [ppc EXCEPT ![p] = "wiped"]
    /\ UNCHANGED <<inputs, mem, queues, builder, size, ptask, acc, result>>

ReleaseProbe ==
    /\ \/ /\ \A p \in Probers : ppc[p] = "wiped"
          /\ ppc' = [p \in Probers |-> "pop"]
       \/ /\ \A p \in Probers : ppc[p] = "joined"
          /\ ppc' = [p \in Probers |-> "exit"]
    /\ UNCHANGED <<inputs, mem, queues, builder, size, table, ptask, acc, result>>

PopJoin(p) ==
    /\ ppc[p] = "pop"
    /\ \/ /\ join_queue # <<>>
          /\ ptask' = [ptask EXCEPT ![p] = Head(join_queue)]
          /\ join_queue' = Tail(join_queue)
          /\ ppc' = [ppc EXCEPT ![p] = "build"]
       \/ /\ join_queue = <<>>
          /\ ppc' = [ppc EXCEPT ![p] = "joined"]
          /\ UNCHANGED <<ptask, join_queue>>
    /\ UNCHANGED <<inputs, mem, part_queue, skew_queue, builder, size, table, acc, result>>

(* A kernel builds its table over the R room.  bc_join's holds no tuples:  *)
(* its chains lead to those of r_rel; lp_join and sc_join copy them.       *)
BuildTable(p) ==
    /\ ppc[p] = "build" /\ build.kernel \in {"bc", "lp", "sc"}
    /\ table' = [table EXCEPT ![p] = RowsAt("R", ptask[p].R)]
    /\ ppc' = [ppc EXCEPT ![p] = "probe"]
    /\ UNCHANGED <<inputs, mem, queues, builder, size, ptask, acc, result>>

(* hr_join and hro_join keep a histogram, and order the tuples by hash in  *)
(* r_tmp, the same place in the other array.  hro_join zeroes the padding  *)
(* behind.                                                                 *)
Reorder(p) ==
    /\ ppc[p] = "build" /\ build.kernel \in {"hr", "hro"}
    /\ LET x      == ptask[p].R
           behind == IF build.kernel = "hro" THEN x.num .. x.num + Pad - 1 ELSE {}
       IN  /\ table' = [table EXCEPT ![p] = RowsAt("R", x)]
           /\ mem' = [mem EXCEPT !.R[Other(x.arr)] = [c \in Cells("R") |->
                         CASE c - x.base \in Rows(x.num) -> mem.R[x.arr][c]
                           [] c - x.base \in behind      -> Empty
                           [] OTHER                      -> @[c]]]
    /\ ppc' = [ppc EXCEPT ![p] = "probe"]
    /\ UNCHANGED <<inputs, queues, builder, size, ptask, acc, result>>

(* The R rows a kernel finds when it probes: those of its table, if they   *)
(* are still where the table has them.                                     *)
TableRows(p) ==
    LET x == ptask[p].R
    IN  CASE build.kernel = "bc" -> table[p] \cap RowsAt("R", x)
          [] build.kernel \in {"lp", "sc"} -> table[p]
          [] build.kernel \in {"hr", "hro"} ->
                 table[p] \cap RowsAt("R", Room(Other(x.arr), x.base, x.num))

PairsOf(rows, room) ==
    {m \in rows \X RowsAt("S", room) : r[m[1]] = s[m[2]]}

(* ... and it probes with the S room and adds what it finds to its result. *)
ProbeTable(p) ==
    /\ ppc[p] = "probe"
    /\ LET pairs == PairsOf(TableRows(p), ptask[p].S)
       IN  acc' = [acc EXCEPT ![p] =
               [matched  |-> @.matched + Cardinality(pairs),
                checksum |-> (@.checksum + RowidSum(RowidBits, pairs)) % 2^RowidBits]]
    /\ ppc' = [ppc EXCEPT ![p] = "pop"]
    /\ UNCHANGED <<inputs, mem, queues, builder, size, table, ptask, result>>

(* All probe threads are joined and their results added up. *)
Collect ==
    /\ result = NULL
    /\ \A p \in Probers : ppc[p] = "exit"
    /\ result' = [matched  |-> SumFunction([p \in Probers |-> acc[p].matched]),
                  checksum |-> SumFunction([p \in Probers |-> acc[p].checksum])
                                   % 2^RowidBits]
    /\ UNCHANGED <<inputs, mem, queues, builder, size, table, ppc, ptask, acc>>

Terminated == result # NULL /\ UNCHANGED vars
-----------------------------------------------------------------------------
Partition(t) ==
    \E X \in Rels : Count(t, X) \/ Scatter(t, X) \/ StoreLines(t, X) \/ StoreRests(t, X)

FirstPass(t) ==
    \/ Memset(t) \/ MakeTasks(t)
    \/ part[t] = "first" /\ (Zero(t) \/ Partition(t))

SecondPass(t) ==
    StartSecondPass(t) \/ PopPart(t) \/ Cluster(t) \/ Emit(t) \/ ShareMax(t)

SkewHandling(t) ==
    \/ FetchSkew(t) \/ Look(t) \/ MakeSkewTasks(t) \/ DrainParts(t) \/ FindMax(t)
    \/ part[t] = "skew" /\ (Zero(t) \/ Partition(t))

Buildpart(t) == FirstPass(t) \/ SecondPass(t) \/ SkewHandling(t)

Probejoin(p) == Wipe(p) \/ PopJoin(p) \/ BuildTable(p) \/ Reorder(p) \/ ProbeTable(p)

Main == Release \/ SpawnProbers \/ ReleaseProbe \/ Collect

Next == \/ \E t \in Builders : Buildpart(t)
        \/ \E p \in Probers : Probejoin(p)
        \/ Main
        \/ Terminated

Spec == Init /\ [][Next]_vars

(* The scheduler runs every thread; a mutex of a queue is only held inside *)
(* of a step here, so nobody can be kept from it.                          *)
FairSpec ==
    /\ Spec
    /\ \A t \in Builders : WF_vars(Buildpart(t))
    /\ \A p \in Probers : WF_vars(Probejoin(p))
    /\ WF_vars(Main)
-----------------------------------------------------------------------------
(***************************************************************************)
(* Properties.                                                             *)
(***************************************************************************)

TaskPairs(x) == PairsOf(RowsAt("R", x.R), x.S)

(* What is left of the task of build thread t to make join tasks of.       *)
Rest(t) ==
    IF pc[t] = "cluster" THEN TaskPairs(task[t])
    ELSE {m \in TaskPairs(task[t]) : Radix(r[m[1]], Fanout2, Skip) >= next[t]}

Joining(p) == ppc[p] \in {"build", "probe"}

(* Thread 0 has made the tasks of the first pass, or of skewtask.          *)
Made   == part[0] = "skew" \/ pc[0] \in {"queued", "second", "pop", "claim", "count2", "defer",
              "cluster", "emit", "midway", "popmid", "share", "shared", "max", "maxed", "exit"}
InSkew == skewtask # NULL /\ pc[0] # "fetch"

(* Where tasks are: in a queue, in the hands of a thread, or partitioned   *)
(* by all; and the pairs still to be joined, by the task they belong to.   *)
Holding ==
    ({"part"} \X DOMAIN part_queue) \cup ({"skew"} \X DOMAIN skew_queue)
        \cup ({"join"} \X DOMAIN join_queue)
        \cup ({"builder"} \X {t \in Builders : pc[t] \in {"cluster", "emit"}})
        \cup ({"prober"} \X {p \in Probers : Joining(p)})
        \cup (IF InSkew THEN {<<"all", 0>>} ELSE {})

Outstanding ==
    [h \in Holding |->
        CASE h[1] = "part"    -> TaskPairs(part_queue[h[2]])
          [] h[1] = "skew"    -> TaskPairs(skew_queue[h[2]])
          [] h[1] = "join"    -> TaskPairs(join_queue[h[2]])
          [] h[1] = "builder" -> Rest(h[2])
          [] h[1] = "prober"  -> TaskPairs(ptask[h[2]])
          [] h[1] = "all"     -> TaskPairs(skewtask)]

(* From the first tasks on, each matching pair is in one task or counted.  *)
(* No pass loses a tuple, puts it where its partners are not, or leaves it *)
(* in two tasks, and no thread overwrites a room that a task still needs   *)
(* (phj.c:1254-1311, 464-490, 1580-1635).                                  *)
PairsConserved ==
    LET sum == SumFunction([h \in Holding |-> Cardinality(Outstanding[h])])
    IN  Made =>
            /\ sum = Cardinality(UNION Range(Outstanding))
            /\ sum + SumFunction([p \in Probers |-> acc[p].matched])
                   = Cardinality(Matches(r, s))

JoinTasks == ToSet(join_queue) \cup {ptask[p] : p \in {q \in Probers : Joining(q)}}

(* The kernels write to the R room of their task in the other array and    *)
(* behind it.  Two tasks have the same R room or keep that far apart, and  *)
(* they never share a tuple of S (phj.c:472-478, 1595-1614, 905).          *)
RoomsApart ==
    \A x, y \in JoinTasks :
        /\ x.R = y.R \/ (x.R.base .. x.R.base + x.R.num + Pad - 1)
                             \cap (y.R.base .. y.R.base + y.R.num + Pad - 1) = {}
        /\ x = y \/ (x.S.base .. x.S.base + x.S.num - 1)
                        \cap (y.S.base .. y.S.base + y.S.num - 1) = {}

(* The intermediate memory is measured for the largest R partition, which  *)
(* each thread saw only some of, in either pass: the table of every task   *)
(* has room (phj.c:1308, 1352, 1592, 1671, 2135).                          *)
IntermediateFits ==
    (\E p \in Probers : ppc[p] # "idle") => \A x \in JoinTasks : x.R.num <= size

(* Thread 0 puts the next task where the others read the current one only  *)
(* when they are done with it (phj.c:1471, 1478, 1575).                    *)
SkewTaskStable ==
    [][skewtask' # skewtask =>
           \A t \in Builders \ {0} : pc[t] \in {"skewtasks", "fetch", "fetched"}]_vars

(* The pipeline implements the abstract join: pairs are found once, and    *)
(* what it prints is the answer.                                           *)
Promise == INSTANCE PairSpec WITH
    found  <- IF Made THEN Matches(r, s) \ UNION Range(Outstanding) ELSE {},
    answer <- result

RefinesPairs == Promise!PairBehaviour

(* No barrier waits for a thread that took another way, and the loops over *)
(* the queues end: the join terminates.                                    *)
Termination == <>(result # NULL)
=============================================================================
