------------------------------- MODULE PhjShr -------------------------------
(***************************************************************************)
(* phj_shr.c: the partitioned hash join with linked partition buffers in   *)
(* place of rooms.                                                         *)
(*                                                                         *)
(* A partition is a list of buffers of Cap tuples each that begins with    *)
(* the partition's head; a thread that finds no room in it links a buffer  *)
(* from a common pool behind the head.  No thread counts in advance, so    *)
(* there are no offsets: in the first pass and in skew handling all build  *)
(* threads put tuples into the same lists, each head has a latch, and a    *)
(* thread stores its tuple after it has given the latch back.  The heads   *)
(* of R and of S are an array each: FANOUT_PASS1 heads for the first pass, *)
(* and behind them a group of FANOUT_PASS2 for each task that is           *)
(* partitioned once more.  Which group a task gets follows from how many   *)
(* tasks are in part_queue.                                                *)
(***************************************************************************)
EXTENDS Relations, Hashing, Sequences, SequencesExt

CONSTANTS
    NR, NS,            \* tuples of R and S
    Keys,
    RInputs, SInputs,  \* what the data files may hold
    Builds,            \* the builds: [file, passes, skew, swwcb, kernel]
    RadixBits,         \* NUM_RADIX_BITS
    Cap,               \* PART_BUFFER_T_CAPACITY
    Line,              \* TUPLE_PER_SWWCB
    Threshold0,        \* THRESHOLD_0, THRESHOLD_1: partitions that are too large
    Threshold1,
    BuildNum,          \* BUILDPART_THREAD_NUM
    ProbeNum,          \* PROBEJOIN_THREAD_NUM
    MemsetNum,         \* INTERMEDIATEMEMSET_THREAD_NUM
    RowidBits,
    NULL, Garbage

(* A buffer holds a number of whole lines.  With NUM_PASSES = 1,           *)
(* SKEW_HANDLING does not compile.                                         *)
ASSUME ShrAssumption ==
    /\ {NR, NS, BuildNum, ProbeNum, MemsetNum, RadixBits, Cap, Line} \subseteq Nat \ {0}
    /\ Cap % Line = 0
    /\ Keys \subseteq Nat \ {0}
    /\ RInputs \subseteq [Rows(NR) -> Keys] /\ SInputs \subseteq [Rows(NS) -> Keys]
    /\ \A b \in Builds : /\ b.passes \in {1, 2} /\ (b.skew => b.passes = 2)
                         /\ b.kernel \in {"lp", "sc", "hr", "hro"}

(* The entry of lp_join's table that a key has in a partition of num tuples.*)
Entry(key, num) == IDHASH(key, (NextPow2(num) - 1) * 2^RadixBits, RadixBits)

(* lp_join needs keys that are dense enough: no two of a partition may     *)
(* have the same entry.                                                    *)
ASSUME DenseKeys ==
    (\E b \in Builds : b.kernel = "lp") =>
        \A f \in RInputs : \A p \in 0 .. 2^RadixBits - 1 :
            LET rows == {i \in Rows(NR) : f[i] % 2^RadixBits = p}
            IN  \A i, j \in rows :
                    Entry(f[i], Cardinality(rows)) = Entry(f[j], Cardinality(rows)) => i = j

Builders == 0 .. BuildNum - 1
Probers  == 0 .. ProbeNum - 1
Rels     == {"R", "S"}
Size     == [R |-> NR, S |-> NS]

VARIABLES
    build,      \* which build of the program runs
    r, s,       \* the relations
    chain,      \* chain[X][u][h]: the list of head h, in the order of linking
    linked,     \* the lists <<X, u, h>> whose last buffer leads to head h of u + 1
    hist,       \* hist[X][u][p]: how many tuples of X went to partition p
    part_queue, skew_queue, join_queue,
    skewtask,   \* the task all threads partition together
    maxBuild,   \* max_build_side_tup_num[], shared
    pc,         \* where each build thread stands
    base,       \* its r_part_buffer and s_part_buffer: the head they point to
    partnum,    \* its part_queue_num
    todo, dest, \* the tuples it still has to partition, where the first one goes
    task, group, next, \* the task it partitions, its heads, the next partition
    lmax,       \* its own max_build_side_tup_num
    size,       \* intermediate_size, in tuples a table has room for
    table,      \* table[p]: the R rows in the intermediate memory of probe thread p
    ppc, ptask, \* where each probe thread stands, and the task it joins
    acc,        \* its matched_cnt and checksum
    result      \* what shr_join_init_run prints

inputs == <<build, r, s>>
lists  == <<chain, linked, hist>>
queues == <<part_queue, skew_queue, join_queue>>
second == <<task, group, next, lmax>>
local  == <<base, partnum, todo, dest, second>>
shared == <<skewtask, maxBuild>>
prober == <<size, table, ppc, ptask, acc, result>>
vars   == <<pc, prober, local, queues, shared, inputs, lists>>
-----------------------------------------------------------------------------
(***************************************************************************)
(* Lists of buffers.                                                       *)
(***************************************************************************)
Fanout1 == 2^(RadixBits \div build.passes)
Fanout2 == 2^(RadixBits - RadixBits \div build.passes)
Heads   == 0 .. Fanout1 + Fanout1 * Fanout2 - 1
Parts   == 0 .. 2^RadixBits - 1

(* Who has heads of its own: in phj_shr.c there is one set for all.        *)
Owners   == IF build.file = "phj_shr" THEN {0} ELSE Builders
Owner(t) == IF build.file = "phj_shr" THEN 0 ELSE t

KeyOf(X, i) == IF X = "R" THEN r[i] ELSE s[i]
Radix1(X, i) == KeyOf(X, i) % Fanout1
Radix2(X, i) == (KeyOf(X, i) \div Fanout1) % Fanout2

(* The partitions of all rows of X, in the first and in the second pass.   *)
FirstRadix(X)  == [i \in Rows(Size[X]) |-> Radix1(X, i)]
SecondRadix(X) == [i \in Rows(Size[X]) |-> Radix2(X, i)]

(* The buffer that takes the next tuple, if it has room: the head, and     *)
(* when it is full the one that was linked last, which is next to it.      *)
Open(c) == IF Len(c[1]) < Cap THEN 1 ELSE Len(c)

Appended(c, x) ==
    IF Len(c[Open(c)]) = Cap THEN Append(c, <<x>>)
    ELSE [c EXCEPT ![Open(c)] = Append(@, x)]

(* The buffers of a list in the order of its links.                        *)
Walk(c) == <<Head(c)>> \o Reverse(Tail(c))

(* ... and on to the lists of the next threads, where they are linked.     *)
WalkFrom(X, u, h) ==
    LET walk[v \in Owners] ==
            IF <<X, v, h>> \in linked THEN Walk(chain[X][v][h]) \o walk[v + 1]
                                     ELSE Walk(chain[X][v][h])
    IN  walk[u]

(* What is stored in some of these buffers: from the first-th, num of them.*)
Stored(buffers) == SelectSeq(FlattenSeq(buffers), LAMBDA x : x # Garbage)
Slice(buffers, first, num) ==
    SubSeq(buffers, Min({first + 1, Len(buffers) + 1}), Min({first + num, Len(buffers)}))

(* A task: its heads, its tuple numbers, how many buffers they are in, and *)
(* which of the S buffers it is for, if not for all.                       *)
Task(u, h, num, bufs) == [owner |-> u, head |-> h, num |-> num, bufs |-> bufs, share |-> NULL]

RowsOf(x, X)   == Stored(WalkFrom(X, x.owner, x.head))
ProbeRows(x)   == LET walk == WalkFrom("S", x.owner, x.head)
                  IN  Stored(IF x.share = NULL THEN walk
                             ELSE Slice(walk, x.share.first, x.share.num))
Joinable(x)    == x.num.R > 0 /\ x.num.S > 0
CeilDiv(n, d)  == (n + d - 1) \div d
Pushed(queue, tasks) == Reverse(tasks) \o queue
-----------------------------------------------------------------------------
NoCounts == [p \in Parts |-> 0]

(* The relations are loaded and all buffers are empty.                     *)
Load ==
    /\ build \in Builds /\ r \in RInputs /\ s \in SInputs
    /\ chain = [X \in Rels |-> [u \in Owners |-> [h \in Heads |-> << <<>> >>]]]
    /\ linked = {}
    /\ hist = [X \in Rels |-> [u \in Owners |-> NoCounts]]
    /\ part_queue = <<>> /\ skew_queue = <<>> /\ join_queue = <<>>
    /\ skewtask = NULL
    /\ maxBuild = [t \in Builders |-> 0]
    /\ size = 0

(* The build threads start; the probe threads will when these are done.    *)
Pool ==
    /\ pc = [t \in Builders |-> "first"]
    /\ base = [t \in Builders |-> 0] /\ partnum = [t \in Builders |-> NULL]
    /\ todo = [t \in Builders |-> <<>>] /\ dest = [t \in Builders |-> NULL]
    /\ task = [t \in Builders |-> NULL] /\ group = [t \in Builders |-> 0]
    /\ next = [t \in Builders |-> 0] /\ lmax = [t \in Builders |-> 0]
    /\ table = [p \in Probers |-> {}]
    /\ ppc = [p \in Probers |-> "idle"] /\ ptask = [p \in Probers |-> NULL]
    /\ acc = [p \in Probers |-> [matched |-> 0, checksum |-> 0]]
    /\ result = NULL

Init == Load /\ Pool

Goto(t, place) == pc' = [pc EXCEPT ![t] = place]

(* Where each barrier leads to.                                            *)
AfterBarrier ==
    [parted  |-> "tasks",
     queued  |-> IF build.passes = 2 THEN "second" ELSE "share",
     shared  |-> IF build.skew THEN "fetch" ELSE "max",
     fetched |-> "look",
     zeroed  |-> "following",
     skewed  |-> "skewtasks",
     drained |-> "max",
     maxed   |-> "exit"]

(* BARRIER_ARRIVE: the last one to arrive lets all go on.                  *)
Release ==
    /\ \E b \in DOMAIN AfterBarrier :
           /\ \A t \in Builders : pc[t] = b
           /\ pc' = [t \in Builders |-> AfterBarrier[b]]
    /\ UNCHANGED <<inputs, lists, queues, shared, local, prober>>
-----------------------------------------------------------------------------
(***************************************************************************)
(* Partitioning together: R and S in the first pass, and the lists of a    *)
(* task in skew handling.                                                  *)
(***************************************************************************)

Tagged(X, rows) == [i \in DOMAIN rows |-> [rel |-> X, row |-> rows[i]]]
ToPartition(t, rows) == todo' = [todo EXCEPT ![t] = Tagged("R", rows["R"]) \o Tagged("S", rows["S"])]

(* Thread t is to partition its share of R, and then its share of S.       *)
ShareRows(X, t) ==
    LET begin == ShareBegin(Size[X], BuildNum, t)
    IN  [i \in 1 .. Cardinality(Share(Size[X], BuildNum, t)) |-> begin + i - 1]

First(t) ==
    /\ pc[t] = "first"
    /\ ToPartition(t, [X \in Rels |-> ShareRows(X, t)])
    /\ Goto(t, IF todo'[t] = <<>> THEN "parted" ELSE "part")
    /\ UNCHANGED <<inputs, lists, queues, shared, base, partnum, dest, second, prober>>

(* ... or the tuples of its share of the buffers of skewtask.              *)
ShareBuffers(X, t) ==
    Stored(Slice(WalkFrom(X, skewtask.owner, skewtask.head),
                 ShareBegin(skewtask.bufs[X], BuildNum, t),
                 Cardinality(Share(skewtask.bufs[X], BuildNum, t))))

Following(t) ==
    /\ pc[t] = "following"
    /\ ToPartition(t, [X \in Rels |-> ShareBuffers(X, t)])
    /\ Goto(t, IF todo'[t] = <<>> THEN "skewed" ELSE "partskew")
    /\ UNCHANGED <<inputs, lists, queues, shared, base, partnum, dest, second, prober>>

Partitioning == {"part", "partskew"}

(* The partition of a tuple, and the place of the head that it has.        *)
PartOf(t, x)  == IF pc[t] = "part" THEN Radix1(x.rel, x.row) ELSE Radix2(x.rel, x.row)
HeadFor(t, x) == base[t] + PartOf(t, x)

(* Mutant: the counts are not kept under the latch, and one gets lost. *)
ReserveForgetful(t) ==
    /\ pc[t] \in Partitioning /\ dest[t] = NULL
    /\ LET x == Head(todo[t])
           h == HeadFor(t, x)
           c == Appended(chain[x.rel][0][h], Garbage)
       IN  /\ chain' = [chain EXCEPT ![x.rel][0][h] = c]
           /\ dest' = [dest EXCEPT ![t] = [head |-> h, buf |-> Len(c), slot |-> Len(Last(c))]]
           /\ hist' = [hist EXCEPT ![x.rel][0][PartOf(t, x)] =
                  IF \E u \in Builders \ {t} : dest[u] # NULL /\ dest[u].head = h
                  THEN @ ELSE @ + 1]
    /\ UNCHANGED <<inputs, linked, queues, shared, pc, base, partnum, todo, second, prober>>

(* Under the latch of its head, a tuple is given the next place, in a new  *)
(* buffer if there is none, and counted;                                   *)
Reserve(t) ==
    /\ pc[t] \in Partitioning /\ dest[t] = NULL
    /\ LET x == Head(todo[t])
           h == HeadFor(t, x)
           c == Appended(chain[x.rel][0][h], Garbage)
       IN  /\ chain' = [chain EXCEPT ![x.rel][0][h] = c]
           /\ dest' = [dest EXCEPT ![t] = [head |-> h, buf |-> Len(c), slot |-> Len(Last(c))]]
           /\ hist' = [hist EXCEPT ![x.rel][0][PartOf(t, x)] = @ + 1]
    /\ UNCHANGED <<inputs, linked, queues, shared, pc, base, partnum, todo, second, prober>>

(* it is stored there without.                                             *)
Store(t) ==
    /\ pc[t] \in Partitioning /\ dest[t] # NULL
    /\ LET x == Head(todo[t])
           d == dest[t]
       IN  chain' = [chain EXCEPT ![x.rel][0][d.head][d.buf][d.slot] = x.row]
    /\ todo' = [todo EXCEPT ![t] = Tail(@)]
    /\ dest' = [dest EXCEPT ![t] = NULL]
    /\ IF Len(todo[t]) = 1 THEN Goto(t, IF pc[t] = "part" THEN "parted" ELSE "skewed")
                           ELSE UNCHANGED pc
    /\ UNCHANGED <<inputs, linked, hist, queues, shared, base, partnum, second, prober>>

(* From the counts of all threads, how large partition p is, and in how    *)
(* many buffers.                                                           *)
Total(X, p) == MapThenSumSet(LAMBDA u : hist[X][u][p], Owners)
Totals(p)   == [X \in Rels |-> Total(X, p)]
Full(p)     == [X \in Rels |-> CeilDiv(Total(X, p), Cap)]

(* A task of each partition with tuples; those above THRESHOLD_0 are put   *)
(* aside.  Of these max_build_side_tup_num takes no notice.                *)
FirstTasks == [i \in 1 .. Fanout1 |-> Task(0, i - 1, Totals(i - 1), Full(i - 1))]

Exceeds(x, maximum) == x.num.R > maximum \/ x.num.S > maximum
Aside(x) == build.skew /\ Exceeds(x, Threshold0)
ToDo(x)  == ~Aside(x) /\ Exceeds(x, 0)
Largest(n, tasks) == Max({n} \cup {x.num.R : x \in ToSet(tasks)})

AddTasks(t, tasks) ==
    /\ skew_queue' = Pushed(skew_queue, SelectSeq(tasks, Aside))
    /\ part_queue' = Pushed(part_queue, SelectSeq(tasks, ToDo))
    /\ lmax' = [lmax EXCEPT ![t] = Largest(@, SelectSeq(tasks, ToDo))]

(* Thread 0 makes the tasks, without any lock. *)
MakeTasks(t) ==
    /\ pc[t] = "tasks"
    /\ \/ t = 0 /\ AddTasks(t, FirstTasks)
       \/ t # 0 /\ UNCHANGED <<skew_queue, part_queue, lmax>>
    /\ Goto(t, "queued")
    /\ UNCHANGED <<inputs, lists, join_queue, shared, base, partnum, todo, dest, task, group,
                   next, prober>>
-----------------------------------------------------------------------------
(***************************************************************************)
(* The second pass: each thread partitions tasks of its own.               *)
(***************************************************************************)

(* Each thread reads how many tasks there are, without the queue's mutex,  *)
(* when others may have taken some.                                        *)
StartSecondPass(t) ==
    /\ pc[t] = "second"
    /\ partnum' = [partnum EXCEPT ![t] = Len(part_queue)]
    /\ base' = [base EXCEPT ![t] = @ + Fanout1]
    /\ lmax' = [lmax EXCEPT ![t] = 0]
    /\ Goto(t, "pop")
    /\ UNCHANGED <<inputs, lists, queues, shared, todo, dest, task, group, next, prober>>

(* task_queue_get_count_atomic: the task, and how many there were with it. *)
PopPart(t) ==
    /\ pc[t] = "pop"
    /\ \/ /\ part_queue # <<>>
          /\ task' = [task EXCEPT ![t] = Head(part_queue)]
          /\ group' = [group EXCEPT ![t] = base[t] + Fanout2 * (Len(part_queue) - 1)]
          /\ part_queue' = Tail(part_queue)
          /\ Goto(t, "cluster")
       \/ /\ part_queue = <<>>
          /\ Goto(t, "share")
          /\ UNCHANGED <<part_queue, task, group>>
    /\ UNCHANGED <<inputs, lists, skew_queue, join_queue, shared, base, partnum, todo, dest,
                   next, lmax, prober>>

(* The lists of some partitions after a thread alone has put tuples into   *)
(* them; radix[i] is the partition of row i.                               *)
Direct(parts, rows, radix) ==
    FoldLeft(LAMBDA c, i : [c EXCEPT ![radix[i]] = Appended(@, i)], parts, rows)

(* The same through a write-combining buffer for each partition: a tuple   *)
(* is given its place, but it is stored with the others of its line when   *)
(* the line is full.  What is left in the end goes to the end of the open  *)
(* buffer.                                                                 *)
Combine(b, x) ==
    LET list == Appended(b.list, Garbage)
        k    == Len(Last(list))
        line == [j \in 1 .. Line |-> IF j = ((k - 1) % Line) + 1 THEN x ELSE b.line[j]]
    IN  [list |-> IF k % Line # 0 THEN list
                  ELSE [list EXCEPT ![Len(list)] = SubSeq(@, 1, k - Line) \o line],
         line |-> line,
         slot |-> k]

Drained(b) ==
    LET left == b.slot % Line
    IN  [b.list EXCEPT ![Open(b.list)] =
            SubSeq(@, 1, Len(@) - left) \o SubSeq(b.line, 1, left)]

Combined(parts, rows, radix) ==
    LET empty   == [p \in DOMAIN parts |->
                       [list |-> parts[p], line |-> [j \in 1 .. Line |-> Garbage], slot |-> 0]]
        put(w, i) == [w EXCEPT ![radix[i]] = Combine(@, i)]
        filled  == FoldLeft(put, empty, rows)
    IN  [p \in DOMAIN parts |-> Drained(filled[p])]

ClusterNum(x, X, p) == Len(SelectSeq(RowsOf(x, X), LAMBDA i : Radix2(X, i) = p))

(* shr_cluster or shr_cluster_optimized, from the lists of a task to those *)
(* of the group h.                                                         *)
Clustered(X, u, h, rows) ==
    LET parts == [p \in 0 .. Fanout2 - 1 |-> chain[X][u][h + p]]
    IN  IF build.swwcb THEN Combined(parts, rows, SecondRadix(X))
                       ELSE Direct(parts, rows, SecondRadix(X))

Cluster(t) ==
    /\ pc[t] = "cluster"
    /\ LET h      == group[t]
           new(X) == Clustered(X, Owner(t), h, RowsOf(task[t], X))
       IN  chain' = [X \in Rels |-> [chain[X] EXCEPT ![Owner(t)] = [i \in Heads |->
                        IF i - h \in 0 .. Fanout2 - 1 THEN new(X)[i - h] ELSE @[i]]]]
    /\ next' = [next EXCEPT ![t] = 0]
    /\ Goto(t, "emit")
    /\ UNCHANGED <<inputs, linked, hist, queues, shared, base, partnum, todo, dest, task, group,
                   lmax, prober>>

(* The loop of shr_serial_partition that makes join tasks.                 *)
ClusterTask(t, p) ==
    Task(Owner(t), group[t] + p, [X \in Rels |-> ClusterNum(task[t], X, p)], NULL)

Emit(t) ==
    /\ pc[t] = "emit"
    /\ LET x == ClusterTask(t, next[t])
       IN  IF Joinable(x)
           THEN /\ join_queue' = Pushed(join_queue, <<x>>)
                /\ lmax' = [lmax EXCEPT ![t] = Largest(@, <<x>>)]
           ELSE UNCHANGED <<join_queue, lmax>>
    /\ next' = [next EXCEPT ![t] = @ + 1]
    /\ Goto(t, IF next[t] = Fanout2 - 1 THEN "pop" ELSE "emit")
    /\ UNCHANGED <<inputs, lists, part_queue, skew_queue, shared, base, partnum, todo, dest,
                   task, group, prober>>

(* The second pass is over for this thread: its maximum goes to its slot,  *)
(* and its heads begin where it takes the groups of all tasks to end.      *)
EndSecondPass(t) ==
    /\ pc[t] = "share"
    /\ IF build.passes = 2
       THEN /\ maxBuild' = [maxBuild EXCEPT ![t] = lmax[t]]
            /\ base' = [base EXCEPT ![t] = @ + Fanout2 * partnum[t]]
       ELSE UNCHANGED <<maxBuild, base>>
    /\ Goto(t, "shared")
    /\ UNCHANGED <<inputs, lists, queues, skewtask, partnum, todo, dest, second, prober>>
-----------------------------------------------------------------------------
(***************************************************************************)
(* Skew handling: all threads partition one large task after the other.    *)
(***************************************************************************)

(* Thread 0 takes the next one, for all. *)
FetchSkew(t) ==
    /\ pc[t] = "fetch"
    /\ \/ /\ t = 0
          /\ \/ /\ skew_queue # <<>>
                /\ skewtask' = Head(skew_queue) /\ skew_queue' = Tail(skew_queue)
             \/ /\ skew_queue = <<>>
                /\ skewtask' = NULL /\ UNCHANGED skew_queue
       \/ t # 0 /\ UNCHANGED <<skewtask, skew_queue>>
    /\ Goto(t, "fetched")
    /\ UNCHANGED <<inputs, lists, part_queue, join_queue, maxBuild, local, prober>>

(* Mutant: the other threads look whether the queue is empty. *)
LookAtQueue(t) ==
    /\ pc[t] = "look"
    /\ IF (IF t = 0 THEN skewtask = NULL ELSE skew_queue = <<>>)
       THEN Goto(t, "drain") /\ UNCHANGED hist
       ELSE /\ hist' = [X \in Rels |-> [hist[X] EXCEPT ![Owner(t)] = NoCounts]]
            /\ Goto(t, "zeroed")
    /\ UNCHANGED <<inputs, chain, linked, queues, shared, local, prober>>

(* The counts, which are those of all threads, are zeroed by each of them. *)
Look(t) ==
    /\ pc[t] = "look"
    /\ IF skewtask = NULL
       THEN Goto(t, "drain") /\ UNCHANGED hist
       ELSE /\ hist' = [X \in Rels |-> [hist[X] EXCEPT ![Owner(t)] = NoCounts]]
            /\ Goto(t, "zeroed")
    /\ UNCHANGED <<inputs, chain, linked, queues, shared, local, prober>>

(* Mutant: the last share does not take the remainder. *)
SharesEven(x) ==
    LET n == x.bufs.S \div BuildNum
    IN  [j \in 1 .. BuildNum |-> [x EXCEPT !.share = [first |-> (j - 1) * n, num |-> n]]]

(* The S buffers of a task in shares, one for each build thread, each to   *)
(* be joined with all of R.                                                *)
Shares(x) ==
    LET n == x.bufs.S \div BuildNum
    IN  [j \in 1 .. BuildNum |-> [x EXCEPT !.share =
            [first |-> (j - 1) * n,
             num   |-> IF j = BuildNum THEN x.bufs.S - (j - 1) * n ELSE n]]]

(* A task of each partition, or several if both its sides are above        *)
(* THRESHOLD_1.  part_queue is empty and gets those.                       *)
Large(x) == \A X \in Rels : x.num[X] > Threshold1

AddSkewTasks(t, tasks) ==
    LET splits == SelectSeq(tasks, Large)
        joins  == SelectSeq(tasks, LAMBDA x : Joinable(x) /\ ~Large(x))
    IN  /\ part_queue' = Pushed(part_queue,
               FlattenSeq([i \in DOMAIN splits |-> Shares(splits[i])]))
        /\ join_queue' = Pushed(join_queue, joins)
        /\ lmax' = [lmax EXCEPT ![t] = Largest(@, tasks)]

SkewTasks(h) == [i \in 1 .. Fanout2 |-> Task(0, h + i - 1, Totals(i - 1), Full(i - 1))]

(* Thread 0 makes them; the next task gets the next group.                 *)
MakeSkewTasks(t) ==
    /\ pc[t] = "skewtasks"
    /\ \/ t = 0 /\ AddSkewTasks(t, SkewTasks(base[t]))
       \/ t # 0 /\ UNCHANGED <<part_queue, join_queue, lmax>>
    /\ base' = [base EXCEPT ![t] = @ + Fanout2]
    /\ Goto(t, "fetch")
    /\ UNCHANGED <<inputs, lists, skew_queue, shared, partnum, todo, dest, task, group, next,
                   prober>>

(* Thread 0 moves the shares to the front of join_queue. *)
DrainParts(t) ==
    /\ pc[t] = "drain"
    /\ \/ /\ t = 0
          /\ join_queue' = Pushed(join_queue, part_queue)
          /\ part_queue' = <<>>
       \/ t # 0 /\ UNCHANGED <<join_queue, part_queue>>
    /\ Goto(t, "drained")
    /\ UNCHANGED <<inputs, lists, skew_queue, shared, local, prober>>

(* Mutant: thread 0 only shares what it has seen itself. *)
FindMaxOwn(t) ==
    /\ pc[t] = "max"
    /\ \/ t = 0 /\ maxBuild' = [u \in Builders |-> lmax[t]]
       \/ t # 0 /\ UNCHANGED maxBuild
    /\ Goto(t, "maxed")
    /\ UNCHANGED <<inputs, lists, queues, skewtask, local, prober>>

(* Thread 0 finds the largest R partition of all. *)
FindMax(t) ==
    /\ pc[t] = "max"
    /\ \/ /\ t = 0
          /\ maxBuild' = [u \in Builders |-> Max({lmax[t]} \cup {maxBuild[v] : v \in Builders})]
       \/ t # 0 /\ UNCHANGED maxBuild
    /\ Goto(t, "maxed")
    /\ UNCHANGED <<inputs, lists, queues, skewtask, local, prober>>
-----------------------------------------------------------------------------
(***************************************************************************)
(* shr_join_init_run and shr_prj_thread_probejoin.                         *)
(***************************************************************************)

(* All build threads are joined.  One pass leaves the tasks in part_queue. *)
SpawnProbers ==
    /\ \A t \in Builders : pc[t] = "exit"
    /\ \A p \in Probers : ppc[p] = "idle"
    /\ IF build.passes = 1
       THEN join_queue' = part_queue /\ part_queue' = join_queue
       ELSE UNCHANGED <<join_queue, part_queue>>
    /\ size' = maxBuild[0]
    /\ ppc' = [p \in Probers |-> "wipe"]
    /\ UNCHANGED <<inputs, lists, skew_queue, shared, pc, local, table, ptask, acc, result>>

(* The first MemsetNum threads zero the intermediate memory of all threads *)
(* in shares, which need not be those that the threads use.                *)
Wipe(p) ==
    /\ ppc[p] = "wipe"
    /\ LET mine == IF p < MemsetNum THEN Share(size * ProbeNum, MemsetNum, p) ELSE {}
       IN  table' = [q \in Probers |->
               IF mine \cap (q * size .. (q + 1) * size - 1) # {} THEN {} ELSE table[q]]
    /\ ppc' = [ppc EXCEPT ![p] = "wiped"]
    /\ UNCHANGED <<inputs, lists, queues, shared, pc, local, size, ptask, acc, result>>

ReleaseProbe ==
    /\ \/ /\ \A p \in Probers : ppc[p] = "wiped"
          /\ ppc' = [p \in Probers |-> "pop"]
       \/ /\ \A p \in Probers : ppc[p] = "joined"
          /\ ppc' = [p \in Probers |-> "exit"]
    /\ UNCHANGED <<inputs, lists, queues, shared, pc, local, size, table, ptask, acc, result>>

PopJoin(p) ==
    /\ ppc[p] = "pop"
    /\ \/ /\ join_queue # <<>>
          /\ ptask' = [ptask EXCEPT ![p] = Head(join_queue)]
          /\ join_queue' = Tail(join_queue)
          /\ ppc' = [ppc EXCEPT ![p] = "build"]
       \/ /\ join_queue = <<>>
          /\ ppc' = [ppc EXCEPT ![p] = "joined"]
          /\ UNCHANGED <<ptask, join_queue>>
    /\ UNCHANGED <<inputs, lists, part_queue, skew_queue, shared, pc, local, size, table, acc,
                   result>>

(* A kernel that has no share of S returns at once.                        *)
Idle(x) == x.share # NULL /\ x.share.num = 0

Return(p) ==
    /\ ppc[p] = "build" /\ Idle(ptask[p])
    /\ ppc' = [ppc EXCEPT ![p] = "pop"]
    /\ UNCHANGED <<inputs, lists, queues, shared, pc, local, size, table, ptask, acc, result>>

(* The rows that are in the table once R was copied to it in this order:   *)
(* all, but lp_join stores a tuple at its entry whatever is there, and     *)
(* keeps the last one of each.                                             *)
Kept(rows, num) ==
    LET At(n) == Entry(r[rows[n]], num)
        last  == {n \in DOMAIN rows : \A m \in DOMAIN rows : m > n => At(m) # At(n)}
    IN  IF build.kernel = "lp" THEN {rows[n] : n \in last} ELSE ToSet(rows)

(* It copies R, buffer by buffer, to its table in the intermediate memory, *)
BuildTable(p) ==
    /\ ppc[p] = "build" /\ ~Idle(ptask[p])
    /\ table' = [table EXCEPT ![p] = Kept(RowsOf(ptask[p], "R"), ptask[p].num.R)]
    /\ ppc' = [ppc EXCEPT ![p] = "probe"]
    /\ UNCHANGED <<inputs, lists, queues, shared, pc, local, size, ptask, acc, result>>

PairsOf(rows, probes) == {m \in rows \X ToSet(probes) : r[m[1]] = s[m[2]]}

(* and it probes with the S buffers and adds what it finds to its result.  *)
(* A lookup of lp_join begins at the entry of its key, where the row with  *)
(* that key is, if it was kept.                                            *)
ProbeTable(p) ==
    /\ ppc[p] = "probe"
    /\ LET pairs == PairsOf(table[p], ProbeRows(ptask[p]))
       IN  acc' = [acc EXCEPT ![p] =
               [matched  |-> @.matched + Cardinality(pairs),
                checksum |-> (@.checksum + RowidSum(RowidBits, pairs)) % 2^RowidBits]]
    /\ ppc' = [ppc EXCEPT ![p] = "pop"]
    /\ UNCHANGED <<inputs, lists, queues, shared, pc, local, size, table, ptask, result>>

(* All probe threads are joined and their results added up. *)
Collect ==
    /\ result = NULL
    /\ \A p \in Probers : ppc[p] = "exit"
    /\ result' = [matched  |-> MapThenSumSet(LAMBDA p : acc[p].matched, Probers),
                  checksum |-> MapThenSumSet(LAMBDA p : acc[p].checksum, Probers)
                                   % 2^RowidBits]
    /\ UNCHANGED <<inputs, lists, queues, shared, pc, local, size, table, ppc, ptask, acc>>

Terminated == result # NULL /\ UNCHANGED vars
-----------------------------------------------------------------------------
FirstPass(t) ==
    \/ First(t) \/ MakeTasks(t)
    \/ pc[t] = "part" /\ (Reserve(t) \/ Store(t))

SecondPass(t) == StartSecondPass(t) \/ PopPart(t) \/ Cluster(t) \/ Emit(t) \/ EndSecondPass(t)

SkewHandling(t) ==
    \/ FetchSkew(t) \/ Look(t) \/ Following(t)
    \/ pc[t] = "partskew" /\ (Reserve(t) \/ Store(t))
    \/ MakeSkewTasks(t) \/ DrainParts(t) \/ FindMax(t)

Buildpart(t) == FirstPass(t) \/ SecondPass(t) \/ SkewHandling(t)

Probejoin(p) == Wipe(p) \/ PopJoin(p) \/ Return(p) \/ BuildTable(p) \/ ProbeTable(p)

Main == Release \/ SpawnProbers \/ ReleaseProbe \/ Collect
=============================================================================
