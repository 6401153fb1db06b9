# TLA+ verification of hashjoin-scm

The repository benchmarks main-memory hash joins on persistent memory: a
relation R (the build side, unique keys) is joined with a relation S (the probe
side) by a dozen variants of the hash join, and each prints the number of
matching pairs and a checksum over their row ids. Each variant is a few hundred
lines of pthreads code that shares tables, offsets, buffers and queues between
up to dozens of threads with spin latches, compare-and-swap, barriers and mutexes.
There is no persistent state to recover and no network: what can go wrong is a
lost or doubled tuple under a rare interleaving, an offset that is wrong for
some distributions of the keys, and threads that never come back.

All paths below are relative to `src/src/`.

## 1. Inventory

| component | state | operations | interacts with | hard part |
|---|---|---|---|---|
| NPHJ, separate chaining (`algo/nphj.c`, `nphj_sc`) | buckets with latch, count, overflow pointer, tuples; one chain of overflow buffers per thread | memset, insert, probe, collect | `inc/lock.h`, barriers, `pthread_join` | a slot is reserved under the latch, its tuple stored after it is released |
| NPHJ, linear probing (`algo/nphj.c`, `nphj_lp`) | array of entries: hashkey, latch, tuple | memset, insert by CAS or latch, lookup, collect | as above | an unprotected read precedes the claim; lookups rely on paths without gaps |
| radix partitioning (`algo/phj.c` 147-359) | histograms of all threads, offsets, write-combining buffers, target array | count, sum up, scatter, store full lines, store rests | barriers; caller turns offsets into tasks | positions are computed from all histograms; full lines overwrite what is in front of a room |
| task queue (`inc/task_pthread.h`) | linked stack, count, block allocator, two mutexes | add, get, get slot, init, free | used by all partitioned joins | one structure under two mutexes, and unlocked use between barriers |
| PHJ pipeline (`algo/phj.c` 1041-2512) | two relations and their temporaries, `part_queue`, `skew_queue`, `join_queue`, `max_build_side_tup_num`, intermediate memory | first pass, second pass, skew loop, join loop | all of the above | phases separated by barriers only; sizes computed in one phase and trusted in another |
| join kernels (`algo/phj.c` 496-1035) | private tables in the intermediate memory | `bc_join`, `lp_join`, `sc_join`, `hr_join`, `hro_join` | pipeline | masks and sizes at small partitions |
| shared partition buffers (`algo/phj_shr.c`, `inc/task_pthread_shr.h`) | lists of linked buffers with a latched head for each partition, one array of heads for both passes, pools of buffers | put a tuple, link a buffer, partition a task's list into a group of heads, walk a list | a task queue with a count | a slot is taken under the latch and stored to after it; the count of a queue numbers the groups of heads |
| independent partition buffers (`algo/phj_ind.c`, `inc/task_pthread_ind.h`) | the same lists, one set for each thread | as above without latches; thread 0 links the lists of all threads | as above | a list whose first buffer is its rear |
| rooms of fixed size (`algo/phj_shr_uni.c`, `algo/phj_ind_uni.c`) | as the pipeline, rooms as large as uniform keys need times a factor | positions by fetch-and-add, or regions of each thread ended by a key 0 | as the pipeline | nothing checks that a room is large enough |
| bandwidth regulation (`algo/*_bw_reg.c`) | the pipeline and `part_queue_2nd_pass`, histograms in slots | only some threads write, for the others too; a task is counted by one thread and written by another | as the pipeline | a task changes hands in the middle |
| asymmetric radix (`algo/phj_asymm*.c`) | the pipeline | S goes through the first pass only | as the pipeline | several tasks share an S room |
| joins over row ids (`algo/ptr_*.c`) | arrays of keys and row ids, pairs of row ids per thread with a write-combining buffer | as the joins above, store a pair, then a pool of threads fetches tuples | as the joins above | memory for an average number of pairs |
| `algo/eth.c` | the pipeline without a shared intermediate memory | as the pipeline | as the pipeline | |
| `tpch/*` | as the pipeline and NPHJ, with selections and aggregates | | | |
| generators (`gen.c`, `fndly_gen.c`, `inc/eth_genzipf.c`) | none | write data files | | binary search for a Zipf rank |
| measurement (`pmw/`, `papi/`, `microbench/`), `inc/memaccess.c`, `main.c` | none of a join | | | |

What makes each correct: every R tuple is inserted once and none is lost; no two
threads write to the same place; what is read without protection is complete
when it is read; the result is the join's, for every interleaving; and every
thread comes back. `PROJECT.json` lists the hazards at their lines, with the
property that would catch each, or the reason why none does yet.

## 2. Plan

In order; everything up to 16 is done.

1. `Relations`, `JoinSpec`: the abstract join.
2. `NphjSC`: the latched table, refined to `JoinSpec`; proofs.
3. `NphjLP`: the claimed table, refined to `JoinSpec`.
4. `RadixPartition`, and `RadixPartitionSwwcb` refined to it.
5. `TaskPool`, and `TaskQueue` refined to it.
6. `PairSpec`, `Phj`: the pipeline over queues and scatters that are single steps; both
   passes, the skew loop, the sizing of the intermediate memory, the join loop;
   refined to the abstract join of pairs.
7. `JoinKernels`: the five kernels word by word in the memory of their thread, against
   `JoinAnswer`; small partitions, full tables, memory that was used before.
8. `PhjEth`, `PhjAsymm`: the two variants that rearrange the pipeline.
9. `PhjBwReg`, `PhjAsymmBwReg`: the three kinds of second pass in which tasks change hands.
10. `PtrPhj`, `PtrPhjBwReg`: row ids, pairs, retrieval.
11. `PhjShrUni`, `PhjIndUni`: rooms of a fixed size that nobody counted for.
12. `PhjVariants`: 8 to 11 in one instance, refined to `PairSpec`.
13. `PhjShr`, `PhjInd`, `PhjBuffers`: linked partition buffers, refined to `PairSpec`.
14. `RowPairs`, `PtrNphjSC`, `PtrNphjLP`: the shared tables over row ids, run with those of 2 and 3.
15. Proofs about the components that stand for themselves: every safety property of `NphjSC`,
    `NphjLP`, `RadixPartition`, `RadixPartitionSwwcb` and `TaskQueue`, and their refinements.
16. Proofs about `Phj`: the phases and `SkewTaskStable`, `IntermediateFits`, the places of the
    rooms and `RoomsApart`, their contents, `PairsConserved` and the refinement of `PairSpec`.
17. Proofs about `RowPairs` and about what the variants add to `Phj`.
18. TPC-H and the Zipf generator.

`NphjSC`, `NphjLP`, `RadixPartition`, `TaskQueue` and `JoinKernels` stand for themselves.
`JoinSpec`, `PairSpec`, `TaskPool` and `RadixPartition` are what the others are shown to
implement; `Phj` and what is built on it take the queue and the scatter as the abstract
ones promise them, and a kernel as `JoinKernels` shows it to be.

## 3. Modules

| module | models | |
|---|---|---|
| `Relations` | relations, matching pairs, the answer of a join, the shares of the threads | used by all |
| `JoinSpec` | the abstract join: rows enter the table once, the answer is the join's | |
| `Pointers` | the addresses that following a pointer, over and over, leads to | used by `NphjSC`, `TaskQueue` |
| `Hashing` | `IDHASH`, `next_pow_2` on integers | used by the MC modules and `PhjShr`, not by modules with theorems, as it needs `Bitwise` |
| `NphjSC` | `nphj_sc` | implements `JoinSpec` |
| `NphjLP` | `nphj_lp`, both builds of the claim, both of the lookup | implements `JoinSpec` |
| `RowPairs` | storing and retrieving pairs of row ids in `ptr_nphj.c` | |
| `PtrNphjSC`, `PtrNphjLP` | `ptr_nphj_sc`, `ptr_nphj_lp` | extend `NphjSC`, `NphjLP`; both with `RowPairs` |
| `RadixPartition` | `parallel_radix_partition` | |
| `RadixPartitionSwwcb` | `parallel_radix_partition_optimized` | implements `RadixPartition` |
| `TaskPool` | what a task queue promises | |
| `TaskQueue` | `task_pthread.h`, in the order the joins use it | implements `TaskPool` |
| `PairSpec` | the abstract partitioned join: matching pairs are found, the answer is the join's | |
| `Phj` | `join_init_run`, `prj_thread_buildpart`, `prj_thread_probejoin` | implements `PairSpec` |
| `JoinKernels` | `bc_join`, `lp_join`, `sc_join`, `hr_join`, `hro_join` | |
| `PhjEth`, `PhjAsymm` | `eth.c`, `phj_asymm_radix.c` | extend `Phj` |
| `PhjBwReg`, `PhjAsymmBwReg` | `phj_bw_reg.c`, `phj_asymm_radix_bw_reg.c` | extend `Phj`, `PhjBwReg` |
| `PtrPhj`, `PtrPhjBwReg` | `ptr_phj.c`, `ptr_phj_bw_reg.c` | extend `Phj`, both `PtrPhj` and `PhjBwReg` |
| `PhjShrUni`, `PhjIndUni` | `phj_shr_uni.c`, `phj_ind_uni.c` | extend `Phj` |
| `PhjVariants` | the eight files together, `build.file` says which | implements `PairSpec` |
| `PhjShr`, `PhjInd` | `phj_shr.c`, `phj_ind.c` | `PhjInd` extends `PhjShr` |
| `PhjBuffers` | the two files together | implements `PairSpec` |
| `MC*` | instances for TLC; `MCPhjVariants` has three | |
| `RelationsProofs` | lemmas: induction, sums, pointers, shares, ranks and places, tallies | used by all modules with proofs |
| `NphjSCProofs`, `NphjLPProofs`, `TaskQueueProofs`, `RadixPartitionProofs`, `RadixPartitionSwwcbProofs`, `PhjProofs` | theorems about the module of that name | |
| `PhjPairProofs` | theorems about the contents of the rooms of `Phj`, and about the pairs | extends `PhjProofs` |

### NphjSC

A bucket address is `<<-1, 0, h>>` for a head bucket or `<<t, n, k>>` for bucket
`k` of the `n`-th overflow buffer of thread `t`; `count`, `next` and `tuples` are
the fields of the buckets, all `Garbage` until written. Each build thread runs
`Memset`, two barriers (`ReleaseBuild`; the code has thread 0 take the time
between them, `Timer`), and for each of its rows `Lock` (the exchange in
`inc/lock.h` that reads 0), `Inspect` (read both counters, choose the slot),
`Update` (write them back, link a new bucket in), `Unlock`, `Store`. `Inspect` and
`Update` are two steps because the critical section is not atomic: were the latch
broken, its reads and writes would interleave. The main thread joins the build
threads and starts the probe threads (`SpawnProbers`); those scan a chain one
bucket per step, and `Collect` adds their results up. The same steps stand for the
loop with PREFETCH_DISTANCE, which only adds prefetch instructions.

### NphjLP

An entry is free while its hashkey is 0. `Peek` is the unprotected read in the loop
condition; `Claim` the compare-and-swap, or `Lock`, `Test`, `Write`, `Unlock` the
same under the entry's latch when built with LOCK_IN_BUCKET; `Store` the tuple,
after the claim. A lookup takes one step per entry: `Walk` on, `Hit`, or `Miss`. `Miss`
sets `fault`: the caller dereferences the NULL it got. After that nothing moves.

### PtrNphjSC, PtrNphjLP and RowPairs

`algo/ptr_nphj.c` builds and searches the same tables with keys and row ids in them. Its steps
carry the prefix `Ptr`, and one that does what that of `nphj.c` does is defined as that one.
A probe thread stores what it finds as pairs in `mater`: at once, or with
NONTEMP_STORE_MATER through `pairbuf`, a line of `PairLine` pairs that is stored when it is full
and behind the last tuple (`StoreRest`). When all probe threads are joined the main thread
starts the retrieving threads; each takes its share of every probe thread's pairs
(`RetrievePairs`), and `PtrCollect` makes the answer of the number of pairs and of the
checksums of these threads. `file` says which of the two programs runs: `FilesSpec` has the
steps of both, and the part with `file = "nphj"` is `Spec` of `NphjSC` or `NphjLP`.

A thread has room for as many pairs as it has tuples of S ("the uniform pkfk scenario", 722,
1884), so `PtrRInputs` has unique keys only. The retrieval takes a row id for a position: that
holds for the data sets with payloads, which are numbered after they are shuffled
(`gen.c` 244, 277).

### RadixPartition and RadixPartitionSwwcb

A tuple is the number of its row. `Histogram` counts and sums up a thread's share;
behind the barrier `Offsets` computes, from the histograms of all threads, where
the thread's room in each partition begins (`Start`); `Scatter` moves one tuple;
`Rewind` moves the offsets back, from which thread 0 makes the tasks (`TaskSize`,
`TaskRange`). With buffers, `Scatter` puts the tuple into a line and stores the line
when it is complete, over everything in its place (`Flushed`); what is left is
stored by `Drain`, one partition per step, behind the second barrier. The task's
array is a part of a larger one: it begins at `GlobalOffset`, in general not at the
beginning of a line, and another task's tuples end `Padding` positions before.

The refinement mapping reads a position from the buffer of the thread whose room
it is in as long as the line is incomplete, and from memory otherwise. That the
result is a behaviour of `RadixPartition` says that a position, seen like that, is
given its tuple in one step and keeps it, whatever the lines do to memory meanwhile.

### TaskQueue

`FreeSlot` is `task_queue_get_slot`. Under the allocator's mutex it is read (`LockAlloc`)
and written back (`Carve`); the task is filled in (`Fill`) under no mutex; `LockPush`,
`Link`, `Bump` are `task_queue_add_atomic`; `LockPop`, `Peek`, `Take`
`task_queue_get_atomic`. `AddAlone` is the unlocked pair that thread 0 uses between
barriers. The order is that of `join_queue`: all add (the second pass), thread 0
alone adds (tasks of the skew handling), all take. `part_queue` is the case
`AddNum = 0`. The refinement maps the stack to a set: `Bump` and `AddAlone` put, `Take` gets.

### Phj

A relation has two arrays, `mem[X].org` and `mem[X].tmp`; a tuple in them is the
number of its row. A *room* is a piece of one array (a `relation_t`), a task a pair of
rooms; its `r_tmp` and `s_tmp` are at the same place of the other array. The variable
`build` chooses the build of the program: NUM_PASSES, SKEW_HANDLING, and whether the
kernel copies R to `r_tmp`. A thread stands at a step of its program or at a barrier;
`AfterBarrier` names what comes after each (the ten lines of phj.c with BARRIER_ARRIVE
between 1140 and 1687, and the one in `parallel_radix_partition`), and `Release` lets all
threads go on at once. `Zero`, `Count` and `Scatter` serve the first pass and the skew
tasks, as `part_t` does in the code; `MakeTasks`, `FetchSkew`, `MakeSkewTasks`, `DrainParts`
and `FindMax` are thread 0's work between two barriers. `PopPart`, `Cluster` and `Emit`
are the second pass, one join task per `Emit`. `Wipe` zeroes shares of the intermediate
memory, of which a table in it is either whole or gone; `BuildTable` and `ProbeTable` are
a kernel: what it puts into its table, and the pairs it finds there.

Two kinds of steps are coarse. The operations of a queue are single steps: that is
what `TaskQueue` shows of them. And a thread scatters its whole share in one step:
it writes to its own rooms only (`RadixPartition`, `RadixPartitionSwwcb`), while
nobody reads from the target array.

`Outstanding` has the pairs that are still to be joined for each place where a task is (`Holding`): in a
queue, in the hands of a thread, of which `Emit` may have come to a part (`Rest`), or in the
skew loop. The refinement takes all other matching pairs as found. `NULL` is no
task (`NullAssumption`).

### JoinKernels

One probe thread, its `intermediate` and its `r_tmp`. `mem` is the intermediate memory in
words of 8 bytes, with as many words of the next thread behind it; the kernels lay their
tables out in it as the code does: `bucket` and `next` of `bc_join`, the entries of
`lp_join`, the buckets of `sc_join` (count, next, tuples) with the overflow buckets behind
the heads, `hist` of `hr_join` and `hro_join`, and the three buffers of the latter. An
address is a word's number, and 0 is the null pointer, which no overflow bucket has. A
kernel is `Memset`, then either one `Insert` per R tuple, or `CountHash`, `PrefixSum` and
`ScatterHash` into `rtmp`; then for each S tuple `Lookup` and one `Walk` per entry, bucket or
register of tuples; `hro_join` begins each full group of four S tuples with `Fill`. `Return`
hands the result to the loop of `prj_thread_probejoin`, which takes the next task. `Size` is
what `join_init_run` allocates for each thread.

### PhjVariants and the modules it joins

The eight files are copies of the framework of `phj.c` in which some phases were changed.
Each has a module whose steps carry its prefix and are mapped to its own lines. A step
that does what that of `phj.c` does is defined as that one, so that what remains visible
is where a file differs:

* `PhjEth`: tables are allocated task by task. Nobody looks for the largest partition,
  and two barriers are missing (`EthAfterBarrier`).
* `PhjAsymm`: the second pass and the skew handling partition the relations in
  `SecondRels`, which is R alone; the join tasks of a partition share its S room.
* `PhjBwReg`: `offs` are the offsets each thread has computed, published at one more
  barrier, as a writer goes on from where each owner's room begins. `mid_queue` hands a task
  from a thread that has counted it (`BwPopPart`, `BwClaim`, `BwDefer`) to a writer, with
  the number of the `slot` its histograms are in (`hist2`); a barrier (`midway`) separates
  the half in which threads count from the half in which only writers go on.
* `PhjAsymmBwReg` has both.
* `PtrPhj`: `mem[X].ext` is the third array, as the relation stays as it is. `mater` are the
  pairs a kernel stored, one step per task; with NONTEMP_STORE_MATER they go through
  `pairbuf`, a line of `PairLine` pairs, which is stored when full and after the last
  task. The pool of retrieving threads (`Retrieve`) fetches the tuples of each pair.
  A pair holds `row_id`s and the retrieval indexes with `row_id - 1`: the generator numbers
  the rows in the order of the file (`gen.c` 226-282), so a tuple's row is its place.
* `PtrPhjBwReg` has both, with its own copies of the ways to write.
* `PhjShrUni`: there is no `Count` or `Offset`; `hist[X][0]` is the counter of each partition
  (`r_part_tup_num`, then `skew_hand_r_part_tup_num`), and a thread stores one tuple per step
  to the place its fetch-and-add gives (`ShrUniStore`). A room begins at a multiple of the
  average size times `ShrUniScale` percent (`ShrUniAvg`).
* `PhjIndUni`: a room is divided into a region for each thread. Its record then has
  `regions`, the places where these begin; what is in one are the tuples up to the first key 0
  (`Run` in `Phj`), as the loops of the code have it, and not a number of tuples. The zeroes
  are those of the allocation in the first pass, and of the line that later passes store
  behind the tuples (`IndUniMarked`). A task says whether its rooms have one region or one
  for each thread (`ind_skew_flag_r`, `ind_skew_flag_s`), and the kernel calculates
  where they begin with a size of its own (`KernelRegion`).

`build.kernel` and `build.nontemp` choose the kernel and the way a pair is stored. As in
`Phj`, a kernel is what it builds and what it finds.

### PhjShr, PhjInd and PhjBuffers

`chain[X][u][h]` is the list of buffers that begins at head `h` of relation X, of owner `u`:
in `phj_shr.c` all threads share one owner, in `phj_ind.c` each is its own. A buffer is the
sequence of its tuples. The heads of a relation are one array: `Fanout1` for the first
pass, then a group of `Fanout2` for each task that is partitioned once more. Which group that is
follows in the second pass from how many tasks are still in `part_queue` when a thread takes one;
behind the pass each thread moves its `base` on by as many groups as it has read from
`part_queue->count` in front of it (`partnum`), and skew handling goes on from there. A list is in the order its buffers are
linked: behind the head.

`phj_shr.c`, first pass and skew handling: `Reserve` is what a thread does under the latch of a
head (count the tuple, link a new buffer when the last is full, note the slot); `Store` is the
store of the tuple, after the latch is given back. The second pass, with lines of buffered
tuples (`Combined`) or without (`Direct`), and all of `phj_ind.c` work on lists that nobody
else looks at before the next barrier: one step per share or task. `IndLink` is thread 0's work of
`phj_ind.c`, from each thread's rear to the next thread's head; `linked` is the set of these
links, and a walk ends where there is none.

## 4. Runs

| run | instance | shows |
|---|---|---|
| `nphj_sc` | 5 R rows over 2 head buckets of 2 slots, buffers of 1 bucket, 2 build and 2 probe threads; 48 contents of R, 3 for `ptr_nphj.c`, 2 retrieving threads, lines of 2 pairs; 40,448 states | no slot is lost or doubled, chains keep their shape, all tuples are in, probes only meet what was stored, the answer is right, the join ends |
| `nphj_lp` | 4 rows in 4 entries, 3 build and 2 probe threads; claims by CAS with TEST_SELECTIVITY, claims by latch without; `ptr_nphj.c` with 2 retrieving threads and lines of 2 pairs; 168,015 states | claims are exclusive, paths unbroken, answer right, join ends, also on a full table |
| `nphj_lp_miss` | as `nphj_lp`, S with a key R lacks | **violation**, see findings |
| `radix_partition` | all 243 distributions of 5 rows over 3 partitions, 3 threads | rooms are disjoint, nothing is overwritten, tasks delimit the partitions |
| `radix_partition_swwcb` | all 128 distributions of 7 rows over 2 partitions, 3 threads, lines of 4 | the buffered scatter implements the plain one; a neighbour task is untouched |
| `task_queue` | 3 threads adding one task each, thread 0 one more, blocks of 2 | the queue implements the pool; nothing is left behind |
| `phj` | 5 R and 5 S rows, 3 radix bits, 2 build and 2 probe threads, 3 threads to wipe, thresholds 2 and 1; 6 builds, 3 contents of R, 2 of S | each pair is in one task until it is counted once, tasks keep apart, the tables fit, the answer is right, the join ends |
| `phj_variants` | 30 builds of eight files: each kernel of the first six with and without skew handling and buffers, six builds of the two with rooms of a fixed size; 5 R and 5 S rows, 2 radix bits, 3 build threads of which 2 write (1 with row ids), 2 probe and 2 retrieving threads, thresholds 3 and 1; 136,920 states | each pair is in one task until it is counted or stored once, also while a task changes hands; its histograms go with it; tables fit; pairs are complete when they are fetched; answer right, join ends |
| `phj_buffers` | 7 builds of two files, with `lp_join` or `hr_join`; 4 R and 4 S rows, 2 radix bits, buffers and lines of 2, thresholds 2 and 1, 2 build, 2 probe, 2 wiping threads; 85,400 states | each pair is in one task until it is counted; tables and pools are large enough; answer right, join ends; all as long as the threads count the same tasks (section 5) |
| `ptr_mater` | `ptr_phj.c`, one pass, uniform foreign keys, 2 probe threads | **violation**, see findings |
| `ptr_swwcb` | `ptr_phj_bw_reg.c` with skew handling and buffers, one large partition | **violation**, see findings |
| `join_kernels` | 5 kernels with and without TEST_SELECTIVITY; 24 tasks of 1 to 5 R and 3 to 5 S tuples, alone or after a first one; the largest build side 2, 4, 5 or 9 | a kernel stays in its memory, relies on nothing it finds there, answers right and ends |

Why the bounds are enough. In `nphj_sc` an odd-key input sends all five rows to
one chain, which takes a head and two overflow buckets: each branch of the insert
is taken, the chain grows behind a full first overflow bucket, and a buffer runs out.
Shares of 2 and 3 rows have a remainder. In `nphj_lp` four rows fill the table, so that
inserts and lookups wrap around, and three threads can compete for one entry. With row ids a
probe thread finds up to three pairs, one line and a rest, and shares of the pairs may be empty. In the
partitioning runs three threads give a thread with others on both sides, as the two
loops of the offset computation treat them differently; shares have remainders; a
room may be empty, and several rooms can share a line. In `task_queue` a second block
is allocated in any thread's turn. In `phj` an odd number of bits gives the passes different
fan-outs; there is an input with four tuples in one partition of the first pass, of which
two or three stay together in the second, so that a partition is above either threshold,
a skew task is split with a remainder, and the largest table may be seen by a thread
other than 0; with three threads that wipe and two that exist a part of the
intermediate memory is never zeroed. Checksums have 3 bits, so they wrap. In
`join_kernels` the first task has another number of R tuples than most second ones and
leaves words behind at every place of the memory; a largest build side of 2 or 4 makes the
memory as small as the tables of two or four tuples; tuples of one hash fill more than one
overflow bucket, hashes at the end of a full table make lookups go around it, five S
tuples are a full group and a rest, and the last hash of a partition ends within a register.

In `phj_variants` the one input has a partition above either threshold and one below; a
thread writes the share of another one; a task can be counted by one thread and written
by another or the same; three slots are in use at a time. The two files with rooms of a fixed size
have inputs of their own, whose partitions fit (`ShrUniEven`, `IndUniEven`), without a partition above
the first threshold and with one, which is split further. The factors
are larger there than in the code (2.4 for 1.58, 4.8 for 1.78): with five rows the
largest of four partitions differs more from the average than with millions. In `phj_buffers` three tuples of
one partition take two buffers, so that a buffer is linked behind a head by either thread
while the other one holds a slot in the head it has not stored to; a list is walked
across the links of `phj_ind.c`; a list may be empty, or consist of a head alone.

Fairness. In `nphj_sc`, `nphj_lp`, `task_queue`, `phj` and `join_kernels` each thread and the main thread are weakly fair: the scheduler of the
operating system runs every thread. Nothing is assumed of the order in which a
latch or a mutex is handed over. That suffices because every thread asks for a
latch finitely often, so a free latch is at some point free for good. `phj_variants` and `phj_buffers` assume
less, `WF_vars(Next)`: some thread that can go on does. No step of these models is a wait
that other threads could keep repeating, so which one runs does not matter. Deadlock is
checked in all runs; `Terminated` is the one step left when a join is over.

Each property is paired with a mutation of one definition (the operators marked
*Mutant* in the modules): a plausible slip in the code that the property finds.

## 5. Findings

`nphj_lp_miss`: with TEST_SELECTIVITY (or a table with a free entry) a lookup of a
key R lacks returns NULL (`algo/nphj.c` 1159, 1165), and the caller evaluates
`(rel->tuples[idx].row_id + found_tuple->row_id)*matched_flag` (1265), which reads
through the null pointer. The commented-out line above it (1261) has the test:
`(found_tuple == NULL) ? 0 : ...`. The selectivity data sets have such keys. `algo/ptr_nphj.c`
(1711, 1721) reads the row id for the pair through the same pointer.

`ptr_mater`: a probe thread of `algo/ptr_phj.c` allocates memory for 1.2 times its share of S
(2067; `ptr_phj.h` 144), and nothing checks the room while pairs are stored. The comment in
front (2066) limits that to uniform foreign keys. But the tasks come from a queue common to
the threads (2167), and a thread that is ahead of the others stores more pairs than it has
room for, also with uniform foreign keys. In `phj_variants` `mater` has room for all pairs.

`ptr_swwcb`: where `algo/ptr_phj_bw_reg.c` copies the share of a thread that does not write
through buffers during skew handling, it hashes a tuple of that share (`tmp_keyrids[idx]`) and
copies a tuple of the writer's own (`&rel.keyrids[idx]`, 681). The copy for the first pass
has `&tmp_tuples[idx]` (531). `MCPhjVariants` leaves the combination out, as no property of
the join can hold there.

### Limits

Assumptions that are no findings: `nphj_sc` needs at
least BUCKET_CAPACITY tuples (746); `nphj_lp` needs unique build keys, and, without
TEST_SELECTIVITY, a free entry or no missing keys (1162). `lp_join` needs the same (`phj.c`
655). `sc_join` cannot join a partition so small that `next_pow_2` of its R tuples is below
`PHJ_SC_BUCKET_CAPACITY`: `max_hashkey` is 0 then, and `max_hashkey - 1` the largest unsigned
number (687). The memory of `hro_join` is `INTERMEDIATE_SCALING_FACTOR` words for each
tuple of the largest build side, but the kernel uses 24 words for its buffers and 4 for its
table at least (905): it overruns unless some partition has more than 8 tuples. `Usable` in
`JoinKernels` states the three. Dense keys (`config/data/uniform`)
give partitions of about the same size, far above these limits. The
thresholds of the skew handling (`algo/params.h` 39-40) are defined with `L1_CACHE_SIZE`, an
expression without parentheses (`32 * 1 << 10`): the division by 16 that follows applies to
the 10, and they come out 64 times smaller than they read. More tasks are split then; `Phj`
gives the right answer for any threshold. `L1_CACHE_SIZE` is one of several: `PADDING_UNIT_NUM`,
`AVX512_UNIT_NUM`, `ROW_ID_PAIR_PER_SWWCB` and the thresholds themselves lack parentheses, too;
where they are used it makes no difference but for the one above.

`ptr_lp_join` of `ptr_phj.c` with NONTEMP_STORE_MATER puts a pair of zeroes into its buffer for a key
that is not there (it multiplies the row ids by the match flag, 871-874, 913-914) and advances the slot of the
buffer all the same (881, 921), while `matched_cnt`, from which the rest of the buffer is stored, stays.
`ForeignKeys` keeps the inputs to keys that are there. Without TEST_SELECTIVITY a lookup of an absent key
in a full table never ends. SKEW_HANDLING does not compile with
NUM_PASSES = 1 in any file.

`phj_shr_uni.c` and `phj_ind_uni.c` write wherever a counter says, and never compare it with the size
of a room: keys that are not spread evenly enough overwrite the tuples of the next one. `ShrUniEven`
and `IndUniEven` exclude such inputs. `hro_join` of `phj_ind_uni.c` takes S tuples in groups of
four up to a key 0 (1390-1420, 1425-1457) and so looks up the zeroes behind the last one,
too. The register it compares them with may reach past the tuples of `r_tmp`, into the zeroes written
there (1300): when the tuples of hash 0 are the last ones, up to three, a key 0 matches a
key 0 and is counted. That is read off the code and not modelled: the kernel is left out.

`phj_shr.c` and `phj_ind.c` number the groups of heads by `part_queue->count`, which each thread
reads before the second pass, without the mutex (`phj_shr.c` 1356, 1409, `phj_ind.c` 1871, 1934).
The barrier in front makes the count the same for all only until the first thread
takes a task. A thread that comes later moves its `base` too little, and in skew handling the
threads then partition one task into different groups. In `phj_ind.c` with two threads: thread 0 takes the
only task, thread 1 reads 0; in the skew round thread 0 uses the group from head 4, thread 1 the
one from head 2, and a pair of thread 1's tuples is in no task. No comment or test says anything of it,
so no run expects it; the properties of `phj_buffers` are conditioned on `CountsAgree`, which
says that all threads have read the number of tasks there were.

The tables of the kernels of `phj_shr.c` and `phj_ind.c` are sets of rows. `lp_join` there stores a
tuple at its hash without probing (`phj_shr.c` 612-618, `phj_ind.c` 945-951), so that of two keys with
one entry only the last stays: `Kept` models that, and the assumption `DenseKeys` says when it is
right, as for the unique dense keys of the generators. The memory that
`hro_join` of `phj_shr.c` zeroes is `HASHKEY`s for the largest partition and `TUPLE`s for this one and
four registers, whatever `intermediate_size` is: not modelled.

## 6. Proofs

All theorems hold for every value of the constants that satisfies the assumptions named in the
modules: any number of rows, threads, buckets, slots, partitions and bits, any hash, any
input. They are about `Spec`, without fairness. Each invariant is proved in layers; a layer
has one lemma or step per action, and stands on the ones before it.

### RelationsProofs

The library states induction for a predicate, which the installed provers cannot instantiate.
`NatSetInduction` and `FiniteSetInduction` state it for a set: the naturals, or the
subsets of a finite set, for which something holds. They follow from the existence of a
minimal element outside of that set (`WFMin`). From them come the lemmas about data of any
size: the sums of `SumFunction` (`SumAdd`, `SumUnion`, `SumPartition`, `SumReindex`,
`SumMod`), the recursion of `Pointers` (`FollowStep`), the shares of the threads, which are
disjoint and cover the items (`SharesPartition`), the number of rows of a partition
in front of a row (`Below...`) and the places these numbers and the padding give
the rows (`PlaceIn...`: no two alike, every one of them taken), and the answers of the threads added up
(`TallyAdd`, `TallyCollect`).

### NphjSC

* `TypeCorrect`. `TypeOK` alone is not inductive. `TypeInv` adds
  `SamePhase` (the barriers keep the build threads in one phase), `LoopBounds` (row
  indices stay in their shares, and a thread has started at most one buffer more
  than it has used rows) and `Initialised` (a head bucket is zeroed once its
  thread has left `Memset`, a bucket a pointer leads to has a count and a pointer of
  its own, and a probe thread runs only when all build threads have ended).
* `LatchInvariant`: a thread is in the critical section of a bucket only
  while its latch is 1, and no two threads are in that of one bucket.
* `SlotInvariant`. `Untouched`: nothing is in the table
  before the threads insert. `Ownership`: an overflow bucket in use was carved from
  its thread's buffer, and no two heads lead to the same one. `Reservation`: what
  `Inspect` has read still holds when `Update` writes, be it the slot above a count or
  a new bucket. Together with `LatchInv` these give `SlotsAccounted` (`SlotAccounting`): a tuple lies, or
  is about to lie, in each slot below a count and in no other.
* `ProbesReadStored`: while a thread probes, all build
  threads have ended, no tuple is pending, so each reserved slot holds its tuple.
* `ChainInvariant`, `ChainsShaped` (`ChainShape`). `Grounded`: from each head a path of different buckets leads to
  a null pointer; the path is a witness of the invariant (`IsPath`), which each step extends
  or leaves (`Grown`). `Unshared`: no two pointers lead to one bucket.
  `FullBehind`, `FullFound`: what is pushed away from behind a head is full, because a
  thread found it so under the latch.
* `RowInvariant`, `BuildsComplete` (`BuildComplete`). `Counters`, `Stocked`, `Placed`: in the table are the rows that the threads are through
  with, once each, on the chains they hash to.
* `CountInvariant`: a probe thread stands at the `k`-th bucket of its chain and has counted
  the pairs of the rows it is done with and of the buckets in front.
* `Refinement`: `Spec => RefinesJoin`. A `Store` enters the row, `Collect` answers, every other
  step stutters.

### NphjLP

* `ClaimInvariant`, `EntriesOwned` (`EntryOwnership`), for the claim by compare-and-swap and the one under the
  latch. `Exclusive`: a latch that a thread holds is taken, by nobody else. `Tested`: what it
  read under the latch still holds.
* `RowInvariant`, `BuildsComplete` (`BuildComplete`): the table holds the rows that the threads are through with, once each.
* `PathsUnbroken` (`UnbrokenPath`): entries are never given back, so that what a thread found claimed on its way stays claimed.
* `ProbeInvariant`, `MissesJustified`: a lookup has compared every entry it passed, and all of them were claimed; it
  comes back empty-handed only for a key that R lacks.
* `Refinement`: `Spec => RefinesJoin`. A lookup that misses stops everything (finding `nphj_lp_miss`), so the answer is never
  wrong.

### TaskQueue

* `QueueInvariant`. What the stack holds is what its pointers lead to, so the invariant says
  that they form a path: from `head` through `count` different `task_t` to NULL (`Linked`).
  A push puts one in front, a take removes the first, and no other step touches one that is
  on the path, because the allocator never hands one out again (`Allocation`, `Apart`) and the
  mutex keeps the halves of a push or a take together (`Locks`, `Reading`). `Labels` says whose tasks
  they hold.
* `SlotsStayApart` (`SlotsApart`), `CountCorrect` (`CountIsDepth`), `Refinement` (`Spec => RefinesPool`).

### RadixPartition and RadixPartitionSwwcb

The threads need not look at each other because each row has a place of its own, known in
advance: the number of rows ahead of it when the rows are sorted by partition, and the
padding (`Place`). `PlaceInvariant` says that the counts are those of the shares (`Counted`),
that the offsets are the places of the next rows (`OffsetsRight`), and that a position
holds a row if and only if it is the place of one that has been copied (`Stored`).
`NeverOverwritten` (`NoOverwrite`), `RoomsAreSeparate` (`RoomsSeparate`) and `TasksAreRight` (`TasksHoldPartitions`) follow.

With buffers, a line that a thread stores covers positions of other threads. Nothing is lost
because those still have their tuples of that line in their buffers (`Buffered`): a room that
ends in a line ends in the rest of its thread, stored when no line is any more. So a
tuple is in memory if its line is in front of its thread's slot, or its rest has been stored
(`Written`). `LineInvariant` is the invariant, `NeighbourIsUntouched` (`NeighbourUntouched`) follows, and
`Refinement` (`Spec => RefinesPlain`) from what the output is when it is seen through the buffers:
a function of the rows that have been moved alone (`Content`).

### Phj

* `PhaseInvariant`. `Phases` are the sets of places between two barriers. All threads
  are in one of them (`SamePhase`), they partition the relations first and skew tasks later
  (`Turns`), and while they partition a skew task there is one (`SkewKnown`). The phases depend on the
  build: `ScatterPhases` on the write-combining buffers and on whether S is partitioned again,
  `LookPhase` on whether there is another task.
* `SkewTaskIsStable` (`SkewTaskStable`): thread 0 fetches in a phase in which nobody reads `skewtask`.
* `IntermediateAlwaysFits` (`IntermediateFits`), for any number of threads, any relations and both
  forms of `next_pow_2`. The invariant (`FitInv`) has three parts. `Plain`: what the variables hold; a
  histogram is of naturals, a queue is a sequence of rooms. `InOrder`: what the phases say of the queues; the second pass
  and the skew loop run only with two passes, `part_queue` is empty when thread 0 leaves the
  second pass, with one pass `join_queue` is empty until thread 0 fills it, and no thread builds
  when a prober runs. `Measured`: who has seen which room; with two passes each task on `join_queue`
  was put there by a thread that is `Past` the start of the second pass and counted it
  in its own maximum, which lies in that thread's slot once it is shared (`InSlot`); with one pass
  thread 0 sees all of them; the size covers every slot. The argument needs that no task is put on
  `join_queue` by a thread that has shared its maximum: the barriers say so, no line of the
  code does. About the operators it needs what a flattening, a filter and a
  maximum hold (`FlattenLists`, `MaxFacts`), and that `next_pow_2` is monotone (`PowerMono`).
* `RoomsStayApart` (`RoomsApart`), for any numbers and any histograms. `RoomInv` is about three kinds of tasks:
  those that are queued to be partitioned (`Own`, `skew_queue`), what a thread, or all of them
  together, still have of the task they are partitioning (`Held`), and those that are ready to be
  joined (`Final`). The first two keep `Margin` tuples behind each room clear, `Pad` for each partition they
  may be split into (`Apart`); join tasks lie beside those (`Beyond`) and beside each other (`Fitting`).
  A step that makes tasks makes them within the one it takes: `MakeTasksRooms` for the
  first pass, `EmitRoom` for the second, where a task is used up from the front, and `MakeSkewTasksRooms`
  for the skew loop. This rests on three more parts. `HistBounded`: what the threads have counted of a skew task is not more than
  its tuples, so that its partitions end where it does. `Emptied`: no queue holds a task of an earlier
  pass when thread 0 makes the first ones. `AllSound`, `MemThere`: a task to be partitioned lies in the output of the
  first pass, which nobody writes while it is read. The theorem assumes `Symmetric`, that
  every build partitions both relations alike. With asymmetric radices R is split further than S, and
  several tasks share a room of S on purpose: the property is not meant for them.
* `ContentsInvariant`, about what the rooms hold. A *job* is what a thread does when it copies: a
  piece of a room, a histogram that counts each part of it, and a beginning for the parts.
  `WaysToCopy`: at once, as full lines and the rest, in one step or two, a thread stores each tuple of its piece at
  `Dest`, behind the parts and the threads in front, and stores full lines over `LineOf` of it. No two tuples have the
  same place, and a line covers nothing that another thread has stored in lines (`ForeignSafe`): what it covers is in the rest of its thread. `Setting` joins `FitInv` and `RoomInv` with `ContentInv`. `AllFull`: every place in the room of a task has
  a tuple, no two the same. `HistRight`: a histogram counts the thread's share
  of the room that is partitioned. `Scattering`: behind a scatter the tuples of the thread's share are where the
  histograms of all threads put them, while the others still scatter; this needs that jobs of
  all threads agree (`SiblingJobs`) and that no step changes what they read (`GoingKept`). `Emitting`: what is left of
  a task has its partitions in order. `Loaded`: until the first tasks are made the relations are as they were
  loaded. `ProbersAlike`, `ProbeRight`: a kernel reorders the tuples of its room and no others,
  so that its table holds the room. `Finished`: a thread leaves the second pass, or its
  loop over the join tasks, only when the queue is empty. From these a task
  that is made holds the tuples of its part (`Holds`), so its pairs are those of the task it was made of with
  one radix, and no step but a task's own changes its pairs (`KeptPairs`).
* `PairInvariant`, `PairsAreConserved` (`PairsConserved`). `PairInv` shares the matching pairs out to
  groups: the three queues, each build thread, each probe thread, all together (all pairs, before
  the first tasks are made; those of `skewtask`, while it is partitioned). No pair is in two groups (`Claims`, `Unshared`) or in two
  tasks of a queue (`Clean`). What no group claims is found, and split into portions of the probe threads whose
  count and checksum are what each has in `acc` (`Portions`). A step that makes tasks of tasks moves claims between
  two or three groups (`MoveAmong`); a task that is not made, because one of its sides is empty,
  has no pairs; `PairProbe` moves those of a task to the portion of its thread. The property itself
  counts: it follows by adding up the sizes of disjoint sets (`CardinalityApart`).
* `Refinement` (`Spec => RefinesPairs`): a probe finds the pairs of its task, `Collect` answers with what
  the portions add up to (`CollectAnswers`), and every other step stutters.

`ContentsInvariant`, `PairInvariant` and the two theorems that follow from it assume `Symmetric`, and `TwoArrays`: that no build is one of
those that join over row ids. `phj.c`, whose program `Spec` is, is such a build, with any of
its options. The others set the same variables, but with steps of their own (`PhjVariants`).

### What stays with TLC

Liveness and `ENABLED` are out of the prover's reach: all `Termination` properties, `AllDone`.
The modules of the variants are not proved about: `VPairsConserved`, `VIntermediateFits`, `HistogramsCurrent` and
`MaterComplete` of `PhjVariants` and `BPairsConserved` and `BMemorySuffices` of `PhjBuffers` are checked on their instances only, as are the joins over row
ids that run along with `NphjSC` and `NphjLP`; so are the kernels of `JoinKernels`, which are loops
over words of memory. That the single steps of `Phj` for a queue, a scatter and a kernel may be taken for
those of `TaskQueue`, `RadixPartition` and `JoinKernels` is an argument on paper; what it rests on is proved of the
first two.

## 7. Not modelled

`tpch/` (selections and aggregates around the same joins). `hro_join` of `algo/phj_ind_uni.c`. The loops with PREFETCH_CACHE. Of the kernels, the prefetch instructions, and
tuples of other sizes than 16 bytes, for which the memory is measured differently (2121-2139);
that the vector instructions of `hro_join` compare key with key only, by taking the even lanes
of the counts and the odd ones of the sums (1016-1024), is taken from the code and not checked.
Of the pipeline, the
barrier that SYNCSTATS adds to the skew loop (1418), which separates timer readings
only, and builds with TEST_PARTITIONING, which end before the join phase. The size of
the intermediate memory is counted in tuples there, and in words in `JoinKernels`. Of the variants, the
layout of the tables of their kernels: `JoinKernels` has those of `phj.c`, of which theirs
are copies. The generators: their output is what the inputs of the models are; the binary search in
`inc/eth_genzipf.c` (118) never draws rank 1, which makes data sets a little less skewed and
nothing wrong. Left
out for good: measurement and micro benchmarks, page-fault avoidance (the copies and
zeroing that only touch memory), NUMA placement, the choice of DRAM or NVM for an
allocation, the non-temporal store as opposed to an ordinary one (all stores are in
program order; the barriers and `pthread_join` that the code relies on order them).
Memory is sequentially consistent in all models. On x86 the code needs no more: a
release is a plain store behind the stores it protects, and claims are locked
instructions. A failing `malloc` or `pthread_create` ends the process.
