---------------------------- MODULE JoinKernels ----------------------------
(***************************************************************************)
(* The join kernels of phj.c: bc_join, lp_join, sc_join, hr_join and       *)
(* hro_join.                                                               *)
(*                                                                         *)
(* A probe thread joins one task after the other and gives each to the     *)
(* kernel together with its intermediate memory, which still holds the     *)
(* tables of the tasks before.  That memory is measured for the largest    *)
(* build side of all tasks and lies between those of other threads, so a   *)
(* kernel must stay inside of it and rely on nothing it finds there.  It   *)
(* is modelled word by word, a word being 8 bytes; what lies behind it is  *)
(* the next thread's.  The kernels that copy R (hr_join, hro_join) write   *)
(* to r_tmp, the array the last pass read from, full of old tuples.        *)
(***************************************************************************)
EXTENDS Relations, Sequences, SequencesExt

CONSTANTS
    Kernels,        \* of "bc", "lp", "sc", "hr", "hro"
    Inputs,         \* the tasks a probe thread may get, one after the other
    MaxBuilds,      \* values of max_build_side_tup_num[0]
    RadixBits,      \* NUM_RADIX_BITS
    Capacity,       \* PHJ_SC_BUCKET_CAPACITY
    Scaling,        \* INTERMEDIATE_SCALING_FACTOR
    RowidBits,
    Stale           \* a word as some earlier table left it

(* R has unique keys, and all keys of a task are in one partition.         *)
ASSUME KernelsAssumption ==
    /\ {RadixBits, Capacity, Scaling} \subseteq Nat \ {0} /\ Stale \in Nat
    /\ \A tasks \in Inputs : \A j \in DOMAIN tasks :
           LET x    == tasks[j]
               keys == {x.r[a] : a \in DOMAIN x.r} \cup {x.s[b] : b \in DOMAIN x.s}
           IN  /\ Cardinality({x.r[a] : a \in DOMAIN x.r}) = Cardinality(DOMAIN x.r)
               /\ keys \subseteq Nat \ {0}
               /\ Cardinality({k % 2^RadixBits : k \in keys}) = 1

(* The least power of two that is at least n (see Hashing). *)
NextPow2(n) == Min({p \in {2^e : e \in 0 .. n} : p >= n})

Width   == 2                        \* words of a tuple_t: key and row id
Unit    == 4                        \* AVX512_UNIT_NUM, tuples of a 64-byte register
Avx     == 8                        \* AVX512_SIZE in words
Bucket  == 2 + Capacity * Width     \* words of a phj_sc_bkt_t: count, next, tuples

VARIABLES
    kernel, selectivity, max, tasks,    \* the build, and what the run is given
    mem,        \* the intermediate memory and what is behind it
    rtmp,       \* the room of r_tmp, its padding and one tuple behind
    pc, i,      \* where the kernel stands, and its loop variable
    free,       \* free_idx of sc_join
    at, stop,   \* where a lookup is, and where hr_join and hro_join end it
    flag,       \* lp_join: the lookup is still at its first entry
    acc,        \* join_arg: matched_cnt and checksum
    done        \* the results of the tasks joined so far

given == <<kernel, selectivity, max, tasks>>
vars  == <<given, mem, rtmp, pc, i, free, at, stop, flag, acc, done>>
-----------------------------------------------------------------------------
(***************************************************************************)
(* Sizes.                                                                  *)
(***************************************************************************)
RNum(x) == Cardinality(DOMAIN x.r)
SNum(x) == Cardinality(DOMAIN x.s)

(* The task at hand. *)
Now == tasks[Len(done) + 1]
R   == Now.r
S   == Now.s

(* Mutant: sc_join takes a bucket for each tuple. *)
MaxHashkeyPerTuple(x) ==
    CASE kernel = "sc"  -> NextPow2(RNum(x))
      [] kernel = "hro" -> Max({NextPow2(RNum(x)) \div Unit, Unit})
      [] OTHER          -> NextPow2(RNum(x))

(* max_hashkey; hro_join shrinks its table, but not below HR_HRO_FACTOR.   *)
MaxHashkey(x) ==
    CASE kernel = "sc"  -> NextPow2(RNum(x)) \div Capacity
      [] kernel = "hro" -> Max({NextPow2(RNum(x)) \div Unit, Unit})
      [] OTHER          -> NextPow2(RNum(x))

M == MaxHashkey(Now)

(* IDHASH with the mask of a table of M entries, a power of two. *)
Hash(key) == (key \div 2^RadixBits) % M

(* intermediate_size, for tuples of 16 bytes. *)
Size == IF kernel = "sc" THEN (Bucket * NextPow2(max) * Scaling) \div Capacity
                         ELSE NextPow2(max) * Scaling

(* How much of it a kernel zeroes before it uses it. *)
Zeroed ==
    CASE kernel = "bc"  -> M + RNum(Now)
      [] kernel = "lp"  -> Width * M
      [] kernel = "sc"  -> Bucket * M * 2
      [] kernel = "hr"  -> M
      [] kernel = "hro" -> M + 3 * Avx

(* What the kernels can be used for.  A lookup of lp_join without          *)
(* TEST_SELECTIVITY ends at its key or at a free entry; the number of      *)
(* buckets of sc_join is not to be 0; and the three buffers of hro_join    *)
(* fit if there are more than 8 tuples in some partition.                  *)
Usable ==
    /\ \A j \in DOMAIN tasks : RNum(tasks[j]) <= max
    /\ kernel = "lp" /\ ~selectivity => \A j \in DOMAIN tasks :
           LET x == tasks[j] IN
           \/ RNum(x) < NextPow2(RNum(x))
           \/ \A b \in DOMAIN x.s : \E a \in DOMAIN x.r : x.r[a] = x.s[b]
    /\ kernel = "sc"  => \A j \in DOMAIN tasks : NextPow2(RNum(tasks[j])) >= Capacity
    /\ kernel = "hro" => max > 2 * Unit

Nobody == [key |-> 0, row |-> 0]
Other  == [key |-> Stale, row |-> Stale]
RTuple(a) == [key |-> R[a], row |-> RowId(a)]

PCs == {"memset", "insert", "count", "prefix", "scatter", "fill", "probe", "walk", "done"}

TypeOK ==
    /\ kernel \in Kernels /\ selectivity \in BOOLEAN /\ max \in MaxBuilds /\ tasks \in Inputs
    /\ mem \in [0 .. 2 * Size - 1 -> Nat]
    /\ \A c \in DOMAIN rtmp : rtmp[c] \in [key : Nat, row : Nat]
    /\ pc \in PCs /\ i \in Nat /\ at \in 0 .. 2 * Size /\ stop \in Nat /\ flag \in BOOLEAN
    /\ pc # "done" => free \in 0 .. (IF kernel = "sc" THEN M ELSE 0)
    /\ acc \in [matched : Nat, checksum : 0 .. 2^RowidBits - 1]
    /\ Len(done) \in 0 .. Len(tasks)

Init ==
    /\ kernel \in Kernels /\ selectivity \in BOOLEAN /\ max \in MaxBuilds /\ tasks \in Inputs
    /\ Usable
    /\ mem = [a \in 0 .. 2 * Size - 1 |-> Stale]
    /\ rtmp = <<>>
    /\ pc = "memset" /\ i = 0 /\ free = 0 /\ at = 0 /\ stop = 0 /\ flag = TRUE
    /\ acc = [matched |-> 0, checksum |-> 0]
    /\ done = <<>>
-----------------------------------------------------------------------------
(***************************************************************************)
(* Building the table.                                                     *)
(***************************************************************************)

(* Mutant: hro_join leaves the padding behind its copy as it is. *)
PaddingKept == {}

(* The places behind the room that hro_join zeroes. *)
Padding == IF kernel = "hro" THEN RNum(Now) .. RNum(Now) + Unit - 1 ELSE {}

(* A kernel begins with a task whose room in r_tmp holds old tuples.       *)
Memset ==
    /\ pc = "memset"
    /\ acc' = [matched |-> 0, checksum |-> 0]
    /\ mem' = [a \in DOMAIN mem |-> IF a < Zeroed THEN 0 ELSE mem[a]]
    /\ \E old \in DOMAIN R :
           rtmp' = [c \in 0 .. RNum(Now) + Unit |->
                        IF c = RNum(Now) + Unit THEN Other
                        ELSE IF c \in Padding THEN Nobody ELSE RTuple(old)]
    /\ free' = 0
    /\ i' = 0
    /\ pc' = IF kernel \in {"hr", "hro"} THEN "count" ELSE "insert"
    /\ UNCHANGED <<given, at, stop, flag, done>>

(* The loops run over R; behind the last tuple they leave for `then'.      *)
Each(then) ==
    /\ i' = IF i = RNum(Now) - 1 THEN 0 ELSE i + 1
    /\ pc' = IF i = RNum(Now) - 1 THEN then ELSE pc

(* hro_join takes S tuples in groups of Unit while there are so many.      *)
Query(j) == IF kernel = "hro" /\ j % Unit = 0 /\ j + Unit <= SNum(Now) THEN "fill" ELSE "probe"

(* mem with words from address a on. *)
Put(f, a, words) == [c \in DOMAIN f |-> IF c - a + 1 \in DOMAIN words THEN words[c - a + 1] ELSE f[c]]

(* The tuple at address a. *)
TupleAt(a) == [key |-> mem[a], row |-> mem[a + 1]]

(* bucket[] has the last tuple of each hash, counted from 1, and behind it *)
(* next[] the one before each.                                             *)
InsertBc ==
    /\ kernel = "bc"
    /\ LET h == Hash(R[i])
       IN  mem' = [mem EXCEPT ![M + i] = mem[h], ![h] = i + 1]
    /\ UNCHANGED free

InsertLp ==
    /\ kernel = "lp"
    /\ \E k \in Rows(M) :
           LET e(d) == Width * ((Hash(R[i]) + d) % M)
           IN  /\ mem[e(k)] = 0
               /\ \A d \in Rows(k) : mem[e(d)] # 0
               /\ mem' = Put(mem, e(k), <<R[i], RowId(i)>>)
    /\ UNCHANGED free

(* Overflow buckets lie behind the heads; the last one taken is the first  *)
(* of its chain, and the only one that may have room.                      *)
InsertSc ==
    /\ kernel = "sc"
    /\ LET curr  == Bucket * Hash(R[i])
           nxt   == mem[curr + 1]
           fresh == Bucket * (M + free)
           tuple == <<R[i], RowId(i)>>
       IN  \/ /\ mem[curr] # Capacity
              /\ mem' = Put([mem EXCEPT ![curr] = @ + 1], curr + 2 + mem[curr] * Width, tuple)
              /\ UNCHANGED free
           \/ /\ mem[curr] = Capacity /\ (nxt = 0 \/ mem[nxt] = Capacity)
              /\ mem' = Put([mem EXCEPT ![curr + 1] = fresh], fresh, <<1, nxt>> \o tuple)
              /\ free' = free + 1
           \/ /\ mem[curr] = Capacity /\ nxt # 0 /\ mem[nxt] # Capacity
              /\ mem' = Put([mem EXCEPT ![nxt] = @ + 1], nxt + 2 + mem[nxt] * Width, tuple)
              /\ UNCHANGED free

Insert ==
    /\ pc = "insert"
    /\ InsertBc \/ InsertLp \/ InsertSc
    /\ Each(Query(0))
    /\ UNCHANGED <<given, rtmp, at, stop, flag, acc, done>>

(* hr_join and hro_join count the tuples of each hash in hist[], *)
CountHash ==
    /\ pc = "count"
    /\ mem' = [mem EXCEPT ![Hash(R[i])] = @ + 1]
    /\ Each("prefix")
    /\ UNCHANGED <<given, rtmp, free, at, stop, flag, acc, done>>

(* sum the counts up to where each hash begins *)
PrefixSum ==
    /\ pc = "prefix"
    /\ mem' = [a \in DOMAIN mem |->
                   IF a < M THEN MapThenSumSet(LAMBDA b : mem[b], Rows(a)) ELSE mem[a]]
    /\ pc' = "scatter"
    /\ UNCHANGED <<given, rtmp, i, free, at, stop, flag, acc, done>>

(* and copy R there, which leaves the end of each hash in hist[].          *)
ScatterHash ==
    /\ pc = "scatter"
    /\ LET h == Hash(R[i])
       IN  /\ rtmp' = [rtmp EXCEPT ![mem[h]] = RTuple(i)]
           /\ mem' = [mem EXCEPT ![h] = @ + 1]
    /\ Each(Query(0))
    /\ UNCHANGED <<given, free, at, stop, flag, acc, done>>
-----------------------------------------------------------------------------
(***************************************************************************)
(* Probing.                                                                *)
(***************************************************************************)

(* hro_join copies the hashes, keys and row ids of Unit tuples to three    *)
(* buffers behind hist[].                                                  *)
Fill ==
    /\ pc = "fill"
    /\ mem' = Put(Put(Put(mem, M, [j \in 1 .. Unit |-> Hash(S[i + j - 1])]),
                      M + Avx, [j \in 1 .. Unit |-> S[i + j - 1]]),
                  M + 2 * Avx, [j \in 1 .. Unit |-> RowId(i + j - 1)])
    /\ pc' = "probe"
    /\ UNCHANGED <<given, rtmp, i, free, at, stop, flag, acc, done>>

Grouped == kernel = "hro" /\ i < SNum(Now) - (SNum(Now) % Unit)
QueryHash == IF Grouped THEN mem[M + (i % Unit)] ELSE Hash(S[i])
QueryKey  == IF Grouped THEN mem[M + Avx + (i % Unit)] ELSE S[i]
QueryRow  == IF Grouped THEN mem[M + 2 * Avx + (i % Unit)] ELSE RowId(i)

(* A lookup begins. *)
Lookup ==
    /\ pc = "probe" /\ i < SNum(Now)
    /\ at' = CASE kernel = "bc" -> mem[QueryHash]
               [] kernel = "lp" -> QueryHash
               [] kernel = "sc" -> Bucket * QueryHash
               [] OTHER -> IF QueryHash = 0 THEN 0 ELSE mem[QueryHash - 1]
    /\ stop' = IF kernel \in {"hr", "hro"} THEN mem[QueryHash] ELSE 0
    /\ flag' = TRUE
    /\ pc' = "walk"
    /\ UNCHANGED <<given, mem, rtmp, i, free, acc, done>>

Add(hits) ==
    acc' = [matched  |-> acc.matched + Len(hits),
            checksum |-> FoldLeft(LAMBDA sum, t : sum + t.row + QueryRow, acc.checksum, hits)
                             % 2^RowidBits]

(* The tuples with the key looked for are added to the result. *)
Compare(seen) == Add(SelectSeq(seen, LAMBDA t : t.key = QueryKey))

NextQuery ==
    /\ i' = i + 1
    /\ pc' = Query(i + 1)
    /\ UNCHANGED <<at, flag>>

WalkOn(there) == at' = there /\ UNCHANGED <<pc, i>>

WalkBc ==
    /\ kernel = "bc"
    /\ \/ at # 0 /\ Compare(<<RTuple(at - 1)>>) /\ WalkOn(mem[M + at - 1]) /\ UNCHANGED flag
       \/ at = 0 /\ NextQuery /\ UNCHANGED acc

(* Mutant: a lookup does not notice that it is back where it began. *)
WalkLpRound ==
    /\ kernel = "lp"
    /\ LET tuple == TupleAt(Width * at)
           again == selectivity /\ at = QueryHash /\ ~flag
       IN  \/ /\ tuple.key \notin {0, QueryKey}
              /\ WalkOn((at + 1) % M) /\ flag' = FALSE /\ UNCHANGED acc
           \/ /\ tuple.key \in {0, QueryKey}
              /\ Add(IF tuple.key # 0 /\ ~again THEN <<tuple>> ELSE <<>>)
              /\ NextQuery

(* The lookup stops at its key, at a free entry or, with TEST_SELECTIVITY, *)
(* where it began.                                                         *)
WalkLp ==
    /\ kernel = "lp"
    /\ LET tuple == TupleAt(Width * at)
           again == selectivity /\ at = QueryHash /\ ~flag
       IN  \/ /\ tuple.key \notin {0, QueryKey} /\ ~again
              /\ WalkOn((at + 1) % M) /\ flag' = FALSE /\ UNCHANGED acc
           \/ /\ tuple.key \in {0, QueryKey} \/ again
              /\ Add(IF tuple.key # 0 /\ ~again THEN <<tuple>> ELSE <<>>)
              /\ NextQuery

WalkSc ==
    /\ kernel = "sc"
    /\ Compare([j \in 1 .. mem[at] |-> TupleAt(at + 2 + (j - 1) * Width)])
    /\ \/ mem[at + 1] # 0 /\ WalkOn(mem[at + 1]) /\ UNCHANGED flag
       \/ mem[at + 1] = 0 /\ NextQuery

(* hro_join compares Unit tuples at once, also behind the end of the hash. *)
WalkHr ==
    /\ kernel \in {"hr", "hro"}
    /\ LET step == IF kernel = "hro" THEN Unit ELSE 1
       IN  \/ /\ at < stop
              /\ Compare([j \in 1 .. step |-> rtmp[at + j - 1]])
              /\ WalkOn(at + step)
              /\ UNCHANGED flag
           \/ at >= stop /\ NextQuery /\ UNCHANGED acc

Walk ==
    /\ pc = "walk"
    /\ WalkBc \/ WalkLp \/ WalkSc \/ WalkHr
    /\ UNCHANGED <<given, mem, rtmp, free, stop, done>>

(* The loop of prj_thread_probejoin takes the result, and the next task.   *)
Return ==
    /\ pc = "probe" /\ i = SNum(Now)
    /\ done' = Append(done, acc)
    /\ pc' = IF Len(done') = Len(tasks) THEN "done" ELSE "memset"
    /\ UNCHANGED <<given, mem, rtmp, i, free, at, stop, flag, acc>>

Terminated == pc = "done" /\ UNCHANGED vars

Join == Memset \/ Insert \/ CountHash \/ PrefixSum \/ ScatterHash \/ Fill \/ Lookup \/ Walk
            \/ Return

Next == Join \/ Terminated

Spec == Init /\ [][Next]_vars

(* One thread, which the scheduler runs. *)
FairSpec == Spec /\ WF_vars(Join)
-----------------------------------------------------------------------------
(***************************************************************************)
(* Properties.                                                             *)
(***************************************************************************)

(* A kernel never writes behind its thread's intermediate memory or behind *)
(* the padding of the room in r_tmp, however small the task that it was    *)
(* measured for: the tables of bc_join, lp_join and sc_join reach up to    *)
(* the last word (phj.c:514, 598, 703, 809, 905, 2121-2139).               *)
StaysInside ==
    /\ \A a \in Size .. 2 * Size - 1 : mem[a] = Stale
    /\ pc \notin {"memset", "done"} => rtmp[RNum(Now) + Unit] = Other

(* Each kernel finds the matching pairs of each task once, whatever an     *)
(* earlier task has left in the memory, whatever r_tmp held before, and    *)
(* also where it compares tuples behind the end of a hash (phj.c:546-559,  *)
(* 631-668, 751-769, 850-865, 960-1013).                                   *)
RightAnswers ==
    \A j \in DOMAIN done : done[j] = JoinAnswer(RowidBits, tasks[j].r, tasks[j].s)

(* No insert and no lookup walks in circles.                               *)
Termination == <>(pc = "done")
=============================================================================
