------------------------------- MODULE NphjSC -------------------------------
(***************************************************************************)
(* The non-partitioned hash join with separate chaining, nphj_sc in        *)
(* src/algo/nphj.c.                                                        *)
(*                                                                         *)
(* BuildNum threads insert their shares of R into one shared table of      *)
(* buckets.  A bucket holds up to Capacity tuples; an insert takes the     *)
(* latch of the head bucket, reserves a slot (in the head, in the first    *)
(* overflow bucket, or in a new overflow bucket that it links in behind    *)
(* the head), releases the latch, and only then stores the tuple into the  *)
(* reserved slot.  After pthread_join on all of them ProbeNum threads scan *)
(* the chains without latches.                                             *)
(*                                                                         *)
(* The latch protects two memory locations per insert, so the critical     *)
(* section is modelled as the two steps a compiler makes of it: read the   *)
(* counters and choose (Inspect), write them back (Update).                *)
(***************************************************************************)
EXTENDS Relations, Pointers

CONSTANTS
    NR, NS,        \* r_tuple_num, s_tuple_num
    RInputs,       \* the contents of R to consider, functions from rows to keys
    SInputs,       \* the contents of S to consider
    Keys,          \* the keys that occur in them
    IdHash,        \* IDHASH(key, hashmask, bitskip), a function of the key
    BuildNum,      \* BUILDPART_THREAD_NUM
    ProbeNum,      \* PROBEJOIN_THREAD_NUM
    Capacity,      \* BUCKET_CAPACITY
    BufSize,       \* OVERFLOW_BUF_SIZE
    RowidBits,     \* the width of rowid_t
    NULL,          \* the null pointer
    Garbage,       \* the contents of memory nobody has written
    Empty          \* the contents of a slot no tuple has been stored in

NumBuckets == NR \div Capacity

ASSUME SizeAssumption ==
    /\ NR \in Nat /\ NS \in Nat
    /\ Capacity \in Nat \ {0}
    /\ BufSize \in Nat \ {0}
    /\ BuildNum \in Nat \ {0}
    /\ ProbeNum \in Nat \ {0}
    /\ RowidBits \in Nat
    \* With fewer tuples than slots in a bucket, num_buckets is 0 and hashmask
    \* wraps around; no data set of the repository is that small.
    /\ NumBuckets \in Nat \ {0}

ASSUME InputAssumption ==
    /\ RInputs \subseteq [Rows(NR) -> Keys]
    /\ SInputs \subseteq [Rows(NS) -> Keys]
    /\ IdHash \in [Keys -> 0 .. NumBuckets - 1]

Builders == 0 .. BuildNum - 1
Probers  == 0 .. ProbeNum - 1

(***************************************************************************)
(* Bucket addresses.  HeadOf(h) is element h of hashtable->buckets, and    *)
(* <<t, n, k>> is element k of the n-th overflow buffer thread t allocated *)
(* (a thread has one buffer to begin with and each further one costs it a  *)
(* tuple, hence NR + 1).                                                   *)
(***************************************************************************)
HeadOf(h) == <<-1, 0, h>>
Heads     == {HeadOf(h) : h \in 0 .. NumBuckets - 1}
Overflows == Builders \X (1 .. NR + 1) \X (0 .. BufSize - 1)
Addr      == Heads \cup Overflows
Slots     == Addr \X (0 .. Capacity - 1)

ASSUME MarkerAssumption ==
    /\ NULL \notin Addr
    /\ Garbage \notin Addr /\ Garbage \notin Int /\ Garbage # NULL
    /\ Empty \notin Rows(NR)

VARIABLES
    r, s,       \* the two relations
    latch,      \* latch[h]: the latch byte of head bucket h
    count,      \* count[b]: tuples reserved in bucket b
    next,       \* next[b]: the overflow pointer of bucket b
    tuples,     \* tuples[<<b, k>>]: the R row stored in slot k of bucket b
    pc,         \* where each build thread stands
    idx,        \* the R row each build thread is inserting
    nxt, dest,  \* its locals: curr->next, and the slot it reserved
    obuf,       \* its overflow buffers: how many, and how full the newest is
    ppc,        \* where each probe thread stands
    sidx,       \* the S row it is probing
    bkt,        \* the bucket it scans next
    acc,        \* the matched_cnt and checksum in its argument block
    result      \* what nphj_sc prints

inputs   == <<r, s>>
table    == <<latch, count, next, tuples>>
builder  == <<pc, idx, nxt, dest, obuf>>
prober   == <<ppc, sidx, bkt, acc>>
vars     == <<inputs, table, builder, prober, result>>

CriticalSection == {"inspect", "update", "unlock"}
BuildPC == {"memset", "barrier1", "timer", "barrier2", "next", "store",
            "barrier3", "exit"} \cup CriticalSection
ProbePC == {"idle", "start", "scan", "barrier", "exit"}

(* What acc and result may hold is the business of RefinesJoin below.      *)
TypeOK ==
    /\ r \in RInputs /\ s \in SInputs
    /\ latch \in [0 .. NumBuckets - 1 -> {0, 1, Garbage}]
    /\ count \in [Addr -> (0 .. Capacity) \cup {Garbage}]
    /\ next \in [Addr -> Overflows \cup {NULL, Garbage}]
    /\ tuples \in [Slots -> Rows(NR) \cup {Empty}]
    /\ pc \in [Builders -> BuildPC]
    /\ idx \in [Builders -> 0 .. NR]
    /\ nxt \in [Builders -> Overflows \cup {NULL, Garbage}]
    /\ dest \in [Builders -> Slots \cup {NULL}]
    /\ obuf \in [Builders -> [bufs : 1 .. NR + 1, count : 0 .. BufSize]]
    /\ ppc \in [Probers -> ProbePC]
    /\ sidx \in [Probers -> 0 .. NS]
    /\ bkt \in [Probers -> Addr \cup {NULL}]

(* nphj_sc: load the relations, allocate the table, give each thread its share. *)
Init ==
    /\ r \in RInputs /\ s \in SInputs
    /\ latch = [h \in 0 .. NumBuckets - 1 |-> Garbage]
    /\ count = [b \in Addr |-> Garbage]
    /\ next = [b \in Addr |-> Garbage]
    /\ tuples = [x \in Slots |-> Empty]
    /\ pc = [t \in Builders |-> "memset"]
    /\ idx = [t \in Builders |-> ShareBegin(NR, BuildNum, t)]
    /\ nxt = [t \in Builders |-> NULL]
    /\ dest = [t \in Builders |-> NULL]
    /\ obuf = [t \in Builders |-> [bufs |-> 1, count |-> 0]]
    /\ ppc = [p \in Probers |-> "idle"]
    /\ sidx = [p \in Probers |-> ShareBegin(NS, ProbeNum, p)]
    /\ bkt = [p \in Probers |-> NULL]
    /\ acc = [p \in Probers |-> [matched |-> 0, checksum |-> 0]]
    /\ result = NULL
-----------------------------------------------------------------------------
(***************************************************************************)
(* The build threads: run_nphj_sc_buildpart and build_hashtable_nphj_sc.   *)
(***************************************************************************)

(* Thread t zeroes its share of the head buckets and arrives at the barrier. *)
Memset(t) ==
    /\ pc[t] = "memset"
    /\ LET mine == Share(NumBuckets, BuildNum, t)
           zeroed == {HeadOf(h) : h \in mine}
       IN  /\ latch' = [h \in DOMAIN latch |-> IF h \in mine THEN 0 ELSE latch[h]]
           /\ count' = [b \in Addr |-> IF b \in zeroed THEN 0 ELSE count[b]]
           /\ next' = [b \in Addr |-> IF b \in zeroed THEN NULL ELSE next[b]]
    /\ pc' = [pc EXCEPT ![t] = "barrier1"]
    /\ UNCHANGED <<inputs, tuples, idx, nxt, dest, obuf, prober, result>>

AfterBarrier == [barrier1 |-> "timer", barrier2 |-> "next", barrier3 |-> "exit"]

(* BARRIER_ARRIVE lets the threads go on when the last one has arrived.    *)
ReleaseBuild ==
    \E b \in DOMAIN AfterBarrier :
        /\ \A t \in Builders : pc[t] = b
        /\ pc' = [t \in Builders |-> AfterBarrier[b]]
        /\ UNCHANGED <<inputs, table, idx, nxt, dest, obuf, prober, result>>

(* Only thread 0 takes the time between the first two barriers. *)
Timer(t) ==
    /\ pc[t] = "timer"
    /\ pc' = [pc EXCEPT ![t] = "barrier2"]
    /\ UNCHANGED <<inputs, table, idx, nxt, dest, obuf, prober, result>>

Curr(t) == HeadOf(IdHash[r[idx[t]]])

(* Mutant: the latch is taken without looking at it. *)
LockIgnoringLatch(t) ==
    /\ pc[t] = "next"
    /\ idx[t] < ShareEnd(NR, BuildNum, t)
    /\ latch' = [latch EXCEPT ![IdHash[r[idx[t]]]] = 1]
    /\ pc' = [pc EXCEPT ![t] = "inspect"]
    /\ UNCHANGED <<inputs, count, next, tuples, idx, nxt, dest, obuf, prober, result>>

(* lock(&curr->latch) returns: the exchange has read 0 and left 1. *)
Lock(t) ==
    /\ pc[t] = "next"
    /\ idx[t] < ShareEnd(NR, BuildNum, t)
    /\ latch[IdHash[r[idx[t]]]] = 0
    /\ latch' = [latch EXCEPT ![IdHash[r[idx[t]]]] = 1]
    /\ pc' = [pc EXCEPT ![t] = "inspect"]
    /\ UNCHANGED <<inputs, count, next, tuples, idx, nxt, dest, obuf, prober, result>>

(* Mutant: one bucket too many is taken from a buffer. *)
NewBucketOffByOne(t) ==
    IF obuf[t].count <= BufSize
    THEN [addr |-> <<t, obuf[t].bufs, obuf[t].count>>,
          obuf |-> [obuf[t] EXCEPT !.count = @ + 1]]
    ELSE [addr |-> <<t, obuf[t].bufs + 1, 0>>,
          obuf |-> [bufs |-> obuf[t].bufs + 1, count |-> 1]]

(* get_new_bucket: the next bucket of t's newest overflow buffer, or the   *)
(* first one of a new buffer when that is used up.                         *)
NewBucket(t) ==
    IF obuf[t].count < BufSize
    THEN [addr |-> <<t, obuf[t].bufs, obuf[t].count>>,
          obuf |-> [obuf[t] EXCEPT !.count = @ + 1]]
    ELSE [addr |-> <<t, obuf[t].bufs + 1, 0>>,
          obuf |-> [bufs |-> obuf[t].bufs + 1, count |-> 1]]

HasRoom(b) == b # NULL /\ count[b] # Capacity

(* Mutant: a full head bucket always gets a new overflow bucket. *)
InspectHeadOnly(t) ==
    /\ pc[t] = "inspect"
    /\ LET c == Curr(t)
       IN  /\ nxt' = [nxt EXCEPT ![t] = next[c]]
           /\ \/ /\ HasRoom(c)
                 /\ dest' = [dest EXCEPT ![t] = <<c, count[c]>>]
                 /\ UNCHANGED obuf
              \/ /\ ~HasRoom(c)
                 /\ dest' = [dest EXCEPT ![t] = <<NewBucket(t).addr, 0>>]
                 /\ obuf' = [obuf EXCEPT ![t] = NewBucket(t).obuf]
    /\ pc' = [pc EXCEPT ![t] = "update"]
    /\ UNCHANGED <<inputs, table, idx, prober, result>>

(* Read curr and curr->next and choose the slot the tuple will go to.      *)
Inspect(t) ==
    /\ pc[t] = "inspect"
    /\ LET c == Curr(t)
           n == next[c]
       IN  /\ nxt' = [nxt EXCEPT ![t] = n]
           /\ \/ /\ HasRoom(c)
                 /\ dest' = [dest EXCEPT ![t] = <<c, count[c]>>]
                 /\ UNCHANGED obuf
              \/ /\ ~HasRoom(c) /\ HasRoom(n)
                 /\ dest' = [dest EXCEPT ![t] = <<n, count[n]>>]
                 /\ UNCHANGED obuf
              \/ /\ ~HasRoom(c) /\ ~HasRoom(n)
                 /\ dest' = [dest EXCEPT ![t] = <<NewBucket(t).addr, 0>>]
                 /\ obuf' = [obuf EXCEPT ![t] = NewBucket(t).obuf]
    /\ pc' = [pc EXCEPT ![t] = "update"]
    /\ UNCHANGED <<inputs, table, idx, prober, result>>

(* Mutant: the new bucket forgets the rest of the chain. *)
UpdateDroppingChain(t) ==
    /\ pc[t] = "update"
    /\ LET c == Curr(t)
           b == dest[t][1]
       IN  \/ /\ b \in {c, nxt[t]}
              /\ count' = [count EXCEPT ![b] = dest[t][2] + 1]
              /\ UNCHANGED next
           \/ /\ b \notin {c, nxt[t]}
              /\ count' = [count EXCEPT ![b] = 1]
              /\ next' = [next EXCEPT ![c] = b, ![b] = NULL]
    /\ pc' = [pc EXCEPT ![t] = "unlock"]
    /\ UNCHANGED <<inputs, latch, tuples, idx, nxt, dest, obuf, prober, result>>

(* Write the reservation back: bump the counter of an existing bucket, or  *)
(* link the new bucket in between curr and its old successor.              *)
Update(t) ==
    /\ pc[t] = "update"
    /\ LET c == Curr(t)
           b == dest[t][1]
       IN  \/ /\ b \in {c, nxt[t]}
              /\ count' = [count EXCEPT ![b] = dest[t][2] + 1]
              /\ UNCHANGED next
           \/ /\ b \notin {c, nxt[t]}
              /\ count' = [count EXCEPT ![b] = 1]
              /\ next' = [next EXCEPT ![c] = b, ![b] = nxt[t]]
    /\ pc' = [pc EXCEPT ![t] = "unlock"]
    /\ UNCHANGED <<inputs, latch, tuples, idx, nxt, dest, obuf, prober, result>>

(* Mutant: the latch is never released. *)
UnlockForgotten(t) ==
    /\ pc[t] = "unlock"
    /\ pc' = [pc EXCEPT ![t] = "store"]
    /\ UNCHANGED <<inputs, table, idx, nxt, dest, obuf, prober, result>>

(* unlock(&curr->latch) *)
Unlock(t) ==
    /\ pc[t] = "unlock"
    /\ latch' = [latch EXCEPT ![IdHash[r[idx[t]]]] = 0]
    /\ pc' = [pc EXCEPT ![t] = "store"]
    /\ UNCHANGED <<inputs, count, next, tuples, idx, nxt, dest, obuf, prober, result>>

(* store_a_tuple(dest, &rel->tuples[idx]), outside the latch. *)
Store(t) ==
    /\ pc[t] = "store"
    /\ tuples' = [tuples EXCEPT ![dest[t]] = idx[t]]
    /\ idx' = [idx EXCEPT ![t] = @ + 1]
    /\ pc' = [pc EXCEPT ![t] = "next"]
    /\ UNCHANGED <<inputs, latch, count, next, nxt, dest, obuf, prober, result>>

(* The share is inserted: arrive at the barrier that ends the build.       *)
FinishBuild(t) ==
    /\ pc[t] = "next"
    /\ idx[t] >= ShareEnd(NR, BuildNum, t)
    /\ pc' = [pc EXCEPT ![t] = "barrier3"]
    /\ UNCHANGED <<inputs, table, idx, nxt, dest, obuf, prober, result>>
-----------------------------------------------------------------------------
(***************************************************************************)
(* The probe threads: run_nphj_sc_probejoin and probe_hashtable_nphj_sc.   *)
(***************************************************************************)

(* Mutant: the probe threads start while the last tuples are being stored. *)
SpawnProbersEarly ==
    /\ \A t \in Builders : pc[t] \in {"store", "next", "barrier3", "exit"}
    /\ \A p \in Probers : ppc[p] = "idle"
    /\ ppc' = [p \in Probers |-> "start"]
    /\ UNCHANGED <<inputs, table, builder, sidx, bkt, acc, result>>

(* The main thread has joined every build thread and starts the probe threads. *)
SpawnProbers ==
    /\ \A t \in Builders : pc[t] = "exit"
    /\ \A p \in Probers : ppc[p] = "idle"
    /\ ppc' = [p \in Probers |-> "start"]
    /\ UNCHANGED <<inputs, table, builder, sidx, bkt, acc, result>>

(* Take the next S tuple and go to its head bucket, or finish. *)
StartTuple(p) ==
    /\ ppc[p] = "start"
    /\ \/ /\ sidx[p] < ShareEnd(NS, ProbeNum, p)
          /\ bkt' = [bkt EXCEPT ![p] = HeadOf(IdHash[s[sidx[p]]])]
          /\ ppc' = [ppc EXCEPT ![p] = "scan"]
       \/ /\ sidx[p] >= ShareEnd(NS, ProbeNum, p)
          /\ ppc' = [ppc EXCEPT ![p] = "barrier"]
          /\ UNCHANGED bkt
    /\ UNCHANGED <<inputs, table, builder, sidx, acc, result>>

(* The slots of bucket b whose tuple matches S row j.  A zeroed slot holds *)
(* key 0, and the keys of every data set start at 1.                       *)
FoundIn(b, j) ==
    {x \in {b} \X (0 .. count[b] - 1) :
        tuples[x] # Empty /\ r[tuples[x]] = s[j]}

(* Mutant: only the head bucket is compared. *)
ScanHeadOnly(p) ==
    /\ ppc[p] = "scan"
    /\ LET found == FoundIn(bkt[p], sidx[p])
       IN  acc' = [acc EXCEPT ![p] =
                     [matched  |-> @.matched + Cardinality(found),
                      checksum |-> (@.checksum + SumFunction(
                          [x \in found |-> RowId(tuples[x]) + RowId(sidx[p])])) % 2^RowidBits]]
    /\ bkt' = [bkt EXCEPT ![p] = NULL]
    /\ sidx' = [sidx EXCEPT ![p] = @ + 1]
    /\ ppc' = [ppc EXCEPT ![p] = "start"]
    /\ UNCHANGED <<inputs, table, builder, result>>

(* Compare one bucket and follow its overflow pointer. *)
Scan(p) ==
    /\ ppc[p] = "scan"
    /\ LET found == FoundIn(bkt[p], sidx[p])
       IN  acc' = [acc EXCEPT ![p] =
                     [matched  |-> @.matched + Cardinality(found),
                      checksum |-> (@.checksum + SumFunction(
                          [x \in found |-> RowId(tuples[x]) + RowId(sidx[p])])) % 2^RowidBits]]
    /\ bkt' = [bkt EXCEPT ![p] = next[bkt[p]]]
    /\ IF next[bkt[p]] = NULL
       THEN /\ sidx' = [sidx EXCEPT ![p] = @ + 1]
            /\ ppc' = [ppc EXCEPT ![p] = "start"]
       ELSE UNCHANGED <<sidx, ppc>>
    /\ UNCHANGED <<inputs, table, builder, result>>

(* The barrier at the end of run_nphj_sc_probejoin. *)
ReleaseProbe ==
    /\ \A p \in Probers : ppc[p] = "barrier"
    /\ ppc' = [p \in Probers |-> "exit"]
    /\ UNCHANGED <<inputs, table, builder, sidx, bkt, acc, result>>

(* The main thread joins the probe threads and adds their results up.      *)
Collect ==
    /\ result = NULL
    /\ \A p \in Probers : ppc[p] = "exit"
    /\ result' = [matched  |-> SumFunction([p \in Probers |-> acc[p].matched]),
                  checksum |-> SumFunction([p \in Probers |-> acc[p].checksum]) % 2^RowidBits]
    /\ UNCHANGED <<inputs, table, builder, prober>>

(* nphj_sc has printed its result and freed the table. *)
Terminated ==
    /\ result # NULL
    /\ UNCHANGED vars
-----------------------------------------------------------------------------
Build(t) ==
    \/ Memset(t) \/ Timer(t) \/ Lock(t) \/ Inspect(t)
    \/ Update(t) \/ Unlock(t) \/ Store(t) \/ FinishBuild(t)

Probe(p) == StartTuple(p) \/ Scan(p)

Main == ReleaseBuild \/ SpawnProbers \/ ReleaseProbe \/ Collect

Next ==
    \/ \E t \in Builders : Build(t)
    \/ \E p \in Probers : Probe(p)
    \/ Main
    \/ Terminated

Spec == Init /\ [][Next]_vars

(* Every thread is scheduled; nothing is assumed of the order in which a   *)
(* latch is handed on (the spinlock is not fair), only that a thread that  *)
(* could take a free latch forever eventually does.                        *)
Fairness ==
    /\ \A t \in Builders : WF_vars(Build(t))
    /\ \A p \in Probers : WF_vars(Probe(p))
    /\ WF_vars(Main)

FairSpec == Spec /\ Fairness
-----------------------------------------------------------------------------
(***************************************************************************)
(* Properties.                                                             *)
(***************************************************************************)

InFlight(t) == pc[t] \in {"unlock", "store"}

(* Reserving under the latch and storing outside of it never gives a slot  *)
(* to two tuples and never leaves a hole: in every bucket of the table the *)
(* slots below its counter are each stored or still to be stored by exactly *)
(* one thread, and no thread has anything to do with the slots above it    *)
(* (build_hashtable_nphj_sc, nphj.c:272-298).                              *)
SlotAccounting ==
    \A x \in Slots :
        LET pending == {t \in Builders : InFlight(t) /\ dest[t] = x}
            reserved == count[x[1]] # Garbage /\ x[2] < count[x[1]]
        IN  /\ \A t, u \in pending : t = u
            /\ reserved => (pending = {}) = (tuples[x] # Empty)
            /\ ~reserved => pending = {} /\ tuples[x] = Empty

(* The buckets on the chain of head bucket h, head first. *)
Hop(h) == Follow(HeadOf(h), next, NULL, Cardinality(Overflows) + 1)

Chain(h) == Range(Hop(h)) \ {NULL}

(* Linking a bucket in right behind the head keeps every chain finite,     *)
(* disjoint from the other chains, and full everywhere but in its head or  *)
(* its first overflow bucket: the one place where an insert looks for room *)
(* (nphj.c:278-293).                                                       *)
ChainShape ==
    (\A t \in Builders : pc[t] \in {"next", "store", "barrier3", "exit"}) =>
        \A h \in 0 .. NumBuckets - 1 :
            /\ Hop(h)[Cardinality(Overflows) + 1] = NULL
            /\ \A b \in Chain(h) :
                   (b = HeadOf(h) /\ next[b] = NULL) \/ b = next[HeadOf(h)]
                       \/ count[b] = Capacity
            /\ \A g \in 0 .. NumBuckets - 1 : g # h => Chain(g) \cap Chain(h) = {}

(* When pthread_join has returned for every build thread, each R tuple is  *)
(* in the table once, on the chain of the bucket its key hashes to.        *)
BuildComplete ==
    (\A t \in Builders : pc[t] = "exit") =>
        \A i \in Rows(NR) :
            \E x \in Slots :
                /\ tuples[x] = i
                /\ x[1] \in Chain(IdHash[r[i]])
                /\ x[2] < count[x[1]]
                /\ \A y \in Slots : tuples[y] = i => y = x

(* A probe thread, which takes no latch, only ever looks at buckets that   *)
(* were initialised, and finds a tuple in every slot below their counters  *)
(* (nphj.c:424-438).                                                       *)
ProbeReadsStored ==
    \A p \in Probers : ppc[p] = "scan" =>
        /\ bkt[p] # NULL
        /\ count[bkt[p]] # Garbage /\ next[bkt[p]] # Garbage
        /\ \A k \in 0 .. count[bkt[p]] - 1 : tuples[<<bkt[p], k>>] # Empty

(* nphj_sc implements the abstract join: a store puts one more row into the *)
(* table and none out of it, and what is printed is the join's answer.     *)
Promise == INSTANCE JoinSpec WITH
    inserted <- {tuples[x] : x \in Slots} \ {Empty},
    answer <- result

RefinesJoin == Promise!JoinBehaviour

(* The join ends: no thread spins on a latch or waits at a barrier forever. *)
Termination == <>(result # NULL)
=============================================================================
