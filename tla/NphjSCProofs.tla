----------------------------- MODULE NphjSCProofs -----------------------------
(***************************************************************************)
(* Proofs about NphjSC, for every size of the relations, every hash        *)
(* function and every number of threads, slots and overflow buckets:       *)
(* type correctness, mutual exclusion under the latches, SlotAccounting,   *)
(* ProbeReadsStored, ChainShape, BuildComplete, and that nphj_sc           *)
(* implements the abstract join of JoinSpec, its answer included.          *)
(*                                                                         *)
(* The inductive invariant is proved in seven layers, each of which uses   *)
(* the ones before it:                                                     *)
(*   TypeInv     types, the bounds of the loop counters, the phases the    *)
(*               barriers separate, and which buckets are initialised      *)
(*   LatchInv    who holds which latch                                     *)
(*   SlotInv     the overflow buckets, the reservation in progress, and    *)
(*               SlotAccounting itself                                     *)
(*   ProbeInv    what a probe thread looks at                              *)
(*   ChainInv    every chain is a path that ends, no bucket has two        *)
(*               predecessors, and what is behind the head is full         *)
(*   RowInv      which rows are in the table, and on whose chains          *)
(*   CountInv    what a probe thread has found and counted                 *)
(***************************************************************************)
EXTENDS NphjSC, RelationsProofs, TLAPS

(* The barriers keep the build threads in the same phase. *)
Zeroing   == {"memset", "barrier1"}
Timing    == {"timer", "barrier2"}
Inserting == {"next", "store", "barrier3"} \cup CriticalSection

SamePhase ==
    \E phase \in {Zeroing, Timing, Inserting, {"exit"}} :
        \A t \in Builders : pc[t] \in phase

LoopBounds ==
    /\ \A t \in Builders :
        /\ pc[t] \in CriticalSection \cup {"store"} =>
               idx[t] < ShareEnd(NR, BuildNum, t)
        /\ obuf[t].bufs <= 1 + idx[t]
               + (IF pc[t] \in {"update", "unlock", "store"} THEN 1 ELSE 0)
        /\ pc[t] \in {"update", "unlock", "store"} => dest[t] \in Slots
    /\ \A p \in Probers :
        /\ ppc[p] = "scan" => /\ sidx[p] < ShareEnd(NS, ProbeNum, p)
                              /\ bkt[p] \in Addr

Ready(b) == count[b] # Garbage /\ next[b] # Garbage

(* A head bucket is ready when the thread that owns it has zeroed it, and a *)
(* pointer only ever leads to a bucket that is ready.                      *)
Initialised ==
    /\ \A t \in Builders : pc[t] # "memset" =>
           \A h \in Share(NumBuckets, BuildNum, t) :
               latch[h] \in {0, 1} /\ Ready(HeadOf(h))
    /\ \A b \in Addr : next[b] \in Overflows => Ready(next[b])
    /\ \A t \in Builders : pc[t] = "update" =>
           /\ nxt[t] # Garbage /\ (nxt[t] \in Overflows => Ready(nxt[t]))
           /\ dest[t][1] = Curr(t) \/ dest[t][1] \in Overflows
    /\ \A p \in Probers : ppc[p] # "idle" => \A t \in Builders : pc[t] = "exit"
    /\ \A p \in Probers : ppc[p] = "scan" => Ready(bkt[p])

TypeInv == TypeOK /\ SamePhase /\ LoopBounds /\ Initialised

Holds(t, h) == pc[t] \in CriticalSection /\ IdHash[r[idx[t]]] = h

LatchInv ==
    \A h \in 0 .. NumBuckets - 1 : \A t \in Builders :
        Holds(t, h) => latch[h] = 1 /\ \A u \in Builders : Holds(u, h) => u = t

Allocated(b) ==
    \/ b[2] < obuf[b[1]].bufs
    \/ b[2] = obuf[b[1]].bufs /\ b[3] < obuf[b[1]].count

(* Until the threads insert there is nothing in the table. *)
Untouched ==
    (\A t \in Builders : pc[t] \in Zeroing \cup Timing) =>
        /\ \A b \in Addr : count[b] \in {0, Garbage} /\ next[b] \in {NULL, Garbage}
        /\ \A x \in Slots : tuples[x] = Empty

(* A bucket in use was allocated, and has one bucket in front of it.       *)
Ownership ==
    /\ \A b \in Overflows : count[b] # Garbage => Allocated(b)
    /\ \A g, h \in Heads : next[g] \in Overflows /\ next[g] = next[h] => g = h

(* What Inspect has found still holds when Update acts on it. *)
Reservation ==
    \A t \in Builders : pc[t] = "update" =>
        /\ nxt[t] = next[Curr(t)]
        /\ \/ dest[t] = <<Curr(t), count[Curr(t)]>>
           \/ nxt[t] # NULL /\ dest[t] = <<nxt[t], count[nxt[t]]>>
           \/ /\ dest[t][1] \in Overflows /\ dest[t][1][1] = t
              /\ Allocated(dest[t][1])
              /\ count[dest[t][1]] = Garbage
              /\ dest[t][2] = 0

SlotInv == Untouched /\ Ownership /\ Reservation /\ SlotAccounting
-----------------------------------------------------------------------------
(***************************************************************************)
(* Addresses.                                                              *)
(***************************************************************************)

(* Head buckets are told apart by their number, and from overflow buckets. *)
LEMMA Addresses ==
    /\ \A h \in 0 .. NumBuckets - 1 : HeadOf(h) \in Heads
    /\ \A g, h \in 0 .. NumBuckets - 1 : HeadOf(g) = HeadOf(h) => g = h
    /\ \A b \in Heads : \E h \in 0 .. NumBuckets - 1 : b = HeadOf(h)
    /\ Heads \cap Overflows = {}
    /\ Heads \subseteq Addr /\ Overflows \subseteq Addr
    /\ NULL \notin Addr /\ Garbage \notin Addr
<1>1. \A b \in Overflows : b[1] \in Builders
  BY DEF Overflows
<1>2. \A b \in Heads : b[1] \notin Builders
  BY DEF Heads, HeadOf, Builders
<1> QED
  BY <1>1, <1>2, MarkerAssumption DEF Heads, HeadOf, Addr

(* Every row of R hashes to a head bucket. *)
LEMMA CurrIsHead ==
    ASSUME TypeOK, NEW t \in Builders, idx[t] < ShareEnd(NR, BuildNum, t)
    PROVE  /\ idx[t] \in Rows(NR) /\ idx[t] + 1 <= NR
           /\ IdHash[r[idx[t]]] \in 0 .. NumBuckets - 1
           /\ Curr(t) = HeadOf(IdHash[r[idx[t]]])
           /\ Curr(t) \in Heads
<1>1. ShareEnd(NR, BuildNum, t) \in 0 .. NR
  BY ShareInRange, SizeAssumption DEF Builders
<1>2. idx[t] \in 0 .. NR
  BY DEF TypeOK
<1>3. idx[t] \in Rows(NR) /\ idx[t] + 1 <= NR
  BY <1>1, <1>2, SizeAssumption DEF Rows
<1>4. r \in [Rows(NR) -> Keys]
  BY InputAssumption DEF TypeOK
<1>5. IdHash[r[idx[t]]] \in 0 .. NumBuckets - 1
  BY <1>3, <1>4, InputAssumption
<1> QED
  BY <1>3, <1>5, Addresses DEF Curr

(* Once every thread has zeroed its share, all head buckets are ready.     *)
LEMMA HeadsReady ==
    ASSUME Initialised, \A t \in Builders : pc[t] # "memset"
    PROVE  \A h \in 0 .. NumBuckets - 1 : latch[h] \in {0, 1} /\ Ready(HeadOf(h))
<1> SUFFICES ASSUME NEW h \in 0 .. NumBuckets - 1
             PROVE  latch[h] \in {0, 1} /\ Ready(HeadOf(h))
  OBVIOUS
<1>1. PICK t \in Builders : h \in Share(NumBuckets, BuildNum, t)
  BY ShareCover, SizeAssumption DEF Builders
<1> QED
  BY <1>1 DEF Initialised

(* One thread of a phase tells the phase of all. *)
LEMMA PhaseOfAll ==
    ASSUME SamePhase, NEW t \in Builders
    PROVE  /\ pc[t] \in Zeroing => \A u \in Builders : pc[u] \in Zeroing
           /\ pc[t] \in Timing => \A u \in Builders : pc[u] \in Timing
           /\ pc[t] \in Inserting => \A u \in Builders : pc[u] \in Inserting
           /\ pc[t] = "exit" => \A u \in Builders : pc[u] = "exit"
  BY DEF SamePhase, Zeroing, Timing, Inserting, CriticalSection
-----------------------------------------------------------------------------
(***************************************************************************)
(* Layer 1: types, loop bounds, phases and initialisation.                 *)
(***************************************************************************)

(* The invariant of layer 1 holds when nphj_sc starts its threads. *)
LEMMA TypeInit == Init => TypeInv
<1> SUFFICES ASSUME Init PROVE TypeInv
  OBVIOUS
<1>1. \A t \in Builders : idx[t] \in 0 .. NR
  <2>1. \A t \in Builders : ShareBegin(NR, BuildNum, t) \in 0 .. NR
    BY ShareBeginInRange, SizeAssumption DEF Builders
  <2> QED
    BY <2>1 DEF Init
<1>2. \A p \in Probers : sidx[p] \in 0 .. NS
  <2>1. \A p \in Probers : ShareBegin(NS, ProbeNum, p) \in 0 .. NS
    BY ShareBeginInRange, SizeAssumption DEF Probers
  <2> QED
    BY <2>1 DEF Init
<1>3. TypeOK
  <2>1. obuf \in [Builders -> [bufs : 1 .. NR + 1, count : 0 .. BufSize]]
    BY SizeAssumption DEF Init
  <2>2. /\ latch \in [0 .. NumBuckets - 1 -> {0, 1, Garbage}]
        /\ count \in [Addr -> (0 .. Capacity) \cup {Garbage}]
        /\ next \in [Addr -> Overflows \cup {NULL, Garbage}]
        /\ tuples \in [Slots -> Rows(NR) \cup {Empty}]
    BY DEF Init
  <2>3. /\ pc \in [Builders -> BuildPC] /\ ppc \in [Probers -> ProbePC]
        /\ idx \in [Builders -> 0 .. NR] /\ sidx \in [Probers -> 0 .. NS]
    BY <1>1, <1>2 DEF Init, BuildPC, ProbePC
  <2>4. /\ nxt \in [Builders -> Overflows \cup {NULL, Garbage}]
        /\ dest \in [Builders -> Slots \cup {NULL}]
        /\ bkt \in [Probers -> Addr \cup {NULL}]
    BY DEF Init
  <2> QED
    BY <2>1, <2>2, <2>3, <2>4 DEF Init, TypeOK
<1>4. SamePhase
  BY DEF Init, SamePhase, Zeroing
<1>5. LoopBounds
  BY <1>1 DEF Init, LoopBounds, CriticalSection
<1>6. Initialised
  BY MarkerAssumption, Addresses DEF Init, Initialised
<1> QED
  BY <1>3, <1>4, <1>5, <1>6 DEF TypeInv

(* A new bucket is one the thread may have, and at most one buffer more.   *)
LEMMA NewBucketType ==
    ASSUME TypeOK, NEW t \in Builders, obuf[t].bufs <= NR
    PROVE  /\ NewBucket(t).addr \in Overflows
           /\ NewBucket(t).addr[1] = t
           /\ NewBucket(t).obuf \in [bufs : 1 .. NR + 1, count : 0 .. BufSize]
           /\ NewBucket(t).obuf.bufs <= obuf[t].bufs + 1
<1>1. obuf[t] \in [bufs : 1 .. NR + 1, count : 0 .. BufSize]
  BY DEF TypeOK
<1>2. CASE obuf[t].count < BufSize
  <2>1. NewBucket(t) = [addr |-> <<t, obuf[t].bufs, obuf[t].count>>,
                        obuf |-> [obuf[t] EXCEPT !.count = @ + 1]]
    BY <1>2 DEF NewBucket
  <2> QED
    BY <1>1, <1>2, <2>1, SizeAssumption DEF Overflows
<1>3. CASE ~(obuf[t].count < BufSize)
  <2>1. NewBucket(t) = [addr |-> <<t, obuf[t].bufs + 1, 0>>,
                        obuf |-> [bufs |-> obuf[t].bufs + 1, count |-> 1]]
    BY <1>3 DEF NewBucket
  <2> QED
    BY <1>1, <2>1, SizeAssumption DEF Overflows
<1> QED
  BY <1>2, <1>3

(* Every step keeps the invariant of layer 1. *)
LEMMA TypeNext == TypeInv /\ [Next]_vars => TypeInv'
<1> SUFFICES ASSUME TypeInv, [Next]_vars PROVE TypeInv'
  OBVIOUS
<1> USE DEF TypeInv
<1>1. ASSUME NEW t \in Builders, Memset(t) PROVE TypeInv'
  <2> DEFINE mine == Share(NumBuckets, BuildNum, t)
             zeroed == {HeadOf(h) : h \in mine}
  <2>0. /\ latch' = [h \in DOMAIN latch |-> IF h \in mine THEN 0 ELSE latch[h]]
        /\ count' = [b \in Addr |-> IF b \in zeroed THEN 0 ELSE count[b]]
        /\ next' = [b \in Addr |-> IF b \in zeroed THEN NULL ELSE next[b]]
        /\ pc[t] = "memset" /\ pc' = [pc EXCEPT ![t] = "barrier1"]
        /\ UNCHANGED <<inputs, tuples, idx, nxt, dest, obuf, prober, result>>
    BY <1>1 DEF Memset
  <2> HIDE DEF mine, zeroed
  <2>1. TypeOK'
    <3>1. latch' \in [0 .. NumBuckets - 1 -> {0, 1, Garbage}]
      BY <2>0 DEF TypeOK
    <3>2. count' \in [Addr -> (0 .. Capacity) \cup {Garbage}]
      BY <2>0, SizeAssumption DEF TypeOK
    <3>3. next' \in [Addr -> Overflows \cup {NULL, Garbage}]
      BY <2>0 DEF TypeOK
    <3> QED
      BY <2>0, <3>1, <3>2, <3>3 DEF TypeOK, BuildPC, inputs, prober
  <2>2. SamePhase'
    BY <1>1, PhaseOfAll DEF Memset, SamePhase, Zeroing, TypeOK
  <2>3. LoopBounds'
    BY <1>1 DEF Memset, LoopBounds, TypeOK, CriticalSection, prober
  <2>4. Initialised'
    <3>1. ASSUME NEW u \in Builders, pc'[u] # "memset",
                 NEW h \in Share(NumBuckets, BuildNum, u)
          PROVE  latch'[h] \in {0, 1} /\ Ready(HeadOf(h))'
      <4>1. h \in 0 .. NumBuckets - 1 /\ HeadOf(h) \in Addr
        BY ShareWithin, SizeAssumption, Addresses DEF Builders
      <4>2. CASE h \in mine
        <5>1. HeadOf(h) \in zeroed
          BY <4>2 DEF zeroed
        <5> QED
          BY <2>0, <4>1, <4>2, <5>1, MarkerAssumption DEF TypeOK, Ready
      <4>3. CASE h \notin mine
        <5>1. u # t
          BY <4>3 DEF mine
        <5>2. latch[h] \in {0, 1} /\ Ready(HeadOf(h))
          BY <2>0, <3>1, <5>1 DEF Initialised, TypeOK
        <5> QED
          BY <2>0, <4>1, <4>3, <5>2, MarkerAssumption DEF TypeOK, Ready
      <4> QED BY <4>2, <4>3
    <3>2. \A b \in Addr : Ready(b) => Ready(b)'
      BY <2>0, MarkerAssumption DEF Ready
    <3>3. \A b \in Addr : (next[b] \in Overflows => Ready(next[b]))'
      <4> SUFFICES ASSUME NEW b \in Addr, next'[b] \in Overflows
                   PROVE  count'[next'[b]] # Garbage /\ next'[next'[b]] # Garbage
        BY DEF Ready
      <4>1. next'[b] = next[b] /\ next[b] \in Addr
        BY <2>0, Addresses
      <4> QED
        BY <3>2, <4>1 DEF Initialised, Ready
    <3>4. \A u \in Builders : pc'[u] # "update" /\ pc'[u] # "exit"
      BY <2>0, PhaseOfAll DEF Zeroing, TypeOK
    <3>5. \A p \in Probers : ppc'[p] = "idle"
      BY <2>0, SizeAssumption DEF Initialised, prober, TypeOK
    <3> QED
      BY <3>1, <3>3, <3>4, <3>5 DEF Initialised
  <2> QED BY <2>1, <2>2, <2>3, <2>4
<1>2. ASSUME ReleaseBuild PROVE TypeInv'
  <2> PICK b \in DOMAIN AfterBarrier :
         /\ \A t \in Builders : pc[t] = b
         /\ pc' = [t \in Builders |-> AfterBarrier[b]]
         /\ UNCHANGED <<inputs, table, idx, nxt, dest, obuf, prober, result>>
    BY <1>2 DEF ReleaseBuild
  <2>0. /\ b \in {"barrier1", "barrier2", "barrier3"}
        /\ b = "barrier1" => AfterBarrier[b] = "timer"
        /\ b = "barrier2" => AfterBarrier[b] = "next"
        /\ b = "barrier3" => AfterBarrier[b] = "exit"
    BY DEF AfterBarrier
  <2>1. TypeOK'
    BY <2>0 DEF TypeOK, BuildPC, inputs, table, prober
  <2>2. SamePhase'
    BY <2>0 DEF SamePhase, Timing, Inserting
  <2>3. LoopBounds'
    BY <2>0 DEF LoopBounds, TypeOK, CriticalSection, prober
  <2>4. Initialised'
    BY <2>0 DEF Initialised, Ready, prober, table
  <2> QED BY <2>1, <2>2, <2>3, <2>4
<1>3. ASSUME NEW t \in Builders, Timer(t) PROVE TypeInv'
  <2>1. TypeOK'
    BY <1>3 DEF Timer, TypeOK, BuildPC, inputs, prober, table
  <2>2. SamePhase'
    BY <1>3, PhaseOfAll DEF Timer, SamePhase, Timing, TypeOK
  <2>3. LoopBounds'
    BY <1>3 DEF Timer, LoopBounds, TypeOK, CriticalSection, prober
  <2>4. Initialised'
    BY <1>3 DEF Timer, Initialised, Ready, Curr, prober, table, inputs, TypeOK
  <2> QED BY <2>1, <2>2, <2>3, <2>4
<1>4. ASSUME NEW t \in Builders, Lock(t) PROVE TypeInv'
  <2>1. TypeOK'
    BY <1>4 DEF Lock, TypeOK, BuildPC, CriticalSection, inputs, prober
  <2>2. SamePhase'
    BY <1>4, PhaseOfAll DEF Lock, SamePhase, Inserting, CriticalSection, TypeOK
  <2>3. LoopBounds'
    BY <1>4 DEF Lock, LoopBounds, TypeOK, CriticalSection, prober
  <2>4. Initialised'
    BY <1>4 DEF Lock, Initialised, Ready, Curr, prober, inputs, TypeOK
  <2> QED BY <2>1, <2>2, <2>3, <2>4
<1>5. ASSUME NEW t \in Builders, Inspect(t) PROVE TypeInv'
  <2> DEFINE c == Curr(t)
             n == next[c]
  <2>0. /\ pc[t] = "inspect" /\ pc' = [pc EXCEPT ![t] = "update"]
        /\ nxt' = [nxt EXCEPT ![t] = n]
        /\ \/ HasRoom(c) /\ dest' = [dest EXCEPT ![t] = <<c, count[c]>>] /\ UNCHANGED obuf
           \/ HasRoom(n) /\ dest' = [dest EXCEPT ![t] = <<n, count[n]>>] /\ UNCHANGED obuf
           \/ /\ dest' = [dest EXCEPT ![t] = <<NewBucket(t).addr, 0>>]
              /\ obuf' = [obuf EXCEPT ![t] = NewBucket(t).obuf]
        /\ UNCHANGED <<inputs, table, idx, prober, result>>
    BY <1>5 DEF Inspect
  <2>a. /\ idx[t] < ShareEnd(NR, BuildNum, t) /\ idx[t] + 1 <= NR
        /\ c \in Heads /\ c \in Addr /\ Ready(c)
    <3>1. idx[t] < ShareEnd(NR, BuildNum, t)
      BY <2>0 DEF LoopBounds, CriticalSection
    <3>2. \A u \in Builders : pc[u] # "memset"
      BY <2>0, PhaseOfAll DEF Inserting, CriticalSection
    <3> QED
      BY <3>1, <3>2, CurrIsHead, HeadsReady, Addresses
  <2>b. n \in Overflows \cup {NULL} /\ (n # NULL => n \in Addr /\ Ready(n))
    BY <2>a, Addresses DEF TypeOK, Initialised, Ready
  <2>c. /\ NewBucket(t).addr \in Overflows
        /\ NewBucket(t).obuf \in [bufs : 1 .. NR + 1, count : 0 .. BufSize]
        /\ NewBucket(t).obuf.bufs <= 2 + idx[t]
        /\ obuf[t].bufs <= 1 + idx[t]
    <3>2. obuf[t].bufs \in Nat /\ idx[t] \in Nat /\ NR \in Nat
      BY SizeAssumption DEF TypeOK
    <3>1. obuf[t].bufs <= 1 + idx[t]
      BY <2>0, <3>2 DEF LoopBounds
    <3>3. obuf[t].bufs <= NR
      BY <3>1, <3>2, <2>a
    <3>4. /\ NewBucket(t).addr \in Overflows
          /\ NewBucket(t).obuf \in [bufs : 1 .. NR + 1, count : 0 .. BufSize]
          /\ NewBucket(t).obuf.bufs <= obuf[t].bufs + 1
      BY <3>3, NewBucketType
    <3>5. NewBucket(t).obuf.bufs \in Int
      BY <3>4
    <3> QED
      BY <3>1, <3>2, <3>4, <3>5
  <2> HIDE DEF c, n
  <2>d. dest'[t] \in Slots /\ dest' = [dest EXCEPT ![t] = dest'[t]]
    <3>1. \A b \in Addr : HasRoom(b) /\ Ready(b) => <<b, count[b]>> \in Slots
      BY SizeAssumption DEF HasRoom, Ready, Slots, TypeOK
    <3>2. <<NewBucket(t).addr, 0>> \in Slots
      BY <2>c, Addresses, SizeAssumption DEF Slots
    <3>3. dest \in [Builders -> Slots \cup {NULL}]
      BY DEF TypeOK
    <3>4. HasRoom(n) => n \in Addr /\ Ready(n)
      BY <2>b DEF HasRoom
    <3> QED
      BY <2>0, <2>a, <3>1, <3>2, <3>3, <3>4
  <2>e. /\ obuf' \in [Builders -> [bufs : 1 .. NR + 1, count : 0 .. BufSize]]
        /\ obuf'[t].bufs <= 2 + idx[t]
        /\ \A u \in Builders \ {t} : obuf'[u] = obuf[u]
    <3>1. obuf[t].bufs <= 2 + idx[t]
      BY <2>c DEF TypeOK
    <3>2. CASE UNCHANGED obuf
      BY <3>1, <3>2 DEF TypeOK
    <3>3. CASE obuf' = [obuf EXCEPT ![t] = NewBucket(t).obuf]
      BY <2>c, <3>3 DEF TypeOK
    <3> QED
      BY <2>0, <3>2, <3>3
  <2>1. TypeOK'
    <3>1. pc'[t] \in BuildPC /\ pc' \in [Builders -> BuildPC]
      BY <2>0 DEF TypeOK, BuildPC, CriticalSection
    <3>2. /\ nxt' \in [Builders -> Overflows \cup {NULL, Garbage}]
          /\ dest' \in [Builders -> Slots \cup {NULL}]
      BY <2>0, <2>b, <2>d DEF TypeOK
    <3> QED
      BY <2>0, <2>e, <3>1, <3>2 DEF TypeOK, inputs, table, prober
  <2>2. SamePhase'
    <3>1. \A u \in Builders : pc[u] \in Inserting
      BY <2>0, PhaseOfAll DEF Inserting, CriticalSection
    <3>2. \A u \in Builders : pc'[u] \in Inserting
      BY <2>0, <3>1 DEF Inserting, CriticalSection, TypeOK
    <3> QED BY <3>2 DEF SamePhase
  <2>3. LoopBounds'
    <3>1. ASSUME NEW u \in Builders
          PROVE  /\ pc'[u] \in CriticalSection \cup {"store"} =>
                        idx'[u] < ShareEnd(NR, BuildNum, u)
                 /\ obuf'[u].bufs <= 1 + idx'[u]
                        + (IF pc'[u] \in {"update", "unlock", "store"} THEN 1 ELSE 0)
                 /\ pc'[u] \in {"update", "unlock", "store"} => dest'[u] \in Slots
      <4>1. CASE u = t
        BY <2>0, <2>a, <2>d, <2>e, <4>1 DEF TypeOK
      <4>2. CASE u # t
        <5>1. /\ pc'[u] = pc[u] /\ idx'[u] = idx[u] /\ obuf'[u] = obuf[u]
              /\ dest'[u] = dest[u]
          BY <2>0, <2>d, <2>e, <4>2 DEF TypeOK
        <5> QED
          BY <5>1 DEF LoopBounds
      <4> QED BY <4>1, <4>2
    <3> QED
      BY <2>0, <3>1 DEF LoopBounds, prober
  <2>f. /\ nxt'[t] # Garbage /\ (nxt'[t] \in Overflows => Ready(nxt'[t]))
        /\ dest'[t][1] = c \/ dest'[t][1] \in Overflows
        /\ \A u \in Builders \ {t} : dest'[u] = dest[u] /\ nxt'[u] = nxt[u]
    <3>1. nxt'[t] = n /\ \A u \in Builders \ {t} : nxt'[u] = nxt[u]
      BY <2>0 DEF TypeOK
    <3>2. HasRoom(n) => n \in Overflows
      BY <2>b DEF HasRoom
    <3>3. dest'[t][1] = c \/ dest'[t][1] \in Overflows
      BY <2>0, <2>c, <3>2 DEF TypeOK
    <3>4. n # Garbage /\ (n \in Overflows => Ready(n))
      BY <2>b, Addresses, MarkerAssumption
    <3> QED
      <4>1. nxt'[t] # Garbage /\ (nxt'[t] \in Overflows => Ready(nxt'[t]))
        BY <3>1, <3>4
      <4>2. \A u \in Builders \ {t} : dest'[u] = dest[u]
        BY <2>d DEF TypeOK
      <4> QED
        BY <3>1, <3>3, <4>1, <4>2
  <2>4. Initialised'
    <3>1. \A b : Ready(b)' <=> Ready(b)
      BY <2>0 DEF Ready, table
    <3>2. \A u \in Builders : Curr(u)' = Curr(u)
      BY <2>0 DEF Curr, inputs
    <3>3. \A u \in Builders : pc'[u] = "update" =>
            /\ nxt'[u] # Garbage /\ (nxt'[u] \in Overflows => Ready(nxt'[u]))
            /\ dest'[u][1] = Curr(u) \/ dest'[u][1] \in Overflows
      BY <2>0, <2>f DEF c, Initialised, TypeOK
    <3>4. \A u \in Builders : (pc'[u] # "memset" => pc[u] # "memset")
                            /\ (pc[u] = "exit" => pc'[u] = "exit")
      BY <2>0 DEF TypeOK
    <3> QED
      BY <2>0, <3>1, <3>2, <3>3, <3>4 DEF Initialised, prober, table
  <2> QED BY <2>1, <2>2, <2>3, <2>4
<1>6. ASSUME NEW t \in Builders, Update(t) PROVE TypeInv'
  <2> DEFINE c == Curr(t)
             b == dest[t][1]
  <2>0. /\ pc[t] = "update" /\ pc' = [pc EXCEPT ![t] = "unlock"]
        /\ \/ b \in {c, nxt[t]} /\ count' = [count EXCEPT ![b] = dest[t][2] + 1] /\ UNCHANGED next
           \/ /\ b \notin {c, nxt[t]}
              /\ count' = [count EXCEPT ![b] = 1]
              /\ next' = [next EXCEPT ![c] = b, ![b] = nxt[t]]
        /\ UNCHANGED <<inputs, latch, tuples, idx, nxt, dest, obuf, prober, result>>
    BY <1>6 DEF Update
  <2>a. /\ dest[t] \in Slots /\ b \in Addr /\ dest[t][2] \in 0 .. Capacity - 1
        /\ c \in Heads /\ c \in Addr /\ Ready(c)
        /\ nxt[t] \in Overflows \cup {NULL}
        /\ nxt[t] \in Overflows => Ready(nxt[t])
        /\ b = c \/ b \in Overflows
    <3>1. idx[t] < ShareEnd(NR, BuildNum, t) /\ dest[t] \in Slots
      BY <2>0 DEF LoopBounds, CriticalSection
    <3>2. \A u \in Builders : pc[u] # "memset"
      BY <2>0, PhaseOfAll DEF Inserting, CriticalSection
    <3>3. c \in Heads /\ c \in Addr /\ Ready(c)
      BY <3>1, <3>2, CurrIsHead, HeadsReady, Addresses
    <3> QED
      BY <2>0, <3>1, <3>3 DEF Slots, Initialised, TypeOK
  <2> HIDE DEF c, b
  <2>b. \A a \in Addr : Ready(a) => Ready(a)'
    <3> SUFFICES ASSUME NEW a \in Addr, Ready(a)
                 PROVE  count'[a] # Garbage /\ next'[a] # Garbage
      BY DEF Ready
    <3>1. count'[a] # Garbage
      BY <2>0, <2>a, MarkerAssumption DEF Ready, TypeOK
    <3>2. next'[a] # Garbage
      <4>1. next'[a] \in {next[a], b, nxt[t]}
        BY <2>0, <2>a DEF TypeOK
      <4>2. b # Garbage /\ nxt[t] # Garbage
        BY <2>a, Addresses, MarkerAssumption
      <4> QED
        BY <4>1, <4>2 DEF Ready
    <3> QED BY <3>1, <3>2
  <2>1. TypeOK'
    <3>1. count' \in [Addr -> (0 .. Capacity) \cup {Garbage}]
      <4>1. dest[t][2] + 1 \in 0 .. Capacity /\ 1 \in 0 .. Capacity
        BY <2>a, SizeAssumption
      <4> QED
        BY <2>0, <2>a, <4>1 DEF TypeOK
    <3>2. next' \in [Addr -> Overflows \cup {NULL, Garbage}]
      BY <2>0, <2>a DEF TypeOK
    <3> QED
      BY <2>0, <3>1, <3>2 DEF TypeOK, BuildPC, CriticalSection, inputs, prober
  <2>2. SamePhase'
    BY <2>0, PhaseOfAll DEF SamePhase, Inserting, CriticalSection, TypeOK
  <2>3. LoopBounds'
    BY <2>0 DEF LoopBounds, TypeOK, CriticalSection, prober
  <2>4. Initialised'
    <3>1. \A a \in Addr : (next[a] \in Overflows => Ready(next[a]))'
      <4>1. count'[b] # Garbage /\ next'[b] # Garbage
        <5>1. count'[b] # Garbage
          BY <2>0, <2>a, MarkerAssumption DEF TypeOK
        <5>2. b \in {c, nxt[t]} => next'[b] # Garbage
          BY <2>a, <2>b DEF Ready
        <5>3. b \notin {c, nxt[t]} => next'[b] # Garbage
          BY <2>0, <2>a, Addresses, MarkerAssumption DEF TypeOK
        <5> QED
          BY <5>1, <5>2, <5>3
      <4> SUFFICES ASSUME NEW a \in Addr, next'[a] \in Overflows
                   PROVE  count'[next'[a]] # Garbage /\ next'[next'[a]] # Garbage
        BY DEF Ready
      <4>2. next'[a] \in {next[a], b, nxt[t]}
        BY <2>0, <2>a DEF TypeOK
      <4>3. \A d \in Overflows : d \in {next[a], b, nxt[t]} =>
              count'[d] # Garbage /\ next'[d] # Garbage
        <5>1. next[a] \in Overflows => Ready(next[a])
          BY DEF Initialised
        <5>2. \A d \in Overflows : Ready(d) => count'[d] # Garbage /\ next'[d] # Garbage
          BY <2>b, Addresses DEF Ready
        <5> QED
          BY <2>a, <4>1, <5>1, <5>2
      <4> QED
        BY <4>2, <4>3
    <3>2. \A u \in Builders : pc'[u] # "memset" =>
            \A h \in Share(NumBuckets, BuildNum, u) :
              latch'[h] \in {0, 1} /\ Ready(HeadOf(h))'
      <4> SUFFICES ASSUME NEW u \in Builders, pc'[u] # "memset",
                          NEW h \in Share(NumBuckets, BuildNum, u)
                   PROVE  latch'[h] \in {0, 1} /\ Ready(HeadOf(h))'
        OBVIOUS
      <4>1. HeadOf(h) \in Addr
        BY ShareWithin, SizeAssumption, Addresses DEF Builders
      <4>2. pc[u] # "memset"
        BY <2>0 DEF TypeOK
      <4> QED
        BY <2>0, <2>b, <4>1, <4>2 DEF Initialised
    <3>3. \A u \in Builders : pc'[u] = "update" => u # t /\ pc[u] = "update"
      BY <2>0 DEF TypeOK
    <3>4. \A u \in Builders : pc'[u] = "update" =>
            /\ nxt'[u] # Garbage /\ (nxt[u] \in Overflows => Ready(nxt[u]))'
            /\ (dest[u][1] = Curr(u) \/ dest[u][1] \in Overflows)'
      BY <2>0, <2>b, <3>3, Addresses DEF Initialised, Curr, inputs
    <3>5. \A p \in Probers : ppc'[p] = "idle"
      BY <2>0 DEF Initialised, prober, TypeOK
    <3> QED
      BY <3>1, <3>2, <3>4, <3>5 DEF Initialised
  <2> QED BY <2>1, <2>2, <2>3, <2>4
<1>7. ASSUME NEW t \in Builders, Unlock(t) PROVE TypeInv'
  <2>1. TypeOK'
    BY <1>7 DEF Unlock, TypeOK, BuildPC, inputs, prober
  <2>2. SamePhase'
    BY <1>7, PhaseOfAll DEF Unlock, SamePhase, Inserting, CriticalSection, TypeOK
  <2>3. LoopBounds'
    BY <1>7 DEF Unlock, LoopBounds, TypeOK, CriticalSection, prober
  <2>4. Initialised'
    <3>1. \A h \in 0 .. NumBuckets - 1 : latch[h] \in {0, 1} => latch'[h] \in {0, 1}
      BY <1>7 DEF Unlock, TypeOK
    <3>2. \A u \in Builders : Share(NumBuckets, BuildNum, u) \subseteq 0 .. NumBuckets - 1
      BY ShareWithin, SizeAssumption DEF Builders
    <3> QED
      BY <1>7, <3>1, <3>2
         DEF Unlock, Initialised, Ready, Curr, prober, inputs, TypeOK
  <2> QED BY <2>1, <2>2, <2>3, <2>4
<1>8. ASSUME NEW t \in Builders, Store(t) PROVE TypeInv'
  <2>0. /\ pc[t] = "store" /\ pc' = [pc EXCEPT ![t] = "next"]
        /\ tuples' = [tuples EXCEPT ![dest[t]] = idx[t]]
        /\ idx' = [idx EXCEPT ![t] = @ + 1]
        /\ UNCHANGED <<inputs, latch, count, next, nxt, dest, obuf, prober, result>>
    BY <1>8 DEF Store
  <2>a. idx[t] \in Rows(NR) /\ idx[t] + 1 \in 0 .. NR
    <3>1. idx[t] < ShareEnd(NR, BuildNum, t)
      BY <2>0 DEF LoopBounds
    <3>2. idx[t] \in 0 .. NR
      BY DEF TypeOK
    <3> QED
      BY <3>1, <3>2, CurrIsHead, SizeAssumption
  <2>1. TypeOK'
    BY <2>0, <2>a DEF TypeOK, BuildPC, inputs, prober
  <2>2. SamePhase'
    BY <2>0, PhaseOfAll DEF SamePhase, Inserting, CriticalSection, TypeOK
  <2>3. LoopBounds'
    <3>1. ASSUME NEW u \in Builders
          PROVE  /\ pc'[u] \in CriticalSection \cup {"store"} =>
                        idx'[u] < ShareEnd(NR, BuildNum, u)
                 /\ obuf'[u].bufs <= 1 + idx'[u]
                        + (IF pc'[u] \in {"update", "unlock", "store"} THEN 1 ELSE 0)
                 /\ pc'[u] \in {"update", "unlock", "store"} => dest'[u] \in Slots
      <4>1. CASE u = t
        <5>1. idx[t] \in Nat /\ idx'[t] = idx[t] + 1 /\ pc'[t] = "next"
          BY <2>0 DEF TypeOK
        <5>2. obuf'[t].bufs <= 1 + idx[t] + 1
          BY <2>0 DEF LoopBounds
        <5> QED
          BY <4>1, <5>1, <5>2 DEF CriticalSection
      <4>2. CASE u # t
        BY <2>0, <4>2 DEF LoopBounds, TypeOK
      <4> QED BY <4>1, <4>2
    <3> QED
      BY <2>0, <3>1 DEF LoopBounds, prober
  <2>4. Initialised'
    BY <2>0 DEF Initialised, Ready, Curr, prober, inputs, TypeOK
  <2> QED BY <2>1, <2>2, <2>3, <2>4
<1>9. ASSUME NEW t \in Builders, FinishBuild(t) PROVE TypeInv'
  <2>1. TypeOK'
    BY <1>9 DEF FinishBuild, TypeOK, BuildPC, inputs, prober, table
  <2>2. SamePhase'
    BY <1>9, PhaseOfAll DEF FinishBuild, SamePhase, Inserting, TypeOK
  <2>3. LoopBounds'
    BY <1>9 DEF FinishBuild, LoopBounds, TypeOK, CriticalSection, prober
  <2>4. Initialised'
    BY <1>9 DEF FinishBuild, Initialised, Ready, Curr, prober, table, inputs, TypeOK
  <2> QED BY <2>1, <2>2, <2>3, <2>4
<1>10. ASSUME SpawnProbers PROVE TypeInv'
  <2>1. TypeOK'
    BY <1>10 DEF SpawnProbers, TypeOK, ProbePC, inputs, builder, table
  <2>2. SamePhase'
    BY <1>10 DEF SpawnProbers, SamePhase, builder
  <2>3. LoopBounds'
    BY <1>10 DEF SpawnProbers, LoopBounds, builder
  <2>4. Initialised'
    BY <1>10 DEF SpawnProbers, Initialised, Ready, Curr, builder, table, inputs
  <2> QED BY <2>1, <2>2, <2>3, <2>4
<1>11. ASSUME NEW p \in Probers, StartTuple(p) PROVE TypeInv'
  <2>0. /\ ppc[p] = "start"
        /\ \/ /\ sidx[p] < ShareEnd(NS, ProbeNum, p)
              /\ bkt' = [bkt EXCEPT ![p] = HeadOf(IdHash[s[sidx[p]]])]
              /\ ppc' = [ppc EXCEPT ![p] = "scan"]
           \/ /\ ppc' = [ppc EXCEPT ![p] = "barrier"]
              /\ UNCHANGED bkt
        /\ UNCHANGED <<inputs, table, builder, sidx, acc, result>>
    BY <1>11 DEF StartTuple
  <2>a. sidx[p] < ShareEnd(NS, ProbeNum, p) =>
            /\ HeadOf(IdHash[s[sidx[p]]]) \in Addr
            /\ Ready(HeadOf(IdHash[s[sidx[p]]]))
    <3> SUFFICES ASSUME sidx[p] < ShareEnd(NS, ProbeNum, p)
                 PROVE  /\ HeadOf(IdHash[s[sidx[p]]]) \in Addr
                        /\ Ready(HeadOf(IdHash[s[sidx[p]]]))
      OBVIOUS
    <3>1. ShareEnd(NS, ProbeNum, p) \in 0 .. NS
      BY ShareInRange, SizeAssumption DEF Probers
    <3>2. sidx[p] \in 0 .. NS
      BY DEF TypeOK
    <3>3. sidx[p] \in Rows(NS)
      BY <3>1, <3>2, SizeAssumption DEF Rows
    <3>4. s \in [Rows(NS) -> Keys]
      BY InputAssumption DEF TypeOK
    <3>5. IdHash[s[sidx[p]]] \in 0 .. NumBuckets - 1
      BY <3>3, <3>4, InputAssumption
    <3>6. \A t \in Builders : pc[t] # "memset"
      BY <2>0 DEF Initialised
    <3> QED
      BY <3>5, <3>6, HeadsReady, Addresses
  <2>1. TypeOK'
    BY <2>0, <2>a DEF TypeOK, ProbePC, inputs, builder, table
  <2>2. SamePhase'
    BY <2>0 DEF SamePhase, builder
  <2>3. LoopBounds'
    BY <2>0, <2>a DEF LoopBounds, builder, TypeOK
  <2>4. Initialised'
    BY <2>0, <2>a DEF Initialised, Ready, Curr, builder, table, inputs, TypeOK
  <2> QED BY <2>1, <2>2, <2>3, <2>4
<1>12. ASSUME NEW p \in Probers, Scan(p) PROVE TypeInv'
  <2>0. /\ ppc[p] = "scan"
        /\ bkt' = [bkt EXCEPT ![p] = next[bkt[p]]]
        /\ \/ /\ next[bkt[p]] = NULL
              /\ sidx' = [sidx EXCEPT ![p] = @ + 1]
              /\ ppc' = [ppc EXCEPT ![p] = "start"]
           \/ next[bkt[p]] # NULL /\ UNCHANGED <<sidx, ppc>>
        /\ UNCHANGED <<inputs, table, builder, result>>
    BY <1>12 DEF Scan
  <2>a. /\ bkt[p] \in Addr /\ next[bkt[p]] \in Overflows \cup {NULL}
        /\ next[bkt[p]] # NULL => next[bkt[p]] \in Addr /\ Ready(next[bkt[p]])
    BY <2>0, Addresses DEF LoopBounds, Initialised, Ready, TypeOK
  <2>b. sidx[p] \in 0 .. NS /\ sidx[p] + 1 \in 0 .. NS
    <3>1. ShareEnd(NS, ProbeNum, p) \in 0 .. NS
      BY ShareInRange, SizeAssumption DEF Probers
    <3>2. sidx[p] \in 0 .. NS /\ sidx[p] < ShareEnd(NS, ProbeNum, p)
      BY <2>0 DEF TypeOK, LoopBounds
    <3> QED
      BY <3>1, <3>2, SizeAssumption
  <2>1. TypeOK'
    <3>1. bkt' \in [Probers -> Addr \cup {NULL}]
      BY <2>0, <2>a, Addresses DEF TypeOK
    <3>2. sidx' \in [Probers -> 0 .. NS]
      <4>1. sidx' = sidx \/ sidx' = [sidx EXCEPT ![p] = sidx[p] + 1]
        BY <2>0
      <4>2. sidx \in [Probers -> 0 .. NS]
        BY DEF TypeOK
      <4> QED
        BY <2>b, <4>1, <4>2
    <3>3. ppc' \in [Probers -> ProbePC]
      BY <2>0 DEF TypeOK, ProbePC
    <3> QED
      BY <2>0, <3>1, <3>2, <3>3 DEF TypeOK, inputs, builder, table
  <2>2. SamePhase'
    BY <2>0 DEF SamePhase, builder
  <2>3. LoopBounds'
    BY <2>0, <2>a DEF LoopBounds, builder, TypeOK
  <2>4. Initialised'
    BY <2>0, <2>a DEF Initialised, Ready, Curr, builder, table, inputs, TypeOK
  <2> QED BY <2>1, <2>2, <2>3, <2>4
<1>13. ASSUME ReleaseProbe PROVE TypeInv'
  <2>1. TypeOK'
    BY <1>13 DEF ReleaseProbe, TypeOK, ProbePC, inputs, builder, table
  <2>2. SamePhase'
    BY <1>13 DEF ReleaseProbe, SamePhase, builder
  <2>3. LoopBounds'
    BY <1>13 DEF ReleaseProbe, LoopBounds, builder
  <2>4. Initialised'
    BY <1>13 DEF ReleaseProbe, Initialised, Ready, Curr, builder, table, inputs
  <2> QED BY <2>1, <2>2, <2>3, <2>4
<1>14. ASSUME Collect \/ Terminated \/ UNCHANGED vars PROVE TypeInv'
  <2>0. UNCHANGED <<inputs, table, builder, prober>>
    BY <1>14 DEF Collect, Terminated, vars
  <2>1. TypeOK'
    BY <2>0 DEF TypeOK, inputs, table, builder, prober
  <2>2. SamePhase' /\ LoopBounds'
    BY <2>0 DEF SamePhase, LoopBounds, builder, prober
  <2>3. Initialised'
    BY <2>0 DEF Initialised, Ready, Curr, inputs, table, builder, prober
  <2> QED BY <2>1, <2>2, <2>3
<1> QED
  BY <1>1, <1>2, <1>3, <1>4, <1>5, <1>6, <1>7, <1>8, <1>9, <1>10, <1>11, <1>12,
     <1>13, <1>14 DEF Next, Build, Probe, Main

(* Layer 1 as an invariant: next to the types, no index leaves its share,  *)
(* the build threads are always in the same phase, and every pointer a     *)
(* thread may follow leads to an initialised bucket.                       *)
THEOREM TypeInvariant == Spec => []TypeInv
  BY TypeInit, TypeNext, PTL DEF Spec

(* Type correctness: every variable of the build and probe threads keeps   *)
(* its type; in particular no index leaves its relation, no reserved slot  *)
(* its bucket, and no thread's overflow buffers the NR + 1 the address     *)
(* space is cut to.                                                        *)
THEOREM TypeCorrect == Spec => []TypeOK
  BY TypeInvariant, PTL DEF TypeInv
-----------------------------------------------------------------------------
(***************************************************************************)
(* Layer 2: the latches.                                                   *)
(***************************************************************************)

(* No thread is in a critical section to begin with. *)
LEMMA LatchInit == Init => LatchInv
  BY DEF Init, LatchInv, Holds, CriticalSection

(* Every step keeps the latches exclusive. *)
LEMMA LatchNext == TypeInv /\ LatchInv /\ [Next]_vars => LatchInv'
<1> SUFFICES ASSUME TypeInv, LatchInv, [Next]_vars,
                    NEW h \in 0 .. NumBuckets - 1,
                    NEW t \in Builders, Holds(t, h)'
             PROVE  latch'[h] = 1 /\ \A u \in Builders : Holds(u, h)' => u = t
  BY DEF LatchInv
<1>a. TypeOK /\ SamePhase /\ LoopBounds
  BY DEF TypeInv
<1>1. ASSUME NEW v \in Builders, Memset(v) PROVE FALSE
  <2>1. pc[v] = "memset" /\ pc' = [pc EXCEPT ![v] = "barrier1"]
    BY <1>1 DEF Memset
  <2> QED
    BY <1>a, <2>1, PhaseOfAll DEF Holds, CriticalSection, Zeroing, TypeOK
<1>2. ASSUME NEW v \in Builders, Lock(v)
      PROVE  latch'[h] = 1 /\ \A u \in Builders : Holds(u, h)' => u = t
  <2> DEFINE g == IdHash[r[idx[v]]]
  <2>1. /\ pc[v] = "next" /\ pc' = [pc EXCEPT ![v] = "inspect"]
        /\ latch[g] = 0 /\ latch' = [latch EXCEPT ![g] = 1]
        /\ r' = r /\ idx' = idx /\ idx[v] < ShareEnd(NR, BuildNum, v)
    BY <1>2 DEF Lock, inputs
  <2>2. g \in 0 .. NumBuckets - 1
    BY <1>a, <2>1, CurrIsHead
  <2>3. \A u \in Builders : Holds(u, h)' => Holds(u, h) \/ (u = v /\ g = h)
    BY <1>a, <2>1 DEF Holds, CriticalSection, TypeOK
  <2>4. \A u \in Builders : Holds(u, h) => latch[h] = 1
    BY DEF LatchInv
  <2> HIDE DEF g
  <2>5. CASE g = h
    BY <1>a, <2>1, <2>2, <2>3, <2>4, <2>5 DEF TypeOK
  <2>6. CASE g # h
    <3>1. \A u \in Builders : Holds(u, h)' => Holds(u, h)
      BY <2>3, <2>6
    <3>2. latch'[h] = latch[h]
      BY <1>a, <2>1, <2>2, <2>6 DEF TypeOK
    <3> QED
      BY <3>1, <3>2 DEF LatchInv
  <2> QED BY <2>5, <2>6
<1>3. ASSUME NEW v \in Builders, Inspect(v) \/ Update(v)
      PROVE  latch'[h] = 1 /\ \A u \in Builders : Holds(u, h)' => u = t
  <2>1. /\ pc[v] \in {"inspect", "update"}
        /\ pc' \in {[pc EXCEPT ![v] = "update"], [pc EXCEPT ![v] = "unlock"]}
        /\ latch' = latch /\ r' = r /\ idx' = idx
    BY <1>3 DEF Inspect, Update, inputs, table
  <2>2. \A u \in Builders : Holds(u, h)' => Holds(u, h)
    BY <1>a, <2>1 DEF Holds, CriticalSection, TypeOK
  <2> QED
    BY <2>1, <2>2 DEF LatchInv
<1>4. ASSUME NEW v \in Builders, Unlock(v)
      PROVE  latch'[h] = 1 /\ \A u \in Builders : Holds(u, h)' => u = t
  <2> DEFINE g == IdHash[r[idx[v]]]
  <2>1. /\ pc[v] = "unlock" /\ pc' = [pc EXCEPT ![v] = "store"]
        /\ latch' = [latch EXCEPT ![g] = 0]
        /\ r' = r /\ idx' = idx
    BY <1>4 DEF Unlock, inputs
  <2>2. Holds(v, g)
    BY <2>1 DEF Holds, CriticalSection
  <2>3. \A u \in Builders : Holds(u, h)' => u # v /\ Holds(u, h)
    BY <1>a, <2>1 DEF Holds, CriticalSection, TypeOK
  <2>4. g # h
    BY <2>2, <2>3 DEF LatchInv
  <2> HIDE DEF g
  <2>5. latch'[h] = latch[h]
    BY <1>a, <2>1, <2>4 DEF TypeOK
  <2> QED
    BY <2>3, <2>5 DEF LatchInv
<1>5. ASSUME NEW v \in Builders, Store(v)
      PROVE  latch'[h] = 1 /\ \A u \in Builders : Holds(u, h)' => u = t
  <2>1. /\ pc[v] = "store" /\ pc' = [pc EXCEPT ![v] = "next"]
        /\ idx' = [idx EXCEPT ![v] = @ + 1]
        /\ r' = r /\ latch' = latch
    BY <1>5 DEF Store, inputs
  <2>2. \A u \in Builders : Holds(u, h)' => Holds(u, h)
    BY <1>a, <2>1 DEF Holds, CriticalSection, TypeOK
  <2> QED
    BY <2>1, <2>2 DEF LatchInv
<1>6. ASSUME \/ ReleaseBuild
             \/ \E v \in Builders : Timer(v) \/ FinishBuild(v)
      PROVE  latch'[h] = 1 /\ \A u \in Builders : Holds(u, h)' => u = t
  <2>1. r' = r /\ idx' = idx /\ latch' = latch
    BY <1>6 DEF ReleaseBuild, Timer, FinishBuild, inputs, table
  <2>2. \A u \in Builders : pc'[u] \in CriticalSection => pc'[u] = pc[u]
    BY <1>a, <1>6 DEF ReleaseBuild, Timer, FinishBuild, AfterBarrier, CriticalSection, TypeOK
  <2>3. \A u \in Builders : Holds(u, h)' => Holds(u, h)
    BY <2>1, <2>2 DEF Holds
  <2> QED
    BY <2>1, <2>3 DEF LatchInv
<1>7. ASSUME \/ \E p \in Probers : Probe(p)
             \/ SpawnProbers \/ ReleaseProbe \/ Collect \/ Terminated
             \/ UNCHANGED vars
      PROVE  latch'[h] = 1 /\ \A u \in Builders : Holds(u, h)' => u = t
  <2>1. r' = r /\ idx' = idx /\ latch' = latch /\ pc' = pc
    BY <1>7 DEF Probe, StartTuple, Scan, SpawnProbers, ReleaseProbe, Collect,
                Terminated, vars, inputs, table, builder
  <2> QED
    BY <2>1 DEF LatchInv, Holds
<1> QED
  BY <1>1, <1>2, <1>3, <1>4, <1>5, <1>6, <1>7 DEF Next, Build, Main

(* Mutual exclusion: two threads are never in the critical sections of the *)
(* same head bucket (lock and unlock around nphj.c:276-293).               *)
THEOREM LatchInvariant == Spec => []LatchInv
  BY TypeInvariant, LatchInit, LatchNext, PTL DEF Spec
-----------------------------------------------------------------------------
(***************************************************************************)
(* Layer 3: overflow buckets, reservations and slots.                      *)
(***************************************************************************)

(* Nothing is allocated, reserved or stored to begin with. *)
LEMMA SlotInit == Init => SlotInv
<1> SUFFICES ASSUME Init PROVE SlotInv
  OBVIOUS
<1>1. Untouched
  BY DEF Init, Untouched
<1>2. Ownership
  BY Addresses, MarkerAssumption DEF Init, Ownership
<1>3. Reservation
  BY DEF Init, Reservation
<1>4. SlotAccounting
  BY DEF Init, SlotAccounting, InFlight, Slots
<1> QED
  BY <1>1, <1>2, <1>3, <1>4 DEF SlotInv

(* A new bucket has not been allocated before, and is afterwards. *)
LEMMA NewBucketFresh ==
    ASSUME TypeOK, NEW t \in Builders, obuf[t].bufs <= NR
    PROVE  /\ ~Allocated(NewBucket(t).addr)
           /\ \/ NewBucket(t).addr[2] < NewBucket(t).obuf.bufs
              \/ /\ NewBucket(t).addr[2] = NewBucket(t).obuf.bufs
                 /\ NewBucket(t).addr[3] < NewBucket(t).obuf.count
           /\ \A b \in Overflows : b[1] = t /\ Allocated(b) =>
                 \/ b[2] < NewBucket(t).obuf.bufs
                 \/ b[2] = NewBucket(t).obuf.bufs /\ b[3] < NewBucket(t).obuf.count
<1>1. obuf[t] \in [bufs : 1 .. NR + 1, count : 0 .. BufSize]
  BY DEF TypeOK
<1>2. \A b \in Overflows : b[1] \in Builders /\ b[2] \in Nat /\ b[3] \in Nat
  BY DEF Overflows
<1>3. CASE obuf[t].count < BufSize
  <2>1. NewBucket(t) = [addr |-> <<t, obuf[t].bufs, obuf[t].count>>,
                        obuf |-> [obuf[t] EXCEPT !.count = @ + 1]]
    BY <1>3 DEF NewBucket
  <2> QED
    BY <1>1, <1>2, <2>1 DEF Allocated
<1>4. CASE ~(obuf[t].count < BufSize)
  <2>1. NewBucket(t) = [addr |-> <<t, obuf[t].bufs + 1, 0>>,
                        obuf |-> [bufs |-> obuf[t].bufs + 1, count |-> 1]]
    BY <1>4 DEF NewBucket
  <2> QED
    BY <1>1, <1>2, <2>1 DEF Allocated
<1> QED
  BY <1>3, <1>4

(* A slot that is reserved is in an initialised bucket, below its counter. *)
Reserved(x) == count[x[1]] # Garbage /\ x[2] < count[x[1]]

(* SlotAccounting, slot by slot. *)
Accounted(x) ==
    /\ \A t, u \in Builders :
           InFlight(t) /\ dest[t] = x /\ InFlight(u) /\ dest[u] = x => t = u
    /\ (\E t \in Builders : InFlight(t) /\ dest[t] = x) => Reserved(x) /\ tuples[x] = Empty
    /\ tuples[x] # Empty => Reserved(x)
    /\ Reserved(x) /\ tuples[x] = Empty => \E t \in Builders : InFlight(t) /\ dest[t] = x

(* Accounted says of one slot what SlotAccounting says of all. *)
LEMMA AccountedEach == SlotAccounting <=> \A x \in Slots : Accounted(x)
<1>1. ASSUME NEW x \in Slots
      PROVE  Accounted(x) <=>
               LET pending == {t \in Builders : InFlight(t) /\ dest[t] = x}
                   reserved == count[x[1]] # Garbage /\ x[2] < count[x[1]]
               IN  /\ \A t, u \in pending : t = u
                   /\ reserved => (pending = {}) = (tuples[x] # Empty)
                   /\ ~reserved => pending = {} /\ tuples[x] = Empty
  <2> DEFINE pending == {t \in Builders : InFlight(t) /\ dest[t] = x}
  <2>1. pending = {} <=> ~\E t \in Builders : InFlight(t) /\ dest[t] = x
    OBVIOUS
  <2>2. (\A t, u \in pending : t = u) <=>
          \A t, u \in Builders :
            InFlight(t) /\ dest[t] = x /\ InFlight(u) /\ dest[u] = x => t = u
    OBVIOUS
  <2> HIDE DEF pending
  <2>3. Accounted(x) <=>
          /\ \A t, u \in pending : t = u
          /\ Reserved(x) => (pending = {}) = (tuples[x] # Empty)
          /\ ~Reserved(x) => pending = {} /\ tuples[x] = Empty
    BY <2>1, <2>2 DEF Accounted
  <2> QED
    BY <2>3 DEF pending, Reserved
<1> QED
  BY <1>1 DEF SlotAccounting

(* The same in the next state. *)
LEMMA AccountedPrime == SlotAccounting' <=> (\A x \in Slots : Accounted(x))'
  BY AccountedEach, PTL

(* A step that touches no counter, no tuple and no thread in flight.       *)
LEMMA AccountedKept ==
    ASSUME SlotAccounting,
           count' = count, tuples' = tuples,
           \A t \in Builders : InFlight(t)' <=> InFlight(t),
           \A t \in Builders : InFlight(t) => dest'[t] = dest[t]
    PROVE  SlotAccounting'
<1>1. \A x \in Slots : Accounted(x)
  BY AccountedEach
<1>2. (\A x \in Slots : Accounted(x))'
  BY <1>1 DEF Accounted, Reserved
<1> QED
  BY <1>2, AccountedPrime

(* Untouched says nothing any more once a thread inserts. *)
LEMMA UntouchedGone ==
    ASSUME NEW t \in Builders, pc'[t] \in Inserting \cup {"exit"}
    PROVE  Untouched'
  BY DEF Untouched, Inserting, CriticalSection, Zeroing, Timing

(* A step that leaves the table, the buffers and the reservations alone.   *)
LEMMA SlotKept ==
    ASSUME Ownership, Reservation, SlotAccounting,
           UNCHANGED <<r, idx, count, next, tuples, nxt, dest, obuf>>,
           \A u \in Builders : pc'[u] = "update" => pc[u] = "update",
           \A u \in Builders : InFlight(u)' <=> InFlight(u)
    PROVE  Ownership' /\ Reservation' /\ SlotAccounting'
<1>1. Ownership'
  BY DEF Ownership, Allocated
<1>2. Reservation'
  BY DEF Reservation, Allocated, Curr
<1>3. SlotAccounting'
  BY AccountedKept
<1> QED
  BY <1>1, <1>2, <1>3

(* Zeroing a share of the heads keeps layer 3. *)
LEMMA SlotMemset ==
    ASSUME TypeInv, SlotInv, NEW t \in Builders, Memset(t)
    PROVE  SlotInv'
<1> DEFINE mine == Share(NumBuckets, BuildNum, t)
           zeroed == {HeadOf(h) : h \in mine}
<1>1. /\ count' = [b \in Addr |-> IF b \in zeroed THEN 0 ELSE count[b]]
      /\ next' = [b \in Addr |-> IF b \in zeroed THEN NULL ELSE next[b]]
      /\ pc[t] = "memset" /\ pc' = [pc EXCEPT ![t] = "barrier1"]
      /\ UNCHANGED <<inputs, tuples, idx, nxt, dest, obuf, prober, result>>
  BY DEF Memset
<1>2. zeroed \subseteq Heads
  <2>1. mine \subseteq 0 .. NumBuckets - 1
    BY ShareWithin, SizeAssumption DEF Builders
  <2> QED
    BY <2>1, Addresses
<1> HIDE DEF mine, zeroed
<1>3. \A u \in Builders : pc[u] \in Zeroing /\ pc'[u] \in Zeroing
  BY <1>1, PhaseOfAll DEF TypeInv, Zeroing, TypeOK
<1>4. /\ \A b \in Addr : count[b] \in {0, Garbage} /\ next[b] \in {NULL, Garbage}
      /\ \A x \in Slots : tuples[x] = Empty
  BY <1>3 DEF SlotInv, Untouched
<1>5. /\ \A b \in Addr : count'[b] \in {0, Garbage} /\ next'[b] \in {NULL, Garbage}
      /\ \A x \in Slots : tuples'[x] = Empty
  BY <1>1, <1>4
<1>6. Untouched'
  BY <1>5 DEF Untouched
<1>7. Ownership'
  <2>1. \A b \in Overflows : count'[b] = count[b]
    BY <1>1, <1>2, Addresses
  <2>2. \A b \in Heads : next'[b] \notin Overflows
    BY <1>5, Addresses
  <2> QED
    BY <1>1, <2>1, <2>2 DEF SlotInv, Ownership, Allocated
<1>8. Reservation'
  BY <1>3 DEF Reservation, Zeroing
<1>9. (\A x \in Slots : Accounted(x))'
  <2> SUFFICES ASSUME NEW x \in Slots PROVE Accounted(x)'
    OBVIOUS
  <2>1. \A u \in Builders : ~InFlight(u)'
    BY <1>3 DEF InFlight, Zeroing
  <2>2. ~Reserved(x)'
    <3>1. x[1] \in Addr /\ x[2] \in Nat
      BY DEF Slots
    <3> QED
      BY <1>5, <3>1 DEF Reserved
  <2> QED
    BY <1>5, <2>1, <2>2 DEF Accounted
<1> QED
  BY <1>6, <1>7, <1>8, <1>9, AccountedPrime DEF SlotInv

(* Choosing a slot keeps layer 3: a new bucket is one nobody has used, and  *)
(* an old one has its counter below Capacity.                              *)
LEMMA SlotInspect ==
    ASSUME TypeInv, LatchInv, SlotInv, NEW t \in Builders, Inspect(t)
    PROVE  SlotInv'
<1> DEFINE c == Curr(t)
           n == next[c]
<1>0. /\ pc[t] = "inspect" /\ pc' = [pc EXCEPT ![t] = "update"]
      /\ nxt' = [nxt EXCEPT ![t] = n]
      /\ \/ HasRoom(c) /\ dest' = [dest EXCEPT ![t] = <<c, count[c]>>] /\ UNCHANGED obuf
         \/ HasRoom(n) /\ dest' = [dest EXCEPT ![t] = <<n, count[n]>>] /\ UNCHANGED obuf
         \/ /\ dest' = [dest EXCEPT ![t] = <<NewBucket(t).addr, 0>>]
            /\ obuf' = [obuf EXCEPT ![t] = NewBucket(t).obuf]
      /\ UNCHANGED <<inputs, table, idx, prober, result>>
  BY DEF Inspect
<1>1. obuf[t].bufs <= NR
  <2>1. idx[t] < ShareEnd(NR, BuildNum, t)
    BY <1>0 DEF TypeInv, LoopBounds, CriticalSection
  <2>2. idx[t] + 1 <= NR
    BY <2>1, CurrIsHead DEF TypeInv
  <2>3. obuf[t].bufs \in Nat /\ idx[t] \in Nat /\ NR \in Nat
    BY SizeAssumption DEF TypeInv, TypeOK
  <2>4. obuf[t].bufs <= 1 + idx[t]
    BY <1>0, <2>3 DEF TypeInv, LoopBounds
  <2> QED
    BY <2>2, <2>3, <2>4
<1>2. /\ NewBucket(t).addr \in Overflows /\ NewBucket(t).addr[1] = t
      /\ ~Allocated(NewBucket(t).addr)
  BY <1>1, NewBucketType, NewBucketFresh DEF TypeInv
<1>3. \A b \in Overflows : Allocated(b) => Allocated(b)'
  <2> SUFFICES ASSUME NEW b \in Overflows, Allocated(b)
               PROVE  \/ b[2] < obuf'[b[1]].bufs
                      \/ b[2] = obuf'[b[1]].bufs /\ b[3] < obuf'[b[1]].count
    BY DEF Allocated
  <2>1. b[1] \in Builders
    BY DEF Overflows
  <2>2. CASE UNCHANGED obuf
    BY <2>2 DEF Allocated
  <2>3. CASE obuf' = [obuf EXCEPT ![t] = NewBucket(t).obuf]
    <3>1. CASE b[1] = t
      BY <1>1, <2>3, <3>1, NewBucketFresh DEF TypeInv, TypeOK
    <3>2. CASE b[1] # t
      BY <2>1, <2>3, <3>2 DEF TypeInv, TypeOK, Allocated
    <3> QED BY <3>1, <3>2
  <2> QED
    BY <1>0, <2>2, <2>3
<1> HIDE DEF c, n
<1>4. Untouched'
  <2>1. pc'[t] = "update"
    BY <1>0 DEF TypeInv, TypeOK
  <2> QED
    BY <2>1, UntouchedGone DEF Inserting, CriticalSection
<1>5. Ownership'
  BY <1>0, <1>3 DEF SlotInv, Ownership, table
<1>6. Reservation'
  <2>0. /\ \A u \in Builders : Curr(u)' = Curr(u)
        /\ count' = count /\ next' = next
    BY <1>0 DEF Curr, inputs, table
  <2>1. \A u \in Builders \ {t} :
          pc'[u] = pc[u] /\ dest'[u] = dest[u] /\ nxt'[u] = nxt[u]
    BY <1>0 DEF TypeInv, TypeOK
  <2>2. ASSUME NEW u \in Builders \ {t}, pc'[u] = "update"
        PROVE  /\ nxt'[u] = next'[Curr(u)']
               /\ \/ dest'[u] = <<Curr(u)', count'[Curr(u)']>>
                  \/ nxt'[u] # NULL /\ dest'[u] = <<nxt'[u], count'[nxt'[u]]>>
                  \/ /\ dest'[u][1] \in Overflows /\ dest'[u][1][1] = u
                     /\ Allocated(dest[u][1])'
                     /\ count'[dest'[u][1]] = Garbage
                     /\ dest'[u][2] = 0
    <3>1. pc[u] = "update" /\ dest'[u] = dest[u] /\ nxt'[u] = nxt[u]
      BY <2>1, <2>2
    <3>2. dest[u][1] \in Overflows /\ Allocated(dest[u][1]) => Allocated(dest[u][1])'
      BY <1>3, <3>1 DEF Allocated
    <3> QED
      BY <2>0, <3>1, <3>2 DEF SlotInv, Reservation
  <2>3. /\ nxt'[t] = next'[Curr(t)']
        /\ \/ dest'[t] = <<Curr(t)', count'[Curr(t)']>>
           \/ nxt'[t] # NULL /\ dest'[t] = <<nxt'[t], count'[nxt'[t]]>>
           \/ /\ dest'[t][1] \in Overflows /\ dest'[t][1][1] = t
              /\ Allocated(dest[t][1])'
              /\ count'[dest'[t][1]] = Garbage
              /\ dest'[t][2] = 0
    <3>1. nxt'[t] = n /\ n = next'[Curr(t)'] /\ Curr(t)' = c
      BY <1>0, <2>0 DEF c, n, TypeInv, TypeOK
    <3>2. CASE HasRoom(c) /\ dest' = [dest EXCEPT ![t] = <<c, count[c]>>]
      BY <2>0, <3>1, <3>2 DEF TypeInv, TypeOK
    <3>3. CASE HasRoom(n) /\ dest' = [dest EXCEPT ![t] = <<n, count[n]>>]
      BY <2>0, <3>1, <3>3 DEF TypeInv, TypeOK, HasRoom
    <3>4. CASE /\ dest' = [dest EXCEPT ![t] = <<NewBucket(t).addr, 0>>]
               /\ obuf' = [obuf EXCEPT ![t] = NewBucket(t).obuf]
      <4>1. dest'[t] = <<NewBucket(t).addr, 0>> /\ obuf'[t] = NewBucket(t).obuf
        BY <3>4 DEF TypeInv, TypeOK
      <4>2. count[NewBucket(t).addr] = Garbage
        BY <1>2 DEF SlotInv, Ownership
      <4>3. Allocated(dest[t][1])'
        BY <1>1, <1>2, <4>1, NewBucketFresh DEF Allocated, TypeInv
      <4> QED
        BY <1>2, <2>0, <3>1, <4>1, <4>2, <4>3
    <3> QED
      BY <1>0, <3>2, <3>3, <3>4
  <2> QED
    BY <2>2, <2>3 DEF Reservation
<1>7. SlotAccounting'
  <2>1. \A u \in Builders : InFlight(u)' <=> InFlight(u)
    BY <1>0 DEF InFlight, TypeInv, TypeOK
  <2>2. \A u \in Builders : InFlight(u) => dest'[u] = dest[u]
    BY <1>0 DEF InFlight, TypeInv, TypeOK
  <2> QED
    BY <1>0, <2>1, <2>2, AccountedKept DEF SlotInv, table
<1> QED
  BY <1>4, <1>5, <1>6, <1>7 DEF SlotInv

(* Writing a reservation back keeps layer 3: under the latch nothing that  *)
(* the thread read has changed, and no other thread has chosen the slot.   *)
LEMMA SlotUpdate ==
    ASSUME TypeInv, LatchInv, SlotInv, NEW t \in Builders, Update(t)
    PROVE  SlotInv'
<1> DEFINE c == Curr(t)
           b == dest[t][1]
           k == dest[t][2]
<1>0. /\ pc[t] = "update" /\ pc' = [pc EXCEPT ![t] = "unlock"]
      /\ \/ b \in {c, nxt[t]} /\ count' = [count EXCEPT ![b] = k + 1] /\ UNCHANGED next
         \/ /\ b \notin {c, nxt[t]}
            /\ count' = [count EXCEPT ![b] = 1]
            /\ next' = [next EXCEPT ![c] = b, ![b] = nxt[t]]
      /\ UNCHANGED <<inputs, latch, tuples, idx, nxt, dest, obuf, prober, result>>
  BY DEF Update
\* The heads of the threads in the critical section.
<1>1. ASSUME NEW u \in Builders, pc[u] \in CriticalSection
      PROVE  /\ Curr(u) \in Heads /\ Curr(u) \in Addr /\ Ready(Curr(u))
             /\ u # t => Curr(u) # c
  <2>1. idx[u] < ShareEnd(NR, BuildNum, u) /\ idx[t] < ShareEnd(NR, BuildNum, t)
    BY <1>0, <1>1 DEF TypeInv, LoopBounds, CriticalSection
  <2>2. \A v \in Builders : pc[v] # "memset"
    BY <1>0, PhaseOfAll DEF TypeInv, Inserting, CriticalSection
  <2>3. /\ IdHash[r[idx[u]]] \in 0 .. NumBuckets - 1
        /\ Curr(u) = HeadOf(IdHash[r[idx[u]]]) /\ Curr(u) \in Heads
        /\ IdHash[r[idx[t]]] \in 0 .. NumBuckets - 1
        /\ c = HeadOf(IdHash[r[idx[t]]])
    BY <2>1, CurrIsHead DEF TypeInv
  <2>4. Ready(Curr(u))
    BY <2>2, <2>3, HeadsReady DEF TypeInv
  <2>5. u # t => IdHash[r[idx[u]]] # IdHash[r[idx[t]]]
    BY <1>0, <1>1, <2>3 DEF LatchInv, Holds, CriticalSection
  <2> QED
    BY <2>3, <2>4, <2>5, Addresses
<1>2. c \in Heads /\ c \in Addr /\ Ready(c)
  BY <1>0, <1>1 DEF CriticalSection
\* The slot that t has reserved is the first one its bucket has left.
<1>3. /\ nxt[t] = next[c]
      /\ nxt[t] \in Overflows \cup {NULL} /\ (nxt[t] \in Overflows => Ready(nxt[t]))
  BY <1>0, <1>2, Addresses DEF SlotInv, Reservation, TypeInv, TypeOK, Initialised, Ready
<1>4. dest[t] \in Slots /\ b \in Addr /\ k \in 0 .. Capacity - 1 /\ dest[t] = <<b, k>>
  BY <1>0 DEF TypeInv, LoopBounds, Slots
<1>5. \/ b = c /\ k = count[c]
      \/ b = nxt[t] /\ nxt[t] \in Overflows /\ k = count[nxt[t]]
      \/ b \in Overflows /\ b[1] = t /\ Allocated(b) /\ count[b] = Garbage /\ k = 0
  BY <1>0, <1>3 DEF SlotInv, Reservation
<1> HIDE DEF c, b, k
<1>6. /\ count' = [count EXCEPT ![b] = k + 1]
      /\ (count[b] = Garbage /\ k = 0) \/ count[b] = k
      /\ \/ next' = next
         \/ /\ next' = [next EXCEPT ![c] = b, ![b] = nxt[t]]
            /\ b \in Overflows /\ count[b] = Garbage
  BY <1>0, <1>2, <1>3, <1>5 DEF Ready
<1>7. Untouched'
  <2>1. pc'[t] = "unlock"
    BY <1>0 DEF TypeInv, TypeOK
  <2> QED
    BY <2>1, UntouchedGone DEF Inserting, CriticalSection
<1>8. Ownership'
  <2>1. \A d \in Overflows : count'[d] # Garbage => Allocated(d)'
    <3>1. \A d \in Overflows : Allocated(d)' <=> Allocated(d)
      BY <1>0 DEF Allocated
    <3>2. \A d \in Overflows : count'[d] # Garbage => count[d] # Garbage \/ d = b
      BY <1>6, Addresses DEF TypeInv, TypeOK
    <3>3. b \in Overflows => Allocated(b)
      BY <1>2, <1>3, <1>5, Addresses DEF SlotInv, Ownership, Ready
    <3> QED
      BY <3>1, <3>2, <3>3 DEF SlotInv, Ownership
  <2>2. ASSUME NEW g \in Heads, NEW h \in Heads,
               next'[g] \in Overflows, next'[g] = next'[h]
        PROVE  g = h
    <3>1. CASE next' = next
      BY <2>2, <3>1 DEF SlotInv, Ownership
    <3>2. CASE next' = [next EXCEPT ![c] = b, ![b] = nxt[t]] /\ b \in Overflows
               /\ count[b] = Garbage
      <4>1. \A a \in Heads : next'[a] = IF a = c THEN b ELSE next[a]
        BY <1>2, <3>2, Addresses DEF TypeInv, TypeOK
      <4>2. \A a \in Heads : next[a] # b
        BY <3>2, Addresses DEF TypeInv, Initialised, Ready
      <4> QED
        BY <2>2, <4>1, <4>2 DEF SlotInv, Ownership
    <3> QED
      BY <1>6, <3>1, <3>2
  <2> QED
    BY <2>1, <2>2 DEF Ownership
<1>9. Reservation'
  <2> SUFFICES ASSUME NEW u \in Builders, pc'[u] = "update"
               PROVE  /\ nxt'[u] = next'[Curr(u)']
                      /\ \/ dest'[u] = <<Curr(u)', count'[Curr(u)']>>
                         \/ nxt'[u] # NULL /\ dest'[u] = <<nxt'[u], count'[nxt'[u]]>>
                         \/ /\ dest'[u][1] \in Overflows /\ dest'[u][1][1] = u
                            /\ Allocated(dest[u][1])'
                            /\ count'[dest'[u][1]] = Garbage
                            /\ dest'[u][2] = 0
    BY DEF Reservation
  <2>1. u # t /\ pc[u] = "update" /\ Curr(u)' = Curr(u)
    BY <1>0 DEF TypeInv, TypeOK, Curr, inputs
  <2>2. Curr(u) \in Heads /\ Curr(u) \in Addr /\ Ready(Curr(u)) /\ Curr(u) # c
    BY <1>1, <2>1 DEF CriticalSection
  <2>3. b # Curr(u)
    BY <1>5, <2>2, Addresses
  <2>4. next'[Curr(u)] = next[Curr(u)] /\ count'[Curr(u)] = count[Curr(u)]
    BY <1>6, <2>2, <2>3 DEF TypeInv, TypeOK
  <2>5. nxt[u] = next[Curr(u)]
    BY <2>1 DEF SlotInv, Reservation
  <2>6. nxt[u] \in Overflows => b # nxt[u] /\ count'[nxt[u]] = count[nxt[u]]
    <3> SUFFICES ASSUME nxt[u] \in Overflows PROVE b # nxt[u] /\ count'[nxt[u]] = count[nxt[u]]
      OBVIOUS
    <3>1. Ready(nxt[u])
      BY <2>1 DEF TypeInv, Initialised
    <3>2. nxt[u] # next[c]
      BY <1>2, <2>2, <2>5 DEF SlotInv, Ownership
    <3>3. b # nxt[u]
      BY <1>2, <1>3, <1>5, <3>1, <3>2, Addresses DEF Ready
    <3> QED
      BY <1>6, <3>3, Addresses DEF TypeInv, TypeOK
  <2>7. nxt[u] # NULL => nxt[u] \in Overflows
    BY <2>1 DEF TypeInv, TypeOK, Initialised
  <2>8. dest[u][1] \in Overflows /\ dest[u][1][1] = u /\ count[dest[u][1]] = Garbage
          => count'[dest[u][1]] = Garbage
    <3> SUFFICES ASSUME dest[u][1] \in Overflows, dest[u][1][1] = u,
                        count[dest[u][1]] = Garbage
                 PROVE  count'[dest[u][1]] = Garbage
      OBVIOUS
    <3>1. dest[u][1] # b
      BY <1>2, <1>3, <1>5, <2>1 DEF Ready
    <3> QED
      BY <1>6, <3>1, Addresses DEF TypeInv, TypeOK
  <2>9. /\ nxt'[u] = nxt[u] /\ dest'[u] = dest[u]
        /\ Allocated(dest[u][1])' <=> Allocated(dest[u][1])
    BY <1>0 DEF Allocated
  <2>10. \/ dest[u] = <<Curr(u), count[Curr(u)]>>
         \/ nxt[u] # NULL /\ dest[u] = <<nxt[u], count[nxt[u]]>>
         \/ /\ dest[u][1] \in Overflows /\ dest[u][1][1] = u
            /\ Allocated(dest[u][1])
            /\ count[dest[u][1]] = Garbage
            /\ dest[u][2] = 0
    BY <2>1 DEF SlotInv, Reservation
  <2> QED
    BY <2>1, <2>4, <2>5, <2>6, <2>7, <2>8, <2>9, <2>10
<1>10. (\A x \in Slots : Accounted(x))'
  <2> SUFFICES ASSUME NEW x \in Slots PROVE Accounted(x)'
    OBVIOUS
  <2>1. Accounted(x)
    BY AccountedEach DEF SlotInv
  <2>2. \A u \in Builders : InFlight(u)' <=> InFlight(u) \/ u = t
    BY <1>0 DEF InFlight, TypeInv, TypeOK
  <2>3. dest' = dest /\ tuples' = tuples /\ ~InFlight(t)
    BY <1>0 DEF InFlight
  <2>4. x[1] \in Addr /\ x[2] \in Nat /\ x = <<x[1], x[2]>>
    BY DEF Slots
  <2>5. \A d \in Addr : count'[d] = IF d = b THEN k + 1 ELSE count[d]
    BY <1>4, <1>6 DEF TypeInv, TypeOK
  <2>6. CASE x = dest[t]
    <3>1. x[1] = b /\ x[2] = k
      BY <2>6 DEF b, k
    <3>2. ~Reserved(x)
      BY <1>4, <1>6, <3>1 DEF Reserved
    <3>3. tuples[x] = Empty /\ \A u \in Builders : InFlight(u) => dest[u] # x
      BY <2>1, <3>2 DEF Accounted
    <3>4. Reserved(x)'
      BY <1>4, <2>4, <2>5, <3>1, MarkerAssumption DEF Reserved
    <3> QED
      BY <2>2, <2>3, <2>6, <3>3, <3>4 DEF Accounted
  <2>7. CASE x # dest[t]
    <3>1. Reserved(x)' <=> Reserved(x)
      <4>1. CASE x[1] = b
        <5>1. x[2] # k
          BY <1>4, <2>4, <2>7, <4>1
        <5> QED
          BY <1>4, <1>6, <2>4, <2>5, <4>1, <5>1, MarkerAssumption DEF Reserved
      <4>2. CASE x[1] # b
        BY <2>4, <2>5, <4>2 DEF Reserved
      <4> QED BY <4>1, <4>2
    <3>2. \A u \in Builders : InFlight(u)' /\ dest'[u] = x <=> InFlight(u) /\ dest[u] = x
      BY <2>2, <2>3, <2>7
    <3> QED
      BY <2>1, <2>3, <3>1, <3>2 DEF Accounted
  <2> QED BY <2>6, <2>7
<1> QED
  BY <1>7, <1>8, <1>9, <1>10, AccountedPrime DEF SlotInv

(* Storing the tuple fills the slot that was reserved for it. *)
LEMMA SlotStore ==
    ASSUME TypeInv, SlotInv, NEW t \in Builders, Store(t)
    PROVE  SlotInv'
<1>0. /\ pc[t] = "store" /\ pc' = [pc EXCEPT ![t] = "next"]
      /\ tuples' = [tuples EXCEPT ![dest[t]] = idx[t]]
      /\ idx' = [idx EXCEPT ![t] = @ + 1]
      /\ UNCHANGED <<inputs, latch, count, next, nxt, dest, obuf, prober, result>>
  BY DEF Store
<1>1. dest[t] \in Slots /\ idx[t] \in Rows(NR)
  <2>1. dest[t] \in Slots /\ idx[t] < ShareEnd(NR, BuildNum, t)
    BY <1>0 DEF TypeInv, LoopBounds
  <2> QED
    BY <2>1, CurrIsHead DEF TypeInv
<1>2. Untouched'
  <2>1. pc'[t] = "next"
    BY <1>0 DEF TypeInv, TypeOK
  <2> QED
    BY <2>1, UntouchedGone DEF Inserting
<1>3. Ownership'
  BY <1>0 DEF SlotInv, Ownership, Allocated
<1>4. Reservation'
  <2>1. \A u \in Builders : pc'[u] = "update" =>
          pc[u] = "update" /\ Curr(u)' = Curr(u) /\ (Allocated(dest[u][1])' <=> Allocated(dest[u][1]))
    BY <1>0 DEF TypeInv, TypeOK, Curr, inputs, Allocated
  <2> QED
    BY <1>0, <2>1 DEF SlotInv, Reservation
<1>5. (\A x \in Slots : Accounted(x))'
  <2> SUFFICES ASSUME NEW x \in Slots PROVE Accounted(x)'
    OBVIOUS
  <2>1. Accounted(x)
    BY AccountedEach DEF SlotInv
  <2>2. \A u \in Builders : InFlight(u)' <=> InFlight(u) /\ u # t
    BY <1>0 DEF InFlight, TypeInv, TypeOK
  <2>3. dest' = dest /\ count' = count /\ InFlight(t)
    BY <1>0 DEF InFlight
  <2>4. tuples'[x] = IF x = dest[t] THEN idx[t] ELSE tuples[x]
    BY <1>0 DEF TypeInv, TypeOK
  <2>5. idx[t] # Empty
    BY <1>1, MarkerAssumption
  <2> QED
    BY <2>1, <2>2, <2>3, <2>4, <2>5 DEF Accounted, Reserved
<1> QED
  BY <1>2, <1>3, <1>4, <1>5, AccountedPrime DEF SlotInv

(* Every step keeps layer 3. *)
LEMMA SlotNext == TypeInv /\ LatchInv /\ SlotInv /\ [Next]_vars => SlotInv'
<1> SUFFICES ASSUME TypeInv, LatchInv, SlotInv, [Next]_vars PROVE SlotInv'
  OBVIOUS
<1> USE DEF SlotInv
<1>1. ASSUME ReleaseBuild PROVE SlotInv'
  <2> PICK b \in DOMAIN AfterBarrier :
         /\ \A t \in Builders : pc[t] = b
         /\ pc' = [t \in Builders |-> AfterBarrier[b]]
         /\ UNCHANGED <<inputs, table, idx, nxt, dest, obuf, prober, result>>
    BY <1>1 DEF ReleaseBuild
  <2>0. /\ b \in {"barrier1", "barrier2", "barrier3"}
        /\ b = "barrier1" => AfterBarrier[b] = "timer"
        /\ b = "barrier2" => AfterBarrier[b] = "next"
        /\ b = "barrier3" => AfterBarrier[b] = "exit"
    BY DEF AfterBarrier
  <2>1. Untouched'
    <3>1. CASE b = "barrier1"
      BY <2>0, <3>1 DEF Untouched, Zeroing, table
    <3>2. CASE b # "barrier1"
      <4>1. 0 \in Builders
        BY SizeAssumption DEF Builders
      <4>2. pc'[0] \in Inserting \cup {"exit"}
        BY <2>0, <3>2, <4>1 DEF Inserting
      <4> QED
        BY <4>1, <4>2, UntouchedGone
    <3> QED BY <3>1, <3>2
  <2>2. /\ \A u \in Builders : pc'[u] = "update" => pc[u] = "update"
        /\ \A u \in Builders : InFlight(u)' <=> InFlight(u)
    BY <2>0 DEF InFlight
  <2> QED
    BY <2>1, <2>2, SlotKept DEF inputs, table
<1>2. ASSUME NEW t \in Builders, Timer(t) PROVE SlotInv'
  <2>1. pc[t] = "timer" /\ pc' = [pc EXCEPT ![t] = "barrier2"]
    BY <1>2 DEF Timer
  <2>2. UNCHANGED <<r, idx, count, next, tuples, nxt, dest, obuf>>
    BY <1>2 DEF Timer, inputs, table
  <2>3. Untouched'
    <3>1. \A u \in Builders : pc[u] \in Timing
      BY <2>1, PhaseOfAll DEF TypeInv, Timing
    <3> QED
      BY <2>2, <3>1 DEF Untouched
  <2>4. /\ \A u \in Builders : pc'[u] = "update" => pc[u] = "update"
        /\ \A u \in Builders : InFlight(u)' <=> InFlight(u)
    BY <2>1 DEF InFlight, TypeInv, TypeOK
  <2> QED
    BY <2>2, <2>3, <2>4, SlotKept
<1>3. ASSUME NEW t \in Builders, Lock(t) \/ Unlock(t) \/ FinishBuild(t) PROVE SlotInv'
  <2>1. \/ pc[t] = "next" /\ pc' = [pc EXCEPT ![t] = "inspect"]
        \/ pc[t] = "unlock" /\ pc' = [pc EXCEPT ![t] = "store"]
        \/ pc[t] = "next" /\ pc' = [pc EXCEPT ![t] = "barrier3"]
    BY <1>3 DEF Lock, Unlock, FinishBuild
  <2>2. UNCHANGED <<r, idx, count, next, tuples, nxt, dest, obuf>>
    BY <1>3 DEF Lock, Unlock, FinishBuild, inputs, table
  <2>3. Untouched'
    <3>1. pc'[t] \in Inserting
      BY <2>1 DEF TypeInv, TypeOK, Inserting, CriticalSection
    <3> QED
      BY <3>1, UntouchedGone
  <2>4. /\ \A u \in Builders : pc'[u] = "update" => pc[u] = "update"
        /\ \A u \in Builders : InFlight(u)' <=> InFlight(u)
    BY <2>1 DEF InFlight, TypeInv, TypeOK
  <2> QED
    BY <2>2, <2>3, <2>4, SlotKept
<1>4. ASSUME \/ \E p \in Probers : Probe(p)
             \/ SpawnProbers \/ ReleaseProbe \/ Collect \/ Terminated
             \/ UNCHANGED vars
      PROVE  SlotInv'
  <2>1. UNCHANGED <<inputs, table, builder>>
    BY <1>4 DEF Probe, StartTuple, Scan, SpawnProbers, ReleaseProbe, Collect,
                Terminated, vars
  <2>2. UNCHANGED <<r, idx, count, next, tuples, nxt, dest, obuf, pc>>
    BY <2>1 DEF inputs, table, builder
  <2>3. Untouched'
    BY <2>2 DEF Untouched
  <2>4. \A u \in Builders : InFlight(u)' <=> InFlight(u)
    BY <2>2 DEF InFlight
  <2> QED
    BY <2>2, <2>3, <2>4, SlotKept
<1> QED
  BY <1>1, <1>2, <1>3, <1>4, SlotMemset, SlotInspect, SlotUpdate, SlotStore
     DEF Next, Build, Main

(* Layer 3 as an invariant: every bucket in use was allocated once and has  *)
(* one bucket in front of it, and every slot is accounted for.             *)
THEOREM SlotInvariant == Spec => []SlotInv
  BY TypeInvariant, LatchInvariant, SlotInit, SlotNext, PTL DEF Spec

(* Reserving a slot under the latch and storing the tuple after unlocking  *)
(* never gives one slot to two tuples, never leaves a hole below a counter, *)
(* and never stores above it, with any number of threads and buckets       *)
(* (build_hashtable_nphj_sc, nphj.c:272-298).                              *)
THEOREM SlotsAccounted == Spec => []SlotAccounting
  BY SlotInvariant, PTL DEF SlotInv

-----------------------------------------------------------------------------
(***************************************************************************)
(* Layer 4: the probe threads.                                             *)
(***************************************************************************)

(* Layers 1 and 3 together say what a probe thread finds. *)
LEMMA ScanSound == TypeInv /\ SlotInv => ProbeReadsStored
<1> SUFFICES ASSUME TypeInv, SlotInv, NEW p \in Probers, ppc[p] = "scan"
             PROVE  /\ bkt[p] # NULL
                    /\ count[bkt[p]] # Garbage /\ next[bkt[p]] # Garbage
                    /\ \A k \in 0 .. count[bkt[p]] - 1 : tuples[<<bkt[p], k>>] # Empty
  BY DEF ProbeReadsStored
<1>1. bkt[p] \in Addr /\ Ready(bkt[p])
  BY DEF TypeInv, LoopBounds, Initialised
<1>2. \A t \in Builders : ~InFlight(t)
  BY DEF TypeInv, Initialised, InFlight
<1>3. ASSUME NEW k \in 0 .. count[bkt[p]] - 1
      PROVE  tuples[<<bkt[p], k>>] # Empty
  <2> DEFINE x == <<bkt[p], k>>
  <2>1. count[bkt[p]] \in 0 .. Capacity
    BY <1>1 DEF TypeInv, TypeOK, Ready
  <2>2. k \in 0 .. Capacity - 1 /\ k < count[bkt[p]]
    BY <1>3, <2>1, SizeAssumption
  <2>3. x \in Slots
    BY <1>1, <2>2 DEF Slots
  <2>4. Reserved(x)
    BY <1>1, <2>2 DEF Reserved, Ready
  <2> HIDE DEF x
  <2>5. Accounted(x)
    BY <2>3, AccountedEach DEF SlotInv
  <2>6. tuples[x] # Empty
    BY <1>2, <2>4, <2>5 DEF Accounted
  <2> QED
    BY <2>6 DEF x
<1> QED
  BY <1>1, <1>3, Addresses DEF Ready

(* The probe threads take no latch, and need none: they only look at       *)
(* initialised buckets and at slots whose tuple has been stored            *)
(* (probe_hashtable_nphj_sc, nphj.c:424-438).                              *)
THEOREM ProbesReadStored == Spec => []ProbeReadsStored
  BY TypeInvariant, SlotInvariant, ScanSound, PTL
-----------------------------------------------------------------------------
(* What the layers so far add up to.                                       *)
BaseInv == TypeInv /\ LatchInv /\ SlotInv

BucketNum == 0 .. NumBuckets - 1

(* The buckets w[0], ..., w[n] are chained behind head h, and are all.     *)
IsPath(h, n, w) ==
    /\ w[0] = HeadOf(h)
    /\ \A k \in 0 .. n - 1 : next[w[k]] = w[k + 1]
    /\ next[w[n]] = NULL
    /\ \A j, k \in 0 .. n : w[j] = w[k] => j = k

HasPath(h) == \E n \in Nat : \E w \in [0 .. n -> Addr] : IsPath(h, n, w)

Grounded == \A h \in BucketNum : next[HeadOf(h)] # Garbage => HasPath(h)

Unshared ==
    \A a, b \in Addr : next[a] \in Overflows /\ next[a] = next[b] => a = b

(* A head with an overflow bucket is full, and so is whatever has been     *)
(* pushed away from behind the head.                                       *)
FullBehind ==
    \A a \in Addr : next[a] \in Overflows =>
        /\ a \in Heads => count[a] = Capacity
        /\ a \in Overflows => count[next[a]] = Capacity

(* A thread about to link a new bucket in has found both of these full.    *)
FullFound ==
    \A t \in Builders : pc[t] = "update" /\ count[dest[t][1]] = Garbage =>
        /\ count[Curr(t)] = Capacity
        /\ nxt[t] \in Overflows => count[nxt[t]] = Capacity

ChainInv == Grounded /\ Unshared /\ FullBehind /\ FullFound

Home(t) == IdHash[r[idx[t]]]

Counters ==
    /\ \A t \in Builders :
        /\ ShareBegin(NR, BuildNum, t) <= idx[t] /\ idx[t] <= ShareEnd(NR, BuildNum, t)
        /\ pc[t] \in {"barrier3", "exit"} => idx[t] = ShareEnd(NR, BuildNum, t)
    /\ \A p \in Probers :
        /\ ShareBegin(NS, ProbeNum, p) <= sidx[p] /\ sidx[p] <= ShareEnd(NS, ProbeNum, p)
        /\ ppc[p] \in {"barrier", "exit"} => sidx[p] = ShareEnd(NS, ProbeNum, p)

(* In the table are the rows that the threads are through with, once each.  *)
Stocked ==
    /\ \A x \in Slots : tuples[x] # Empty =>
           \E t \in Builders : tuples[x] \in Share(NR, BuildNum, t) /\ tuples[x] < idx[t]
    /\ \A t \in Builders : \A i \in Share(NR, BuildNum, t) :
           i < idx[t] => \E x \in Slots : tuples[x] = i
    /\ \A x, y \in Slots : tuples[x] # Empty /\ tuples[y] = tuples[x] => x = y

(* A tuple is, or will be, on the chain of the bucket its key hashes to.   *)
Placed ==
    /\ \A t \in Builders : InFlight(t) => dest[t][1] \in Chain(Home(t))
    /\ \A x \in Slots : tuples[x] # Empty => x[1] \in Chain(IdHash[r[tuples[x]]])

RowInv == Counters /\ Stocked /\ Placed

(* The matching pairs of the S rows that prober p is through with, and of  *)
(* its present row those with a tuple in the buckets of B.                 *)
DonePairs(p) ==
    {q \in Matches(r, s) : q[2] \in Share(NS, ProbeNum, p) /\ q[2] < sidx[p]}
SeenPairs(p, B) ==
    {q \in Matches(r, s) : q[2] = sidx[p] /\ \E x \in Slots : x[1] \in B /\ tuples[x] = q[1]}

Hops == Cardinality(Overflows) + 1

(* The first k buckets of the chain of head h. *)
FirstOf(h, k) == {Hop(h)[m] : m \in 0 .. k - 1}

Goal(p) == IdHash[s[sidx[p]]]

(* Prober p stands at the k-th bucket of its chain, and has counted what   *)
(* is in the buckets before it.                                            *)
CountedTo(p, k) ==
    /\ bkt[p] = Hop(Goal(p))[k]
    /\ acc[p] = Tally(RowidBits, DonePairs(p) \cup SeenPairs(p, FirstOf(Goal(p), k)))

CountInv ==
    /\ DOMAIN acc = Probers
    /\ \A p \in Probers :
        /\ ppc[p] # "scan" => acc[p] = Tally(RowidBits, DonePairs(p))
        /\ ppc[p] = "scan" => \E k \in 0 .. Hops - 1 : CountedTo(p, k)
-----------------------------------------------------------------------------
(***************************************************************************)
(* Chains as paths.                                                        *)
(***************************************************************************)

(* There are finitely many overflow buckets. *)
LEMMA OverflowsFinite == IsFiniteSet(Overflows) /\ Cardinality(Overflows) \in Nat /\ Hops \in Nat
<1>1. IsFiniteSet(Builders) /\ IsFiniteSet(1 .. NR + 1) /\ IsFiniteSet(0 .. BufSize - 1)
  BY FS_Interval, SizeAssumption DEF Builders
<1>2. IsFiniteSet((1 .. NR + 1) \X (0 .. BufSize - 1))
  BY <1>1, FS_Product
<1>3. IsFiniteSet(Builders \X ((1 .. NR + 1) \X (0 .. BufSize - 1)))
  BY <1>1, <1>2, FS_Product
<1> DEFINE A == Builders \X ((1 .. NR + 1) \X (0 .. BufSize - 1))
           f == [x \in Overflows |-> <<x[1], <<x[2], x[3]>>>>]
<1>4. f \in Injection(Overflows, A)
  <2>1. f \in [Overflows -> A]
    BY DEF Overflows
  <2>2. \A x, y \in Overflows : f[x] = f[y] => x = y
    BY DEF Overflows
  <2> HIDE DEF f, A
  <2> QED BY <2>1, <2>2 DEF Injection, IsInjective
<1>5. IsFiniteSet(Overflows)
  <2> HIDE DEF f, A
  <2> QED BY <1>3, <1>4, FS_Injection DEF A
<1> QED BY <1>5, FS_CardinalityType DEF Hops

(* Behind the head of a path there are only overflow buckets.              *)
LEMMA PathTypes ==
    ASSUME TypeOK, NEW h \in BucketNum, NEW n \in Nat, NEW w \in [0 .. n -> Addr],
           IsPath(h, n, w)
    PROVE  /\ HeadOf(h) \in Heads /\ HeadOf(h) \in Addr
           /\ \A k \in 1 .. n : w[k] \in Overflows
           /\ next[HeadOf(h)] \in Overflows => n >= 1 /\ w[1] = next[HeadOf(h)]
<1>1. HeadOf(h) \in Heads /\ HeadOf(h) \in Addr
  BY Addresses DEF BucketNum
<1>2. ASSUME NEW k \in 1 .. n PROVE w[k] \in Overflows
  <2>1. k - 1 \in 0 .. n - 1 /\ k \in 0 .. n /\ k - 1 \in 0 .. n /\ (k - 1) + 1 = k
    OBVIOUS
  <2>2. next[w[k - 1]] = w[k]
    BY <2>1 DEF IsPath
  <2>3. w[k - 1] \in Addr /\ w[k] \in Addr
    BY <2>1
  <2>4. next[w[k - 1]] \in Overflows \cup {NULL, Garbage}
    BY <2>3 DEF TypeOK
  <2> QED BY <2>2, <2>3, <2>4, Addresses
<1>3. ASSUME next[HeadOf(h)] \in Overflows PROVE n >= 1 /\ w[1] = next[HeadOf(h)]
  <2>1. n # 0
    BY <1>3, Addresses DEF IsPath
  <2>2. 0 \in 0 .. n - 1 /\ 0 + 1 = 1
    BY <2>1
  <2> QED BY <2>2 DEF IsPath
<1> QED BY <1>1, <1>2, <1>3

(* A path is what Hop computes, and the chain is its buckets: as they are  *)
(* all different, the path cannot be longer than there are buckets.        *)
LEMMA PathIsHop ==
    ASSUME TypeOK, NEW h \in BucketNum, NEW n \in Nat, NEW w \in [0 .. n -> Addr],
           IsPath(h, n, w)
    PROVE  /\ n <= Hops - 1
           /\ \A k \in 0 .. Hops : Hop(h)[k] = IF k <= n THEN w[k] ELSE NULL
           /\ Chain(h) = {w[k] : k \in 0 .. n}
<1>1. n <= Hops - 1
  <2> DEFINE f == [k \in 1 .. n |-> w[k]]
  <2>1. f \in [1 .. n -> Overflows]
    BY PathTypes
  <2>2. \A j, k \in 1 .. n : f[j] = f[k] => j = k
    BY DEF IsPath
  <2>3. f \in Injection(1 .. n, Overflows)
    <3> HIDE DEF f
    <3> QED BY <2>1, <2>2 DEF Injection, IsInjective
  <2>4. Cardinality(1 .. n) <= Cardinality(Overflows)
    BY <2>3, OverflowsFinite, FS_Injection
  <2>5. Cardinality(1 .. n) = n
    BY FS_Interval
  <2> QED BY <2>4, <2>5, OverflowsFinite DEF Hops
<1>2. /\ DOMAIN Hop(h) = 0 .. Hops
      /\ Hop(h)[0] = HeadOf(h)
      /\ \A k \in 1 .. Hops : Hop(h)[k] = IF Hop(h)[k - 1] = NULL THEN NULL
                                          ELSE next[Hop(h)[k - 1]]
  BY FollowStep, OverflowsFinite DEF Hop, Hops
<1> DEFINE T == {k \in Nat : k <= Hops => Hop(h)[k] = IF k <= n THEN w[k] ELSE NULL}
<1>3. 0 \in T
  BY <1>2 DEF IsPath
<1>4. ASSUME NEW k \in Nat, k \in T PROVE k + 1 \in T
  <2> SUFFICES ASSUME k + 1 <= Hops
               PROVE  Hop(h)[k + 1] = IF k + 1 <= n THEN w[k + 1] ELSE NULL
    OBVIOUS
  <2>1. Hop(h)[k] = IF k <= n THEN w[k] ELSE NULL
    BY <1>4, OverflowsFinite
  <2>2. Hop(h)[k + 1] = IF Hop(h)[k] = NULL THEN NULL ELSE next[Hop(h)[k]]
    <3>1. k + 1 \in 1 .. Hops /\ (k + 1) - 1 = k
      BY OverflowsFinite
    <3> QED BY <1>2, <3>1
  <2>3. CASE k + 1 <= n
    <3>1. k \in 0 .. n - 1 /\ k \in 0 .. n /\ k <= n
      BY <2>3
    <3>2. w[k] \in Addr /\ next[w[k]] = w[k + 1]
      BY <3>1 DEF IsPath
    <3> QED BY <2>1, <2>2, <2>3, <3>1, <3>2, Addresses
  <2>4. CASE k = n
    <3>1. w[n] \in Addr /\ next[w[n]] = NULL
      BY DEF IsPath
    <3> QED BY <2>1, <2>2, <2>4, <3>1, Addresses
  <2>5. CASE k > n
    BY <2>1, <2>2, <2>5
  <2> QED BY <2>3, <2>4, <2>5
<1>5. Nat \subseteq T
  <2> HIDE DEF T
  <2> QED BY <1>3, <1>4, NatSetInduction
<1>6. \A k \in 0 .. Hops : Hop(h)[k] = IF k <= n THEN w[k] ELSE NULL
  <2> TAKE k \in 0 .. Hops
  <2>1. k \in Nat /\ k <= Hops
    BY OverflowsFinite
  <2> QED BY <1>5, <2>1
<1> HIDE DEF T
<1>7. Chain(h) = {w[k] : k \in 0 .. n}
  <2>1. Chain(h) = {Hop(h)[k] : k \in 0 .. Hops} \ {NULL}
    BY <1>2 DEF Chain, Range
  <2>2. \A k \in 0 .. n : k \in 0 .. Hops /\ Hop(h)[k] = w[k] /\ w[k] # NULL
    BY <1>1, <1>6, OverflowsFinite, Addresses
  <2>3. \A k \in 0 .. Hops : Hop(h)[k] # NULL => k \in 0 .. n /\ Hop(h)[k] = w[k]
    BY <1>6, OverflowsFinite
  <2> QED BY <2>1, <2>2, <2>3
<1> QED BY <1>1, <1>6, <1>7
-----------------------------------------------------------------------------
(***************************************************************************)
(* Layer 5: the chains.                                                    *)
(***************************************************************************)

(* What Update does, in terms of what Inspect has found.                   *)
LEMMA UpdateFacts ==
    ASSUME BaseInv, NEW t \in Builders, Update(t)
    PROVE  /\ pc[t] = "update" /\ Home(t) \in BucketNum /\ Curr(t) = HeadOf(Home(t))
           /\ Curr(t) \in Heads /\ Curr(t) \in Addr /\ Ready(Curr(t))
           /\ nxt[t] = next[Curr(t)] /\ nxt[t] \in Overflows \cup {NULL}
           /\ dest[t][1] \in Addr /\ dest[t][2] \in 0 .. Capacity - 1
           /\ \/ /\ dest[t][1] = Curr(t) \/ (dest[t][1] = nxt[t] /\ nxt[t] \in Overflows)
                 /\ dest[t][2] = count[dest[t][1]]
                 /\ count' = [count EXCEPT ![dest[t][1]] = dest[t][2] + 1]
                 /\ next' = next
              \/ /\ dest[t][1] \in Overflows /\ count[dest[t][1]] = Garbage
                 /\ dest[t][1] # Curr(t) /\ dest[t][1] # nxt[t]
                 /\ count' = [count EXCEPT ![dest[t][1]] = 1]
                 /\ next' = [next EXCEPT ![Curr(t)] = dest[t][1], ![dest[t][1]] = nxt[t]]
           /\ pc' = [pc EXCEPT ![t] = "unlock"]
           /\ UNCHANGED <<r, s, tuples, idx, nxt, dest, sidx, ppc, bkt, acc>>
<1> USE DEF BaseInv
<1> DEFINE c == Curr(t)
           b == dest[t][1]
           k == dest[t][2]
<1>1. /\ pc[t] = "update" /\ pc' = [pc EXCEPT ![t] = "unlock"]
      /\ \/ b \in {c, nxt[t]} /\ count' = [count EXCEPT ![b] = k + 1] /\ UNCHANGED next
         \/ /\ b \notin {c, nxt[t]}
            /\ count' = [count EXCEPT ![b] = 1]
            /\ next' = [next EXCEPT ![c] = b, ![b] = nxt[t]]
      /\ UNCHANGED <<r, s, tuples, idx, nxt, dest, sidx, ppc, bkt, acc>>
  BY DEF Update, inputs, prober
<1>2. idx[t] < ShareEnd(NR, BuildNum, t)
  BY <1>1 DEF TypeInv, LoopBounds, CriticalSection
<1>3. Home(t) \in BucketNum /\ c = HeadOf(Home(t)) /\ c \in Heads /\ c \in Addr
  BY <1>2, CurrIsHead, Addresses DEF TypeInv, Home, BucketNum
<1>4. Ready(c)
  <2>1. \A v \in Builders : pc[v] # "memset"
    BY <1>1, PhaseOfAll DEF TypeInv, Inserting, CriticalSection
  <2> QED BY <1>3, <2>1, HeadsReady DEF TypeInv, BucketNum
<1>5. nxt[t] = next[c]
  BY <1>1 DEF SlotInv, Reservation
<1>6. nxt[t] \in Overflows \cup {NULL} /\ (nxt[t] \in Overflows => Ready(nxt[t]))
  BY <1>1, <1>3, <1>4, <1>5 DEF TypeInv, TypeOK, Ready, Initialised
<1>7. dest[t] \in Slots /\ b \in Addr /\ k \in 0 .. Capacity - 1 /\ dest[t] = <<b, k>>
  BY <1>1 DEF TypeInv, LoopBounds, Slots
<1>8. \/ b = c /\ k = count[c]
      \/ b = nxt[t] /\ nxt[t] \in Overflows /\ k = count[nxt[t]]
      \/ b \in Overflows /\ count[b] = Garbage
  BY <1>1, <1>6 DEF SlotInv, Reservation
<1> HIDE DEF c, b, k
<1>9. CASE b \in Overflows /\ count[b] = Garbage
  <2>1. b # c /\ b # nxt[t]
    BY <1>3, <1>4, <1>6, <1>9, Addresses DEF Ready
  <2> QED BY <1>1, <1>3, <1>4, <1>5, <1>6, <1>7, <1>9, <2>1 DEF c, b, k
<1>10. CASE (b = c /\ k = count[c]) \/ (b = nxt[t] /\ nxt[t] \in Overflows /\ k = count[nxt[t]])
  BY <1>1, <1>3, <1>4, <1>5, <1>6, <1>7, <1>10 DEF c, b, k
<1> QED BY <1>8, <1>9, <1>10

(* When a thread zeroes its share, no bucket leads to another.             *)
LEMMA MemsetFacts ==
    ASSUME BaseInv, NEW t \in Builders, Memset(t)
    PROVE  /\ \A u \in Builders : pc[u] \in Zeroing /\ pc'[u] \in Zeroing
           /\ \A a \in Addr : next[a] \in {NULL, Garbage} /\ count[a] \in {0, Garbage}
           /\ \A a \in Addr : next'[a] \in {NULL, Garbage} /\ (next[a] = NULL => next'[a] = NULL)
           /\ \A x \in Slots : tuples[x] = Empty
           /\ UNCHANGED <<r, s, tuples, idx, nxt, dest, sidx, ppc, bkt, acc>>
<1>1. /\ pc[t] = "memset" /\ pc' = [pc EXCEPT ![t] = "barrier1"]
      /\ \A a \in Addr : next'[a] = next[a] \/ next'[a] = NULL
      /\ UNCHANGED <<r, s, tuples, idx, nxt, dest, sidx, ppc, bkt, acc>>
  BY DEF Memset, inputs, prober
<1>2. \A u \in Builders : pc[u] \in Zeroing /\ pc'[u] \in Zeroing
  BY <1>1, PhaseOfAll DEF BaseInv, TypeInv, Zeroing, TypeOK
<1>3. /\ \A a \in Addr : next[a] \in {NULL, Garbage} /\ count[a] \in {0, Garbage}
      /\ \A x \in Slots : tuples[x] = Empty
  BY <1>2 DEF BaseInv, SlotInv, Untouched
<1> QED BY <1>1, <1>2, <1>3

(* Every other step leaves the chains as they are. *)
LEMMA ChainsKept ==
    ASSUME [Next]_vars, \A t \in Builders : ~Memset(t) /\ ~Update(t)
    PROVE  UNCHANGED <<r, s, count, next>>
<1>1. ASSUME NEW t \in Builders, Build(t) PROVE UNCHANGED <<r, s, count, next>>
  BY <1>1 DEF Build, Timer, Lock, Inspect, Unlock, Store, FinishBuild, inputs, table
<1>2. ASSUME NEW p \in Probers, Probe(p) PROVE UNCHANGED <<r, s, count, next>>
  BY <1>2 DEF Probe, StartTuple, Scan, inputs, table
<1>3. ASSUME Main \/ Terminated \/ UNCHANGED vars PROVE UNCHANGED <<r, s, count, next>>
  BY <1>3 DEF Main, ReleaseBuild, SpawnProbers, ReleaseProbe, Collect, Terminated, vars,
              inputs, table
<1> QED BY <1>1, <1>2, <1>3 DEF Next

(* A bucket that is full stays full, one that is in use stays in use, and  *)
(* the relations stay.                                                     *)
LEMMA FullStays ==
    ASSUME BaseInv, [Next]_vars
    PROVE  /\ UNCHANGED <<r, s>>
           /\ \A a \in Addr : count[a] = Capacity => count'[a] = Capacity
           /\ \A a \in Addr : count'[a] = Garbage => count[a] = Garbage
           /\ \A a \in Addr : next'[a] = Garbage => next[a] = Garbage
<1>0. /\ count \in [Addr -> (0 .. Capacity) \cup {Garbage}]
      /\ next \in [Addr -> Overflows \cup {NULL, Garbage}]
      /\ Capacity \in Nat \ {0} /\ Garbage \notin Int
  BY SizeAssumption, MarkerAssumption DEF BaseInv, TypeInv, TypeOK
<1>1. ASSUME NEW t \in Builders, Memset(t)
      PROVE  /\ \A a \in Addr : count[a] # Capacity
             /\ \A a \in Addr : count'[a] = Garbage => count[a] = Garbage
             /\ \A a \in Addr : next'[a] = Garbage => next[a] = Garbage
             /\ UNCHANGED <<r, s>>
  <2>1. \A a \in Addr : count'[a] \in {count[a], 0} /\ next'[a] \in {next[a], NULL}
    BY <1>1 DEF Memset
  <2> QED BY <1>0, <1>1, <2>1, MemsetFacts, MarkerAssumption
<1>2. ASSUME NEW t \in Builders, Update(t)
      PROVE  /\ \A a \in Addr : count[a] = Capacity => count'[a] = Capacity
             /\ \A a \in Addr : count'[a] = Garbage => count[a] = Garbage
             /\ \A a \in Addr : next'[a] = Garbage => next[a] = Garbage
             /\ UNCHANGED <<r, s>>
  <2> DEFINE b == dest[t][1]
             k == dest[t][2]
  <2>1. /\ b \in Addr /\ k \in 0 .. Capacity - 1 /\ nxt[t] \in Overflows \cup {NULL}
        /\ Curr(t) \in Addr
        /\ \/ k = count[b] /\ count' = [count EXCEPT ![b] = k + 1] /\ next' = next
           \/ /\ count[b] = Garbage /\ count' = [count EXCEPT ![b] = 1]
              /\ next' = [next EXCEPT ![Curr(t)] = b, ![b] = nxt[t]]
        /\ UNCHANGED <<r, s>>
    BY <1>2, UpdateFacts
  <2>2. b # Garbage /\ nxt[t] # Garbage
    BY <2>1, Addresses, MarkerAssumption
  <2> HIDE DEF b, k
  <2> QED BY <1>0, <2>1, <2>2
<1> QED BY <1>1, <1>2, ChainsKept

(* A step leaves a path that has all buckets of the one before, and the    *)
(* bucket that an update is about to put a row into.                       *)
Grown(h, n, w) ==
    \E m \in Nat : \E v \in [0 .. m -> Addr] :
        /\ IsPath(h, m, v)'
        /\ \A k \in 0 .. n : \E j \in 0 .. m : v[j] = w[k]
        /\ \A t \in Builders : Update(t) /\ Home(t) = h =>
               \E j \in 0 .. m : v[j] = dest[t][1]

(* What becomes of the path of a chain: it stays, or grows by the bucket   *)
(* that has been linked in behind its head.                                *)
LEMMA PathNext ==
    ASSUME BaseInv, [Next]_vars, NEW h \in BucketNum, NEW n \in Nat,
           NEW w \in [0 .. n -> Addr], IsPath(h, n, w)
    PROVE  Grown(h, n, w)
<1> SUFFICES \E m \in Nat : \E v \in [0 .. m -> Addr] :
                /\ IsPath(h, m, v)'
                /\ \A k \in 0 .. n : \E j \in 0 .. m : v[j] = w[k]
                /\ \A t \in Builders : Update(t) /\ Home(t) = h =>
                       \E j \in 0 .. m : v[j] = dest[t][1]
  BY DEF Grown
<1>0. /\ TypeOK /\ next \in [Addr -> Overflows \cup {NULL, Garbage}]
      /\ \A k \in 0 .. n : w[k] \in Addr
      /\ w[0] = HeadOf(h) /\ HeadOf(h) \in Addr /\ HeadOf(h) \in Heads
      /\ \A k \in 1 .. n : w[k] \in Overflows
      /\ n \in 0 .. n /\ 0 \in 0 .. n
  <2>1. TypeOK /\ next \in [Addr -> Overflows \cup {NULL, Garbage}]
    BY DEF BaseInv, TypeInv, TypeOK
  <2>2. w[0] = HeadOf(h)
    BY DEF IsPath
  <2> QED BY <2>1, <2>2, PathTypes
<1>1. ASSUME \A k \in 0 .. n : next'[w[k]] = next[w[k]],
             \A t \in Builders : Update(t) /\ Home(t) = h =>
                    \E j \in 0 .. n : w[j] = dest[t][1]
      PROVE  \E m \in Nat : \E v \in [0 .. m -> Addr] :
             /\ IsPath(h, m, v)'
             /\ \A k \in 0 .. n : \E j \in 0 .. m : v[j] = w[k]
             /\ \A t \in Builders : Update(t) /\ Home(t) = h =>
                    \E j \in 0 .. m : v[j] = dest[t][1]
  <2>1. IsPath(h, n, w)'
    BY <1>1 DEF IsPath
  <2> QED BY <1>1, <2>1
<1>2. ASSUME NEW t \in Builders, Memset(t)
      PROVE  /\ \A k \in 0 .. n : next'[w[k]] = next[w[k]]
             /\ \A u \in Builders : ~Update(u)
  <2>1. n = 0
    <3>1. \A a \in Addr : next[a] \notin Addr
      BY <1>2, MemsetFacts, Addresses
    <3>2. ASSUME n # 0 PROVE FALSE
      <4>1. 0 \in 0 .. n - 1 /\ 0 + 1 \in 0 .. n
        BY <3>2
      <4>2. next[w[0]] = w[0 + 1]
        BY <4>1 DEF IsPath
      <4> QED BY <1>0, <3>1, <4>1, <4>2
    <3> QED BY <3>2
  <2>2. next[w[0]] = NULL
    BY <2>1 DEF IsPath
  <2>3. next'[w[0]] = NULL
    BY <1>0, <1>2, <2>2, MemsetFacts
  <2>4. \A u \in Builders : pc[u] # "update"
    BY <1>2, MemsetFacts DEF Zeroing
  <2> QED BY <2>1, <2>2, <2>3, <2>4 DEF Update
<1>3. ASSUME NEW t \in Builders, Update(t), next' = next
      PROVE  \A u \in Builders : Update(u) /\ Home(u) = h =>
                 \E j \in 0 .. n : w[j] = dest[u][1]
  <2> SUFFICES ASSUME NEW u \in Builders, Update(u), Home(u) = h
               PROVE  \E j \in 0 .. n : w[j] = dest[u][1]
    OBVIOUS
  <2>1. /\ Curr(u) = HeadOf(h) /\ nxt[u] = next[Curr(u)]
        /\ dest[u][1] = Curr(u) \/ (dest[u][1] = nxt[u] /\ nxt[u] \in Overflows)
    <3> DEFINE b == dest[u][1]
    <3>1. ~(b \in Overflows /\ b # Curr(u) /\ Curr(u) \in Addr /\ b # nxt[u]
            /\ nxt[u] = next[Curr(u)] /\ next' = [next EXCEPT ![Curr(u)] = b, ![b] = nxt[u]])
      <4> HIDE DEF b
      <4> QED BY <1>0, <1>3
    <3> QED BY <3>1, UpdateFacts
  <2>2. next[HeadOf(h)] \in Overflows => 1 \in 0 .. n /\ w[1] = next[HeadOf(h)]
    BY <1>0, PathTypes
  <2> QED BY <1>0, <2>1, <2>2
<1>4. ASSUME NEW t \in Builders, Update(t), next' # next
      PROVE  \E m \in Nat : \E v \in [0 .. m -> Addr] :
             /\ IsPath(h, m, v)'
             /\ \A k \in 0 .. n : \E j \in 0 .. m : v[j] = w[k]
             /\ \A u \in Builders : Update(u) /\ Home(u) = h =>
                    \E j \in 0 .. m : v[j] = dest[u][1]
  <2> DEFINE c == Curr(t)
             b == dest[t][1]
             x == nxt[t]
  <2>1. /\ c = HeadOf(Home(t)) /\ c \in Heads /\ c \in Addr /\ Home(t) \in BucketNum
        /\ x = next[c] /\ b \in Overflows /\ b \in Addr /\ b # c
        /\ count[b] = Garbage
        /\ next' = [next EXCEPT ![c] = b, ![b] = x]
    BY <1>4, UpdateFacts, Addresses
  <2>2. \A u \in Builders : Update(u) => u = t
    <3>1. pc'[t] = "unlock" /\ pc[t] = "update"
      BY <1>4, UpdateFacts DEF BaseInv, TypeInv, TypeOK
    <3>2. ASSUME NEW u \in Builders, Update(u), u # t PROVE FALSE
      <4>1. pc' = [pc EXCEPT ![u] = "unlock"]
        BY <3>2, UpdateFacts
      <4> QED BY <3>1, <3>2, <4>1 DEF BaseInv, TypeInv, TypeOK
    <3> QED BY <3>2
  <2> HIDE DEF c, b, x
  <2>3. \A k \in 0 .. n : w[k] # b
    <3>1. \A k \in 1 .. n : Ready(w[k])
      <4> TAKE k \in 1 .. n
      <4>1. k - 1 \in 0 .. n - 1 /\ k - 1 \in 0 .. n /\ (k - 1) + 1 = k
        OBVIOUS
      <4>2. next[w[k - 1]] = w[k]
        BY <4>1 DEF IsPath
      <4>3. w[k - 1] \in Addr /\ next[w[k - 1]] \in Overflows
        BY <1>0, <4>1, <4>2
      <4> QED BY <4>2, <4>3 DEF BaseInv, TypeInv, Initialised
    <3> QED BY <1>0, <2>1, <3>1, Addresses DEF Ready
  <2>4. \A a \in Addr : next'[a] = IF a = b THEN x ELSE IF a = c THEN b ELSE next[a]
    BY <1>0, <2>1
  <2>5. CASE Home(t) # h
    <3>1. \A k \in 0 .. n : w[k] # c
      BY <1>0, <2>1, <2>5, Addresses DEF BucketNum
    <3>2. \A k \in 0 .. n : next'[w[k]] = next[w[k]]
      BY <1>0, <2>3, <2>4, <3>1
    <3> QED BY <1>1, <2>2, <2>5, <3>2
  <2>6. CASE Home(t) = h
    <3> DEFINE m == n + 1
    <3>1. m \in Nat /\ 1 \in 0 .. m /\ 0 \in 0 .. m /\ c = w[0]
      BY <1>0, <2>1, <2>6
    <3>3. PICK v \in [0 .. m -> Addr] :
            v = [k \in 0 .. m |-> IF k = 0 THEN c ELSE IF k = 1 THEN b ELSE w[k - 1]]
      <4> DEFINE z == [k \in 0 .. m |-> IF k = 0 THEN c ELSE IF k = 1 THEN b ELSE w[k - 1]]
      <4>1. z \in [0 .. m -> Addr]
        BY <1>0, <2>1
      <4> QED BY <4>1
    <3>2. /\ v[0] = c /\ v[1] = b
          /\ \A k \in 2 .. m : v[k] = w[k - 1] /\ k - 1 \in 1 .. n
      BY <3>1, <3>3
    <3>4. ASSUME NEW k \in 0 .. m - 1 PROVE next'[v[k]] = v[k + 1]
      <4>1. CASE k = 0
        <5>1. next'[c] = b
          BY <2>1, <2>4
        <5>2. k + 1 = 1
          BY <4>1
        <5> QED BY <3>2, <4>1, <5>1, <5>2
      <4>2. CASE k = 1
        <5>1. next'[b] = x /\ x = next[w[0]]
          BY <2>1, <2>4, <3>1
        <5>2. 0 \in 0 .. n - 1 /\ 0 + 1 = 1
          BY <4>2
        <5>3. next[w[0]] = w[1]
          BY <5>2 DEF IsPath
        <5>4. v[2] = w[1]
          BY <3>2, <4>2
        <5> QED BY <3>2, <4>2, <5>1, <5>3, <5>4
      <4>3. CASE k >= 2
        <5>1. k \in 2 .. m /\ k + 1 \in 2 .. m /\ (k + 1) - 1 = (k - 1) + 1 /\ k - 1 \in 0 .. n - 1
              /\ k - 1 \in 1 .. n
          BY <4>3
        <5>2. v[k] = w[k - 1] /\ v[k + 1] = w[(k - 1) + 1] /\ next[w[k - 1]] = w[(k - 1) + 1]
          BY <3>2, <5>1 DEF IsPath
        <5>3. w[k - 1] \in Overflows /\ w[k - 1] # b /\ w[k - 1] # c
          BY <1>0, <2>1, <2>3, <5>1, Addresses
        <5> QED BY <1>0, <2>4, <5>1, <5>2, <5>3
      <4> QED BY <4>1, <4>2, <4>3
    <3>5. next'[v[m]] = NULL
      <4>1. next[w[n]] = NULL
        BY DEF IsPath
      <4>2. CASE n = 0
        <5>1. next'[b] = x /\ x = next[w[0]]
          BY <2>1, <2>4, <3>1
        <5>2. m = 1
          BY <4>2
        <5> QED BY <3>2, <4>1, <4>2, <5>1, <5>2
      <4>3. CASE n # 0
        <5>1. m \in 2 .. m /\ m - 1 = n /\ n \in 1 .. n
          BY <4>3
        <5>2. v[m] = w[n] /\ w[n] # b /\ w[n] # c /\ w[n] \in Addr
          BY <1>0, <2>1, <2>3, <3>2, <5>1, Addresses
        <5> QED BY <2>4, <4>1, <5>2
      <4> QED BY <4>2, <4>3
    <3>6. ASSUME NEW j \in 0 .. m, NEW k \in 0 .. m, v[j] = v[k] PROVE j = k
      <4>1. \A i \in 2 .. m : v[i] # c /\ v[i] # b
        BY <1>0, <2>1, <2>3, <3>2, Addresses
      <4>2. \A i, l \in 2 .. m : v[i] = v[l] => i = l
        <5> SUFFICES ASSUME NEW i \in 2 .. m, NEW l \in 2 .. m, v[i] = v[l] PROVE i = l
          OBVIOUS
        <5>1. w[i - 1] = w[l - 1] /\ i - 1 \in 0 .. n /\ l - 1 \in 0 .. n
          BY <3>2
        <5>2. i - 1 = l - 1
          BY <5>1 DEF IsPath
        <5> QED BY <5>2
      <4> QED BY <2>1, <3>2, <3>6, <4>1, <4>2
    <3>7. IsPath(h, m, v)'
      BY <2>1, <2>6, <3>2, <3>4, <3>5, <3>6 DEF IsPath
    <3>8. \A k \in 0 .. n : \E j \in 0 .. m : v[j] = w[k]
      <4> TAKE k \in 0 .. n
      <4>1. CASE k = 0
        BY <3>1, <3>2, <4>1
      <4>2. CASE k # 0
        <5>1. k + 1 \in 2 .. m /\ (k + 1) - 1 = k /\ k + 1 \in 0 .. m
          BY <4>2
        <5> QED BY <3>2, <5>1
      <4> QED BY <4>1, <4>2
    <3>9. \A u \in Builders : Update(u) /\ Home(u) = h => \E j \in 0 .. m : v[j] = dest[u][1]
      BY <2>2, <3>1, <3>2 DEF b
    <3> HIDE DEF m
    <3> QED BY <3>1, <3>7, <3>8, <3>9
  <2> QED BY <2>5, <2>6
<1>5. ASSUME \A t \in Builders : ~Memset(t) /\ ~Update(t)
      PROVE  \A k \in 0 .. n : next'[w[k]] = next[w[k]]
  BY <1>5, ChainsKept
<1> QED BY <1>1, <1>2, <1>3, <1>4, <1>5

(* Nothing is chained to begin with. *)
LEMMA ChainInit == Init => ChainInv
<1> SUFFICES ASSUME Init PROVE ChainInv
  OBVIOUS
<1>1. \A a \in Addr : next[a] = Garbage
  BY DEF Init
<1>2. Garbage \notin Overflows /\ \A h \in BucketNum : HeadOf(h) \in Addr
  BY Addresses DEF BucketNum
<1>3. FullFound
  BY DEF Init, FullFound
<1> QED BY <1>1, <1>2, <1>3 DEF ChainInv, Grounded, Unshared, FullBehind

(* Every step keeps the chains in order. *)
LEMMA ChainNext ==
    ASSUME BaseInv, ChainInv, [Next]_vars
    PROVE  ChainInv'
<1>0. /\ TypeOK /\ next \in [Addr -> Overflows \cup {NULL, Garbage}]
      /\ count \in [Addr -> (0 .. Capacity) \cup {Garbage}]
      /\ Heads \subseteq Addr /\ Overflows \subseteq Addr /\ Heads \cap Overflows = {}
      /\ NULL \notin Addr /\ Garbage \notin Addr
  BY Addresses DEF BaseInv, TypeInv, TypeOK
<1>1. Grounded'
  <2> SUFFICES ASSUME NEW h \in BucketNum, next'[HeadOf(h)] # Garbage
               PROVE  HasPath(h)'
    BY DEF Grounded
  <2>1. HeadOf(h) \in Addr /\ HeadOf(h) \in Heads
    BY Addresses DEF BucketNum
  <2>2. CASE next[HeadOf(h)] # Garbage
    <3>1a. PICK n \in Nat : \E w \in [0 .. n -> Addr] : IsPath(h, n, w)
      BY <2>2 DEF ChainInv, Grounded, HasPath
    <3>1. PICK w \in [0 .. n -> Addr] : IsPath(h, n, w)
      BY <3>1a
    <3>2b. Grown(h, n, w)
      BY <3>1, PathNext, Zenon
    <3>2a. PICK m \in Nat : \E v \in [0 .. m -> Addr] : IsPath(h, m, v)'
      BY <3>2b DEF Grown
    <3>2. PICK v \in [0 .. m -> Addr] : IsPath(h, m, v)'
      BY <3>2a
    <3> QED BY <3>2 DEF HasPath
  <2>3. CASE next[HeadOf(h)] = Garbage
    <3>1. next'[HeadOf(h)] = NULL
      <4>1. ASSUME NEW t \in Builders, Update(t) PROVE next'[HeadOf(h)] = next[HeadOf(h)]
        <5>1. /\ Curr(t) \in Heads /\ Ready(Curr(t)) /\ Curr(t) # HeadOf(h)
              /\ dest[t][1] # HeadOf(h) \/ next' = next
              /\ \/ next' = next
                 \/ next' = [next EXCEPT ![Curr(t)] = dest[t][1], ![dest[t][1]] = nxt[t]]
          BY <1>0, <2>1, <2>3, <4>1, UpdateFacts DEF Ready
        <5> QED BY <1>0, <2>1, <5>1
      <4>2. ASSUME NEW t \in Builders, Memset(t) PROVE next'[HeadOf(h)] = NULL
        BY <2>1, <4>2, MemsetFacts
      <4> QED BY <2>3, <4>1, <4>2, ChainsKept
    <3> DEFINE w == [k \in 0 .. 0 |-> HeadOf(h)]
    <3>2. w \in [0 .. 0 -> Addr] /\ w[0] = HeadOf(h)
      BY <2>1
    <3>3. IsPath(h, 0, w)'
      BY <3>1 DEF IsPath, HeadOf
    <3> HIDE DEF w
    <3>4. \E v \in [0 .. 0 -> Addr] : IsPath(h, 0, v)'
      BY <3>2, <3>3 DEF w, HeadOf
    <3> QED BY <3>4 DEF HasPath
  <2> QED BY <2>2, <2>3
<1>2. ASSUME NEW t \in Builders, Memset(t) PROVE Unshared' /\ FullBehind' /\ FullFound'
  <2>1. \A a \in Addr : next'[a] \notin Overflows
    BY <1>0, <1>2, MemsetFacts
  <2>2. \A u \in Builders : pc'[u] # "update"
    BY <1>2, MemsetFacts DEF Zeroing
  <2> QED BY <2>1, <2>2 DEF Unshared, FullBehind, FullFound
<1>3. ASSUME NEW t \in Builders, Update(t) PROVE Unshared' /\ FullBehind'
  <2> DEFINE c == Curr(t)
             b == dest[t][1]
             x == nxt[t]
  <2>1. CASE next' = next
    BY <1>0, <2>1, FullStays DEF ChainInv, Unshared, FullBehind
  <2>2. CASE next' # next
    <3>1. /\ c \in Heads /\ c \in Addr /\ x = next[c] /\ x \in Overflows \cup {NULL}
          /\ b \in Overflows /\ b \in Addr /\ b # c /\ b # x /\ count[b] = Garbage
          /\ count' = [count EXCEPT ![b] = 1]
          /\ next' = [next EXCEPT ![c] = b, ![b] = x]
      BY <1>0, <1>3, <2>2, UpdateFacts
    <3>2. count[c] = Capacity /\ (x \in Overflows => count[x] = Capacity)
      <4>1. pc[t] = "update"
        BY <1>3, UpdateFacts
      <4> QED BY <3>1, <4>1 DEF ChainInv, FullFound
    <3>3. \A a \in Addr : next[a] # b
      BY <3>1 DEF BaseInv, TypeInv, Initialised, Ready
    <3> HIDE DEF c, b, x
    <3>4. \A a \in Addr : next'[a] = IF a = b THEN x ELSE IF a = c THEN b ELSE next[a]
      BY <1>0, <3>1
    <3>5. Unshared'
      <4> SUFFICES ASSUME NEW a \in Addr, NEW d \in Addr, next'[a] \in Overflows,
                          next'[a] = next'[d]
                   PROVE  a = d
        BY DEF Unshared
      <4> QED BY <1>0, <3>1, <3>3, <3>4 DEF ChainInv, Unshared
    <3>6. FullBehind'
      <4> SUFFICES ASSUME NEW a \in Addr, next'[a] \in Overflows
                   PROVE  /\ a \in Heads => count'[a] = Capacity
                          /\ a \in Overflows => count'[next'[a]] = Capacity
        BY DEF FullBehind
      <4>1. \A d \in Addr : count[d] = Capacity => count'[d] = Capacity
        BY FullStays
      <4>2. CASE a = b
        BY <1>0, <3>1, <3>2, <3>4, <4>1, <4>2
      <4>3. CASE a = c
        BY <1>0, <3>1, <3>2, <4>1, <4>3
      <4>4. CASE a # b /\ a # c
        <5>1. next'[a] = next[a] /\ next[a] \in Addr
          BY <1>0, <3>4, <4>4
        <5> QED BY <4>1, <5>1 DEF ChainInv, FullBehind
      <4> QED BY <4>2, <4>3, <4>4
    <3> QED BY <3>5, <3>6
  <2> QED BY <2>1, <2>2
<1>4. ASSUME \A t \in Builders : ~Memset(t) /\ ~Update(t) PROVE Unshared' /\ FullBehind'
  BY <1>4, ChainsKept DEF ChainInv, Unshared, FullBehind
<1>5. ASSUME \A t \in Builders : ~Memset(t) PROVE FullFound'
  <2> SUFFICES ASSUME NEW u \in Builders, pc'[u] = "update", count'[dest'[u][1]] = Garbage
               PROVE  /\ count'[Curr(u)'] = Capacity
                      /\ nxt'[u] \in Overflows => count'[nxt'[u]] = Capacity
    BY DEF FullFound
  <2>1. \/ Inspect(u)
        \/ /\ pc[u] = "update" /\ dest'[u] = dest[u] /\ nxt'[u] = nxt[u]
           /\ idx'[u] = idx[u] /\ r' = r
    <3>0. pc \in [Builders -> BuildPC] /\ dest \in [Builders -> Slots \cup {NULL}]
          /\ nxt \in [Builders -> Overflows \cup {NULL, Garbage}] /\ idx \in [Builders -> 0 .. NR]
      BY <1>0 DEF TypeOK
    <3>1. ASSUME NEW t \in Builders, Build(t), ~Inspect(u)
          PROVE  pc[u] = "update" /\ dest'[u] = dest[u] /\ nxt'[u] = nxt[u] /\ idx'[u] = idx[u]
      <4>1. CASE t = u
        BY <1>5, <3>0, <3>1, <4>1 DEF Build, Timer, Lock, Update, Unlock, Store, FinishBuild
      <4>2. CASE t # u
        BY <1>5, <3>0, <3>1, <4>2 DEF Build, Timer, Lock, Inspect, Update, Unlock, Store,
                                      FinishBuild
      <4> QED BY <4>1, <4>2
    <3>2. CASE ReleaseBuild
      BY <3>2 DEF ReleaseBuild, AfterBarrier
    <3>3. ASSUME NEW p \in Probers, Probe(p)
          PROVE  pc[u] = "update" /\ dest'[u] = dest[u] /\ nxt'[u] = nxt[u] /\ idx'[u] = idx[u]
      BY <3>3 DEF Probe, StartTuple, Scan, builder
    <3>4. ASSUME SpawnProbers \/ ReleaseProbe \/ Collect \/ Terminated \/ UNCHANGED vars
          PROVE  pc[u] = "update" /\ dest'[u] = dest[u] /\ nxt'[u] = nxt[u] /\ idx'[u] = idx[u]
      BY <3>4 DEF SpawnProbers, ReleaseProbe, Collect, Terminated, vars, builder
    <3> QED BY <3>1, <3>2, <3>3, <3>4, FullStays DEF Next, Main
  <2>2. CASE /\ pc[u] = "update" /\ dest'[u] = dest[u] /\ nxt'[u] = nxt[u]
             /\ idx'[u] = idx[u] /\ r' = r
    <3>1. dest[u][1] \in Addr
      BY <2>2 DEF BaseInv, TypeInv, LoopBounds, Slots
    <3>2. Curr(u)' = Curr(u) /\ Curr(u) \in Addr
      <4>1. idx[u] < ShareEnd(NR, BuildNum, u)
        BY <2>2 DEF BaseInv, TypeInv, LoopBounds, CriticalSection
      <4>2. Curr(u) \in Heads
        BY <1>0, <4>1, CurrIsHead
      <4> QED BY <1>0, <2>2, <4>2 DEF Curr
    <3>3. /\ count[Curr(u)] = Capacity
          /\ nxt[u] \in Overflows => count[nxt[u]] = Capacity
      BY <2>2, <3>1, FullStays DEF ChainInv, FullFound
    <3> QED BY <1>0, <2>2, <3>2, <3>3, FullStays
  <2>3. CASE Inspect(u)
    <3> DEFINE c == Curr(u)
               n == next[c]
    <3>1. /\ pc[u] = "inspect" /\ nxt'[u] = n
          /\ \/ HasRoom(c) /\ dest'[u] = <<c, count[c]>>
             \/ HasRoom(n) /\ dest'[u] = <<n, count[n]>>
             \/ ~HasRoom(c) /\ ~HasRoom(n)
          /\ UNCHANGED <<r, idx, count>>
      BY <1>0, <2>3 DEF Inspect, inputs, table, TypeOK
    <3>2. c \in Heads /\ c \in Addr /\ Ready(c)
      <4>1. idx[u] < ShareEnd(NR, BuildNum, u)
        BY <3>1 DEF BaseInv, TypeInv, LoopBounds, CriticalSection
      <4>2. \A v \in Builders : pc[v] # "memset"
        BY <3>1, PhaseOfAll DEF BaseInv, TypeInv, Inserting, CriticalSection
      <4>3. IdHash[r[idx[u]]] \in 0 .. NumBuckets - 1 /\ c = HeadOf(IdHash[r[idx[u]]]) /\ c \in Heads
        BY <1>0, <4>1, CurrIsHead
      <4>4. Ready(HeadOf(IdHash[r[idx[u]]]))
        BY <4>2, <4>3, HeadsReady DEF BaseInv, TypeInv
      <4> QED BY <1>0, <4>3, <4>4
    <3>3. n \in Overflows \cup {NULL} /\ (n \in Overflows => Ready(n))
      BY <1>0, <3>2 DEF Ready, BaseInv, TypeInv, Initialised
    <3>4. Curr(u)' = c
      BY <3>1 DEF Curr
    <3> HIDE DEF c, n
    <3>5. ~HasRoom(c) /\ ~HasRoom(n)
      BY <3>1, <3>2, <3>3 DEF HasRoom, Ready
    <3> QED BY <1>0, <3>1, <3>2, <3>3, <3>4, <3>5 DEF HasRoom
  <2> QED BY <2>1, <2>2, <2>3
<1> QED BY <1>1, <1>2, <1>3, <1>4, <1>5 DEF ChainInv

(* Layer 5 as an invariant: every chain is a path that ends, no two chains *)
(* share a bucket, and there is room in the head or behind it only.        *)
THEOREM ChainInvariant == Spec => []ChainInv
<1>1. BaseInv /\ ChainInv /\ [Next]_vars => ChainInv'
  BY ChainNext
<1> QED
  BY <1>1, ChainInit, TypeInvariant, LatchInvariant, SlotInvariant, PTL DEF Spec, BaseInv

(* The buckets of different chains are different. *)
LEMMA PathsApart ==
    ASSUME TypeOK, Unshared, NEW g \in BucketNum, NEW h \in BucketNum, g # h,
           NEW m \in Nat, NEW v \in [0 .. m -> Addr], IsPath(g, m, v),
           NEW n \in Nat, NEW w \in [0 .. n -> Addr], IsPath(h, n, w)
    PROVE  \A j \in 0 .. m : \A k \in 0 .. n : v[j] # w[k]
<1>0. /\ v[0] \in Heads /\ w[0] \in Heads /\ v[0] # w[0]
      /\ \A j \in 1 .. m : v[j] \in Overflows
      /\ \A k \in 1 .. n : w[k] \in Overflows
      /\ Heads \cap Overflows = {}
  <2>1. v[0] = HeadOf(g) /\ w[0] = HeadOf(h)
    BY DEF IsPath
  <2> QED BY <2>1, PathTypes, Addresses DEF BucketNum
<1> DEFINE T == {j \in Nat : j <= m => \A k \in 0 .. n : v[j] # w[k]}
<1>1. 0 \in T
  BY <1>0
<1>2. ASSUME NEW j \in Nat, j \in T PROVE j + 1 \in T
  <2> SUFFICES ASSUME j + 1 <= m, NEW k \in 0 .. n, v[j + 1] = w[k] PROVE FALSE
    OBVIOUS
  <2>1. j + 1 \in 1 .. m /\ j \in 0 .. m - 1 /\ j \in 0 .. m
    OBVIOUS
  <2>2. k # 0 /\ v[j + 1] \in Overflows
    BY <1>0, <2>1
  <2>3. k - 1 \in 0 .. n - 1 /\ k - 1 \in 0 .. n /\ (k - 1) + 1 = k
    BY <2>2
  <2>4. next[v[j]] = v[j + 1] /\ next[w[k - 1]] = w[k]
    BY <2>1, <2>3 DEF IsPath
  <2>5. v[j] \in Addr /\ w[k - 1] \in Addr
    BY <2>1, <2>3
  <2>6. v[j] = w[k - 1]
    BY <2>2, <2>4, <2>5 DEF Unshared
  <2>7. \A i \in 0 .. n : v[j] # w[i]
    BY <1>2, <2>1
  <2> QED BY <2>3, <2>6, <2>7
<1>3. Nat \subseteq T
  <2> HIDE DEF T
  <2> QED BY <1>1, <1>2, NatSetInduction
<1> QED
  <2> TAKE j \in 0 .. m
  <2>1. j \in Nat /\ j <= m
    OBVIOUS
  <2> QED BY <1>3, <2>1

(* Layer 5 says what the chains look like.                                 *)
LEMMA ChainsSound ==
    ASSUME BaseInv, ChainInv
    PROVE  ChainShape
<1> SUFFICES ASSUME \A t \in Builders : pc[t] \in {"next", "store", "barrier3", "exit"},
                    NEW h \in BucketNum
             PROVE  /\ Hop(h)[Hops] = NULL
                    /\ \A b \in Chain(h) :
                           (b = HeadOf(h) /\ next[b] = NULL) \/ b = next[HeadOf(h)]
                               \/ count[b] = Capacity
                    /\ \A g \in BucketNum : g # h => Chain(g) \cap Chain(h) = {}
  BY DEF ChainShape, Hops, BucketNum
<1>0. TypeOK /\ Unshared /\ FullBehind
  BY DEF BaseInv, TypeInv, ChainInv
<1>1. ASSUME NEW g \in BucketNum PROVE HasPath(g)
  <2>1. Ready(HeadOf(g))
    BY HeadsReady DEF BaseInv, TypeInv, BucketNum
  <2> QED BY <2>1 DEF Ready, ChainInv, Grounded
<1>2a. PICK n \in Nat : \E w \in [0 .. n -> Addr] : IsPath(h, n, w)
  BY <1>1 DEF HasPath
<1>2. PICK w \in [0 .. n -> Addr] : IsPath(h, n, w)
  BY <1>2a
<1>3. /\ n <= Hops - 1 /\ Hops \in Nat
      /\ \A k \in 0 .. Hops : Hop(h)[k] = IF k <= n THEN w[k] ELSE NULL
      /\ Chain(h) = {w[k] : k \in 0 .. n}
  BY <1>0, <1>2, PathIsHop, OverflowsFinite
<1>4. ASSUME NEW k \in 0 .. n
      PROVE  \/ w[k] = HeadOf(h) /\ next[w[k]] = NULL
             \/ w[k] = next[HeadOf(h)]
             \/ count[w[k]] = Capacity
  <2>0. /\ w[0] = HeadOf(h) /\ HeadOf(h) \in Addr /\ HeadOf(h) \in Heads
        /\ \A j \in 1 .. n : w[j] \in Overflows
    BY <1>0, <1>2, PathTypes DEF IsPath
  <2>1. CASE k = 0
    <3>1. next[HeadOf(h)] \in Overflows \/ next[HeadOf(h)] = NULL
      <4>1. Ready(HeadOf(h))
        BY HeadsReady DEF BaseInv, TypeInv, BucketNum
      <4> QED BY <1>0, <2>0, <4>1 DEF Ready, TypeOK
    <3> QED BY <1>0, <2>0, <2>1, <3>1 DEF FullBehind
  <2>2. CASE k = 1
    <3>1. 0 \in 0 .. n - 1 /\ 0 + 1 = 1
      BY <2>2
    <3> QED BY <1>2, <2>0, <2>2, <3>1 DEF IsPath
  <2>3. CASE k >= 2
    <3>1. k - 1 \in 0 .. n - 1 /\ (k - 1) + 1 = k /\ k \in 1 .. n /\ k - 1 \in 1 .. n
      BY <2>3
    <3>2. next[w[k - 1]] = w[k] /\ w[k] \in Overflows /\ w[k - 1] \in Overflows
      BY <1>2, <2>0, <3>1 DEF IsPath
    <3> QED BY <1>0, <3>2, Addresses DEF FullBehind
  <2> QED BY <2>1, <2>2, <2>3
<1>5. ASSUME NEW g \in BucketNum, g # h PROVE Chain(g) \cap Chain(h) = {}
  <2>1a. PICK m \in Nat : \E v \in [0 .. m -> Addr] : IsPath(g, m, v)
    BY <1>1 DEF HasPath
  <2>1. PICK v \in [0 .. m -> Addr] : IsPath(g, m, v)
    BY <2>1a
  <2>2. Chain(g) = {v[k] : k \in 0 .. m}
    BY <1>0, <2>1, PathIsHop
  <2>3. \A j \in 0 .. m : \A k \in 0 .. n : v[j] # w[k]
    BY <1>0, <1>2, <1>5, <2>1, PathsApart
  <2> QED BY <1>3, <2>2, <2>3
<1>6. Hop(h)[Hops] = NULL
  BY <1>3
<1> QED BY <1>3, <1>4, <1>5, <1>6

(* Linking a new bucket in right behind the head keeps every chain finite, *)
(* apart from the others, and full but for its head or its first overflow  *)
(* bucket, with any number of threads inserting at the same time           *)
(* (build_hashtable_nphj_sc, nphj.c:278-293).                              *)
THEOREM ChainsShaped == Spec => []ChainShape
<1>1. BaseInv /\ ChainInv => ChainShape
  BY ChainsSound
<1> QED
  BY <1>1, TypeInvariant, LatchInvariant, SlotInvariant, ChainInvariant, PTL DEF BaseInv
-----------------------------------------------------------------------------
(***************************************************************************)
(* Layer 6: the rows in the table.                                         *)
(***************************************************************************)

(* The chain of a head is its path.                                        *)
LEMMA ChainIsPath ==
    TypeOK => \A h \in BucketNum : \A n \in Nat : \A w \in [0 .. n -> Addr] :
                  IsPath(h, n, w) => Chain(h) = {w[k] : k \in 0 .. n}
  BY PathIsHop

(* The same of the next state.                                             *)
LEMMA ChainIsPathNext ==
    TypeOK' => (\A h \in BucketNum : \A n \in Nat : \A w \in [0 .. n -> Addr] :
                  IsPath(h, n, w) => Chain(h) = {w[k] : k \in 0 .. n})'
  BY ChainIsPath, PTL

(* No bucket leaves its chain, and an update ends with its bucket on the   *)
(* chain of its row.                                                       *)
LEMMA ChainGrows ==
    ASSUME BaseInv, ChainInv, [Next]_vars, NEW h \in BucketNum, next[HeadOf(h)] # Garbage
    PROVE  /\ \A b \in Chain(h) : b \in Chain(h)'
           /\ \A t \in Builders : Update(t) /\ Home(t) = h => dest[t][1] \in Chain(h)'
<1>1. PICK n \in Nat : \E w \in [0 .. n -> Addr] : IsPath(h, n, w)
  BY DEF ChainInv, Grounded, HasPath
<1>2. PICK w \in [0 .. n -> Addr] : IsPath(h, n, w)
  BY <1>1
<1>3. Chain(h) = {w[k] : k \in 0 .. n}
  BY <1>2, ChainIsPath DEF BaseInv, TypeInv
<1>4a. Grown(h, n, w)
  BY <1>2, PathNext, Zenon
<1>4. PICK m \in Nat : \E v \in [0 .. m -> Addr] :
         /\ IsPath(h, m, v)'
         /\ \A k \in 0 .. n : \E j \in 0 .. m : v[j] = w[k]
         /\ \A t \in Builders : Update(t) /\ Home(t) = h => \E j \in 0 .. m : v[j] = dest[t][1]
  BY <1>4a DEF Grown
<1>5. PICK v \in [0 .. m -> Addr] :
         /\ IsPath(h, m, v)'
         /\ \A k \in 0 .. n : \E j \in 0 .. m : v[j] = w[k]
         /\ \A t \in Builders : Update(t) /\ Home(t) = h => \E j \in 0 .. m : v[j] = dest[t][1]
  BY <1>4
<1>6. TypeOK'
  BY TypeNext DEF BaseInv, TypeInv
<1>7. Chain(h)' = {v[k] : k \in 0 .. m}
  BY <1>5, <1>6, ChainIsPathNext
<1> QED BY <1>3, <1>5, <1>7

(* The table is empty and the counters are at their beginning to begin with. *)
LEMMA RowInit == Init => RowInv
<1> SUFFICES ASSUME Init PROVE RowInv
  OBVIOUS
<1>1. \A t \in Builders : /\ ShareBegin(NR, BuildNum, t) \in Nat
                          /\ ShareEnd(NR, BuildNum, t) \in Nat
                          /\ ShareBegin(NR, BuildNum, t) <= ShareEnd(NR, BuildNum, t)
                          /\ idx[t] = ShareBegin(NR, BuildNum, t)
                          /\ pc[t] = "memset"
  <2>1. \A t \in Builders : idx[t] = ShareBegin(NR, BuildNum, t) /\ pc[t] = "memset"
    BY DEF Init
  <2> QED BY <2>1, ShareInRange, SizeAssumption DEF Builders
<1>2. \A p \in Probers : /\ ShareBegin(NS, ProbeNum, p) \in Nat
                         /\ ShareEnd(NS, ProbeNum, p) \in Nat
                         /\ ShareBegin(NS, ProbeNum, p) <= ShareEnd(NS, ProbeNum, p)
                         /\ sidx[p] = ShareBegin(NS, ProbeNum, p)
                         /\ ppc[p] = "idle"
  <2>1. \A p \in Probers : sidx[p] = ShareBegin(NS, ProbeNum, p) /\ ppc[p] = "idle"
    BY DEF Init
  <2> QED BY <2>1, ShareInRange, SizeAssumption DEF Probers
<1>3. Counters
  BY <1>1, <1>2 DEF Counters
<1>4. \A x \in Slots : tuples[x] = Empty
  BY DEF Init
<1>5. ASSUME NEW t \in Builders, NEW i \in Share(NR, BuildNum, t), i < idx[t] PROVE FALSE
  BY <1>1, <1>5 DEF Share
<1>6. Stocked
  BY <1>4, <1>5 DEF Stocked
<1>7. Placed
  BY <1>1, <1>4 DEF Placed, InFlight
<1> QED BY <1>3, <1>6, <1>7 DEF RowInv

(* Every step keeps the counters within the shares. *)
LEMMA CountersNext ==
    ASSUME BaseInv, Counters, [Next]_vars
    PROVE  Counters'
<1>0. /\ pc \in [Builders -> BuildPC] /\ idx \in [Builders -> 0 .. NR]
      /\ ppc \in [Probers -> ProbePC] /\ sidx \in [Probers -> 0 .. NS]
  BY DEF BaseInv, TypeInv, TypeOK
<1>1. \A t \in Builders : ShareBegin(NR, BuildNum, t) \in Nat /\ ShareEnd(NR, BuildNum, t) \in Nat
  BY ShareInRange, SizeAssumption DEF Builders
<1>2. \A p \in Probers : ShareBegin(NS, ProbeNum, p) \in Nat /\ ShareEnd(NS, ProbeNum, p) \in Nat
  BY ShareInRange, SizeAssumption DEF Probers
<1>3. ASSUME NEW t \in Builders
      PROVE  /\ ShareBegin(NR, BuildNum, t) <= idx'[t] /\ idx'[t] <= ShareEnd(NR, BuildNum, t)
             /\ pc'[t] \in {"barrier3", "exit"} => idx'[t] = ShareEnd(NR, BuildNum, t)
  <2>1. CASE Store(t)
    <3>1. idx[t] < ShareEnd(NR, BuildNum, t)
      BY <2>1 DEF Store, BaseInv, TypeInv, LoopBounds
    <3> QED BY <1>0, <1>1, <2>1, <3>1 DEF Store, Counters
  <2>2. CASE FinishBuild(t)
    BY <1>0, <1>1, <2>2 DEF FinishBuild, Counters
  <2>3. ASSUME idx'[t] = idx[t], pc'[t] = pc[t] \/ pc'[t] \notin {"barrier3", "exit"}
                                   \/ pc[t] = "barrier3"
        PROVE  /\ ShareBegin(NR, BuildNum, t) <= idx'[t] /\ idx'[t] <= ShareEnd(NR, BuildNum, t)
               /\ pc'[t] \in {"barrier3", "exit"} => idx'[t] = ShareEnd(NR, BuildNum, t)
    BY <2>3 DEF Counters
  <2>4. CASE \/ Memset(t) \/ Timer(t) \/ Lock(t) \/ Inspect(t) \/ Update(t) \/ Unlock(t)
    BY <1>0, <2>3, <2>4 DEF Memset, Timer, Lock, Inspect, Update, Unlock
  <2>5. ASSUME NEW u \in Builders, u # t, Build(u) PROVE idx'[t] = idx[t] /\ pc'[t] = pc[t]
    BY <1>0, <2>5 DEF Build, Memset, Timer, Lock, Inspect, Update, Unlock, Store, FinishBuild
  <2>6. CASE ReleaseBuild
    <3>1. idx' = idx /\ (pc[t] = "barrier3" \/ pc'[t] \notin {"barrier3", "exit"})
      BY <2>6 DEF ReleaseBuild, AfterBarrier
    <3> QED BY <2>3, <3>1
  <2>7. ASSUME NEW p \in Probers, Probe(p) PROVE idx' = idx /\ pc' = pc
    BY <2>7 DEF Probe, StartTuple, Scan, builder
  <2>8. ASSUME SpawnProbers \/ ReleaseProbe \/ Collect \/ Terminated \/ UNCHANGED vars
        PROVE  idx' = idx /\ pc' = pc
    BY <2>8 DEF SpawnProbers, ReleaseProbe, Collect, Terminated, vars, builder
  <2> QED BY <2>1, <2>2, <2>3, <2>4, <2>5, <2>6, <2>7, <2>8 DEF Next, Main, Build
<1>4. ASSUME NEW p \in Probers
      PROVE  /\ ShareBegin(NS, ProbeNum, p) <= sidx'[p] /\ sidx'[p] <= ShareEnd(NS, ProbeNum, p)
             /\ ppc'[p] \in {"barrier", "exit"} => sidx'[p] = ShareEnd(NS, ProbeNum, p)
  <2>1. CASE Scan(p)
    <3>1. sidx[p] < ShareEnd(NS, ProbeNum, p)
      BY <2>1 DEF Scan, BaseInv, TypeInv, LoopBounds
    <3> QED BY <1>0, <1>2, <2>1, <3>1 DEF Scan, Counters
  <2>2. CASE StartTuple(p)
    BY <1>0, <1>2, <2>2 DEF StartTuple, Counters
  <2>3. ASSUME sidx'[p] = sidx[p], ppc'[p] = ppc[p] \/ ppc'[p] = "start" \/ ppc[p] = "barrier"
        PROVE  /\ ShareBegin(NS, ProbeNum, p) <= sidx'[p] /\ sidx'[p] <= ShareEnd(NS, ProbeNum, p)
               /\ ppc'[p] \in {"barrier", "exit"} => sidx'[p] = ShareEnd(NS, ProbeNum, p)
    BY <2>3 DEF Counters
  <2>4. ASSUME NEW q \in Probers, q # p, Probe(q) PROVE sidx'[p] = sidx[p] /\ ppc'[p] = ppc[p]
    BY <1>0, <2>4 DEF Probe, StartTuple, Scan
  <2>5. ASSUME NEW t \in Builders, Build(t) PROVE sidx' = sidx /\ ppc' = ppc
    BY <2>5 DEF Build, Memset, Timer, Lock, Inspect, Update, Unlock, Store, FinishBuild, prober
  <2>6. ASSUME Main \/ Terminated \/ UNCHANGED vars
        PROVE  sidx' = sidx /\ (ppc' = ppc \/ ppc'[p] = "start" \/ ppc[p] = "barrier")
    BY <2>6 DEF Main, ReleaseBuild, SpawnProbers, ReleaseProbe, Collect, Terminated, vars, prober
  <2> QED BY <2>1, <2>2, <2>3, <2>4, <2>5, <2>6 DEF Next, Probe
<1> QED BY <1>3, <1>4 DEF Counters

(* What a store brings in is new. *)
LEMMA StoreNew ==
    ASSUME BaseInv, RowInv, NEW t \in Builders, Store(t)
    PROVE  /\ dest[t] \in Slots /\ idx[t] \in Rows(NR) /\ idx[t] \in Int /\ idx[t] # Empty
           /\ idx[t] \in Share(NR, BuildNum, t)
           /\ tuples[dest[t]] = Empty
           /\ \A x \in Slots : tuples[x] # idx[t]
           /\ \A x \in Slots : tuples'[x] = IF x = dest[t] THEN idx[t] ELSE tuples[x]
           /\ idx' = [idx EXCEPT ![t] = idx[t] + 1]
           /\ UNCHANGED <<r, s, next, result>>
<1> DEFINE i == idx[t]
           d == dest[t]
<1>1. /\ pc[t] = "store" /\ tuples' = [tuples EXCEPT ![d] = i]
      /\ idx' = [idx EXCEPT ![t] = i + 1] /\ UNCHANGED <<r, s, next, result>>
  BY DEF Store, inputs
<1>2. d \in Slots /\ i < ShareEnd(NR, BuildNum, t) /\ ShareBegin(NR, BuildNum, t) <= i
  BY <1>1 DEF BaseInv, TypeInv, LoopBounds, RowInv, Counters
<1>3. i \in Rows(NR)
  BY <1>2, CurrIsHead DEF BaseInv, TypeInv
<1>4. i \in Int /\ i # Empty
  BY <1>3, MarkerAssumption DEF Rows
<1>5. i \in Share(NR, BuildNum, t)
  <2>1. ShareBegin(NR, BuildNum, t) \in Nat /\ ShareEnd(NR, BuildNum, t) \in Nat
    BY ShareInRange, SizeAssumption DEF Builders
  <2> QED BY <1>2, <1>4, <2>1 DEF Share
<1>6. tuples[d] = Empty
  <2>1. Accounted(d)
    BY <1>2, AccountedEach DEF BaseInv, SlotInv
  <2> QED BY <1>1, <2>1 DEF Accounted, InFlight
<1>7. \A x \in Slots : tuples[x] # i
  <2> SUFFICES ASSUME NEW x \in Slots, tuples[x] = i PROVE FALSE
    OBVIOUS
  <2>1. PICK u \in Builders : tuples[x] \in Share(NR, BuildNum, u) /\ tuples[x] < idx[u]
    BY <1>4 DEF RowInv, Stocked
  <2>2. u = t
    BY <1>5, <2>1, ShareDisjoint, SizeAssumption DEF Builders
  <2> QED BY <1>4, <2>1, <2>2
<1>8. \A x \in Slots : tuples'[x] = IF x = d THEN i ELSE tuples[x]
  BY <1>1, <1>2 DEF BaseInv, TypeInv, TypeOK
<1> QED BY <1>1, <1>2, <1>3, <1>4, <1>5, <1>6, <1>7, <1>8

(* Only a store changes the tuples, or moves a thread to its next row.     *)
LEMMA RowsKept ==
    ASSUME [Next]_vars, \A t \in Builders : ~Store(t)
    PROVE  UNCHANGED <<tuples, idx>>
<1>1. ASSUME NEW t \in Builders, Build(t) PROVE UNCHANGED <<tuples, idx>>
  BY <1>1 DEF Build, Memset, Timer, Lock, Inspect, Update, Unlock, FinishBuild, table
<1>2. ASSUME NEW p \in Probers, Probe(p) PROVE UNCHANGED <<tuples, idx>>
  BY <1>2 DEF Probe, StartTuple, Scan, table, builder
<1>3. ASSUME Main \/ Terminated \/ UNCHANGED vars PROVE UNCHANGED <<tuples, idx>>
  BY <1>3 DEF Main, ReleaseBuild, SpawnProbers, ReleaseProbe, Collect, Terminated, vars,
              table, builder
<1> QED BY <1>1, <1>2, <1>3 DEF Next

(* A store brings in the row that its thread is through with then.         *)
LEMMA StockedNext ==
    ASSUME BaseInv, RowInv, [Next]_vars
    PROVE  Stocked'
<1>1. ASSUME NEW t \in Builders, Store(t) PROVE Stocked'
  <2> DEFINE i == idx[t]
             d == dest[t]
  <2>1. /\ d \in Slots /\ i \in Rows(NR) /\ i \in Int /\ i # Empty
        /\ i \in Share(NR, BuildNum, t)
        /\ tuples[d] = Empty
        /\ \A x \in Slots : tuples[x] # i
        /\ \A x \in Slots : tuples'[x] = IF x = d THEN i ELSE tuples[x]
        /\ idx' = [idx EXCEPT ![t] = i + 1]
    BY <1>1, StoreNew
  <2>2. \A u \in Builders : \A k \in Share(NR, BuildNum, u) : k \in Int /\ k # Empty
    BY ShareWithin, SizeAssumption, MarkerAssumption DEF Builders, Rows
  <2>3. /\ \A u \in Builders : idx[u] \in Int /\ idx'[u] \in Int /\ idx[u] <= idx'[u]
        /\ \A u \in Builders : u # t => idx'[u] = idx[u]
        /\ idx'[t] = i + 1
    BY <2>1 DEF BaseInv, TypeInv, TypeOK
  <2>4. ASSUME NEW u \in Builders, NEW k \in Share(NR, BuildNum, u), k < idx'[u], ~(k < idx[u])
        PROVE  k = i
    BY <2>1, <2>2, <2>3, <2>4
  <2> HIDE DEF i, d
  <2>5. \A x \in Slots : tuples'[x] # Empty =>
           \E u \in Builders : tuples'[x] \in Share(NR, BuildNum, u) /\ tuples'[x] < idx'[u]
    <3> SUFFICES ASSUME NEW x \in Slots, tuples'[x] # Empty
                 PROVE  \E u \in Builders :
                            tuples'[x] \in Share(NR, BuildNum, u) /\ tuples'[x] < idx'[u]
      OBVIOUS
    <3>1. CASE x = d
      <4>1. i < idx'[t] /\ tuples'[x] = i
        BY <2>1, <2>3, <3>1
      <4> QED BY <2>1, <4>1
    <3>2. CASE x # d
      <4>1. PICK u \in Builders : tuples[x] \in Share(NR, BuildNum, u) /\ tuples[x] < idx[u]
        BY <2>1, <3>2 DEF RowInv, Stocked
      <4>2. tuples'[x] = tuples[x]
        BY <2>1, <3>2
      <4>3. tuples[x] \in Int
        BY <2>2, <4>1
      <4>4. tuples[x] < idx'[u]
        BY <2>3, <4>1, <4>3
      <4> QED BY <4>1, <4>2, <4>4
    <3> QED BY <3>1, <3>2
  <2>6. \A u \in Builders : \A k \in Share(NR, BuildNum, u) :
           k < idx'[u] => \E x \in Slots : tuples'[x] = k
    <3> SUFFICES ASSUME NEW u \in Builders, NEW k \in Share(NR, BuildNum, u), k < idx'[u]
                 PROVE  \E x \in Slots : tuples'[x] = k
      OBVIOUS
    <3>1. CASE k < idx[u]
      <4>1. PICK x \in Slots : tuples[x] = k
        BY <3>1 DEF RowInv, Stocked
      <4> QED BY <2>1, <2>2, <4>1
    <3>2. CASE ~(k < idx[u])
      <4>1. k = i
        BY <2>4, <3>2
      <4> QED BY <2>1, <4>1
    <3> QED BY <3>1, <3>2
  <2>7. \A x, y \in Slots : tuples'[x] # Empty /\ tuples'[y] = tuples'[x] => x = y
    BY <2>1 DEF RowInv, Stocked
  <2> QED BY <2>5, <2>6, <2>7 DEF Stocked
<1>2. ASSUME \A t \in Builders : ~Store(t) PROVE Stocked'
  BY <1>2, RowsKept DEF RowInv, Stocked
<1> QED BY <1>1, <1>2

(* A row is stored on the chain of the bucket it hashes to, and its bucket *)
(* stays there.                                                            *)
LEMMA PlacedNext ==
    ASSUME BaseInv, ChainInv, RowInv, [Next]_vars
    PROVE  Placed'
<1>0. /\ pc \in [Builders -> BuildPC] /\ idx \in [Builders -> 0 .. NR]
      /\ dest \in [Builders -> Slots \cup {NULL}]
      /\ tuples \in [Slots -> Rows(NR) \cup {Empty}]
      /\ r' = r
      /\ \A i \in Rows(NR) : IdHash[r[i]] \in BucketNum
  <2>1. r \in [Rows(NR) -> Keys]
    BY InputAssumption DEF BaseInv, TypeInv, TypeOK
  <2> QED BY <2>1, InputAssumption, FullStays DEF BaseInv, TypeInv, TypeOK, BucketNum
<1>1. ASSUME NEW u \in Builders, pc[u] \in Inserting \cup {"exit"}, NEW h \in BucketNum
      PROVE  next[HeadOf(h)] # Garbage
  <2>1. \A v \in Builders : pc[v] # "memset"
    BY <1>1, PhaseOfAll DEF BaseInv, TypeInv, Inserting, CriticalSection
  <2> QED BY <2>1, HeadsReady DEF BaseInv, TypeInv, Ready, BucketNum
<1>2. ASSUME NEW t \in Builders, InFlight(t)' PROVE dest'[t][1] \in Chain(Home(t))'
  <2>1. CASE Update(t)
    <3>1. Home(t) \in BucketNum /\ dest'[t] = dest[t] /\ Home(t)' = Home(t) /\ pc[t] = "update"
      BY <1>0, <2>1, UpdateFacts DEF Home
    <3>2. next[HeadOf(Home(t))] # Garbage
      BY <1>1, <3>1 DEF Inserting, CriticalSection
    <3> DEFINE h == Home(t)
    <3>3. h \in BucketNum /\ next[HeadOf(h)] # Garbage /\ h' = h
      BY <3>1, <3>2
    <3> HIDE DEF h
    <3>4. PICK g \in BucketNum : g = h
      BY <3>3
    <3>5. dest[t][1] \in Chain(g)'
      BY <2>1, <3>3, <3>4, ChainGrows DEF h
    <3>6. Home(t)' = g
      BY <3>3, <3>4 DEF h
    <3>7. Chain(Home(t))' = Chain(g)'
      BY <3>6 DEF Chain, Hop
    <3> QED BY <3>1, <3>5, <3>7
  <2>2. CASE ~Update(t)
    <3>1. InFlight(t) /\ dest'[t] = dest[t] /\ idx'[t] = idx[t]
      <4>1. ASSUME NEW u \in Builders, Build(u)
            PROVE  InFlight(t) /\ dest'[t] = dest[t] /\ idx'[t] = idx[t]
        <5>1. CASE u = t
          BY <1>0, <1>2, <2>2, <4>1, <5>1 DEF InFlight, Build, Memset, Timer, Lock, Inspect,
             Unlock, Store, FinishBuild
        <5>2. CASE u # t
          BY <1>0, <1>2, <4>1, <5>2 DEF InFlight, Build, Memset, Timer, Lock, Inspect, Update,
             Unlock, Store, FinishBuild
        <5> QED BY <5>1, <5>2
      <4>2. CASE ReleaseBuild
        BY <1>2, <4>2 DEF InFlight, ReleaseBuild, AfterBarrier
      <4>3. ASSUME NEW p \in Probers, Probe(p)
            PROVE  InFlight(t) /\ dest'[t] = dest[t] /\ idx'[t] = idx[t]
        BY <1>2, <4>3 DEF InFlight, Probe, StartTuple, Scan, builder
      <4>4. ASSUME SpawnProbers \/ ReleaseProbe \/ Collect \/ Terminated \/ UNCHANGED vars
            PROVE  InFlight(t) /\ dest'[t] = dest[t] /\ idx'[t] = idx[t]
        BY <1>2, <4>4 DEF InFlight, SpawnProbers, ReleaseProbe, Collect, Terminated, vars, builder
      <4> QED BY <4>1, <4>2, <4>3, <4>4 DEF Next, Main
    <3>2. Home(t) \in BucketNum
      <4>1. idx[t] < ShareEnd(NR, BuildNum, t)
        BY <3>1 DEF InFlight, BaseInv, TypeInv, LoopBounds, CriticalSection
      <4>2. idx[t] \in Rows(NR)
        BY <4>1, CurrIsHead DEF BaseInv, TypeInv
      <4> QED BY <1>0, <4>2 DEF Home
    <3>3. next[HeadOf(Home(t))] # Garbage
      BY <1>1, <3>1, <3>2 DEF InFlight, Inserting, CriticalSection
    <3>4. dest[t][1] \in Chain(Home(t))
      BY <3>1 DEF RowInv, Placed
    <3>5. PICK g \in BucketNum : g = Home(t)
      BY <3>2
    <3>6. dest[t][1] \in Chain(g)'
      BY <3>3, <3>4, <3>5, ChainGrows
    <3>7. Home(t)' = g
      BY <1>0, <3>1, <3>5 DEF Home
    <3>8. Chain(Home(t))' = Chain(g)'
      BY <3>7 DEF Chain, Hop
    <3> QED BY <3>1, <3>6, <3>8
  <2> QED BY <2>1, <2>2
<1>3. ASSUME NEW x \in Slots, tuples'[x] # Empty
      PROVE  x[1] \in Chain(IdHash[r[tuples[x]]])'
  <2>1. ASSUME NEW t \in Builders, Store(t), x = dest[t]
        PROVE  x[1] \in Chain(IdHash[r[tuples[x]]])'
    <3>0. pc[t] = "store"
      BY <2>1 DEF Store
    <3>1. tuples'[x] = idx[t] /\ next' = next
      BY <2>1, StoreNew
    <3>2. x[1] \in Chain(Home(t))
      BY <2>1, <3>0 DEF RowInv, Placed, InFlight
    <3>3. IdHash[r[tuples[x]]]' = Home(t)
      BY <1>0, <3>1 DEF Home
    <3>4. Chain(IdHash[r[tuples[x]]])' = Chain(Home(t))
      BY <3>1, <3>3 DEF Chain, Hop
    <3> QED BY <3>2, <3>4
  <2>2. ASSUME tuples'[x] = tuples[x]
        PROVE  x[1] \in Chain(IdHash[r[tuples[x]]])'
    <3>1. tuples[x] \in Rows(NR)
      BY <1>0, <1>3, <2>2
    <3>2. PICK g \in BucketNum : g = IdHash[r[tuples[x]]]
      BY <1>0, <3>1
    <3>3. next[HeadOf(g)] # Garbage
      <4>1. PICK u \in Builders : pc[u] \notin Zeroing \cup Timing
        BY <1>3, <2>2 DEF BaseInv, SlotInv, Untouched
      <4>2. pc[u] \in Inserting \cup {"exit"}
        BY <1>0, <4>1 DEF BuildPC, Zeroing, Timing, Inserting, CriticalSection
      <4> QED BY <1>1, <4>2
    <3>4. x[1] \in Chain(g)
      BY <1>3, <2>2, <3>2 DEF RowInv, Placed
    <3>5. x[1] \in Chain(g)'
      BY <3>3, <3>4, ChainGrows
    <3>6. IdHash[r[tuples[x]]]' = g
      BY <1>0, <2>2, <3>2
    <3>7. Chain(IdHash[r[tuples[x]]])' = Chain(g)'
      BY <3>6 DEF Chain, Hop
    <3> QED BY <3>5, <3>7
  <2>3. (\E t \in Builders : Store(t) /\ x = dest[t]) \/ tuples'[x] = tuples[x]
    <3>1. ASSUME NEW t \in Builders, Store(t), x # dest[t] PROVE tuples'[x] = tuples[x]
      BY <3>1, StoreNew
    <3> QED BY <3>1, RowsKept
  <2> QED BY <2>1, <2>2, <2>3
<1> QED BY <1>2, <1>3 DEF Placed

(* Layer 6 as an invariant.                                                *)
THEOREM RowInvariant == Spec => []RowInv
<1>1. BaseInv /\ ChainInv /\ RowInv /\ [Next]_vars => RowInv'
  BY CountersNext, StockedNext, PlacedNext DEF RowInv
<1> QED
  BY <1>1, RowInit, TypeInvariant, LatchInvariant, SlotInvariant, ChainInvariant, PTL
     DEF Spec, BaseInv

(* Layers 3 and 6 say where the rows are when the build has ended.         *)
LEMMA BuildSound ==
    ASSUME BaseInv, RowInv
    PROVE  BuildComplete
<1> SUFFICES ASSUME \A t \in Builders : pc[t] = "exit", NEW i \in Rows(NR)
             PROVE  \E x \in Slots :
                        /\ tuples[x] = i
                        /\ x[1] \in Chain(IdHash[r[i]])
                        /\ x[2] < count[x[1]]
                        /\ \A y \in Slots : tuples[y] = i => y = x
  BY DEF BuildComplete
<1>1. PICK t \in Builders : i \in Share(NR, BuildNum, t)
  BY ShareCover, SizeAssumption DEF Builders, Rows
<1>2. i < idx[t]
  <2>1. idx[t] = ShareEnd(NR, BuildNum, t)
    BY DEF RowInv, Counters
  <2>2. ShareEnd(NR, BuildNum, t) \in Nat /\ ShareBegin(NR, BuildNum, t) \in Nat
    BY ShareInRange, SizeAssumption DEF Builders
  <2> QED BY <1>1, <2>1, <2>2 DEF Share
<1>3. PICK x \in Slots : tuples[x] = i
  BY <1>1, <1>2 DEF RowInv, Stocked
<1>4. i # Empty
  BY MarkerAssumption
<1>5. x[2] < count[x[1]]
  <2>1. Accounted(x)
    BY AccountedEach DEF BaseInv, SlotInv
  <2> QED BY <1>3, <1>4, <2>1 DEF Accounted, Reserved
<1>6. x[1] \in Chain(IdHash[r[i]])
  BY <1>3, <1>4 DEF RowInv, Placed
<1>7. \A y \in Slots : tuples[y] = i => y = x
  BY <1>3, <1>4 DEF RowInv, Stocked
<1> QED BY <1>3, <1>5, <1>6, <1>7

(* When the build threads have been joined, each R tuple is in the table,  *)
(* in one slot only, below the counter of a bucket on the chain of the     *)
(* head it hashes to (build_hashtable_nphj_sc, nphj.c:132-301).            *)
THEOREM BuildsComplete == Spec => []BuildComplete
<1>1. BaseInv /\ RowInv => BuildComplete
  BY BuildSound
<1> QED
  BY <1>1, TypeInvariant, LatchInvariant, SlotInvariant, RowInvariant, PTL DEF BaseInv
-----------------------------------------------------------------------------
(***************************************************************************)
(* Layer 7: the probe threads and what they count.                         *)
(***************************************************************************)

JoinInv == BaseInv /\ ChainInv /\ RowInv

(* When a probe thread runs, the table is complete and stays as it is.     *)
LEMMA TableFrozen ==
    ASSUME JoinInv, [Next]_vars, NEW p \in Probers, ppc[p] # "idle"
    PROVE  /\ \A t \in Builders : pc[t] = "exit" /\ ~Build(t)
           /\ UNCHANGED <<r, s, count, next, tuples>>
           /\ BuildComplete
           /\ ~SpawnProbers
<1>1. \A t \in Builders : pc[t] = "exit"
  BY DEF JoinInv, BaseInv, TypeInv, Initialised
<1>2. \A t \in Builders : ~Build(t)
  BY <1>1 DEF Build, Memset, Timer, Lock, Inspect, Update, Unlock, Store, FinishBuild,
              CriticalSection
<1>3. UNCHANGED <<r, s, count, next>>
  BY <1>2, ChainsKept DEF Build
<1>4. UNCHANGED tuples
  BY <1>2, RowsKept DEF Build
<1>5. BuildComplete
  BY BuildSound DEF JoinInv
<1> QED BY <1>1, <1>2, <1>3, <1>4, <1>5 DEF SpawnProbers

(* Where a scan stands on its chain, and whether the chain ends there.     *)
LEMMA ScanStands ==
    ASSUME JoinInv, NEW p \in Probers, ppc[p] = "scan",
           NEW h \in BucketNum, NEW k \in 0 .. Hops - 1, bkt[p] = Hop(h)[k]
    PROVE  /\ bkt[p] \in Addr
           /\ bkt[p] \notin FirstOf(h, k)
           /\ FirstOf(h, k + 1) = FirstOf(h, k) \cup {bkt[p]}
           /\ next[bkt[p]] # NULL => k + 1 \in 0 .. Hops - 1 /\ next[bkt[p]] = Hop(h)[k + 1]
           /\ next[bkt[p]] = NULL => FirstOf(h, k + 1) = Chain(h)
<1> DEFINE b == bkt[p]
<1>0. TypeOK /\ b \in Addr /\ Hops \in Nat /\ NULL \notin Addr
  BY Addresses, OverflowsFinite DEF JoinInv, BaseInv, TypeInv, LoopBounds
<1>1. HasPath(h)
  <2>1. \A t \in Builders : pc[t] # "memset"
    BY DEF JoinInv, BaseInv, TypeInv, Initialised
  <2>2. Ready(HeadOf(h))
    BY <2>1, HeadsReady DEF JoinInv, BaseInv, TypeInv, BucketNum
  <2> QED BY <2>2 DEF Ready, JoinInv, ChainInv, Grounded
<1>2a. PICK n \in Nat : \E w \in [0 .. n -> Addr] : IsPath(h, n, w)
  BY <1>1 DEF HasPath
<1>2. PICK w \in [0 .. n -> Addr] : IsPath(h, n, w)
  BY <1>2a
<1>3. /\ n <= Hops - 1
      /\ \A m \in 0 .. Hops : Hop(h)[m] = IF m <= n THEN w[m] ELSE NULL
      /\ Chain(h) = {w[m] : m \in 0 .. n}
  BY <1>0, <1>2, PathIsHop
<1>4. k \in 0 .. n /\ k \in 0 .. Hops /\ b = w[k]
  <2>1. k \in 0 .. Hops
    BY <1>0
  <2>2. Hop(h)[k] = IF k <= n THEN w[k] ELSE NULL
    BY <1>3, <2>1
  <2> QED BY <1>0, <2>1, <2>2
<1> HIDE DEF b
<1>5. /\ \A l \in 0 .. n - 1 : next[w[l]] = w[l + 1]
      /\ next[w[n]] = NULL
      /\ \A l, m \in 0 .. n : w[l] = w[m] => l = m
  BY <1>2 DEF IsPath
<1>6. \A m \in 0 .. k : Hop(h)[m] = w[m]
  <2> TAKE m \in 0 .. k
  <2>1. m \in 0 .. Hops /\ m <= n
    BY <1>0, <1>3, <1>4
  <2> QED BY <1>3, <2>1
<1>7. FirstOf(h, k) = {w[m] : m \in 0 .. k - 1}
  BY <1>6 DEF FirstOf
<1>8. FirstOf(h, k + 1) = {w[m] : m \in 0 .. k}
  <2>1. (k + 1) - 1 = k
    OBVIOUS
  <2> QED BY <1>6, <2>1 DEF FirstOf
<1>9. b \notin FirstOf(h, k)
  <2> SUFFICES ASSUME NEW m \in 0 .. k - 1, w[m] = w[k] PROVE FALSE
    BY <1>4, <1>7
  <2>1. m \in 0 .. n /\ m # k
    BY <1>4
  <2> QED BY <1>4, <1>5, <2>1
<1>10. FirstOf(h, k + 1) = FirstOf(h, k) \cup {b}
  <2>1. \A m \in 0 .. k : m \in 0 .. k - 1 \/ m = k
    OBVIOUS
  <2>2. \A m \in 0 .. k - 1 : m \in 0 .. k
    OBVIOUS
  <2>3. k \in 0 .. k
    OBVIOUS
  <2> QED BY <1>4, <1>7, <1>8, <2>1, <2>2, <2>3
<1>11. ASSUME next[b] # NULL PROVE k + 1 \in 0 .. Hops - 1 /\ next[b] = Hop(h)[k + 1]
  <2>1. k # n
    BY <1>4, <1>5, <1>11
  <2>2. k \in 0 .. n - 1 /\ k + 1 <= n /\ k + 1 \in 0 .. Hops /\ k + 1 \in 0 .. Hops - 1
    BY <1>0, <1>3, <1>4, <2>1
  <2>3. Hop(h)[k + 1] = w[k + 1]
    BY <1>3, <2>2
  <2>4. next[w[k]] = w[k + 1]
    BY <1>5, <2>2
  <2> QED BY <1>4, <2>2, <2>3, <2>4
<1>12. ASSUME next[b] = NULL PROVE k = n
  <2> SUFFICES ASSUME k # n PROVE FALSE
    OBVIOUS
  <2>1. k \in 0 .. n - 1 /\ k + 1 \in 0 .. n
    BY <1>4
  <2>2. next[w[k]] = w[k + 1] /\ w[k + 1] \in Addr
    BY <1>5, <2>1
  <2> QED BY <1>0, <1>4, <1>12, <2>2
<1> QED BY <1>0, <1>3, <1>8, <1>9, <1>10, <1>11, <1>12 DEF b

(* Comparing one bucket finds the partners of the S row that are in it,    *)
(* none of which has been found before.                                    *)
LEMMA ScanPairs ==
    ASSUME JoinInv, NEW p \in Probers, ppc[p] = "scan", NEW B, bkt[p] \in Addr, bkt[p] \notin B,
           NEW X, X = FoundIn(bkt[p], sidx[p])
    PROVE  /\ IsFiniteSet(X)
           /\ \A x \in X : /\ tuples[x] \in Int
                           /\ <<tuples[x], sidx[p]>> \notin DonePairs(p) \cup SeenPairs(p, B)
           /\ \A x, y \in X : tuples[x] = tuples[y] => x = y
           /\ SeenPairs(p, B \cup {bkt[p]}) =
                  SeenPairs(p, B) \cup {<<tuples[x], sidx[p]>> : x \in X}
<1> DEFINE b == bkt[p]
           j == sidx[p]
<1>0. /\ count[b] \in 0 .. Capacity /\ Capacity \in Nat
      /\ tuples \in [Slots -> Rows(NR) \cup {Empty}]
      /\ DOMAIN r = Rows(NR) /\ DOMAIN s = Rows(NS)
      /\ j \in Rows(NS) /\ j \in Int
  <2>1. count[b] \in 0 .. Capacity
    BY DEF JoinInv, BaseInv, TypeInv, Initialised, Ready, TypeOK
  <2>2. DOMAIN r = Rows(NR) /\ DOMAIN s = Rows(NS)
    BY InputAssumption DEF JoinInv, BaseInv, TypeInv, TypeOK
  <2>3. j < ShareEnd(NS, ProbeNum, p) /\ j \in 0 .. NS
    BY DEF JoinInv, BaseInv, TypeInv, LoopBounds, TypeOK
  <2>4. ShareEnd(NS, ProbeNum, p) \in 0 .. NS
    BY ShareInRange, SizeAssumption DEF Probers
  <2> QED BY <2>1, <2>2, <2>3, <2>4, SizeAssumption DEF JoinInv, BaseInv, TypeInv, TypeOK, Rows
<1>1. X = {x \in {b} \X (0 .. count[b] - 1) : tuples[x] # Empty /\ r[tuples[x]] = s[j]}
  BY DEF FoundIn
<1> HIDE DEF b, j
<1>2. X \in SUBSET Slots /\ \A x \in X : x[1] = b /\ tuples[x] \in Rows(NR) /\ r[tuples[x]] = s[j]
  <2>1. {b} \X (0 .. count[b] - 1) \subseteq Slots
    BY <1>0 DEF Slots, b
  <2>2. \A x \in {b} \X (0 .. count[b] - 1) : x[1] = b
    OBVIOUS
  <2> QED BY <1>0, <1>1, <2>1, <2>2
<1>3. \A x \in Slots : x[1] = b /\ tuples[x] # Empty => x \in {b} \X (0 .. count[b] - 1)
  <2> SUFFICES ASSUME NEW x \in Slots, x[1] = b, tuples[x] # Empty
               PROVE  x \in {b} \X (0 .. count[b] - 1)
    OBVIOUS
  <2>1. Accounted(x)
    BY AccountedEach DEF JoinInv, BaseInv, SlotInv
  <2>2. x[2] < count[x[1]]
    BY <2>1 DEF Accounted, Reserved
  <2>3. x = <<x[1], x[2]>> /\ x[2] \in 0 .. Capacity - 1
    BY DEF Slots
  <2> QED BY <1>0, <2>2, <2>3
<1>4. IsFiniteSet(X)
  <2>0. 0 \in Int /\ count[b] - 1 \in Int
    BY <1>0
  <2>1. IsFiniteSet({b}) /\ IsFiniteSet(0 .. count[b] - 1)
    <3>1. IsFiniteSet({b})
      BY FS_Singleton
    <3>2. IsFiniteSet(0 .. count[b] - 1)
      BY <2>0, FS_Interval
    <3> QED BY <3>1, <3>2
  <2>2. IsFiniteSet({b} \X (0 .. count[b] - 1))
    BY <2>1, FS_Product
  <2> QED BY <1>1, <2>2, FS_Subset
<1>5. \A x \in Slots : \A y \in Slots : tuples[x] \in Rows(NR) /\ tuples[y] = tuples[x] => x = y
  BY MarkerAssumption DEF JoinInv, RowInv, Stocked
<1>6. ASSUME NEW x \in X PROVE <<tuples[x], j>> \notin DonePairs(p)
  BY <1>0 DEF DonePairs, j
<1>7. ASSUME NEW x \in X PROVE <<tuples[x], j>> \notin SeenPairs(p, B)
  <2> SUFFICES ASSUME NEW y \in Slots, y[1] \in B, tuples[y] = tuples[x] PROVE FALSE
    BY DEF SeenPairs
  <2>1. y = x
    BY <1>2, <1>5
  <2> QED BY <1>2, <2>1 DEF b
<1>8. ASSUME NEW q \in SeenPairs(p, B \cup {b}), q \notin SeenPairs(p, B)
      PROVE  \E x \in X : q = <<tuples[x], j>>
  <2>1. q \in Matches(r, s) /\ q[2] = j
    BY DEF SeenPairs, j
  <2>2. PICK x \in Slots : x[1] = b /\ tuples[x] = q[1]
    BY <1>8 DEF SeenPairs
  <2>3. q = <<q[1], q[2]>> /\ q[1] \in Rows(NR) /\ r[q[1]] = s[q[2]]
    BY <1>0, <2>1 DEF Matches
  <2>4. tuples[x] # Empty
    BY <2>2, <2>3, MarkerAssumption
  <2>5. x \in X
    BY <1>1, <1>3, <2>1, <2>2, <2>3, <2>4
  <2> QED BY <2>1, <2>2, <2>3, <2>5
<1>9. ASSUME NEW x \in X PROVE <<tuples[x], j>> \in SeenPairs(p, B \cup {b})
  <2>1. <<tuples[x], j>> \in Matches(r, s)
    BY <1>0, <1>2 DEF Matches
  <2>2. x \in Slots /\ x[1] \in B \cup {b}
    BY <1>2
  <2> QED BY <2>1, <2>2 DEF SeenPairs, j
<1>10. SeenPairs(p, B) \subseteq SeenPairs(p, B \cup {b})
  BY DEF SeenPairs
<1>11. SeenPairs(p, B \cup {b}) = SeenPairs(p, B) \cup {<<tuples[x], j>> : x \in X}
  BY <1>8, <1>9, <1>10
<1>12. \A x \in X : tuples[x] \in Int
  BY <1>2 DEF Rows
<1> QED BY <1>2, <1>4, <1>5, <1>6, <1>7, <1>11, <1>12 DEF b, j

(* With its whole chain, all partners of an S row have been found.         *)
LEMMA RowDone ==
    ASSUME JoinInv, NEW p \in Probers, ppc[p] = "scan"
    PROVE  {q \in Matches(r, s) : q[2] \in Share(NS, ProbeNum, p) /\ q[2] < sidx[p] + 1}
               = DonePairs(p) \cup SeenPairs(p, Chain(Goal(p)))
<1> DEFINE j == sidx[p]
           New == {q \in Matches(r, s) : q[2] \in Share(NS, ProbeNum, p) /\ q[2] < j + 1}
<1>0. /\ j \in Int /\ j \in Share(NS, ProbeNum, p)
      /\ \A k \in Share(NS, ProbeNum, p) : k \in Int
      /\ DOMAIN r = Rows(NR)
  <2>1. ShareBegin(NS, ProbeNum, p) <= j /\ j < ShareEnd(NS, ProbeNum, p) /\ j \in 0 .. NS
    BY DEF JoinInv, RowInv, Counters, BaseInv, TypeInv, LoopBounds, TypeOK
  <2>2. ShareBegin(NS, ProbeNum, p) \in Nat /\ ShareEnd(NS, ProbeNum, p) \in Nat
    BY ShareInRange, SizeAssumption DEF Probers
  <2>3. DOMAIN r = Rows(NR)
    BY InputAssumption DEF JoinInv, BaseInv, TypeInv, TypeOK
  <2> QED BY <2>1, <2>2, <2>3 DEF Share
<1>1. BuildComplete /\ \A t \in Builders : pc[t] = "exit"
  BY BuildSound DEF JoinInv, BaseInv, TypeInv, Initialised
<1> HIDE DEF j
<1>2. ASSUME NEW q \in New PROVE q \in DonePairs(p) \cup SeenPairs(p, Chain(Goal(p)))
  <2>0. q \in Matches(r, s) /\ q[2] \in Share(NS, ProbeNum, p) /\ q[2] < j + 1
    OBVIOUS
  <2>1. q \in Matches(r, s) /\ q[2] \in Share(NS, ProbeNum, p) /\ (q[2] < j \/ q[2] = j)
    <3>1. q[2] \in Int
      BY <1>0, <2>0
    <3> QED BY <1>0, <2>0, <3>1
  <2>2. CASE q[2] < j
    BY <2>1, <2>2 DEF DonePairs, j
  <2>3. CASE q[2] = j
    <3>1. q[1] \in Rows(NR) /\ r[q[1]] = s[j]
      BY <1>0, <2>1, <2>3 DEF Matches
    <3>2. PICK x \in Slots : tuples[x] = q[1] /\ x[1] \in Chain(IdHash[r[q[1]]])
      BY <1>1, <3>1 DEF BuildComplete
    <3>3. IdHash[r[q[1]]] = Goal(p)
      BY <3>1 DEF Goal, j
    <3> QED BY <2>1, <2>3, <3>2, <3>3 DEF SeenPairs, j
  <2> QED BY <2>1, <2>2, <2>3
<1>3. ASSUME NEW q \in DonePairs(p) \cup SeenPairs(p, Chain(Goal(p))) PROVE q \in New
  BY <1>0 DEF DonePairs, SeenPairs, j
<1> QED BY <1>2, <1>3 DEF j

(* The pairs counted so far are finitely many pairs of rows.               *)
LEMMA FoundFinite ==
    ASSUME TypeOK
    PROVE  \A p \in Probers : \A B :
               /\ IsFiniteSet(DonePairs(p) \cup SeenPairs(p, B))
               /\ DonePairs(p) \cup SeenPairs(p, B) \in SUBSET (Int \X Int)
               /\ IsFiniteSet(DonePairs(p)) /\ DonePairs(p) \in SUBSET (Int \X Int)
<1>1. DOMAIN r = Rows(NR) /\ DOMAIN s = Rows(NS)
  BY InputAssumption DEF TypeOK
<1>2. \A p \in Probers : \A B : /\ DonePairs(p) \cup SeenPairs(p, B) \in SUBSET Matches(r, s)
                                /\ DonePairs(p) \in SUBSET Matches(r, s)
  BY DEF DonePairs, SeenPairs
<1>3. \A Q \in SUBSET Matches(r, s) : IsFiniteSet(Q) /\ Q \in SUBSET (Int \X Int)
  BY <1>1, MatchesFinite, SizeAssumption
<1> QED BY <1>2, <1>3

(* Nothing has been found when the threads start.                          *)
LEMMA CountInit == Init => CountInv
<1> SUFFICES ASSUME Init PROVE CountInv
  OBVIOUS
<1>1. ASSUME NEW p \in Probers PROVE DonePairs(p) = {}
  <2>1. ShareBegin(NS, ProbeNum, p) \in Nat /\ ShareEnd(NS, ProbeNum, p) \in Nat
    BY ShareInRange, SizeAssumption DEF Probers
  <2>2. sidx[p] = ShareBegin(NS, ProbeNum, p)
    BY DEF Init
  <2> QED BY <2>1, <2>2 DEF DonePairs, Share
<1>2. \A p \in Probers : Tally(RowidBits, DonePairs(p)) = [matched |-> 0, checksum |-> 0]
  BY <1>1, TallyEmpty, SizeAssumption
<1>3. /\ DOMAIN acc = Probers
      /\ \A p \in Probers : acc[p] = [matched |-> 0, checksum |-> 0] /\ ppc[p] = "idle"
  BY DEF Init
<1> QED BY <1>2, <1>3 DEF CountInv

(* A scan adds the tally of what it finds in its bucket, and when that is  *)
(* the last one of the chain its row is done.                              *)
LEMMA ScanCounts ==
    ASSUME JoinInv, CountInv, NEW p \in Probers, Scan(p)
    PROVE  /\ ppc'[p] # "scan" => acc'[p] = Tally(RowidBits, DonePairs(p)')
           /\ ppc'[p] = "scan" => \E k \in 0 .. Hops - 1 : CountedTo(p, k)'
<1> DEFINE b == bkt[p]
           j == sidx[p]
           X == FoundIn(b, j)
           row == tuples
           m == 2^RowidBits
<1>0. /\ ppc \in [Probers -> ProbePC] /\ sidx \in [Probers -> 0 .. NS]
      /\ bkt \in [Probers -> Addr \cup {NULL}]
  BY DEF JoinInv, BaseInv, TypeInv, TypeOK
<1>1. /\ ppc[p] = "scan"
      /\ acc' = [acc EXCEPT ![p] =
                   [matched  |-> acc[p].matched + Cardinality(X),
                    checksum |-> (acc[p].checksum + SumFunction(
                        [x \in X |-> RowId(row[x]) + RowId(j)])) % m]]
      /\ bkt' = [bkt EXCEPT ![p] = next[b]]
      /\ IF next[b] = NULL
         THEN sidx' = [sidx EXCEPT ![p] = j + 1] /\ ppc' = [ppc EXCEPT ![p] = "start"]
         ELSE sidx' = sidx /\ ppc' = ppc
      /\ UNCHANGED <<r, s, count, next, tuples>>
  BY DEF Scan, inputs, table
<1>2. PICK k \in 0 .. Hops - 1 : CountedTo(p, k)
  BY <1>1 DEF CountInv
<1>3. PICK h \in BucketNum : h = Goal(p)
  <2>1. j < ShareEnd(NS, ProbeNum, p) /\ j \in 0 .. NS
    BY <1>1 DEF JoinInv, BaseInv, TypeInv, LoopBounds, TypeOK
  <2>2. ShareEnd(NS, ProbeNum, p) \in 0 .. NS
    BY ShareInRange, SizeAssumption DEF Probers
  <2>3. j \in Rows(NS)
    BY <2>1, <2>2, SizeAssumption DEF Rows
  <2>4. s \in [Rows(NS) -> Keys]
    BY InputAssumption DEF JoinInv, BaseInv, TypeInv, TypeOK
  <2>5. Goal(p) \in BucketNum
    BY <2>3, <2>4, InputAssumption DEF Goal, BucketNum
  <2> QED BY <2>5
<1>4. PICK Before : Before = FirstOf(h, k)
  OBVIOUS
<1>5. b = Hop(h)[k] /\ acc[p] = Tally(RowidBits, DonePairs(p) \cup SeenPairs(p, Before))
  BY <1>2, <1>3, <1>4 DEF CountedTo
<1>6. /\ b \in Addr /\ b \notin Before
      /\ FirstOf(h, k + 1) = Before \cup {b}
      /\ next[b] # NULL => k + 1 \in 0 .. Hops - 1 /\ next[b] = Hop(h)[k + 1]
      /\ next[b] = NULL => FirstOf(h, k + 1) = Chain(h)
  BY <1>1, <1>4, <1>5, ScanStands
<1> DEFINE Q == DonePairs(p) \cup SeenPairs(p, Before)
           D == {<<row[x], j>> : x \in X}
           f == [x \in X |-> RowId(row[x]) + RowId(j)]
<1>7. /\ IsFiniteSet(X)
      /\ \A x \in X : row[x] \in Int /\ <<row[x], j>> \notin Q
      /\ \A x, y \in X : row[x] = row[y] => x = y
      /\ SeenPairs(p, Before \cup {b}) = SeenPairs(p, Before) \cup D
  <2>1. b \in Addr /\ b \notin Before
    BY <1>6
  <2> QED BY <1>1, <2>1, ScanPairs
<1>8. IsFiniteSet(Q) /\ Q \in SUBSET (Int \X Int)
  BY FoundFinite DEF JoinInv, BaseInv, TypeInv
<1>9. j \in Int
  BY <1>0
<1> HIDE DEF X, Q, row, j, m, b, D, f
<1>10. Tally(RowidBits, Q \cup D) =
         [matched  |-> Tally(RowidBits, Q).matched + Cardinality(X),
          checksum |-> (Tally(RowidBits, Q).checksum + SumFunction(f)) % m]
  <2>1. /\ \A x \in X : <<row[x], j>> \in D
        /\ \A q \in D : \E x \in X : q = <<row[x], j>>
    BY DEF D
  <2>3. DOMAIN f = X /\ \A x \in X : f[x] = RowId(row[x]) + RowId(j)
    BY DEF f
  <2>4. /\ \A x \in X : row[x] \in Int /\ <<row[x], j>> \notin Q
        /\ \A x, y \in X : row[x] = row[y] => x = y
        /\ IsFiniteSet(X) /\ IsFiniteSet(Q) /\ Q \in SUBSET (Int \X Int)
        /\ j \in Int /\ RowidBits \in Nat
    BY <1>7, <1>8, <1>9, SizeAssumption
  <2>2. Tally(RowidBits, Q \cup D) =
         [matched  |-> Tally(RowidBits, Q).matched + Cardinality(X),
          checksum |-> (Tally(RowidBits, Q).checksum + SumFunction(f)) % 2^RowidBits]
    <3>1. NewPairs(Q, X, row, j, D, f)
      BY <2>1, <2>3, <2>4 DEF NewPairs
    <3> QED BY <2>4, <3>1, TallyMany
  <2> QED BY <2>2 DEF m
<1>11. acc[p] = Tally(RowidBits, Q)
  BY <1>5 DEF Q
<1>12. acc'[p] = Tally(RowidBits, Q \cup D)
  <2>1. acc'[p] = [matched  |-> acc[p].matched + Cardinality(X),
                    checksum |-> (acc[p].checksum + SumFunction(f)) % m]
    BY <1>1 DEF CountInv, f
  <2> QED BY <1>10, <1>11, <2>1
<1>13. Q \cup D = DonePairs(p) \cup SeenPairs(p, FirstOf(h, k + 1))
  BY <1>6, <1>7 DEF Q
<1>14. CASE next[b] = NULL
  <2>1. ppc'[p] = "start" /\ sidx'[p] = j + 1
    BY <1>0, <1>1, <1>14
  <2>2. {q \in Matches(r, s) : q[2] \in Share(NS, ProbeNum, p) /\ q[2] < j + 1}
            = DonePairs(p) \cup SeenPairs(p, Chain(Goal(p)))
    BY <1>1, RowDone DEF j
  <2>3. DonePairs(p)' = {q \in Matches(r, s) : q[2] \in Share(NS, ProbeNum, p) /\ q[2] < j + 1}
    BY <1>1, <2>1 DEF DonePairs
  <2>4. DonePairs(p)' = Q \cup D
    BY <1>3, <1>6, <1>13, <1>14, <2>2, <2>3
  <2> QED BY <1>12, <2>1, <2>4
<1>15. CASE next[b] # NULL
  <2>1. ppc'[p] = "scan" /\ sidx' = sidx /\ bkt'[p] = next[b]
    BY <1>0, <1>1, <1>15
  <2>2. PICK l \in 0 .. Hops - 1 : l = k + 1
    BY <1>6, <1>15
  <2>3. Goal(p)' = h
    BY <1>1, <1>3, <2>1 DEF Goal
  <2>4. Hop(h)' = Hop(h)
    BY <1>1 DEF Hop
  <2>5. FirstOf(h, l)' = FirstOf(h, l)
    BY <2>4 DEF FirstOf
  <2>6. DonePairs(p)' = DonePairs(p) /\ \A B : SeenPairs(p, B)' = SeenPairs(p, B)
    BY <1>1, <2>1 DEF DonePairs, SeenPairs
  <2>7. bkt'[p] = Hop(h)'[l]
    BY <1>6, <1>15, <2>1, <2>2, <2>4
  <2>8. acc'[p] = Tally(RowidBits, DonePairs(p) \cup SeenPairs(p, FirstOf(h, l)))
    BY <1>12, <1>13, <2>2
  <2>9. CountedTo(p, l)'
    BY <2>3, <2>5, <2>6, <2>7, <2>8 DEF CountedTo
  <2> QED BY <2>1, <2>9
<1> QED BY <1>14, <1>15

(* Only a scan changes what a thread has counted.                          *)
LEMMA CountNext ==
    ASSUME JoinInv, CountInv, [Next]_vars
    PROVE  CountInv'
<1>0. /\ ppc \in [Probers -> ProbePC] /\ sidx \in [Probers -> 0 .. NS]
      /\ bkt \in [Probers -> Addr \cup {NULL}] /\ DOMAIN acc = Probers
  BY DEF JoinInv, BaseInv, TypeInv, TypeOK, CountInv
<1>1. UNCHANGED <<r, s>>
  BY FullStays DEF JoinInv
<1>2. DOMAIN acc' = Probers
  <2>1. ASSUME NEW p \in Probers, Scan(p) PROVE DOMAIN acc' = Probers
    BY <1>0, <2>1 DEF Scan
  <2>2. ASSUME NEW p \in Probers, StartTuple(p) PROVE acc' = acc
    BY <2>2 DEF StartTuple
  <2>3. ASSUME NEW t \in Builders, Build(t) PROVE acc' = acc
    BY <2>3 DEF Build, Memset, Timer, Lock, Inspect, Update, Unlock, Store, FinishBuild, prober
  <2>4. ASSUME Main \/ Terminated \/ UNCHANGED vars PROVE acc' = acc
    BY <2>4 DEF Main, ReleaseBuild, SpawnProbers, ReleaseProbe, Collect, Terminated, vars, prober
  <2> QED BY <1>0, <2>1, <2>2, <2>3, <2>4 DEF Next, Probe
<1>3. ASSUME NEW p \in Probers
      PROVE  /\ ppc'[p] # "scan" => acc'[p] = Tally(RowidBits, DonePairs(p)')
             /\ ppc'[p] = "scan" => \E k \in 0 .. Hops - 1 : CountedTo(p, k)'
  <2>1. CASE Scan(p)
    BY <2>1, ScanCounts
  <2>2. CASE StartTuple(p)
    <3>1. /\ ppc[p] = "start" /\ UNCHANGED <<sidx, acc, next>>
          /\ \/ bkt'[p] = HeadOf(IdHash[s[sidx[p]]]) /\ ppc'[p] = "scan"
             \/ ppc'[p] = "barrier"
      BY <1>0, <2>2 DEF StartTuple, table
    <3>2. acc'[p] = Tally(RowidBits, DonePairs(p)) /\ DonePairs(p)' = DonePairs(p)
      BY <1>1, <3>1 DEF CountInv, DonePairs
    <3>3. ASSUME ppc'[p] = "scan" PROVE \E k \in 0 .. Hops - 1 : CountedTo(p, k)'
      <4>1. 0 \in 0 .. Hops - 1 /\ Hops \in Nat
        BY OverflowsFinite DEF Hops
      <4>2. Hop(Goal(p))[0] = HeadOf(Goal(p))
        BY <4>1, FollowStep DEF Hop, Hops
      <4>3. Goal(p)' = Goal(p)
        BY <1>1, <3>1 DEF Goal
      <4>4. Hop(Goal(p))' = Hop(Goal(p))
        BY <3>1, <4>3 DEF Hop
      <4>5. bkt'[p] = Hop(Goal(p))'[0]
        BY <3>1, <3>3, <4>2, <4>4 DEF Goal
      <4>6. SeenPairs(p, FirstOf(Goal(p), 0))' = {}
        <5>1. FirstOf(Goal(p), 0)' = {}
          BY DEF FirstOf
        <5>2. SeenPairs(p, {})' = {}
          BY DEF SeenPairs
        <5> QED BY <5>1, <5>2 DEF SeenPairs
      <4>7. CountedTo(p, 0)'
        BY <3>2, <4>5, <4>6 DEF CountedTo
      <4> QED BY <4>1, <4>7
    <3> QED BY <3>1, <3>2, <3>3
  <2>3. ASSUME UNCHANGED <<sidx, acc, bkt>>, ppc[p] # "scan", ppc'[p] # "scan"
        PROVE  acc'[p] = Tally(RowidBits, DonePairs(p)')
    BY <1>1, <2>3 DEF CountInv, DonePairs
  <2>4. ASSUME sidx'[p] = sidx[p], acc'[p] = acc[p], bkt'[p] = bkt[p], ppc'[p] = ppc[p]
        PROVE  /\ ppc'[p] # "scan" => acc'[p] = Tally(RowidBits, DonePairs(p)')
               /\ ppc'[p] = "scan" => \E k \in 0 .. Hops - 1 : CountedTo(p, k)'
    <3>1. CASE ppc[p] # "scan"
      BY <1>1, <2>4, <3>1 DEF CountInv, DonePairs
    <3>2. CASE ppc[p] = "scan"
      <4>1. PICK k \in 0 .. Hops - 1 : CountedTo(p, k)
        BY <3>2 DEF CountInv
      <4>2. UNCHANGED <<next, tuples>>
        BY <3>2, TableFrozen
      <4>3. Goal(p)' = Goal(p)
        BY <1>1, <2>4 DEF Goal
      <4>4. Hop(Goal(p))' = Hop(Goal(p))
        BY <4>2, <4>3 DEF Hop
      <4>5. FirstOf(Goal(p), k)' = FirstOf(Goal(p), k)
        BY <4>4 DEF FirstOf
      <4>6. DonePairs(p)' = DonePairs(p)
        BY <1>1, <2>4 DEF DonePairs
      <4>7. SeenPairs(p, FirstOf(Goal(p), k))' = SeenPairs(p, FirstOf(Goal(p), k))
        BY <1>1, <2>4, <4>2, <4>5 DEF SeenPairs
      <4>8. CountedTo(p, k)'
        BY <2>4, <4>1, <4>4, <4>6, <4>7 DEF CountedTo
      <4> QED BY <2>4, <3>2, <4>8
    <3> QED BY <3>1, <3>2
  <2>5. ASSUME NEW q \in Probers, q # p, Probe(q)
        PROVE  sidx'[p] = sidx[p] /\ acc'[p] = acc[p] /\ bkt'[p] = bkt[p] /\ ppc'[p] = ppc[p]
    BY <1>0, <2>5 DEF Probe, StartTuple, Scan
  <2>6. ASSUME NEW t \in Builders, Build(t) PROVE UNCHANGED prober
    BY <2>6 DEF Build, Memset, Timer, Lock, Inspect, Update, Unlock, Store, FinishBuild
  <2>7. ASSUME SpawnProbers \/ ReleaseProbe
        PROVE  UNCHANGED <<sidx, acc, bkt>> /\ ppc[p] # "scan" /\ ppc'[p] # "scan"
    BY <2>7 DEF SpawnProbers, ReleaseProbe
  <2>8. ASSUME ReleaseBuild \/ Collect \/ Terminated \/ UNCHANGED vars PROVE UNCHANGED prober
    BY <2>8 DEF ReleaseBuild, Collect, Terminated, vars
  <2> QED
    BY <2>1, <2>2, <2>3, <2>4, <2>5, <2>6, <2>7, <2>8 DEF Next, Probe, Main, prober
<1> QED BY <1>2, <1>3 DEF CountInv

(* Layer 7 as an invariant: what a thread has counted is the tally of the  *)
(* matching pairs it has come by so far, no more and no less.              *)
THEOREM CountInvariant == Spec => []CountInv
<1>1. JoinInv /\ CountInv /\ [Next]_vars => CountInv'
  BY CountNext
<1> QED
  BY <1>1, CountInit, TypeInvariant, LatchInvariant, SlotInvariant, ChainInvariant, RowInvariant,
     PTL DEF Spec, JoinInv, BaseInv
-----------------------------------------------------------------------------
(***************************************************************************)
(* Refinement of the abstract join.                                        *)
(***************************************************************************)

(* The rows that are stored.                                               *)
Stored == {tuples[x] : x \in Slots} \ {Empty}

(* A store inserts one more row.                                           *)
LEMMA StoreInserts ==
    ASSUME BaseInv, RowInv, NEW t \in Builders, Store(t)
    PROVE  Promise!Insert
<1>1. /\ dest[t] \in Slots /\ idx[t] \in Rows(NR) /\ idx[t] # Empty
      /\ tuples[dest[t]] = Empty
      /\ \A x \in Slots : tuples[x] # idx[t]
      /\ \A x \in Slots : tuples'[x] = IF x = dest[t] THEN idx[t] ELSE tuples[x]
      /\ UNCHANGED <<r, s, result>>
  BY StoreNew
<1> DEFINE i == idx[t]
           d == dest[t]
<1> HIDE DEF i, d
<1>2. Stored' = Stored \cup {i}
  BY <1>1 DEF Stored, i, d
<1>3. i \in Promise!Rows(NR) \ Stored
  BY <1>1 DEF Promise!Rows, Rows, Stored, i
<1> QED BY <1>1, <1>2, <1>3 DEF Promise!Insert, Stored

(* When every probe thread is through, the table holds all of R, and what  *)
(* the threads have found are all the pairs there are, each of them once.  *)
LEMMA AllFound ==
    ASSUME JoinInv, \A p \in Probers : ppc[p] = "exit"
    PROVE  /\ Stored = Rows(NR)
           /\ Together([p \in Probers |-> DonePairs(p)], Probers) = Matches(r, s)
           /\ \A p, q \in Probers : p # q => DonePairs(p) \cap DonePairs(q) = {}
<1>1. Stored = Rows(NR)
  <2>1. \A t \in Builders : pc[t] = "exit"
    BY SizeAssumption DEF JoinInv, BaseInv, TypeInv, Initialised, Probers
  <2>2. BuildComplete
    BY BuildSound DEF JoinInv
  <2>3. \A i \in Rows(NR) : i # Empty /\ \E x \in Slots : tuples[x] = i
    BY <2>1, <2>2, MarkerAssumption DEF BuildComplete
  <2>4. \A x \in Slots : tuples[x] \in Rows(NR) \cup {Empty}
    BY DEF JoinInv, BaseInv, TypeInv, TypeOK
  <2> QED BY <2>3, <2>4 DEF Stored
<1>2. ASSUME NEW q \in Matches(r, s)
      PROVE  \E p \in Probers : q \in DonePairs(p)
  <2>1. q[2] \in Rows(NS)
    <3>1. DOMAIN s = Rows(NS)
      BY InputAssumption DEF JoinInv, BaseInv, TypeInv, TypeOK
    <3> QED BY <3>1 DEF Matches
  <2>2. PICK p \in Probers : q[2] \in Share(NS, ProbeNum, p)
    BY <2>1, ShareCover, SizeAssumption DEF Probers, Rows
  <2>3. q[2] < sidx[p]
    <3>1. sidx[p] = ShareEnd(NS, ProbeNum, p)
      BY DEF JoinInv, RowInv, Counters
    <3>2. ShareEnd(NS, ProbeNum, p) \in Nat /\ ShareBegin(NS, ProbeNum, p) \in Nat
      BY ShareInRange, SizeAssumption DEF Probers
    <3> QED BY <2>2, <3>1, <3>2 DEF Share
  <2> QED BY <2>2, <2>3 DEF DonePairs
<1>3. ASSUME NEW p \in Probers, NEW u \in Probers, p # u
      PROVE  DonePairs(p) \cap DonePairs(u) = {}
  <2> SUFFICES ASSUME NEW q, q[2] \in Share(NS, ProbeNum, p), q[2] \in Share(NS, ProbeNum, u)
               PROVE  FALSE
    BY DEF DonePairs
  <2> QED BY <1>3, ShareDisjoint, SizeAssumption DEF Probers
<1>4. Together([p \in Probers |-> DonePairs(p)], Probers) = Matches(r, s)
  BY <1>2 DEF Together, DonePairs
<1> QED BY <1>1, <1>3, <1>4

(* So what nphj_sc prints is the answer of the join.                       *)
LEMMA CollectAnswers ==
    ASSUME JoinInv, CountInv, Collect
    PROVE  Promise!Answer
<1> DEFINE part == [p \in Probers |-> DonePairs(p)]
<1>1. /\ result = NULL /\ \A p \in Probers : ppc[p] = "exit"
      /\ result' = [matched  |-> SumFunction([p \in Probers |-> acc[p].matched]),
                    checksum |-> SumFunction([p \in Probers |-> acc[p].checksum]) % 2^RowidBits]
      /\ UNCHANGED <<r, s, tuples>>
  BY DEF Collect, inputs, table
<1>2. /\ Stored = Rows(NR) /\ Together(part, Probers) = Matches(r, s)
      /\ \A p, q \in Probers : p # q => part[p] \cap part[q] = {}
  BY <1>1, AllFound
<1>3. IsFiniteSet(Probers)
  BY FS_Interval, SizeAssumption DEF Probers
<1>4. \A p \in Probers : part[p] \in SUBSET (Int \X Int) /\ IsFiniteSet(part[p])
  BY FoundFinite DEF JoinInv, BaseInv, TypeInv
<1>5. \A p \in Probers : acc[p] = Tally(RowidBits, part[p])
  BY <1>1 DEF CountInv
<1> HIDE DEF part
<1>6. [matched  |-> SumFunction([p \in Probers |-> acc[p].matched]),
       checksum |-> SumFunction([p \in Probers |-> acc[p].checksum]) % 2^RowidBits]
          = Tally(RowidBits, Together(part, Probers))
  <2>1. RowidBits \in Nat
    BY SizeAssumption
  <2> QED BY <1>2, <1>3, <1>4, <1>5, <2>1, TallyCollect, Zenon
<1>7. result' = JoinAnswer(RowidBits, r, s)
  BY <1>1, <1>2, <1>6, AnswerIsTally
<1>8. Promise!JoinAnswer(RowidBits, r, s) = JoinAnswer(RowidBits, r, s)
  <2>1. \A S : Promise!Cardinality(S) = Cardinality(S)
    BY DEF Promise!Cardinality, Cardinality
  <2>2. \A f : Promise!SumFunction(f) = SumFunction(f)
    BY DEF Promise!SumFunction, SumFunction, Promise!SumFunctionOnSet, SumFunctionOnSet,
           Promise!FoldFunctionOnSet, FoldFunctionOnSet, Promise!MapThenFoldSet, MapThenFoldSet
  <2> QED
    BY <2>1, <2>2 DEF Promise!JoinAnswer, JoinAnswer, Promise!Matches, Matches,
                      Promise!RowidSum, RowidSum, Promise!RowId, RowId
<1>9. Stored' = Stored
  BY <1>1 DEF Stored
<1> QED
  BY <1>1, <1>2, <1>7, <1>8, <1>9 DEF Promise!Answer, Promise!Rows, Rows, Stored

(* nphj_sc implements the abstract join: with any number of build and      *)
(* probe threads, the rows of R enter the table one at a time and stay     *)
(* there, and the matched_cnt and checksum that it prints are those of the *)
(* join of the two relations (nphj_sc, nphj.c:677-1037).                   *)
THEOREM Refinement == Spec => RefinesJoin
<1>1. Init => Promise!JoinInit
  <2>1. Init => Stored = {}
    BY DEF Init, Stored
  <2> QED BY <2>1 DEF Init, Promise!JoinInit, Stored
<1>2. JoinInv /\ CountInv /\ [Next]_vars =>
          [Promise!JoinNext]_<<r, s, Stored, result>>
  <2> SUFFICES ASSUME JoinInv, CountInv, [Next]_vars
               PROVE  Promise!JoinNext \/ UNCHANGED <<r, s, Stored, result>>
    OBVIOUS
  <2>1. ASSUME NEW t \in Builders, Store(t) PROVE Promise!JoinNext
    BY <2>1, StoreInserts DEF JoinInv, Promise!JoinNext
  <2>2. CASE Collect
    BY <2>2, CollectAnswers DEF Promise!JoinNext
  <2>3. ASSUME NEW t \in Builders, Build(t), ~Store(t)
        PROVE  UNCHANGED <<r, s, tuples, result>>
    BY <2>3 DEF Build, Memset, Timer, Lock, Inspect, Update, Unlock, FinishBuild, inputs, table
  <2>4. ASSUME NEW p \in Probers, Probe(p) PROVE UNCHANGED <<r, s, tuples, result>>
    BY <2>4 DEF Probe, StartTuple, Scan, inputs, table
  <2>5. ASSUME Main, ~Collect PROVE UNCHANGED <<r, s, tuples, result>>
    BY <2>5 DEF Main, ReleaseBuild, SpawnProbers, ReleaseProbe, inputs, table
  <2>6. ASSUME Terminated \/ UNCHANGED vars PROVE UNCHANGED <<r, s, tuples, result>>
    BY <2>6 DEF Terminated, vars, inputs, table
  <2>7. ASSUME UNCHANGED <<r, s, tuples, result>> PROVE UNCHANGED <<r, s, Stored, result>>
    BY <2>7 DEF Stored
  <2> QED BY <2>1, <2>2, <2>3, <2>4, <2>5, <2>6, <2>7 DEF Next
<1>3. JoinInv /\ CountInv /\ [Next]_vars =>
          [Promise!JoinNext]_<<r, s, {tuples[x] : x \in Slots} \ {Empty}, result>>
  BY <1>2 DEF Stored
<1> QED
  BY <1>1, <1>3, TypeInvariant, LatchInvariant, SlotInvariant, ChainInvariant, RowInvariant,
     CountInvariant, PTL DEF Spec, JoinInv, BaseInv, RefinesJoin, Promise!JoinBehaviour
=============================================================================
