---------------------------- MODULE NphjLPProofs ----------------------------
(***************************************************************************)
(* Proofs about NphjLP, for every size of the relations and of the table,  *)
(* every hash function and every number of threads: type correctness,      *)
(* mutual exclusion under the latches, EntryOwnership, BuildComplete,      *)
(* UnbrokenPath, that a lookup only fails for a key that R lacks, and that *)
(* nphj_lp implements the abstract join of JoinSpec, its answer included.  *)
(*                                                                         *)
(* The inductive invariant is proved in layers, each of which uses the     *)
(* ones before it:                                                         *)
(*   TypeInv     types, the bounds of the loop counters, the phases the    *)
(*               barriers separate, and which entries are zeroed           *)
(*   ClaimInv    who holds which latch, who has claimed which entry, and   *)
(*               EntryOwnership itself                                     *)
(*   RowInv      which rows are in the table                               *)
(*   PathInv     which entries are claimed, UnbrokenPath itself            *)
(*   ProbeInv    what a probe thread has seen, found and counted           *)
(***************************************************************************)
EXTENDS NphjLP, RelationsProofs

(* The barriers keep the build threads in the same phase. *)
Zeroing   == {"memset", "barrier1"}
Timing    == {"timer", "barrier2"}
Locked    == {"test", "write", "unlock", "reject"}
Searching == {"peek", "claim", "store"} \cup Locked
Inserting == {"next", "barrier3"} \cup Searching

SamePhase ==
    \E phase \in {Zeroing, Timing, Inserting, {"exit"}} :
        \A t \in Builders : pc[t] \in phase

LoopBounds ==
    /\ \A t \in Builders :
        /\ ShareBegin(NR, BuildNum, t) <= idx[t] /\ idx[t] <= ShareEnd(NR, BuildNum, t)
        /\ pc[t] \in Zeroing \cup Timing => idx[t] = ShareBegin(NR, BuildNum, t)
        /\ pc[t] \in Searching => idx[t] < ShareEnd(NR, BuildNum, t)
        /\ pc[t] \in {"barrier3", "exit"} => idx[t] = ShareEnd(NR, BuildNum, t)
        /\ pc[t] \in Locked => LockInBucket
    /\ \A p \in Probers :
        /\ ShareBegin(NS, ProbeNum, p) <= sidx[p] /\ sidx[p] <= ShareEnd(NS, ProbeNum, p)
        /\ ppc[p] = "look" => sidx[p] < ShareEnd(NS, ProbeNum, p)
        /\ ppc[p] \in {"barrier", "exit"} => sidx[p] = ShareEnd(NS, ProbeNum, p)
        /\ ppc[p] # "idle" => \A t \in Builders : pc[t] = "exit"

(* An entry is zero or claimed when its owner has zeroed its share.        *)
Zeroed ==
    \A t \in Builders : pc[t] # "memset" =>
        \A e \in Share(NumEntries, BuildNum, t) : hashkey[e] # Garbage /\ latch[e] # Garbage

TypeInv == TypeOK /\ SamePhase /\ LoopBounds /\ Zeroed

(* A latch that a thread holds is taken, and by nobody else. *)
Exclusive ==
    \A t \in Builders : pc[t] \in Locked =>
        /\ latch[pos[t]] = 1
        /\ \A u \in Builders : pc[u] \in Locked /\ pos[u] = pos[t] => u = t

(* What Test has read still holds under the latch. *)
Tested ==
    \A t \in Builders :
        /\ pc[t] = "write" => hashkey[pos[t]] = 0
        /\ pc[t] = "reject" => Claimed(pos[t])

(* Until the threads insert nothing is claimed. *)
Untouched ==
    (\A t \in Builders : pc[t] \in Zeroing \cup Timing) =>
        \A e \in Entries : ~Claimed(e)

ClaimInv == Exclusive /\ Tested /\ Untouched /\ EntryOwnership

(* In the table are the rows that the threads are through with, once each.  *)
RowInv ==
    /\ \A e \in Entries : tuples[e] # Empty =>
           \E t \in Builders : tuples[e] \in Share(NR, BuildNum, t) /\ tuples[e] < idx[t]
    /\ \A t \in Builders : \A i \in Share(NR, BuildNum, t) :
           i < idx[t] => \E e \in Entries : tuples[e] = i
    /\ \A e, x \in Entries : tuples[e] # Empty /\ tuples[x] = tuples[e] => x = e

(* The home entry of the tuple that prober p looks up. *)
Home(p) == IdHash[s[sidx[p]]]

(* A lookup has compared every entry it has passed, and all were claimed.  *)
LookInv ==
    \A p \in Probers : ppc[p] = "look" =>
        /\ flag[p] => ppos[p] = Home(p)
        /\ \A x \in Before(Home(p), ppos[p]) :
               Claimed(x) /\ ~SameKey(tuples[x], sidx[p])
        /\ ~flag[p] /\ ppos[p] = Home(p) =>
               \A x \in Entries : ~SameKey(tuples[x], sidx[p])

(* The matching pairs of the S rows that prober p is through with.         *)
DonePairs(p) ==
    {q \in Matches(r, s) : q[2] \in Share(NS, ProbeNum, p) /\ q[2] < sidx[p]}

CountInv == acc = [p \in Probers |-> Tally(RowidBits, DonePairs(p))]

(* A lookup only comes back without a tuple for a key that R lacks.        *)
MissJustified ==
    fault => \E j \in Rows(NS) : \A i \in Rows(NR) : r[i] # s[j]

ProbeInv == LookInv /\ CountInv /\ MissJustified
-----------------------------------------------------------------------------
(***************************************************************************)
(* Rows, entries and phases.                                               *)
(***************************************************************************)

(* A build thread that is not through has a row, and the row a home entry. *)
LEMMA RowAt ==
    ASSUME TypeOK, NEW t \in Builders, idx[t] < ShareEnd(NR, BuildNum, t)
    PROVE  /\ idx[t] \in Rows(NR) /\ idx[t] + 1 \in 0 .. NR
           /\ idx[t] + 1 <= ShareEnd(NR, BuildNum, t)
           /\ IdHash[r[idx[t]]] \in Entries
<1>1. ShareEnd(NR, BuildNum, t) \in 0 .. NR
  BY ShareInRange, SizeAssumption DEF Builders
<1>2. idx[t] \in 0 .. NR
  BY DEF TypeOK
<1>3. idx[t] \in Rows(NR) /\ idx[t] + 1 \in 0 .. NR /\ idx[t] + 1 <= ShareEnd(NR, BuildNum, t)
  BY <1>1, <1>2, SizeAssumption DEF Rows
<1>4. r \in [Rows(NR) -> Keys]
  BY InputAssumption DEF TypeOK
<1> QED
  BY <1>3, <1>4, InputAssumption

(* The same for a probe thread. *)
LEMMA TupleAt ==
    ASSUME TypeOK, NEW p \in Probers, sidx[p] < ShareEnd(NS, ProbeNum, p)
    PROVE  /\ sidx[p] \in Rows(NS) /\ sidx[p] + 1 \in 0 .. NS
           /\ sidx[p] + 1 <= ShareEnd(NS, ProbeNum, p)
           /\ Home(p) \in Entries
<1>1. ShareEnd(NS, ProbeNum, p) \in 0 .. NS
  BY ShareInRange, SizeAssumption DEF Probers
<1>2. sidx[p] \in 0 .. NS
  BY DEF TypeOK
<1>3. sidx[p] \in Rows(NS) /\ sidx[p] + 1 \in 0 .. NS /\ sidx[p] + 1 <= ShareEnd(NS, ProbeNum, p)
  BY <1>1, <1>2, SizeAssumption DEF Rows
<1>4. s \in [Rows(NS) -> Keys]
  BY InputAssumption DEF TypeOK
<1> QED
  BY <1>3, <1>4, InputAssumption DEF Home

(* The array is a ring. *)
LEMMA SuccInRange == \A e \in Entries : Succ(e) \in Entries
  BY SizeAssumption DEF Entries, Succ

(* One thread of a phase tells the phase of all. *)
LEMMA PhaseOfAll ==
    ASSUME SamePhase, NEW t \in Builders
    PROVE  /\ pc[t] \in Zeroing => \A u \in Builders : pc[u] \in Zeroing
           /\ pc[t] \in Timing => \A u \in Builders : pc[u] \in Timing
           /\ pc[t] \in Inserting => \A u \in Builders : pc[u] \in Inserting
           /\ pc[t] = "exit" => \A u \in Builders : pc[u] = "exit"
  BY DEF SamePhase, Zeroing, Timing, Inserting, Searching, Locked

(* Once every thread has zeroed its share, all entries are zero or claimed. *)
LEMMA AllZeroed ==
    ASSUME Zeroed, \A t \in Builders : pc[t] # "memset"
    PROVE  \A e \in Entries : hashkey[e] # Garbage /\ latch[e] # Garbage
<1> SUFFICES ASSUME NEW e \in Entries PROVE hashkey[e] # Garbage /\ latch[e] # Garbage
  OBVIOUS
<1>1. PICK t \in Builders : e \in Share(NumEntries, BuildNum, t)
  BY ShareCover, SizeAssumption DEF Builders, Entries
<1> QED
  BY <1>1 DEF Zeroed
-----------------------------------------------------------------------------
(***************************************************************************)
(* Layer 1: types, loop bounds, phases and initialisation.                 *)
(***************************************************************************)

(* The invariant of layer 1 holds when nphj_lp starts its threads. *)
LEMMA TypeInit == Init => TypeInv
<1> SUFFICES ASSUME Init PROVE TypeInv
  OBVIOUS
<1>1. \A t \in Builders : /\ idx[t] = ShareBegin(NR, BuildNum, t) /\ idx[t] \in 0 .. NR
                          /\ idx[t] <= ShareEnd(NR, BuildNum, t)
  <2>1. \A t \in Builders : /\ ShareBegin(NR, BuildNum, t) \in 0 .. NR
                            /\ ShareBegin(NR, BuildNum, t) <= ShareEnd(NR, BuildNum, t)
    BY ShareBeginInRange, ShareInRange, SizeAssumption DEF Builders
  <2> QED BY <2>1 DEF Init
<1>2. \A p \in Probers : /\ sidx[p] = ShareBegin(NS, ProbeNum, p) /\ sidx[p] \in 0 .. NS
                         /\ sidx[p] <= ShareEnd(NS, ProbeNum, p)
  <2>1. \A p \in Probers : /\ ShareBegin(NS, ProbeNum, p) \in 0 .. NS
                           /\ ShareBegin(NS, ProbeNum, p) <= ShareEnd(NS, ProbeNum, p)
    BY ShareBeginInRange, ShareInRange, SizeAssumption DEF Probers
  <2> QED BY <2>1 DEF Init
<1>3. TypeOK
  <2>1. /\ hashkey \in [Entries -> (0 .. NumEntries) \cup {Garbage}]
        /\ latch \in [Entries -> {0, 1, Garbage}]
        /\ tuples \in [Entries -> Rows(NR) \cup {Empty}]
    BY DEF Init
  <2>2. 0 \in Entries
    BY SizeAssumption DEF Entries
  <2>3. /\ pc \in [Builders -> BuildPC] /\ ppc \in [Probers -> ProbePC]
        /\ idx \in [Builders -> 0 .. NR] /\ sidx \in [Probers -> 0 .. NS]
        /\ pos \in [Builders -> Entries] /\ ppos \in [Probers -> Entries]
        /\ flag \in [Probers -> BOOLEAN] /\ fault \in BOOLEAN
    BY <1>1, <1>2, <2>2 DEF Init, BuildPC, ProbePC
  <2> QED BY <2>1, <2>3 DEF Init, TypeOK
<1>4. SamePhase
  BY DEF Init, SamePhase, Zeroing
<1>5. LoopBounds
  <2>1. (\A t \in Builders : pc[t] = "memset") /\ (\A p \in Probers : ppc[p] = "idle")
    BY DEF Init
  <2>2. \A t \in Builders : ShareBegin(NR, BuildNum, t) \in Int
    BY <1>1
  <2>3. \A p \in Probers : ShareBegin(NS, ProbeNum, p) \in Int
    BY <1>2
  <2> QED BY <1>1, <1>2, <2>1, <2>2, <2>3 DEF LoopBounds, Searching, Locked
<1>6. Zeroed
  BY DEF Init, Zeroed
<1> QED
  BY <1>3, <1>4, <1>5, <1>6 DEF TypeInv

(* The steps of a build thread keep the invariant of layer 1.              *)
LEMMA TypeBuild ==
    ASSUME TypeInv, NEW t \in Builders, Build(t)
    PROVE  TypeInv'
<1> USE DEF TypeInv
<1>0. /\ t \in Builders /\ pc \in [Builders -> BuildPC] /\ idx \in [Builders -> 0 .. NR]
      /\ pos \in [Builders -> Entries]
  BY DEF TypeOK
<1>1. ASSUME Memset(t) PROVE TypeInv'
  <2> DEFINE mine == Share(NumEntries, BuildNum, t)
  <2>0. /\ hashkey' = [e \in Entries |-> IF e \in mine THEN 0 ELSE hashkey[e]]
        /\ latch' = [e \in Entries |-> IF e \in mine THEN 0 ELSE latch[e]]
        /\ pc[t] = "memset" /\ pc' = [pc EXCEPT ![t] = "barrier1"]
        /\ UNCHANGED <<build, r, s, tuples, idx, pos, ppc, sidx, ppos, flag, acc, fault, result>>
    BY <1>1 DEF Memset, inputs, prober
  <2> HIDE DEF mine
  <2>1. TypeOK'
    <3>1. hashkey' \in [Entries -> (0 .. NumEntries) \cup {Garbage}]
      BY <2>0, SizeAssumption DEF TypeOK
    <3>2. latch' \in [Entries -> {0, 1, Garbage}]
      BY <2>0 DEF TypeOK
    <3> QED BY <2>0, <3>1, <3>2 DEF TypeOK, BuildPC
  <2>2. SamePhase'
    BY <1>0, <2>0, PhaseOfAll DEF SamePhase, Zeroing
  <2>3. LoopBounds'
    <3>1. \A p \in Probers : ppc[p] = "idle"
      BY <2>0 DEF LoopBounds
    <3> QED BY <1>0, <2>0, <3>1 DEF LoopBounds, Zeroing, Timing, Searching, Locked, LockInBucket
  <2>4. Zeroed'
    <3> SUFFICES ASSUME NEW u \in Builders, pc'[u] # "memset",
                        NEW e \in Share(NumEntries, BuildNum, u)
                 PROVE  hashkey'[e] # Garbage /\ latch'[e] # Garbage
      BY DEF Zeroed
    <3>1. e \in Entries
      BY ShareWithin, SizeAssumption DEF Builders, Entries
    <3>2. CASE e \in mine
      BY <2>0, <3>1, <3>2, MarkerAssumption
    <3>3. CASE e \notin mine
      <4>1. u # t
        BY <3>3 DEF mine
      <4> QED BY <1>0, <2>0, <3>1, <3>3, <4>1 DEF Zeroed
    <3> QED BY <3>2, <3>3
  <2> QED BY <2>1, <2>2, <2>3, <2>4
<1>2. ASSUME Timer(t) PROVE TypeInv'
  <2>0. /\ pc[t] = "timer" /\ pc' = [pc EXCEPT ![t] = "barrier2"]
        /\ UNCHANGED <<build, r, s, hashkey, latch, tuples, idx, pos, ppc, sidx, ppos, flag,
                       acc, fault, result>>
    BY <1>2 DEF Timer, inputs, prober, table
  <2>1. TypeOK'
    BY <1>0, <2>0 DEF TypeOK, BuildPC
  <2>2. SamePhase'
    BY <1>0, <2>0, PhaseOfAll DEF SamePhase, Timing
  <2>3. LoopBounds'
    <3>1. \A p \in Probers : ppc[p] = "idle"
      BY <2>0 DEF LoopBounds
    <3> QED BY <1>0, <2>0, <3>1 DEF LoopBounds, Zeroing, Timing, Searching, Locked, LockInBucket
  <2>4. Zeroed'
    BY <1>0, <2>0 DEF Zeroed
  <2> QED BY <2>1, <2>2, <2>3, <2>4
<1>3. ASSUME /\ pc[t] \in Inserting
             /\ pc' = [pc EXCEPT ![t] = pc'[t]] /\ pc'[t] \in Inserting
             /\ UNCHANGED <<build, r, s, ppc, sidx, ppos, flag, acc, fault, result>>
             /\ idx' \in [Builders -> 0 .. NR] /\ pos' \in [Builders -> Entries]
             /\ hashkey' \in [Entries -> (0 .. NumEntries) \cup {Garbage}]
             /\ latch' \in [Entries -> {0, 1, Garbage}]
             /\ tuples' \in [Entries -> Rows(NR) \cup {Empty}]
             /\ \A u \in Builders : u # t => idx'[u] = idx[u]
             /\ ShareBegin(NR, BuildNum, t) <= idx'[t] /\ idx'[t] <= ShareEnd(NR, BuildNum, t)
             /\ pc'[t] \in Searching => idx'[t] < ShareEnd(NR, BuildNum, t)
             /\ pc'[t] = "barrier3" => idx'[t] = ShareEnd(NR, BuildNum, t)
             /\ pc'[t] \in Locked => LockInBucket
             /\ \A e \in Entries : /\ hashkey[e] # Garbage => hashkey'[e] # Garbage
                                   /\ latch[e] # Garbage => latch'[e] # Garbage
      PROVE  TypeInv'
  <2>0. /\ Inserting \subseteq BuildPC
        /\ "memset" \notin Inserting /\ "exit" \notin Inserting
        /\ Inserting \cap (Zeroing \cup Timing) = {}
    BY DEF Inserting, Searching, Locked, BuildPC, Zeroing, Timing
  <2>1. TypeOK'
    <3>1. pc' \in [Builders -> BuildPC]
      BY <1>0, <1>3, <2>0
    <3> QED BY <1>3, <3>1 DEF TypeOK
  <2>2. SamePhase'
    BY <1>0, <1>3, PhaseOfAll DEF SamePhase
  <2>3. LoopBounds'
    <3>1. \A p \in Probers : ppc[p] = "idle"
      BY <1>3, <2>0 DEF LoopBounds
    <3>2. \A u \in Builders : u # t => pc'[u] = pc[u] /\ idx'[u] = idx[u]
      BY <1>0, <1>3
    <3>3. /\ LockInBucket' = LockInBucket
          /\ \A p \in Probers : ppc'[p] = ppc[p] /\ sidx'[p] = sidx[p]
      BY <1>3 DEF LockInBucket
    <3>4. pc'[t] \notin Zeroing \cup Timing /\ pc'[t] # "exit"
      BY <1>3, <2>0
    <3>5. \A u \in Builders :
        /\ ShareBegin(NR, BuildNum, u) <= idx'[u] /\ idx'[u] <= ShareEnd(NR, BuildNum, u)
        /\ pc'[u] \in Zeroing \cup Timing => idx'[u] = ShareBegin(NR, BuildNum, u)
        /\ pc'[u] \in Searching => idx'[u] < ShareEnd(NR, BuildNum, u)
        /\ pc'[u] \in {"barrier3", "exit"} => idx'[u] = ShareEnd(NR, BuildNum, u)
        /\ pc'[u] \in Locked => LockInBucket'
      <4> TAKE u \in Builders
      <4>1. CASE u = t
        BY <1>3, <3>3, <3>4, <4>1
      <4>2. CASE u # t
        BY <3>2, <3>3, <4>2 DEF LoopBounds
      <4> QED BY <4>1, <4>2
    <3> QED BY <3>1, <3>3, <3>5 DEF LoopBounds
  <2>4. Zeroed'
    <3>1. \A u \in Builders : pc[u] # "memset"
      BY <1>3, <2>0, PhaseOfAll
    <3>2. \A e \in Entries : hashkey[e] # Garbage /\ latch[e] # Garbage
      BY <3>1, AllZeroed
    <3>3. \A u \in Builders : Share(NumEntries, BuildNum, u) \subseteq Entries
      BY ShareWithin, SizeAssumption DEF Builders, Entries
    <3> QED BY <1>3, <3>2, <3>3 DEF Zeroed
  <2> QED BY <2>1, <2>2, <2>3, <2>4
<1>4. ASSUME pc[t] \in Inserting
      PROVE  /\ \A e \in Entries : hashkey[e] # Garbage /\ latch[e] # Garbage
             /\ ShareBegin(NR, BuildNum, t) <= idx[t] /\ idx[t] <= ShareEnd(NR, BuildNum, t)
             /\ ShareBegin(NR, BuildNum, t) \in Nat /\ ShareEnd(NR, BuildNum, t) \in Nat
             /\ pc[t] \in Searching =>
                    /\ idx[t] < ShareEnd(NR, BuildNum, t)
                    /\ IdHash[r[idx[t]]] + 1 \in 0 .. NumEntries
             /\ Succ(pos[t]) \in Entries
  <2>1. \A u \in Builders : pc[u] # "memset"
    BY <1>4, PhaseOfAll DEF Inserting, Searching, Locked
  <2>2. \A e \in Entries : hashkey[e] # Garbage /\ latch[e] # Garbage
    BY <2>1, AllZeroed
  <2>3. ShareBegin(NR, BuildNum, t) <= idx[t] /\ idx[t] <= ShareEnd(NR, BuildNum, t)
    BY DEF LoopBounds
  <2>4. ShareBegin(NR, BuildNum, t) \in Nat /\ ShareEnd(NR, BuildNum, t) \in Nat
    BY ShareInRange, SizeAssumption DEF Builders
  <2>5. ASSUME pc[t] \in Searching
        PROVE  /\ idx[t] < ShareEnd(NR, BuildNum, t)
               /\ IdHash[r[idx[t]]] + 1 \in 0 .. NumEntries
    <3>1. idx[t] < ShareEnd(NR, BuildNum, t)
      BY <2>5 DEF LoopBounds
    <3>2. IdHash[r[idx[t]]] \in Entries
      BY <3>1, RowAt
    <3> QED BY <3>1, <3>2, SizeAssumption DEF Entries
  <2>6. Succ(pos[t]) \in Entries
    BY <1>0, SuccInRange
  <2> QED BY <2>2, <2>3, <2>4, <2>5, <2>6
<1>5. CASE StartInsert(t)
  <2>1. /\ pc[t] = "next" /\ pc' = [pc EXCEPT ![t] = "peek"] /\ idx[t] < ShareEnd(NR, BuildNum, t)
        /\ pos' = [pos EXCEPT ![t] = IdHash[r[idx[t]]]]
        /\ UNCHANGED <<build, r, s, hashkey, latch, tuples, idx, ppc, sidx, ppos, flag, acc, fault, result>>
    BY <1>5 DEF StartInsert, inputs, table, prober
  <2>2. IdHash[r[idx[t]]] \in Entries
    BY <2>1, RowAt
  <2> QED BY <1>0, <1>3, <1>4, <2>1, <2>2 DEF TypeOK, Inserting, Searching, Locked
<1>6. CASE Peek(t)
  <2>1. /\ pc[t] = "peek"
        /\ \/ pos' = [pos EXCEPT ![t] = Succ(@)] /\ UNCHANGED pc
           \/ pc' = [pc EXCEPT ![t] = "claim"] /\ UNCHANGED pos
        /\ UNCHANGED <<build, r, s, hashkey, latch, tuples, idx, ppc, sidx, ppos, flag, acc, fault, result>>
    BY <1>6 DEF Peek, inputs, table, prober
  <2> QED BY <1>0, <1>3, <1>4, <2>1 DEF TypeOK, Inserting, Searching, Locked
<1>7. CASE Claim(t)
  <2>1. /\ pc[t] = "claim"
        /\ \/ /\ hashkey' = [hashkey EXCEPT ![pos[t]] = IdHash[r[idx[t]]] + 1]
              /\ pc' = [pc EXCEPT ![t] = "store"] /\ UNCHANGED pos
           \/ /\ pos' = [pos EXCEPT ![t] = Succ(@)]
              /\ pc' = [pc EXCEPT ![t] = "peek"] /\ UNCHANGED hashkey
        /\ UNCHANGED <<build, r, s, latch, tuples, idx, ppc, sidx, ppos, flag, acc, fault, result>>
    BY <1>7 DEF Claim, inputs, prober
  <2>2. IdHash[r[idx[t]]] + 1 \in 0 .. NumEntries /\ IdHash[r[idx[t]]] + 1 # Garbage
    BY <1>4, <2>1, MarkerAssumption DEF Searching, Inserting
  <2>3. CASE UNCHANGED pos
    BY <1>0, <1>3, <1>4, <2>1, <2>2, <2>3 DEF TypeOK, Inserting, Searching, Locked
  <2>4. CASE UNCHANGED hashkey
    BY <1>0, <1>3, <1>4, <2>1, <2>4 DEF TypeOK, Inserting, Searching, Locked
  <2> QED BY <2>1, <2>3, <2>4
<1>8. CASE Lock(t)
  <2>1. /\ LockInBucket /\ pc[t] = "claim" /\ pc' = [pc EXCEPT ![t] = "test"]
        /\ latch' = [latch EXCEPT ![pos[t]] = 1]
        /\ UNCHANGED <<build, r, s, hashkey, tuples, idx, pos, ppc, sidx, ppos, flag, acc, fault, result>>
    BY <1>8 DEF Lock, inputs, prober
  <2> QED BY <1>0, <1>3, <1>4, <2>1, MarkerAssumption DEF TypeOK, Inserting, Searching, Locked
<1>9. CASE Test(t)
  <2>1. /\ pc[t] = "test" /\ LockInBucket
        /\ pc' = [pc EXCEPT ![t] = "write"] \/ pc' = [pc EXCEPT ![t] = "reject"]
        /\ UNCHANGED <<build, r, s, hashkey, latch, tuples, idx, pos, ppc, sidx, ppos, flag, acc, fault, result>>
    BY <1>9 DEF Test, inputs, prober, table, LoopBounds, Locked
  <2> QED BY <1>0, <1>3, <1>4, <2>1 DEF TypeOK, Inserting, Searching, Locked
<1>10. CASE Write(t)
  <2>1. /\ pc[t] = "write" /\ LockInBucket /\ pc' = [pc EXCEPT ![t] = "unlock"]
        /\ hashkey' = [hashkey EXCEPT ![pos[t]] = IdHash[r[idx[t]]] + 1]
        /\ UNCHANGED <<build, r, s, latch, tuples, idx, pos, ppc, sidx, ppos, flag, acc, fault, result>>
    BY <1>10 DEF Write, inputs, prober, LoopBounds, Locked
  <2>2. IdHash[r[idx[t]]] + 1 \in 0 .. NumEntries /\ IdHash[r[idx[t]]] + 1 # Garbage
    BY <1>4, <2>1, MarkerAssumption DEF Searching, Inserting, Locked
  <2> QED BY <1>0, <1>3, <1>4, <2>1, <2>2 DEF TypeOK, Inserting, Searching, Locked
<1>11. CASE Unlock(t)
  <2>1. /\ \/ pc[t] = "unlock" /\ pc' = [pc EXCEPT ![t] = "store"] /\ UNCHANGED pos
           \/ pc[t] = "reject" /\ pc' = [pc EXCEPT ![t] = "peek"] /\ pos' = [pos EXCEPT ![t] = Succ(@)]
        /\ latch' = [latch EXCEPT ![pos[t]] = 0]
        /\ UNCHANGED <<build, r, s, hashkey, tuples, idx, ppc, sidx, ppos, flag, acc, fault, result>>
    BY <1>11 DEF Unlock, inputs, prober
  <2> QED BY <1>0, <1>3, <1>4, <2>1, MarkerAssumption DEF TypeOK, Inserting, Searching, Locked
<1>12. CASE Store(t)
  <2>1. /\ pc[t] = "store" /\ pc' = [pc EXCEPT ![t] = "next"]
        /\ tuples' = [tuples EXCEPT ![pos[t]] = idx[t]] /\ idx' = [idx EXCEPT ![t] = @ + 1]
        /\ UNCHANGED <<build, r, s, hashkey, latch, pos, ppc, sidx, ppos, flag, acc, fault, result>>
    BY <1>12 DEF Store, inputs, prober
  <2>2. idx[t] < ShareEnd(NR, BuildNum, t)
    BY <1>4, <2>1 DEF Searching, Inserting
  <2>3. idx[t] \in Rows(NR) /\ idx[t] + 1 \in 0 .. NR /\ idx[t] + 1 <= ShareEnd(NR, BuildNum, t)
    BY <2>2, RowAt
  <2> QED BY <1>0, <1>3, <1>4, <2>1, <2>3 DEF TypeOK, Inserting, Searching, Locked
<1>13. CASE FinishBuild(t)
  <2>1. /\ pc[t] = "next" /\ pc' = [pc EXCEPT ![t] = "barrier3"]
        /\ idx[t] >= ShareEnd(NR, BuildNum, t)
        /\ UNCHANGED <<build, r, s, hashkey, latch, tuples, idx, pos, ppc, sidx, ppos, flag, acc, fault, result>>
    BY <1>13 DEF FinishBuild, inputs, table, prober
  <2> QED BY <1>0, <1>3, <1>4, <2>1 DEF TypeOK, Inserting, Searching, Locked
<1> QED
  BY <1>1, <1>2, <1>5, <1>6, <1>7, <1>8, <1>9, <1>10, <1>11, <1>12, <1>13 DEF Build

(* The steps of the probe threads and of the main thread keep it, too.     *)
LEMMA TypeOther ==
    ASSUME TypeInv,
           (\E p \in Probers : Probe(p)) \/ Main \/ Terminated \/ UNCHANGED vars
    PROVE  TypeInv'
<1> USE DEF TypeInv
<1>1. ASSUME NEW p \in Probers, Probe(p) PROVE TypeInv'
  <2>1. UNCHANGED <<build, r, s, hashkey, latch, tuples, pc, idx, pos>>
    BY <1>1 DEF Probe, StartTuple, Walk, Hit, Miss, inputs, table, builder
  <2>2. SamePhase' /\ Zeroed'
    BY <2>1 DEF SamePhase, Zeroed
  <2>3. /\ ppc[p] # "idle"
        /\ ShareBegin(NS, ProbeNum, p) <= sidx[p] /\ sidx[p] <= ShareEnd(NS, ProbeNum, p)
        /\ ppc[p] = "look" => sidx[p] < ShareEnd(NS, ProbeNum, p)
        /\ \A t \in Builders : pc[t] = "exit"
    BY <1>1 DEF Probe, StartTuple, Walk, Hit, Miss, LoopBounds
  <2>4. /\ ppc \in [Probers -> ProbePC] /\ sidx \in [Probers -> 0 .. NS]
        /\ ppos \in [Probers -> Entries] /\ flag \in [Probers -> BOOLEAN]
        /\ ShareBegin(NS, ProbeNum, p) \in Nat /\ ShareEnd(NS, ProbeNum, p) \in Nat
        /\ Succ(ppos[p]) \in Entries
    <3>1. /\ ppc \in [Probers -> ProbePC] /\ sidx \in [Probers -> 0 .. NS]
          /\ ppos \in [Probers -> Entries] /\ flag \in [Probers -> BOOLEAN]
      BY DEF TypeOK
    <3>2. ShareBegin(NS, ProbeNum, p) \in Nat /\ ShareEnd(NS, ProbeNum, p) \in Nat
      BY ShareInRange, SizeAssumption DEF Probers
    <3> QED BY <3>1, <3>2, SuccInRange
  <2>5. sidx[p] < ShareEnd(NS, ProbeNum, p) =>
            sidx[p] + 1 \in 0 .. NS /\ sidx[p] + 1 <= ShareEnd(NS, ProbeNum, p)
            /\ IdHash[s[sidx[p]]] \in Entries
    BY TupleAt DEF Home
  <2>6. CASE StartTuple(p)
    <3>1. TypeOK'
      BY <2>1, <2>4, <2>5, <2>6 DEF StartTuple, TypeOK, ProbePC, inputs, table, builder
    <3>2. LoopBounds'
      BY <2>1, <2>3, <2>4, <2>6 DEF StartTuple, LoopBounds, LockInBucket
    <3> QED BY <2>2, <3>1, <3>2
  <2>7. CASE Walk(p)
    <3>1. TypeOK'
      BY <2>1, <2>4, <2>7 DEF Walk, TypeOK, ProbePC, inputs, table, builder
    <3>2. LoopBounds'
      BY <2>1, <2>3, <2>7 DEF Walk, LoopBounds, LockInBucket
    <3> QED BY <2>2, <3>1, <3>2
  <2>8. CASE Hit(p)
    <3>0. /\ ppc[p] = "look" /\ sidx' = [sidx EXCEPT ![p] = @ + 1]
          /\ ppc' = [ppc EXCEPT ![p] = "start"]
          /\ UNCHANGED <<ppos, flag, fault>>
      BY <2>8 DEF Hit
    <3>1. TypeOK'
      BY <2>1, <2>3, <2>4, <2>5, <3>0 DEF TypeOK, ProbePC
    <3>2. LoopBounds'
      BY <2>1, <2>3, <2>4, <2>5, <3>0 DEF LoopBounds, LockInBucket
    <3> QED BY <2>2, <3>1, <3>2
  <2>9. CASE Miss(p)
    BY <2>1, <2>2, <2>9 DEF Miss, TypeOK, LoopBounds, LockInBucket
  <2> QED BY <1>1, <2>6, <2>7, <2>8, <2>9 DEF Probe
<1>2. ASSUME ReleaseBuild PROVE TypeInv'
  <2> PICK b \in DOMAIN AfterBarrier :
         /\ \A t \in Builders : pc[t] = b
         /\ pc' = [t \in Builders |-> AfterBarrier[b]]
         /\ UNCHANGED <<inputs, table, idx, pos, prober, result>>
    BY <1>2 DEF ReleaseBuild
  <2>0. /\ b \in {"barrier1", "barrier2", "barrier3"}
        /\ b = "barrier1" => AfterBarrier[b] = "timer"
        /\ b = "barrier2" => AfterBarrier[b] = "next"
        /\ b = "barrier3" => AfterBarrier[b] = "exit"
    BY DEF AfterBarrier
  <2>1. TypeOK'
    BY <2>0 DEF TypeOK, BuildPC, inputs, table, prober
  <2>2. SamePhase'
    BY <2>0 DEF SamePhase, Timing, Inserting
  <2>3. LoopBounds'
    <3>1. \A p \in Probers : ppc[p] = "idle"
      BY <2>0, SizeAssumption DEF LoopBounds, Builders
    <3> QED
      BY <2>0, <3>1 DEF LoopBounds, Zeroing, Timing, Searching, Locked, prober, inputs, LockInBucket
  <2>4. Zeroed'
    BY <2>0 DEF Zeroed, table
  <2> QED BY <2>1, <2>2, <2>3, <2>4
<1>3. ASSUME SpawnProbers PROVE TypeInv'
  BY <1>3 DEF SpawnProbers, TypeOK, ProbePC, SamePhase, LoopBounds, Zeroed, LockInBucket,
              inputs, table, builder
<1>4. ASSUME ReleaseProbe PROVE TypeInv'
  BY <1>4 DEF ReleaseProbe, TypeOK, ProbePC, SamePhase, LoopBounds, Zeroed, LockInBucket,
              inputs, table, builder
<1>5. ASSUME Collect \/ Terminated \/ UNCHANGED vars PROVE TypeInv'
  <2>1. UNCHANGED <<inputs, table, builder, prober>>
    BY <1>5 DEF Collect, Terminated, vars
  <2> QED
    BY <2>1 DEF TypeOK, SamePhase, LoopBounds, Zeroed, LockInBucket, inputs, table, builder, prober
<1> QED
  BY <1>1, <1>2, <1>3, <1>4, <1>5 DEF Main

(* Layer 1 as an invariant. *)
THEOREM TypeInvariant == Spec => []TypeInv
<1>1. TypeInv /\ [Next]_vars => TypeInv'
  BY TypeBuild, TypeOther DEF Next
<1> QED
  BY TypeInit, <1>1, PTL DEF Spec

(* Every variable stays within its type: no thread leaves the table or its *)
(* share of a relation, and every hashkey fits in NumEntries + 1 values.   *)
THEOREM TypeCorrect == Spec => []TypeOK
  BY TypeInvariant, PTL DEF TypeInv
-----------------------------------------------------------------------------
(***************************************************************************)
(* Layer 2: latches and claims.                                            *)
(***************************************************************************)

(* EntryOwnership, for one entry and without its set of owners.            *)
Owned(e) ==
    /\ \A t, u \in Builders : Owns(t, e) /\ Owns(u, e) => t = u
    /\ Claimed(e) => ((\A t \in Builders : ~Owns(t, e)) <=> tuples[e] # Empty)
    /\ ~Claimed(e) => (\A t \in Builders : ~Owns(t, e)) /\ tuples[e] = Empty

(* The two ways of stating it agree. *)
LEMMA OwnedEach == EntryOwnership <=> \A e \in Entries : Owned(e)
<1> SUFFICES ASSUME NEW e \in Entries
             PROVE  Owned(e) <=>
                LET owners == {t \in Builders : Owns(t, e)}
                IN  /\ \A t, u \in owners : t = u
                    /\ Claimed(e) => (owners = {}) = (tuples[e] # Empty)
                    /\ ~Claimed(e) => owners = {} /\ tuples[e] = Empty
  BY Zenon DEF EntryOwnership
<1> DEFINE owners == {t \in Builders : Owns(t, e)}
<1>1. owners = {} <=> \A t \in Builders : ~Owns(t, e)
  OBVIOUS
<1>2. (\A t, u \in owners : t = u) <=>
          \A t, u \in Builders : Owns(t, e) /\ Owns(u, e) => t = u
  OBVIOUS
<1> HIDE DEF owners
<1>3. Owned(e) <=>
         /\ \A t, u \in owners : t = u
         /\ Claimed(e) => (owners = {}) = (tuples[e] # Empty)
         /\ ~Claimed(e) => owners = {} /\ tuples[e] = Empty
  BY <1>1, <1>2 DEF Owned
<1> QED BY <1>3 DEF owners

(* The same of the next state.                                             *)
LEMMA OwnedEachNext ==
    ASSUME \A e \in Entries : Owned(e)'
    PROVE  EntryOwnership'
<1>1. (\A e \in Entries : Owned(e))'
  OBVIOUS
<1> QED BY <1>1, OwnedEach, PTL

(* Nobody owns an entry and nothing is claimed when the threads start.     *)
LEMMA ClaimInit == Init => ClaimInv
<1> SUFFICES ASSUME Init PROVE ClaimInv
  OBVIOUS
<1>1. /\ \A t \in Builders : pc[t] = "memset"
      /\ \A e \in Entries : hashkey[e] = Garbage /\ tuples[e] = Empty
  BY DEF Init
<1>2. \A e \in Entries : Owned(e)
  BY <1>1 DEF Owned, Owns, Claimed
<1>3. Exclusive /\ Tested /\ Untouched
  BY <1>1 DEF Exclusive, Tested, Untouched, Locked, Claimed
<1> QED
  BY <1>2, <1>3, OwnedEach DEF ClaimInv

(* Once the threads insert, Untouched has nothing more to say.             *)
LEMMA UntouchedGone ==
    ASSUME NEW t \in Builders, pc'[t] \in Inserting \cup {"exit"}
    PROVE  Untouched'
  BY DEF Untouched, Zeroing, Timing, Inserting, Searching, Locked

(* The steps of a build thread keep the invariant of layer 2.              *)
LEMMA ClaimBuild ==
    ASSUME TypeInv, ClaimInv, NEW t \in Builders, Build(t)
    PROVE  ClaimInv'
<1> USE DEF TypeInv, ClaimInv
<1>0. /\ pc \in [Builders -> BuildPC] /\ idx \in [Builders -> 0 .. NR]
      /\ pos \in [Builders -> Entries]
      /\ hashkey \in [Entries -> (0 .. NumEntries) \cup {Garbage}]
      /\ latch \in [Entries -> {0, 1, Garbage}]
      /\ tuples \in [Entries -> Rows(NR) \cup {Empty}]
  BY DEF TypeOK
<1>a. \A e \in Entries : Owned(e)
  BY OwnedEach
<1>b. Garbage # 0
  BY MarkerAssumption
<1>1. ASSUME Memset(t) PROVE ClaimInv'
  <2>1. /\ \A e \in Entries : hashkey'[e] = 0 \/ hashkey'[e] = hashkey[e]
        /\ pc[t] = "memset" /\ pc' = [pc EXCEPT ![t] = "barrier1"]
        /\ UNCHANGED tuples
    BY <1>1 DEF Memset
  <2>2. \A u \in Builders : pc[u] \in Zeroing
    BY <2>1, PhaseOfAll DEF Zeroing
  <2>3. \A u \in Builders : pc'[u] \in Zeroing
    BY <1>0, <2>1, <2>2 DEF Zeroing
  <2>4. \A e \in Entries : ~Claimed(e) /\ ~Claimed(e)' /\ tuples'[e] = Empty
    BY <1>a, <2>1, <2>2 DEF Untouched, Claimed, Owned
  <2>5. \A e \in Entries : Owned(e)'
    BY <2>3, <2>4 DEF Owned, Owns, Zeroing
  <2>6. Exclusive' /\ Tested' /\ Untouched'
    BY <2>3, <2>4 DEF Exclusive, Tested, Untouched, Zeroing, Locked
  <2>7. EntryOwnership'
    BY <2>5, OwnedEachNext
  <2> QED BY <2>6, <2>7
<1>2. ASSUME Timer(t) PROVE ClaimInv'
  <2>1. /\ pc[t] = "timer" /\ pc' = [pc EXCEPT ![t] = "barrier2"]
        /\ UNCHANGED <<hashkey, latch, tuples, pos>>
    BY <1>2 DEF Timer, table
  <2>2. \A u \in Builders : pc[u] \in Timing
    BY <2>1, PhaseOfAll DEF Timing
  <2>3. \A u \in Builders : pc'[u] \in Timing
    BY <1>0, <2>1, <2>2 DEF Timing
  <2>4. \A e \in Entries : Owned(e)' /\ ~Claimed(e)'
    BY <1>a, <2>1, <2>2, <2>3 DEF Untouched, Claimed, Owned, Owns, Timing
  <2>5. Exclusive' /\ Tested' /\ Untouched'
    BY <2>3, <2>4 DEF Exclusive, Tested, Untouched, Timing, Locked
  <2>6. EntryOwnership'
    BY <2>4, OwnedEachNext
  <2> QED BY <2>5, <2>6
<1>3. ASSUME /\ pc[t] \in Inserting /\ pc'[t] \in Inserting
             /\ pc' = [pc EXCEPT ![t] = pc'[t]]
             /\ \A u \in Builders : u # t => pos'[u] = pos[u]
             /\ Exclusive' /\ Tested'
             /\ \A e \in Entries : Owned(e)'
      PROVE  ClaimInv'
  <2>1. Untouched'
    BY <1>3, UntouchedGone
  <2>2. EntryOwnership'
    BY <1>3, OwnedEachNext
  <2> QED BY <1>3, <2>1, <2>2
<1>4. ASSUME pc[t] \in Inserting
      PROVE  \A e \in Entries : hashkey[e] # Garbage /\ latch[e] # Garbage
  <2>1. \A u \in Builders : pc[u] # "memset"
    BY <1>4, PhaseOfAll DEF Inserting, Searching, Locked
  <2> QED BY <2>1, AllZeroed
<1>5. ASSUME pc[t] \in Searching
      PROVE  IdHash[r[idx[t]]] + 1 # 0 /\ IdHash[r[idx[t]]] + 1 # Garbage
             /\ idx[t] \in Rows(NR) /\ idx[t] # Empty
  <2>1. idx[t] < ShareEnd(NR, BuildNum, t)
    BY <1>5 DEF LoopBounds
  <2>2. IdHash[r[idx[t]]] \in Entries /\ idx[t] \in Rows(NR)
    BY <2>1, RowAt
  <2> QED BY <2>2, MarkerAssumption DEF Entries
(* Steps outside of the latch that claim nothing. *)
<1>6. ASSUME \/ /\ StartInsert(t) \/ Peek(t) \/ FinishBuild(t)
             \/ /\ Claim(t) /\ UNCHANGED hashkey
      PROVE  ClaimInv'
  <2>1. /\ UNCHANGED <<hashkey, latch, tuples>>
        /\ pc[t] \in {"next", "peek", "claim"}
        /\ pc'[t] \in {"next", "peek", "claim", "barrier3"}
        /\ pc' = [pc EXCEPT ![t] = pc'[t]]
        /\ \A u \in Builders : u # t => pos'[u] = pos[u] /\ pc'[u] = pc[u]
    <3>1. CASE StartInsert(t)
      BY <1>0, <3>1 DEF StartInsert, table
    <3>2. CASE Peek(t)
      BY <1>0, <3>2 DEF Peek, table
    <3>3. CASE FinishBuild(t)
      BY <1>0, <3>3 DEF FinishBuild, table
    <3>4. CASE Claim(t) /\ UNCHANGED hashkey
      <4>1. hashkey[pos[t]] # 0
        <5> SUFFICES ASSUME hashkey[pos[t]] = 0 PROVE FALSE
          OBVIOUS
        <5>1. hashkey' = [hashkey EXCEPT ![pos[t]] = IdHash[r[idx[t]]] + 1] /\ pc[t] = "claim"
          BY <3>4 DEF Claim
        <5>2. hashkey'[pos[t]] # 0
          BY <1>0, <1>5, <5>1 DEF Searching
        <5> QED BY <3>4, <5>2
      <4> QED BY <1>0, <3>4, <4>1 DEF Claim
    <3> QED BY <1>6, <3>1, <3>2, <3>3, <3>4
  <2>2. \A u \in Builders : pc'[u] \in Locked => pc[u] \in Locked /\ u # t
    BY <2>1 DEF Locked
  <2>3. Exclusive' /\ Tested'
    BY <2>1, <2>2 DEF Exclusive, Tested, Locked, Claimed
  <2>4. \A e \in Entries : Owned(e)'
    <3> SUFFICES ASSUME NEW e \in Entries PROVE Owned(e)'
      OBVIOUS
    <3>1. \A u \in Builders : Owns(u, e)' <=> Owns(u, e)
      BY <2>1 DEF Owns
    <3>2. Claimed(e)' <=> Claimed(e)
      BY <2>1 DEF Claimed
    <3> QED BY <1>a, <2>1, <3>1, <3>2 DEF Owned
  <2>5. pc[t] \in Inserting /\ pc'[t] \in Inserting
    BY <2>1 DEF Inserting, Searching
  <2> QED BY <1>3, <2>1, <2>3, <2>4, <2>5
(* A claim: the entry was free, and becomes t's. *)
<1>7. ASSUME /\ hashkey[pos[t]] = 0
             /\ hashkey' = [hashkey EXCEPT ![pos[t]] = IdHash[r[idx[t]]] + 1]
             /\ \/ pc[t] = "claim" /\ pc'[t] = "store" /\ ~LockInBucket
                \/ pc[t] = "write" /\ pc'[t] = "unlock"
             /\ pc' = [pc EXCEPT ![t] = pc'[t]]
             /\ UNCHANGED <<latch, tuples, pos, build>>
      PROVE  ClaimInv'
  <2>0. pc[t] \in Searching /\ pc[t] \in Inserting /\ pc'[t] \in Inserting
    BY <1>7 DEF Searching, Inserting, Locked
  <2>1. /\ \A e \in Entries : e # pos[t] => (Claimed(e)' <=> Claimed(e))
        /\ ~Claimed(pos[t]) /\ Claimed(pos[t])'
    BY <1>0, <1>5, <1>7, <2>0 DEF Claimed
  <2>2. \A u \in Builders : u # t => pc'[u] = pc[u]
    BY <1>0, <1>7
  <2>3. \A u \in Builders : pc'[u] \in Locked => pc[u] \in Locked
    BY <1>7, <2>2 DEF Locked
  <2>4. Exclusive'
    BY <1>7, <2>3 DEF Exclusive
  <2>5. \A u \in Builders : u # t /\ pc[u] \in Locked => pos[u] # pos[t]
    <3> SUFFICES ASSUME NEW u \in Builders, u # t, pc[u] \in Locked PROVE pos[u] # pos[t]
      OBVIOUS
    <3>1. LockInBucket
      BY DEF LoopBounds
    <3>2. pc[t] \in Locked
      BY <1>7, <3>1 DEF Locked
    <3> QED BY <3>2 DEF Exclusive
  <2>6. Tested'
    <3> SUFFICES ASSUME NEW u \in Builders
                 PROVE  /\ pc'[u] = "write" => hashkey'[pos'[u]] = 0
                        /\ pc'[u] = "reject" => Claimed(pos[u])'
      BY <1>7 DEF Tested, Claimed
    <3>1. CASE u = t
      BY <1>7, <3>1
    <3>2. CASE u # t /\ pc[u] \in {"write", "reject"}
      <4>1. pos[u] # pos[t] /\ pos[u] \in Entries
        BY <1>0, <2>5, <3>2 DEF Locked
      <4> QED BY <1>0, <1>7, <2>1, <2>2, <3>2, <4>1 DEF Tested
    <3>3. CASE u # t /\ pc[u] \notin {"write", "reject"}
      BY <2>2, <3>3
    <3> QED BY <3>1, <3>2, <3>3
  <2>7. ASSUME NEW e \in Entries PROVE Owned(e)'
    <3>1. CASE e = pos[t]
      <4>1. (\A u \in Builders : ~Owns(u, e)) /\ tuples[e] = Empty
        BY <1>a, <2>1, <3>1 DEF Owned
      <4>2. \A u \in Builders : Owns(u, e)' <=> u = t
        BY <1>7, <2>2, <3>1, <4>1 DEF Owns
      <4> QED BY <1>7, <2>1, <3>1, <4>1, <4>2 DEF Owned
    <3>2. CASE e # pos[t]
      <4>1. \A u \in Builders : Owns(u, e)' <=> Owns(u, e)
        BY <1>7, <2>2, <3>2 DEF Owns
      <4> QED BY <1>a, <1>7, <2>1, <3>2, <4>1 DEF Owned
    <3> QED BY <3>1, <3>2
  <2> QED BY <1>3, <1>7, <2>0, <2>4, <2>6, <2>7
<1>8. ASSUME Claim(t), hashkey' # hashkey PROVE ClaimInv'
  <2>1. /\ pc[t] = "claim" /\ ~LockInBucket /\ hashkey[pos[t]] = 0
        /\ hashkey' = [hashkey EXCEPT ![pos[t]] = IdHash[r[idx[t]]] + 1]
        /\ pc' = [pc EXCEPT ![t] = "store"]
        /\ UNCHANGED <<latch, tuples, pos, build>>
    BY <1>8 DEF Claim, inputs
  <2>2. pc'[t] = "store" /\ pc' = [pc EXCEPT ![t] = pc'[t]]
    BY <1>0, <2>1
  <2> QED BY <1>7, <2>1, <2>2
<1>9. ASSUME Write(t) PROVE ClaimInv'
  <2>1. /\ pc[t] = "write" /\ hashkey[pos[t]] = 0
        /\ hashkey' = [hashkey EXCEPT ![pos[t]] = IdHash[r[idx[t]]] + 1]
        /\ pc' = [pc EXCEPT ![t] = "unlock"]
        /\ UNCHANGED <<latch, tuples, pos, build>>
    BY <1>9 DEF Write, inputs, Tested
  <2>2. pc'[t] = "unlock" /\ pc' = [pc EXCEPT ![t] = pc'[t]]
    BY <1>0, <2>1
  <2> QED BY <1>7, <2>1, <2>2
(* The latch. *)
<1>10. ASSUME Lock(t) \/ Test(t) \/ Unlock(t) PROVE ClaimInv'
  <2>1. /\ UNCHANGED <<hashkey, tuples>>
        /\ pc[t] \in {"claim"} \cup Locked /\ pc'[t] \in {"store", "peek"} \cup Locked
        /\ pc' = [pc EXCEPT ![t] = pc'[t]]
        /\ \A u \in Builders : u # t => pos'[u] = pos[u] /\ pc'[u] = pc[u]
    <3>1. CASE Lock(t)
      BY <1>0, <3>1 DEF Lock, Locked
    <3>2. CASE Test(t)
      BY <1>0, <3>2 DEF Test, Locked, table
    <3>3. CASE Unlock(t)
      BY <1>0, <3>3 DEF Unlock, Locked
    <3> QED BY <1>10, <3>1, <3>2, <3>3
  <2>2. pc[t] \in Inserting /\ pc'[t] \in Inserting
    BY <2>1 DEF Inserting, Searching
  <2>3. ASSUME NEW e \in Entries PROVE Owned(e)'
    <3>1. Owns(t, e)' <=> Owns(t, e)
      <4>1. CASE Lock(t)
        BY <1>0, <4>1 DEF Lock, Owns
      <4>2. CASE Test(t)
        BY <1>0, <4>2 DEF Test, Owns
      <4>3. CASE Unlock(t)
        BY <1>0, <4>3 DEF Unlock, Owns
      <4> QED BY <1>10, <4>1, <4>2, <4>3
    <3>2. \A u \in Builders : Owns(u, e)' <=> Owns(u, e)
      BY <2>1, <3>1 DEF Owns
    <3> QED BY <1>a, <2>1, <3>2 DEF Owned, Claimed
  <2>4. Exclusive'
    <3>1. CASE Lock(t)
      BY <1>0, <3>1 DEF Lock, Exclusive, Locked
    <3>2. CASE Test(t)
      BY <1>0, <3>2 DEF Test, Exclusive, Locked, table
    <3>3. CASE Unlock(t)
      <4>1. /\ pc[t] \in Locked /\ pc'[t] \notin Locked
            /\ latch' = [latch EXCEPT ![pos[t]] = 0]
        BY <1>0, <3>3 DEF Unlock, Locked
      <4> QED BY <1>0, <2>1, <4>1 DEF Exclusive
    <3> QED BY <1>10, <3>1, <3>2, <3>3
  <2>5. Tested'
    <3>1. CASE Lock(t)
      BY <1>0, <2>1, <3>1 DEF Lock, Tested, Claimed
    <3>2. CASE Test(t)
      <4>1. hashkey[pos[t]] # Garbage
        BY <1>0, <1>4, <2>2
      <4>2. UNCHANGED <<hashkey, pos>>
            /\ pc' = [pc EXCEPT ![t] = IF hashkey[pos[t]] = 0 THEN "write" ELSE "reject"]
        BY <3>2 DEF Test, table
      <4> QED BY <1>0, <4>1, <4>2 DEF Tested, Claimed
    <3>3. CASE Unlock(t)
      <4>1. pc'[t] \notin {"write", "reject"}
        BY <1>0, <3>3 DEF Unlock
      <4> QED BY <1>0, <2>1, <4>1 DEF Tested, Claimed
    <3> QED BY <1>10, <3>1, <3>2, <3>3
  <2> QED BY <1>3, <2>1, <2>2, <2>3, <2>4, <2>5
(* The tuple goes into the entry that is t's. *)
<1>11. ASSUME Store(t) PROVE ClaimInv'
  <2>1. /\ pc[t] = "store" /\ pc' = [pc EXCEPT ![t] = "next"]
        /\ tuples' = [tuples EXCEPT ![pos[t]] = idx[t]]
        /\ UNCHANGED <<hashkey, latch, pos>>
    BY <1>11 DEF Store
  <2>2. \A u \in Builders : u # t => pc'[u] = pc[u]
    BY <1>0, <2>1
  <2>3. pc[t] \in Inserting /\ pc[t] \in Searching /\ pc'[t] = "next" /\ pc'[t] \in Inserting
    BY <1>0, <2>1 DEF Inserting, Searching
  <2>4. Exclusive' /\ Tested'
    BY <2>1, <2>2, <2>3 DEF Exclusive, Tested, Locked, Claimed
  <2>5. ASSUME NEW e \in Entries PROVE Owned(e)'
    <3>1. CASE e = pos[t]
      <4>1. Owns(t, e)
        BY <2>1, <3>1 DEF Owns
      <4>2. Claimed(e) /\ \A u \in Builders : Owns(u, e) => u = t
        BY <1>a, <4>1 DEF Owned
      <4>3. \A u \in Builders : ~Owns(u, e)'
        BY <2>1, <2>2, <2>3, <4>2 DEF Owns
      <4>4. tuples'[e] # Empty
        BY <1>0, <1>5, <2>1, <2>3, <3>1
      <4> QED BY <2>1, <4>2, <4>3, <4>4 DEF Owned, Claimed
    <3>2. CASE e # pos[t]
      <4>1. \A u \in Builders : Owns(u, e)' <=> Owns(u, e)
        BY <2>1, <2>2, <2>3, <3>2 DEF Owns
      <4>2. tuples'[e] = tuples[e]
        BY <1>0, <2>1, <3>2
      <4> QED BY <1>a, <2>1, <4>1, <4>2 DEF Owned, Claimed
    <3> QED BY <3>1, <3>2
  <2> QED BY <1>3, <2>1, <2>3, <2>4, <2>5
<1> QED
  BY <1>1, <1>2, <1>6, <1>8, <1>9, <1>10, <1>11 DEF Build

(* The other steps leave the table alone. *)
LEMMA OtherSteps ==
    ASSUME (\E p \in Probers : Probe(p)) \/ Main \/ Terminated \/ UNCHANGED vars
    PROVE  /\ UNCHANGED <<build, r, s, hashkey, latch, tuples, idx, pos>>
           /\ pc' # pc => ReleaseBuild /\ UNCHANGED <<prober, result>>
<1>1. ASSUME NEW p \in Probers, Probe(p)
      PROVE  UNCHANGED <<inputs, table, builder>>
  BY <1>1 DEF Probe, StartTuple, Walk, Hit, Miss
<1>2. ASSUME SpawnProbers \/ ReleaseProbe \/ Collect \/ Terminated \/ UNCHANGED vars
      PROVE  UNCHANGED <<inputs, table, builder>>
  BY <1>2 DEF SpawnProbers, ReleaseProbe, Collect, Terminated, vars
<1>3. ASSUME UNCHANGED <<inputs, table, builder>>
      PROVE  UNCHANGED <<build, r, s, hashkey, latch, tuples, idx, pos, pc>>
  BY <1>3 DEF inputs, table, builder
<1>4. ASSUME ReleaseBuild
      PROVE  UNCHANGED <<build, r, s, hashkey, latch, tuples, idx, pos, prober, result>>
  BY <1>4 DEF ReleaseBuild, inputs, table
<1> QED BY <1>1, <1>2, <1>3, <1>4 DEF Main

(* A barrier only lets threads go on that are outside of the search.       *)
LEMMA ReleaseFrom ==
    ASSUME ReleaseBuild
    PROVE  \/ /\ \A t \in Builders : pc[t] = "barrier1" /\ pc'[t] = "timer"
           \/ /\ \A t \in Builders : pc[t] = "barrier2" /\ pc'[t] = "next"
           \/ /\ \A t \in Builders : pc[t] = "barrier3" /\ pc'[t] = "exit"
<1>1. PICK b \in DOMAIN AfterBarrier :
         /\ \A t \in Builders : pc[t] = b
         /\ pc' = [t \in Builders |-> AfterBarrier[b]]
  BY DEF ReleaseBuild
<1>2. /\ b \in {"barrier1", "barrier2", "barrier3"}
      /\ b = "barrier1" => AfterBarrier[b] = "timer"
      /\ b = "barrier2" => AfterBarrier[b] = "next"
      /\ b = "barrier3" => AfterBarrier[b] = "exit"
  BY DEF AfterBarrier
<1> QED BY <1>1, <1>2

(* So they keep the invariant of layer 2. *)
LEMMA ClaimOther ==
    ASSUME TypeInv, ClaimInv,
           (\E p \in Probers : Probe(p)) \/ Main \/ Terminated \/ UNCHANGED vars
    PROVE  ClaimInv'
<1> USE DEF TypeInv, ClaimInv
<1>1. UNCHANGED <<hashkey, latch, tuples, pos>>
  BY OtherSteps
<1>2. /\ \A t \in Builders : pc'[t] \in Locked => pc'[t] = pc[t]
      /\ \A t \in Builders : \A e \in Entries : Owns(t, e)' <=> Owns(t, e)
      /\ Untouched'
  <2>1. CASE pc' = pc
    BY <1>1, <2>1 DEF Owns, Untouched, Claimed
  <2>2. CASE pc' # pc
    <3>1. /\ \A t \in Builders : pc[t] \notin {"unlock", "store"}
          /\ \A t \in Builders : pc'[t] \notin {"unlock", "store"} \cup Locked
          /\ \/ \A t \in Builders : pc[t] \in Zeroing \cup Timing
             \/ \A t \in Builders : pc'[t] \in Inserting \cup {"exit"}
      BY <2>2, OtherSteps, ReleaseFrom DEF Locked, Zeroing, Timing, Inserting
    <3>2. Untouched'
      <4>1. CASE \A t \in Builders : pc[t] \in Zeroing \cup Timing
        BY <1>1, <4>1 DEF Untouched, Claimed
      <4>2. CASE \A t \in Builders : pc'[t] \in Inserting \cup {"exit"}
        BY <4>2, UntouchedGone, SizeAssumption DEF Builders
      <4> QED BY <3>1, <4>1, <4>2
    <3> QED BY <3>1, <3>2 DEF Owns
  <2> QED BY <2>1, <2>2
<1>3. Exclusive' /\ Tested'
  BY <1>1, <1>2 DEF Exclusive, Tested, Claimed, Locked
<1>4. \A e \in Entries : Owned(e)
  BY OwnedEach
<1>5. \A e \in Entries : Owned(e)'
  BY <1>1, <1>2, <1>4 DEF Owned, Claimed
<1>6. EntryOwnership'
  BY <1>5, OwnedEachNext
<1> QED BY <1>2, <1>3, <1>6

(* Layer 2 as an invariant: latches exclude, and what a thread has read    *)
(* under one still holds when it acts on it.                               *)
THEOREM ClaimInvariant == Spec => []ClaimInv
<1>1. TypeInv /\ ClaimInv /\ [Next]_vars => ClaimInv'
  BY ClaimBuild, ClaimOther DEF Next
<1> QED
  BY ClaimInit, TypeInvariant, <1>1, PTL DEF Spec

(* Although the hashkey is read before the entry is claimed, and the tuple *)
(* stored after that, no entry is ever claimed for two tuples, none that   *)
(* is claimed stays without its tuple, and none is stored into unclaimed,  *)
(* with any number of threads (lp_insert_with_pos, nphj.c:1056-1070).      *)
THEOREM EntriesOwned == Spec => []EntryOwnership
  BY ClaimInvariant, PTL DEF ClaimInv
-----------------------------------------------------------------------------
(***************************************************************************)
(* Layer 3: the rows in the table.                                         *)
(***************************************************************************)

(* The table is empty when the threads start. *)
LEMMA RowInit == Init => RowInv
<1> SUFFICES ASSUME Init PROVE RowInv
  OBVIOUS
<1>1. \A e \in Entries : tuples[e] = Empty
  BY DEF Init
<1>2. \A t \in Builders : idx[t] = ShareBegin(NR, BuildNum, t) /\ idx[t] \in Nat
  <2>1. \A t \in Builders : ShareBegin(NR, BuildNum, t) \in Nat
    BY ShareInRange, SizeAssumption DEF Builders
  <2> QED BY <2>1 DEF Init
<1>3. ASSUME NEW t \in Builders, NEW i \in Share(NR, BuildNum, t), i < idx[t]
      PROVE  FALSE
  BY <1>2, <1>3 DEF Share
<1> QED BY <1>1, <1>3 DEF RowInv

(* A store brings the row that its thread is through with then, and no row *)
(* comes in any other way.                                                 *)
LEMMA RowNext ==
    ASSUME TypeInv, ClaimInv, RowInv, [Next]_vars
    PROVE  RowInv'
<1> USE DEF TypeInv, ClaimInv
<1>0. /\ idx \in [Builders -> 0 .. NR] /\ pos \in [Builders -> Entries]
      /\ tuples \in [Entries -> Rows(NR) \cup {Empty}]
  BY DEF TypeOK
<1>1. ASSUME NEW t \in Builders, Store(t) PROVE RowInv'
  <2> DEFINE i == idx[t]
             d == pos[t]
  <2>1. /\ pc[t] = "store" /\ tuples' = [tuples EXCEPT ![d] = i]
        /\ idx' = [idx EXCEPT ![t] = i + 1]
    BY <1>1 DEF Store
  <2>2. i < ShareEnd(NR, BuildNum, t) /\ ShareBegin(NR, BuildNum, t) <= i
    BY <2>1 DEF LoopBounds, Searching
  <2>3. i \in Rows(NR) /\ i \in Int /\ d \in Entries /\ i # Empty
    BY <1>0, <2>2, RowAt, MarkerAssumption
  <2>4. i \in Share(NR, BuildNum, t)
    <3>1. ShareBegin(NR, BuildNum, t) \in Nat /\ ShareEnd(NR, BuildNum, t) \in Nat
      BY ShareInRange, SizeAssumption DEF Builders
    <3> QED BY <2>2, <2>3, <3>1 DEF Share
  <2>5. tuples[d] = Empty
    <3>1. Owns(t, d)
      BY <2>1 DEF Owns
    <3>2. Owned(d)
      BY <2>3, OwnedEach
    <3> QED BY <3>1, <3>2 DEF Owned
  <2>6. \A e \in Entries : tuples[e] # i
    <3> SUFFICES ASSUME NEW e \in Entries, tuples[e] = i PROVE FALSE
      OBVIOUS
    <3>1. PICK u \in Builders : tuples[e] \in Share(NR, BuildNum, u) /\ tuples[e] < idx[u]
      BY <2>3 DEF RowInv
    <3>2. u = t
      BY <2>4, <3>1, ShareDisjoint, SizeAssumption DEF Builders
    <3> QED BY <2>3, <3>1, <3>2
  <2>7. \A u \in Builders : \A k \in Share(NR, BuildNum, u) : k \in Int
    BY ShareWithin, SizeAssumption DEF Builders
  <2>8. \A u \in Builders : idx[u] \in Int /\ idx'[u] \in Int /\ idx[u] <= idx'[u]
    BY <1>0, <2>1, <2>3
  <2> HIDE DEF i, d
  <2>9. \A e \in Entries : tuples'[e] = IF e = d THEN i ELSE tuples[e]
    BY <1>0, <2>1
  <2>10. \A e \in Entries : tuples'[e] # Empty =>
           \E u \in Builders : tuples'[e] \in Share(NR, BuildNum, u) /\ tuples'[e] < idx'[u]
    <3> SUFFICES ASSUME NEW e \in Entries, tuples'[e] # Empty
                 PROVE  \E u \in Builders :
                            tuples'[e] \in Share(NR, BuildNum, u) /\ tuples'[e] < idx'[u]
      OBVIOUS
    <3>1. CASE e = d
      <4>1. idx'[t] = i + 1
        BY <1>0, <2>1
      <4> QED BY <2>3, <2>4, <2>9, <3>1, <4>1
    <3>2. CASE e # d
      <4>1. PICK u \in Builders : tuples[e] \in Share(NR, BuildNum, u) /\ tuples[e] < idx[u]
        BY <2>9, <3>2 DEF RowInv
      <4> QED BY <2>7, <2>8, <2>9, <3>2, <4>1
    <3> QED BY <3>1, <3>2
  <2>11. \A u \in Builders : \A k \in Share(NR, BuildNum, u) :
           k < idx'[u] => \E e \in Entries : tuples'[e] = k
    <3> SUFFICES ASSUME NEW u \in Builders, NEW k \in Share(NR, BuildNum, u), k < idx'[u]
                 PROVE  \E e \in Entries : tuples'[e] = k
      OBVIOUS
    <3>1. CASE k < idx[u]
      <4>1. PICK e \in Entries : tuples[e] = k
        BY <3>1 DEF RowInv
      <4>2. e # d
        <5>1. k # Empty
          BY ShareWithin, SizeAssumption, MarkerAssumption DEF Builders, Rows
        <5> QED BY <2>5, <4>1, <5>1
      <4> QED BY <2>9, <4>1, <4>2
    <3>2. CASE ~(k < idx[u])
      <4>1. u = t /\ k = i
        BY <1>0, <2>1, <2>3, <2>7, <2>8, <3>2 DEF i
      <4> QED BY <2>3, <2>9, <4>1
    <3> QED BY <3>1, <3>2
  <2>12. \A e, x \in Entries : tuples'[e] # Empty /\ tuples'[x] = tuples'[e] => x = e
    BY <2>5, <2>6, <2>9 DEF RowInv
  <2> QED BY <2>10, <2>11, <2>12 DEF RowInv
<1>2. ASSUME UNCHANGED <<tuples, idx>> PROVE RowInv'
  BY <1>2 DEF RowInv
<1>3. ASSUME NEW t \in Builders, Build(t), ~Store(t) PROVE UNCHANGED <<tuples, idx>>
  BY <1>3 DEF Build, Memset, Timer, StartInsert, Peek, Claim, Lock, Test, Write, Unlock,
              FinishBuild, table
<1>4. ASSUME (\E p \in Probers : Probe(p)) \/ Main \/ Terminated \/ UNCHANGED vars
      PROVE  UNCHANGED <<tuples, idx>>
  BY <1>4, OtherSteps
<1> QED BY <1>1, <1>2, <1>3, <1>4 DEF Next

(* Layer 3 as an invariant. *)
THEOREM RowInvariant == Spec => []RowInv
  BY RowInit, RowNext, TypeInvariant, ClaimInvariant, PTL DEF Spec

(* Layers 1 and 3 say where the rows are when the build has ended.         *)
LEMMA BuildSound == TypeInv /\ RowInv => BuildComplete
<1> SUFFICES ASSUME TypeInv, RowInv, \A t \in Builders : pc[t] = "exit",
                    NEW i \in Rows(NR)
             PROVE  \E e \in Entries : \A x \in Entries : tuples[x] = i <=> x = e
  BY DEF BuildComplete
<1>1. PICK t \in Builders : i \in Share(NR, BuildNum, t)
  BY ShareCover, SizeAssumption DEF Builders, Rows
<1>2. i < idx[t]
  <2>1. idx[t] = ShareEnd(NR, BuildNum, t)
    BY DEF TypeInv, LoopBounds
  <2>2. ShareEnd(NR, BuildNum, t) \in Nat /\ ShareBegin(NR, BuildNum, t) \in Nat
    BY ShareInRange, SizeAssumption DEF Builders
  <2> QED BY <1>1, <2>1, <2>2 DEF Share
<1>3. PICK e \in Entries : tuples[e] = i
  BY <1>1, <1>2 DEF RowInv
<1> QED BY <1>3, MarkerAssumption DEF RowInv

(* When the build threads have been joined, each R tuple is in the table,  *)
(* in one entry only, whatever races there were for the entries            *)
(* (build_hashtable_nphj_lp, nphj.c:1078-1143).                            *)
THEOREM BuildsComplete == Spec => []BuildComplete
  BY TypeInvariant, RowInvariant, BuildSound, PTL
-----------------------------------------------------------------------------
(***************************************************************************)
(* Layer 4: paths from home entries.                                       *)
(***************************************************************************)

(* One step along the ring adds one entry at most to the path behind, and  *)
(* the path from an entry to itself is empty.                              *)
LEMMA PathStep ==
    ASSUME NEW h \in Entries, NEW e \in Entries
    PROVE  /\ Before(h, Succ(e)) \subseteq Before(h, e) \cup {e}
           /\ Before(h, h) = {}
           /\ Succ(e) # h => Before(h, Succ(e)) = Before(h, e) \cup {e}
           /\ e \notin Before(h, e)
           /\ Succ(e) = h => Before(h, e) \cup {e} = Entries
<1> USE SizeAssumption DEF Entries, Succ, Before
<1>1. Before(h, h) = {} /\ e \notin Before(h, e)
  OBVIOUS
<1>2. CASE e = NumEntries - 1
  BY <1>1, <1>2
<1>3. CASE e # NumEntries - 1
  BY <1>1, <1>3
<1> QED BY <1>2, <1>3

(* Of two entries, one lies on the path to the other. *)
LEMMA PathTotal ==
    ASSUME NEW h \in Entries, NEW e \in Entries, NEW x \in Entries
    PROVE  x = e \/ x \in Before(h, e) \/ e \in Before(h, x)
  BY SizeAssumption DEF Entries, Before

(* What is claimed stays claimed. *)
LEMMA StayClaimed ==
    ASSUME TypeInv, ClaimInv, [Next]_vars, NEW e \in Entries, Claimed(e)
    PROVE  Claimed(e)'
<1> USE DEF TypeInv, ClaimInv
<1>0. /\ hashkey \in [Entries -> (0 .. NumEntries) \cup {Garbage}]
      /\ Garbage \notin Int
  BY MarkerAssumption DEF TypeOK
<1>1. ASSUME NEW t \in Builders, Memset(t) PROVE FALSE
  <2>1. \A u \in Builders : pc[u] \in Zeroing
    BY <1>1, PhaseOfAll DEF Memset, Zeroing
  <2> QED BY <2>1 DEF Untouched
<1>2. ASSUME NEW t \in Builders, Claim(t) \/ Write(t) PROVE Claimed(e)'
  <2>1. pc[t] \in Searching
    BY <1>2 DEF Claim, Write, Searching, Locked
  <2>2. IdHash[r[idx[t]]] \in Entries
    BY <2>1, RowAt DEF LoopBounds
  <2>3. IdHash[r[idx[t]]] + 1 # 0 /\ IdHash[r[idx[t]]] + 1 # Garbage
    BY <1>0, <2>2 DEF Entries
  <2> QED BY <1>0, <1>2, <2>3 DEF Claim, Write, Claimed
<1>3. ASSUME NEW t \in Builders, Build(t), ~Memset(t), ~Claim(t), ~Write(t)
      PROVE  UNCHANGED hashkey
  BY <1>3 DEF Build, Timer, StartInsert, Peek, Lock, Test, Unlock, Store, FinishBuild, table
<1>4. ASSUME UNCHANGED hashkey PROVE Claimed(e)'
  BY <1>4 DEF Claimed
<1> QED BY <1>1, <1>2, <1>3, <1>4, OtherSteps DEF Next

(* The path of thread t is unbroken. *)
PathOf(t) == \A x \in Before(IdHash[r[idx[t]]], pos[t]) : Claimed(x)

(* An insert only passes claimed entries, and a claim is never taken back. *)
LEMMA PathNext ==
    ASSUME TypeInv, ClaimInv, UnbrokenPath, [Next]_vars
    PROVE  UnbrokenPath'
<1> USE DEF TypeInv, ClaimInv
<1>0. /\ idx \in [Builders -> 0 .. NR] /\ pos \in [Builders -> Entries]
      /\ tuples \in [Entries -> Rows(NR) \cup {Empty}]
      /\ pc \in [Builders -> BuildPC] /\ r' = r
  <2>1. r' = r
    <3>1. ASSUME NEW t \in Builders, Build(t) PROVE r' = r
      BY <3>1 DEF Build, Memset, Timer, StartInsert, Peek, Claim, Lock, Test, Write, Unlock,
                  Store, FinishBuild, inputs
    <3> QED BY <3>1, OtherSteps DEF Next
  <2> QED BY <2>1 DEF TypeOK
<1>a. \A e \in Entries : Claimed(e) => Claimed(e)'
  BY StayClaimed
<1>b. \A h, e : Before(h, e) \subseteq Entries
  BY DEF Before
<1>c. \A t \in Builders : pc[t] \in Searching => PathOf(t) /\ IdHash[r[idx[t]]] \in Entries
  BY RowAt DEF UnbrokenPath, PathOf, Searching, Locked, LoopBounds
<1>d. \A t \in Builders : pc'[t] \in Searching => PathOf(t)'
  <2> SUFFICES ASSUME NEW t \in Builders, pc'[t] \in Searching PROVE PathOf(t)'
    OBVIOUS
  <2>1. CASE pc[t] \in Searching /\ idx'[t] = idx[t] /\ pos'[t] = pos[t]
    BY <1>0, <1>a, <1>b, <1>c, <2>1 DEF PathOf
  <2>2. CASE StartInsert(t)
    <3>1. /\ pos' = [pos EXCEPT ![t] = IdHash[r[idx[t]]]] /\ idx' = idx
          /\ idx[t] < ShareEnd(NR, BuildNum, t)
      BY <2>2 DEF StartInsert
    <3>2. IdHash[r[idx[t]]] \in Entries
      BY <3>1, RowAt
    <3>3. pos'[t] = IdHash[r[idx[t]]] /\ Before(IdHash[r[idx[t]]], IdHash[r[idx[t]]]) = {}
      BY <1>0, <3>1, <3>2, PathStep
    <3> QED BY <1>0, <3>1, <3>3 DEF PathOf
  <2>3. CASE pc[t] \in Searching /\ idx' = idx /\ Claimed(pos[t])
             /\ pos' = [pos EXCEPT ![t] = Succ(@)]
    <3>1. pos'[t] = Succ(pos[t]) /\ pos[t] \in Entries
      BY <1>0, <2>3
    <3>2. IdHash[r[idx[t]]] \in Entries
      BY <1>c, <2>3
    <3>3. Before(IdHash[r[idx[t]]], Succ(pos[t])) \subseteq
              Before(IdHash[r[idx[t]]], pos[t]) \cup {pos[t]}
      BY <3>1, <3>2, PathStep
    <3> QED BY <1>0, <1>a, <1>b, <1>c, <2>3, <3>1, <3>3 DEF PathOf
  <2>4. ASSUME Build(t) PROVE PathOf(t)'
    <3>0. ASSUME pc[t] \in Searching PROVE hashkey[pos[t]] # Garbage
      <4>1. \A u \in Builders : pc[u] # "memset"
        BY <3>0, PhaseOfAll DEF Inserting, Searching, Locked
      <4> QED BY <1>0, <4>1, AllZeroed
    <3>1. CASE Memset(t) \/ Timer(t) \/ FinishBuild(t) \/ Store(t)
      BY <1>0, <2>4, <3>1 DEF Memset, Timer, FinishBuild, Store, Searching, Locked
    <3>2. CASE Peek(t)
      <4>1. pc[t] \in Searching /\ idx' = idx
        BY <3>2 DEF Peek, Searching
      <4> QED BY <2>1, <2>3, <3>0, <3>2, <4>1 DEF Peek, Claimed
    <3>3. CASE Claim(t)
      <4>1. pc[t] \in Searching /\ idx' = idx
        BY <3>3 DEF Claim, Searching
      <4> QED BY <2>1, <2>3, <3>0, <3>3, <4>1 DEF Claim, Claimed
    <3>4. CASE Lock(t) \/ Test(t) \/ Write(t)
      BY <2>1, <3>4 DEF Lock, Test, Write, Searching, Locked
    <3>5. CASE Unlock(t)
      <4>1. pc[t] \in Searching /\ idx' = idx
        BY <3>5 DEF Unlock, Searching, Locked
      <4>2. pc[t] = "reject" => Claimed(pos[t])
        BY DEF Tested
      <4> QED BY <2>1, <2>3, <3>5, <4>1, <4>2 DEF Unlock
    <3> QED BY <2>2, <2>4, <3>1, <3>2, <3>3, <3>4, <3>5 DEF Build
  <2>5. ASSUME NEW u \in Builders, u # t, Build(u) PROVE PathOf(t)'
    <3>1. pc'[t] = pc[t] /\ idx'[t] = idx[t] /\ pos'[t] = pos[t]
      BY <1>0, <2>5 DEF Build, Memset, Timer, StartInsert, Peek, Claim, Lock, Test, Write,
                        Unlock, Store, FinishBuild
    <3> QED BY <2>1, <3>1
  <2>6. ASSUME (\E p \in Probers : Probe(p)) \/ Main \/ Terminated \/ UNCHANGED vars
        PROVE  PathOf(t)'
    <3>1. idx' = idx /\ pos' = pos /\ (pc' # pc => ReleaseBuild)
      BY <2>6, OtherSteps
    <3>2. pc' = pc
      BY <3>1, ReleaseFrom DEF Searching, Locked
    <3> QED BY <2>1, <3>1, <3>2
  <2> QED BY <2>4, <2>5, <2>6 DEF Next
<1>e. \A e \in Entries : tuples'[e] # Empty =>
          \A x \in Before(IdHash[r'[tuples'[e]]], e) : Claimed(x)'
  <2> SUFFICES ASSUME NEW e \in Entries, tuples'[e] # Empty
               PROVE  \A x \in Before(IdHash[r[tuples'[e]]], e) : Claimed(x)'
    BY <1>0
  <2>1. CASE tuples'[e] = tuples[e]
    BY <1>a, <1>b, <2>1 DEF UnbrokenPath
  <2>2. ASSUME NEW t \in Builders, Store(t) PROVE \A x \in Before(IdHash[r[tuples'[e]]], e) : Claimed(x)'
    <3>1. CASE e = pos[t]
      <4>1. tuples'[e] = idx[t] /\ pc[t] \in Searching
        BY <1>0, <2>2, <3>1 DEF Store, Searching
      <4> QED BY <1>a, <1>b, <1>c, <3>1, <4>1 DEF PathOf
    <3>2. CASE e # pos[t]
      BY <1>0, <2>1, <2>2, <3>2 DEF Store
    <3> QED BY <3>1, <3>2
  <2>3. ASSUME NEW t \in Builders, Build(t), ~Store(t) PROVE tuples' = tuples
    BY <2>3 DEF Build, Memset, Timer, StartInsert, Peek, Claim, Lock, Test, Write, Unlock,
                FinishBuild, table
  <2> QED BY <2>1, <2>2, <2>3, OtherSteps DEF Next
<1> QED BY <1>d, <1>e DEF UnbrokenPath, PathOf, Searching, Locked

(* The entries an insert has passed stay claimed, so that the table has no *)
(* gap between a tuple and its home entry, and a lookup may stop at the    *)
(* first free entry (lp_insert_with_pos and lp_lookup_with_pos,            *)
(* nphj.c:1056-1070, 1155-1172).                                           *)
THEOREM PathsUnbroken == Spec => []UnbrokenPath
<1>1. Init => UnbrokenPath
  BY DEF Init, UnbrokenPath
<1>2. TypeInv /\ ClaimInv /\ UnbrokenPath /\ [Next]_vars => UnbrokenPath'
  BY PathNext
<1> QED
  BY <1>1, <1>2, TypeInvariant, ClaimInvariant, PTL DEF Spec
-----------------------------------------------------------------------------
(***************************************************************************)
(* Layer 5: the probe threads.                                             *)
(***************************************************************************)

BuildInv == TypeInv /\ ClaimInv /\ RowInv /\ UnbrokenPath

(* When a probe thread runs, the table is complete and stays as it is.     *)
LEMMA TableFrozen ==
    ASSUME BuildInv, [Next]_vars, NEW p \in Probers, ppc[p] # "idle"
    PROVE  /\ \A t \in Builders : pc[t] = "exit" /\ ~Build(t)
           /\ UNCHANGED <<build, r, s, hashkey, tuples>>
           /\ BuildComplete
           /\ \A e \in Entries : hashkey[e] # Garbage
           /\ ~ReleaseBuild /\ ~SpawnProbers
<1>1. \A t \in Builders : pc[t] = "exit"
  BY DEF BuildInv, TypeInv, LoopBounds
<1>2. \A t \in Builders : ~Build(t)
  BY <1>1 DEF Build, Memset, Timer, StartInsert, Peek, Claim, Lock, Test, Write, Unlock,
              Store, FinishBuild
<1>3. UNCHANGED <<build, r, s, hashkey, tuples>>
  BY <1>2, OtherSteps DEF Next
<1>4. BuildComplete
  BY BuildSound DEF BuildInv
<1>5. \A e \in Entries : hashkey[e] # Garbage
  BY <1>1, AllZeroed DEF BuildInv, TypeInv
<1>6. ~ReleaseBuild
  BY <1>1, ReleaseFrom, SizeAssumption DEF Builders
<1> QED BY <1>1, <1>2, <1>3, <1>4, <1>5, <1>6 DEF SpawnProbers

(* A lookup that comes to a free entry, or back to its home entry, has seen *)
(* every tuple its key could be in.                                        *)
LEMMA LookupComplete ==
    ASSUME BuildInv, LookInv, NEW p \in Probers, ppc[p] = "look",
           hashkey[ppos[p]] = 0 \/ Wrapped(p)
    PROVE  sidx[p] \in Rows(NS) /\ \A i \in Rows(NR) : r[i] # s[sidx[p]]
<1> DEFINE j == sidx[p]
           h == Home(p)
           d == ppos[p]
<1>1. j \in Rows(NS) /\ h \in Entries
  BY TupleAt DEF BuildInv, TypeInv, LoopBounds
<1>2. d \in Entries
  BY DEF BuildInv, TypeInv, TypeOK
<1>3. SUFFICES ASSUME NEW i \in Rows(NR), r[i] = s[j] PROVE FALSE
  BY <1>1
<1>4. BuildComplete /\ \A t \in Builders : pc[t] = "exit"
  BY BuildSound DEF BuildInv, TypeInv, LoopBounds
<1>5. PICK e \in Entries : tuples[e] = i
  BY <1>4 DEF BuildComplete
<1>6. i # Empty
  BY MarkerAssumption
<1>7. SameKey(tuples[e], j)
  BY <1>3, <1>5, <1>6 DEF SameKey
<1>8. CASE Wrapped(p)
  <2>1. ppos[p] = Home(p) /\ ~flag[p]
    BY <1>8 DEF Wrapped, Home
  <2> QED BY <1>5, <1>7, <2>1 DEF LookInv
<1>9. CASE hashkey[d] = 0
  <2>1. ~Claimed(d)
    BY <1>9 DEF Claimed
  <2>2. tuples[d] = Empty
    <3>1. Owned(d)
      BY <1>2, OwnedEach DEF BuildInv, ClaimInv
    <3> QED BY <2>1, <3>1 DEF Owned
  <2>3. IdHash[r[tuples[e]]] = h
    BY <1>3, <1>5 DEF Home
  <2>4. d \notin Before(h, e)
    BY <1>5, <1>6, <2>1, <2>3 DEF BuildInv, UnbrokenPath
  <2>5. e \notin Before(h, d)
    BY <1>7 DEF LookInv
  <2>6. e = d
    BY <1>1, <1>2, <2>4, <2>5, PathTotal
  <2> QED BY <1>5, <1>6, <2>2, <2>6
<1> QED BY <1>8, <1>9

(* A lookup passes entries that are claimed and hold another key.          *)
LEMMA LookNext ==
    ASSUME BuildInv, LookInv, [Next]_vars
    PROVE  LookInv'
<1> SUFFICES ASSUME NEW p \in Probers, ppc'[p] = "look"
             PROVE  /\ flag'[p] => ppos'[p] = Home(p)'
                    /\ \A x \in Before(Home(p)', ppos'[p]) :
                           Claimed(x)' /\ ~SameKey(tuples[x], sidx[p])'
                    /\ ~flag'[p] /\ ppos'[p] = Home(p)' =>
                           \A x \in Entries : ~SameKey(tuples[x], sidx[p])'
  BY DEF LookInv
<1>0. /\ ppc \in [Probers -> ProbePC] /\ ppos \in [Probers -> Entries]
      /\ sidx \in [Probers -> 0 .. NS] /\ flag \in [Probers -> BOOLEAN]
  BY DEF BuildInv, TypeInv, TypeOK
<1>1. ppc[p] # "idle"
  <2> SUFFICES ASSUME ppc[p] = "idle" PROVE FALSE
    OBVIOUS
  <2>1. ASSUME NEW t \in Builders, Build(t) PROVE ppc' = ppc
    BY <2>1 DEF Build, Memset, Timer, StartInsert, Peek, Claim, Lock, Test, Write, Unlock,
                Store, FinishBuild, prober
  <2>2. ASSUME NEW q \in Probers, Probe(q) PROVE ppc'[p] = "idle"
    BY <1>0, <2>2 DEF Probe, StartTuple, Walk, Hit, Miss
  <2> QED BY <2>1, <2>2 DEF Next, Main, ReleaseBuild, SpawnProbers, ReleaseProbe, Collect,
                            Terminated, vars, prober
<1>2. /\ \A t \in Builders : ~Build(t)
      /\ ~ReleaseBuild /\ ~SpawnProbers
      /\ UNCHANGED <<build, r, s, hashkey, tuples>>
      /\ \A e \in Entries : hashkey[e] # Garbage
  BY <1>1, TableFrozen
<1>3. /\ \A x : Claimed(x)' <=> Claimed(x)
      /\ sidx'[p] = sidx[p] =>
             Home(p)' = Home(p) /\ \A x : SameKey(tuples[x], sidx[p])' <=> SameKey(tuples[x], sidx[p])
  BY <1>2 DEF Claimed, SameKey, Home
<1>4. CASE ppc[p] = "look" /\ flag'[p] = flag[p] /\ ppos'[p] = ppos[p] /\ sidx'[p] = sidx[p]
  BY <1>2, <1>3, <1>4 DEF LookInv, Home
<1>5. CASE StartTuple(p)
  <2>1. /\ ppc[p] = "start" /\ sidx[p] < ShareEnd(NS, ProbeNum, p)
        /\ ppos'[p] = IdHash[s[sidx[p]]] /\ flag'[p] = TRUE /\ sidx' = sidx
    BY <1>0, <1>5 DEF StartTuple
  <2>2. Home(p) \in Entries /\ Home(p)' = Home(p)
    BY <1>2, <2>1, TupleAt DEF BuildInv, TypeInv, Home
  <2>3. Before(Home(p)', ppos'[p]) = {}
    BY <2>1, <2>2, PathStep DEF Home
  <2> QED BY <2>1, <2>2, <2>3 DEF Home
<1>6. CASE Walk(p)
  <2>1. /\ ppc[p] = "look" /\ hashkey[ppos[p]] # 0 /\ ~SameKey(tuples[ppos[p]], sidx[p])
        /\ flag'[p] = FALSE /\ ppos'[p] = Succ(ppos[p]) /\ sidx' = sidx
    BY <1>0, <1>6 DEF Walk
  <2>2. ppos[p] \in Entries /\ Home(p) \in Entries /\ Home(p)' = Home(p)
    BY <1>0, <1>2, <2>1, TupleAt DEF BuildInv, TypeInv, LoopBounds, Home
  <2>3. Claimed(ppos[p])
    BY <1>2, <2>1, <2>2 DEF Claimed
  <2>4. \A x \in Before(Home(p), ppos[p]) \cup {ppos[p]} :
            Claimed(x) /\ ~SameKey(tuples[x], sidx[p])
    BY <2>1, <2>3 DEF LookInv
  <2>5. /\ Before(Home(p), Succ(ppos[p])) \subseteq Before(Home(p), ppos[p]) \cup {ppos[p]}
        /\ Succ(ppos[p]) = Home(p) => Before(Home(p), ppos[p]) \cup {ppos[p]} = Entries
    BY <2>2, PathStep
  <2>6. \A x \in Before(Home(p)', ppos'[p]) : Claimed(x)' /\ ~SameKey(tuples[x], sidx[p])'
    BY <1>3, <2>1, <2>2, <2>4, <2>5
  <2>7. ppos'[p] = Home(p)' => \A x \in Entries : ~SameKey(tuples[x], sidx[p])'
    BY <1>3, <2>1, <2>2, <2>4, <2>5
  <2> QED BY <2>1, <2>6, <2>7
<1>7. CASE Hit(p)
  BY <1>0, <1>7 DEF Hit
<1>8. CASE Miss(p)
  BY <1>4, <1>8 DEF Miss
<1>9. ASSUME NEW q \in Probers, q # p, Probe(q)
      PROVE  ppc'[p] = ppc[p] /\ flag'[p] = flag[p] /\ ppos'[p] = ppos[p] /\ sidx'[p] = sidx[p]
  BY <1>0, <1>9 DEF Probe, StartTuple, Walk, Hit, Miss
<1>10. CASE ReleaseProbe
  BY <1>0, <1>10 DEF ReleaseProbe
<1>11. CASE Collect \/ Terminated \/ UNCHANGED vars
  BY <1>4, <1>11 DEF Collect, Terminated, vars, prober
<1> QED
  BY <1>2, <1>4, <1>5, <1>6, <1>7, <1>8, <1>9, <1>10, <1>11 DEF Next, Probe, Main

(* The keys of R are unique, so that a hit is the only pair of its S row.  *)
LEMMA HitPairs ==
    ASSUME TypeOK, LoopBounds, NEW p \in Probers, ppc[p] = "look",
           NEW i \in Rows(NR), r[i] = s[sidx[p]]
    PROVE  /\ {q \in Matches(r, s) : q[2] \in Share(NS, ProbeNum, p) /\ q[2] < sidx[p] + 1}
                  = DonePairs(p) \cup {<<i, sidx[p]>>}
           /\ <<i, sidx[p]>> \notin DonePairs(p)
<1> DEFINE j == sidx[p]
           New == {q \in Matches(r, s) : q[2] \in Share(NS, ProbeNum, p) /\ q[2] < j + 1}
<1>1. j \in Rows(NS) /\ j \in Int
  <2>1. j \in Rows(NS)
    BY TupleAt DEF LoopBounds
  <2> QED BY <2>1 DEF Rows
<1>2. j \in Share(NS, ProbeNum, p)
  <2>1. ShareBegin(NS, ProbeNum, p) \in Nat /\ ShareEnd(NS, ProbeNum, p) \in Nat
    BY ShareInRange, SizeAssumption DEF Probers
  <2>2. ShareBegin(NS, ProbeNum, p) <= j /\ j < ShareEnd(NS, ProbeNum, p)
    BY DEF LoopBounds
  <2> QED BY <1>1, <2>1, <2>2 DEF Share
<1>3. r \in [Rows(NR) -> Keys] /\ s \in [Rows(NS) -> Keys]
      /\ \A a, b \in Rows(NR) : r[a] = r[b] => a = b
  BY InputAssumption DEF TypeOK
<1>4. \A k \in Share(NS, ProbeNum, p) : k \in Int
  BY ShareWithin, SizeAssumption DEF Probers
<1> HIDE DEF j
<1>5. <<i, j>> \in Matches(r, s)
  BY <1>1, <1>3 DEF Matches, j
<1>6. \A q \in Matches(r, s) : q[2] = j => q = <<i, j>>
  <2> SUFFICES ASSUME NEW q \in Matches(r, s), q[2] = j PROVE q = <<i, j>>
    OBVIOUS
  <2>1. q \in Rows(NR) \X Rows(NS) /\ r[q[1]] = s[q[2]]
    BY <1>3 DEF Matches
  <2>2. q[1] = i
    BY <1>3, <2>1 DEF j
  <2> QED BY <2>1, <2>2
<1>7. DonePairs(p) = {q \in Matches(r, s) : q[2] \in Share(NS, ProbeNum, p) /\ q[2] < j}
  BY DEF DonePairs, j
<1>8. <<i, j>> \notin DonePairs(p)
  BY <1>1, <1>7
<1>9. New = DonePairs(p) \cup {<<i, j>>}
  <2>1. New \subseteq DonePairs(p) \cup {<<i, j>>}
    BY <1>1, <1>4, <1>6, <1>7
  <2>2. <<i, j>> \in New
    BY <1>1, <1>2, <1>5
  <2>3. \A k \in Share(NS, ProbeNum, p) : k < j => k < j + 1
    BY <1>1, <1>4
  <2>4. DonePairs(p) \subseteq New
    BY <1>7, <2>3
  <2> QED BY <2>1, <2>2, <2>4
<1> QED BY <1>8, <1>9 DEF j

(* The pairs counted so far are finitely many pairs of rows.               *)
LEMMA DoneFinite ==
    ASSUME TypeOK
    PROVE  /\ DOMAIN r = Rows(NR) /\ DOMAIN s = Rows(NS)
           /\ \A p \in Probers : IsFiniteSet(DonePairs(p)) /\ DonePairs(p) \in SUBSET (Int \X Int)
<1>1. DOMAIN r = Rows(NR) /\ DOMAIN s = Rows(NS)
  BY InputAssumption DEF TypeOK
<1>2. \A p \in Probers : DonePairs(p) \in SUBSET Matches(r, s)
  BY DEF DonePairs
<1> QED BY <1>1, <1>2, MatchesFinite, SizeAssumption

(* Nothing has been found when the threads start. *)
LEMMA CountInit == Init => CountInv
<1> SUFFICES ASSUME Init PROVE CountInv
  OBVIOUS
<1>1. ASSUME NEW p \in Probers PROVE DonePairs(p) = {}
  <2>1. ShareBegin(NS, ProbeNum, p) \in Nat /\ ShareEnd(NS, ProbeNum, p) \in Nat
    BY ShareInRange, SizeAssumption DEF Probers
  <2>2. sidx[p] = ShareBegin(NS, ProbeNum, p)
    BY DEF Init
  <2> QED BY <2>1, <2>2 DEF DonePairs, Share
<1>2. \A p \in Probers : Tally(RowidBits, DonePairs(p)) = [matched |-> 0, checksum |-> 0]
  BY <1>1, TallyEmpty, SizeAssumption
<1>3. acc = [p \in Probers |-> [matched |-> 0, checksum |-> 0]]
  BY DEF Init
<1> QED BY <1>2, <1>3 DEF CountInv

(* Only a hit changes what a thread has counted, and it goes on to the     *)
(* next S row at the same time.                                            *)
LEMMA CountNext ==
    ASSUME TypeInv, CountInv, [Next]_vars
    PROVE  CountInv'
<1>0. /\ sidx \in [Probers -> 0 .. NS] /\ ppos \in [Probers -> Entries]
      /\ tuples \in [Entries -> Rows(NR) \cup {Empty}]
  BY DEF TypeInv, TypeOK
<1>1. UNCHANGED <<r, s>>
  BY DEF Next, Build, Memset, Timer, StartInsert, Peek, Claim, Lock, Test, Write, Unlock,
         Store, FinishBuild, Probe, StartTuple, Walk, Hit, Miss, Main, ReleaseBuild,
         SpawnProbers, ReleaseProbe, Collect, Terminated, vars, inputs
<1>2. ASSUME UNCHANGED <<sidx, acc>> PROVE CountInv'
  BY <1>1, <1>2 DEF CountInv, DonePairs
<1>3. ASSUME NEW p \in Probers, Hit(p) PROVE CountInv'
  <2> DEFINE i == tuples[ppos[p]]
             j == sidx[p]
             old == Tally(RowidBits, DonePairs(p))
  <2>1. /\ ppc[p] = "look" /\ SameKey(i, j)
        /\ sidx' = [sidx EXCEPT ![p] = j + 1]
        /\ acc' = [acc EXCEPT ![p] =
                     [matched  |-> acc[p].matched + 1,
                      checksum |-> (acc[p].checksum + RowId(j) + RowId(i)) % 2^RowidBits]]
    BY <1>3 DEF Hit
  <2>2. i \in Rows(NR) /\ r[i] = s[j] /\ i \in Int /\ j \in Int
    BY <1>0, <2>1 DEF SameKey, Rows
  <2>3. /\ {q \in Matches(r, s) : q[2] \in Share(NS, ProbeNum, p) /\ q[2] < j + 1}
               = DonePairs(p) \cup {<<i, j>>}
        /\ <<i, j>> \notin DonePairs(p)
    <3>1. TypeOK /\ LoopBounds
      BY DEF TypeInv
    <3> HIDE DEF i
    <3> QED BY <2>1, <2>2, <3>1, HitPairs, Zenon
  <2>4. IsFiniteSet(DonePairs(p)) /\ DonePairs(p) \in SUBSET (Int \X Int)
    BY DoneFinite DEF TypeInv
  <2> HIDE DEF i, j
  <2>5. Tally(RowidBits, DonePairs(p) \cup {<<i, j>>}) =
          [matched  |-> old.matched + 1,
           checksum |-> (old.checksum + RowId(j) + RowId(i)) % 2^RowidBits]
    <3> DEFINE D == DonePairs(p)
    <3>1. D \in SUBSET (Int \X Int) /\ IsFiniteSet(D) /\ <<i, j>> \notin D
      BY <2>3, <2>4
    <3> HIDE DEF D
    <3>2. Tally(RowidBits, D \cup {<<i, j>>}) =
             [matched  |-> Tally(RowidBits, D).matched + 1,
              checksum |-> (Tally(RowidBits, D).checksum + RowId(j) + RowId(i)) % 2^RowidBits]
      BY <2>2, <3>1, TallyOne, SizeAssumption
    <3> QED BY <3>2 DEF D
  <2>6. acc[p] = old
    BY DEF CountInv
  <2>7. DonePairs(p)' = DonePairs(p) \cup {<<i, j>>}
    <3>1. DonePairs(p)' = {q \in Matches(r, s) : q[2] \in Share(NS, ProbeNum, p) /\ q[2] < j + 1}
      BY <1>0, <1>1, <2>1 DEF DonePairs
    <3> QED BY <2>3, <3>1
  <2>8. \A q \in Probers : q # p => DonePairs(q)' = DonePairs(q)
    BY <1>0, <1>1, <2>1 DEF DonePairs
  <2>9. acc' = [acc EXCEPT ![p] = Tally(RowidBits, DonePairs(p) \cup {<<i, j>>})]
    BY <2>1, <2>5, <2>6
  <2>10. acc' = [q \in Probers |-> Tally(RowidBits, DonePairs(q)')]
    <3> HIDE DEF old
    <3> QED BY <2>7, <2>8, <2>9 DEF CountInv
  <2> QED BY <2>10 DEF CountInv
<1>4. ASSUME NEW p \in Probers, Probe(p), ~Hit(p) PROVE UNCHANGED <<sidx, acc>>
  BY <1>4 DEF Probe, StartTuple, Walk, Miss
<1>5. ASSUME NEW t \in Builders, Build(t) PROVE UNCHANGED <<sidx, acc>>
  BY <1>5 DEF Build, Memset, Timer, StartInsert, Peek, Claim, Lock, Test, Write, Unlock,
              Store, FinishBuild, prober
<1>6. ASSUME Main \/ Terminated \/ UNCHANGED vars PROVE UNCHANGED <<sidx, acc>>
  BY <1>6 DEF Main, ReleaseBuild, SpawnProbers, ReleaseProbe, Collect, Terminated, vars, prober
<1> QED BY <1>2, <1>3, <1>4, <1>5, <1>6 DEF Next

(* Only a lookup that has seen everything fails. *)
LEMMA MissNext ==
    ASSUME BuildInv, LookInv, MissJustified, [Next]_vars
    PROVE  MissJustified'
<1>1. UNCHANGED <<r, s>>
  BY DEF Next, Build, Memset, Timer, StartInsert, Peek, Claim, Lock, Test, Write, Unlock,
         Store, FinishBuild, Probe, StartTuple, Walk, Hit, Miss, Main, ReleaseBuild,
         SpawnProbers, ReleaseProbe, Collect, Terminated, vars, inputs
<1>2. CASE fault' = fault
  BY <1>1, <1>2 DEF MissJustified
<1>3. ASSUME NEW p \in Probers, Miss(p) PROVE MissJustified'
  <2>1. ppc[p] = "look" /\ (hashkey[ppos[p]] = 0 \/ Wrapped(p))
    BY <1>3 DEF Miss
  <2>2. sidx[p] \in Rows(NS) /\ \A i \in Rows(NR) : r[i] # s[sidx[p]]
    BY <2>1, LookupComplete
  <2> QED BY <1>1, <2>2 DEF MissJustified
<1>4. (\E p \in Probers : Miss(p)) \/ fault' = fault
  BY DEF Next, Build, Memset, Timer, StartInsert, Peek, Claim, Lock, Test, Write, Unlock,
         Store, FinishBuild, Probe, StartTuple, Walk, Hit, Miss, Main, ReleaseBuild,
         SpawnProbers, ReleaseProbe, Collect, Terminated, vars, prober
<1> QED BY <1>2, <1>3, <1>4

(* Layer 5 as an invariant: what a thread has counted is the tally of the  *)
(* matching pairs of the S rows it is through with, no more and no less.   *)
THEOREM ProbeInvariant == Spec => []ProbeInv
<1>1. Init => LookInv /\ MissJustified
  BY DEF Init, LookInv, MissJustified
<1>2. BuildInv /\ ProbeInv /\ [Next]_vars => ProbeInv'
  BY LookNext, CountNext, MissNext DEF ProbeInv, BuildInv
<1> QED
  BY <1>1, <1>2, CountInit, TypeInvariant, ClaimInvariant, RowInvariant, PathsUnbroken, PTL
     DEF Spec, ProbeInv, BuildInv

(* The process is only lost to a lookup of a key that R does not have: no  *)
(* race of the build, full table or wrapped search makes a lookup miss a   *)
(* tuple that is there (lp_lookup_with_pos, nphj.c:1146-1167).             *)
THEOREM MissesJustified == Spec => []MissJustified
  BY ProbeInvariant, PTL DEF ProbeInv
-----------------------------------------------------------------------------
(***************************************************************************)
(* Refinement of the abstract join.                                        *)
(***************************************************************************)

(* The rows that are stored. *)
Stored == {tuples[e] : e \in Entries} \ {Empty}

(* A store inserts one more row, and no other step of a thread shows.      *)
LEMMA StoreInserts ==
    ASSUME TypeInv, ClaimInv, RowInv, NEW t \in Builders, Store(t)
    PROVE  Promise!Insert
<1> DEFINE i == idx[t]
           d == pos[t]
<1>1. /\ pc[t] = "store" /\ tuples' = [tuples EXCEPT ![d] = i]
      /\ UNCHANGED <<r, s, result>>
  BY DEF Store, inputs
<1>2. i < ShareEnd(NR, BuildNum, t) /\ ShareBegin(NR, BuildNum, t) <= i
  BY <1>1 DEF TypeInv, LoopBounds, Searching
<1>3. i \in Rows(NR) /\ i \in Int /\ d \in Entries /\ i # Empty
  BY <1>2, RowAt, MarkerAssumption DEF TypeInv, TypeOK
<1>4. i \in Share(NR, BuildNum, t)
  <2>1. ShareBegin(NR, BuildNum, t) \in Nat /\ ShareEnd(NR, BuildNum, t) \in Nat
    BY ShareInRange, SizeAssumption DEF Builders
  <2> QED BY <1>2, <1>3, <2>1 DEF Share
<1>5. tuples[d] = Empty
  <2>1. Owns(t, d)
    BY <1>1 DEF Owns
  <2>2. Owned(d)
    BY <1>3, OwnedEach DEF ClaimInv
  <2> QED BY <2>1, <2>2 DEF Owned
<1>6. i \notin Stored
  <2> SUFFICES ASSUME NEW e \in Entries, tuples[e] = i PROVE FALSE
    BY DEF Stored
  <2>1. PICK u \in Builders : tuples[e] \in Share(NR, BuildNum, u) /\ tuples[e] < idx[u]
    BY <1>3 DEF RowInv
  <2>2. u = t
    BY <1>4, <2>1, ShareDisjoint, SizeAssumption DEF Builders
  <2> QED BY <1>3, <2>1, <2>2
<1>7. \A e \in Entries : tuples'[e] = IF e = d THEN i ELSE tuples[e]
  BY <1>1 DEF TypeInv, TypeOK
<1> HIDE DEF i, d
<1>8. Stored' = Stored \cup {i}
  BY <1>3, <1>5, <1>7 DEF Stored
<1>9. i \in Promise!Rows(NR) \ Stored
  BY <1>3, <1>6 DEF Promise!Rows, Rows
<1> QED BY <1>1, <1>8, <1>9 DEF Promise!Insert, Stored

(* When every probe thread is through, the table holds all of R, and what  *)
(* the threads have found are all the pairs there are, each of them once.  *)
LEMMA AllFound ==
    ASSUME BuildInv, CountInv, \A p \in Probers : ppc[p] = "exit"
    PROVE  /\ Stored = Rows(NR)
           /\ Together([p \in Probers |-> DonePairs(p)], Probers) = Matches(r, s)
           /\ \A p, q \in Probers : p # q => DonePairs(p) \cap DonePairs(q) = {}
<1> USE DEF BuildInv
<1>1. Stored = Rows(NR)
  <2>1. \A t \in Builders : pc[t] = "exit"
    BY SizeAssumption DEF TypeInv, LoopBounds, Probers
  <2>2. \A i \in Rows(NR) : \E e \in Entries : tuples[e] = i
    BY <2>1, BuildSound DEF BuildComplete
  <2>3. \A i \in Rows(NR) : i # Empty
    BY MarkerAssumption
  <2>4. \A e \in Entries : tuples[e] \in Rows(NR) \cup {Empty}
    BY DEF TypeInv, TypeOK
  <2> QED BY <2>2, <2>3, <2>4 DEF Stored
<1>2. ASSUME NEW q \in Matches(r, s)
      PROVE  \E p \in Probers : q \in DonePairs(p)
  <2>1. q[2] \in Rows(NS)
    BY DoneFinite DEF Matches, TypeInv
  <2>2. PICK p \in Probers : q[2] \in Share(NS, ProbeNum, p)
    BY <2>1, ShareCover, SizeAssumption DEF Probers, Rows
  <2>3. q[2] < sidx[p]
    <3>1. sidx[p] = ShareEnd(NS, ProbeNum, p)
      BY DEF TypeInv, LoopBounds
    <3>2. ShareEnd(NS, ProbeNum, p) \in Nat /\ ShareBegin(NS, ProbeNum, p) \in Nat
      BY ShareInRange, SizeAssumption DEF Probers
    <3> QED BY <2>2, <3>1, <3>2 DEF Share
  <2> QED BY <2>2, <2>3 DEF DonePairs
<1>3. ASSUME NEW p \in Probers, NEW u \in Probers, p # u
      PROVE  DonePairs(p) \cap DonePairs(u) = {}
  <2> SUFFICES ASSUME NEW q, q[2] \in Share(NS, ProbeNum, p), q[2] \in Share(NS, ProbeNum, u)
               PROVE  FALSE
    BY DEF DonePairs
  <2> QED BY <1>3, ShareDisjoint, SizeAssumption DEF Probers
<1>4. Together([p \in Probers |-> DonePairs(p)], Probers) = Matches(r, s)
  BY <1>2 DEF Together, DonePairs
<1> QED BY <1>1, <1>3, <1>4

(* So what nphj_lp prints is the answer of the join. *)
LEMMA CollectAnswers ==
    ASSUME BuildInv, CountInv, Collect
    PROVE  Promise!Answer
<1> DEFINE part == [p \in Probers |-> DonePairs(p)]
<1>1. /\ result = NULL /\ \A p \in Probers : ppc[p] = "exit"
      /\ result' = [matched  |-> SumFunction([p \in Probers |-> acc[p].matched]),
                    checksum |-> SumFunction([p \in Probers |-> acc[p].checksum]) % 2^RowidBits]
      /\ UNCHANGED <<r, s, tuples>>
  BY DEF Collect, inputs, table
<1>2. /\ Stored = Rows(NR) /\ Together(part, Probers) = Matches(r, s)
      /\ \A p, q \in Probers : p # q => part[p] \cap part[q] = {}
  BY <1>1, AllFound
<1>3. IsFiniteSet(Probers)
  BY FS_Interval, SizeAssumption DEF Probers
<1>4. \A p \in Probers : part[p] \in SUBSET (Int \X Int) /\ IsFiniteSet(part[p])
  BY DoneFinite DEF BuildInv, TypeInv
<1>5. \A p \in Probers : acc[p] = Tally(RowidBits, part[p])
  BY DEF CountInv
<1> HIDE DEF part
<1>6. [matched  |-> SumFunction([p \in Probers |-> acc[p].matched]),
       checksum |-> SumFunction([p \in Probers |-> acc[p].checksum]) % 2^RowidBits]
          = Tally(RowidBits, Together(part, Probers))
  <2>1. RowidBits \in Nat
    BY SizeAssumption
  <2> QED BY <1>2, <1>3, <1>4, <1>5, <2>1, TallyCollect, Zenon
<1>7. result' = JoinAnswer(RowidBits, r, s)
  BY <1>1, <1>2, <1>6, AnswerIsTally
<1>8. Promise!JoinAnswer(RowidBits, r, s) = JoinAnswer(RowidBits, r, s)
  <2>1. \A S : Promise!Cardinality(S) = Cardinality(S)
    BY DEF Promise!Cardinality, Cardinality
  <2>2. \A f : Promise!SumFunction(f) = SumFunction(f)
    BY DEF Promise!SumFunction, SumFunction, Promise!SumFunctionOnSet, SumFunctionOnSet,
           Promise!FoldFunctionOnSet, FoldFunctionOnSet, Promise!MapThenFoldSet, MapThenFoldSet
  <2> QED
    BY <2>1, <2>2 DEF Promise!JoinAnswer, JoinAnswer, Promise!Matches, Matches,
                      Promise!RowidSum, RowidSum, Promise!RowId, RowId
<1>9. Stored' = Stored
  BY <1>1 DEF Stored
<1> QED
  BY <1>1, <1>2, <1>7, <1>8, <1>9 DEF Promise!Answer, Promise!Rows, Rows, Stored

(* nphj_lp implements the abstract join: with any number of build and      *)
(* probe threads, the rows of R enter the table one at a time and stay     *)
(* there, and the matched_cnt and checksum that it prints are those of the *)
(* join of the two relations (nphj_lp, nphj.c:1487-1848).                  *)
THEOREM Refinement == Spec => RefinesJoin
<1>1. Init => Promise!JoinInit
  <2>1. Init => Stored = {}
    BY DEF Init, Stored
  <2> QED BY <2>1 DEF Init, Promise!JoinInit, Stored
<1>2. BuildInv /\ CountInv /\ [Next]_vars =>
          [Promise!JoinNext]_<<r, s, Stored, result>>
  <2> SUFFICES ASSUME BuildInv, CountInv, [Next]_vars
               PROVE  Promise!JoinNext \/ UNCHANGED <<r, s, Stored, result>>
    OBVIOUS
  <2>1. ASSUME NEW t \in Builders, Store(t) PROVE Promise!JoinNext
    BY <2>1, StoreInserts DEF BuildInv, Promise!JoinNext
  <2>2. CASE Collect
    BY <2>2, CollectAnswers DEF Promise!JoinNext
  <2>3. ASSUME NEW t \in Builders, Build(t), ~Store(t)
        PROVE  UNCHANGED <<r, s, tuples, result>>
    BY <2>3 DEF Build, Memset, Timer, StartInsert, Peek, Claim, Lock, Test, Write, Unlock,
                FinishBuild, inputs, table
  <2>4. ASSUME NEW p \in Probers, Probe(p) PROVE UNCHANGED <<r, s, tuples, result>>
    BY <2>4 DEF Probe, StartTuple, Walk, Hit, Miss, inputs, table
  <2>5. ASSUME Main, ~Collect PROVE UNCHANGED <<r, s, tuples, result>>
    BY <2>5 DEF Main, ReleaseBuild, SpawnProbers, ReleaseProbe, inputs, table
  <2>6. ASSUME Terminated \/ UNCHANGED vars PROVE UNCHANGED <<r, s, tuples, result>>
    BY <2>6 DEF Terminated, vars, inputs, table
  <2>7. ASSUME UNCHANGED <<r, s, tuples, result>> PROVE UNCHANGED <<r, s, Stored, result>>
    BY <2>7 DEF Stored
  <2> QED BY <2>1, <2>2, <2>3, <2>4, <2>5, <2>6, <2>7 DEF Next
<1>3. BuildInv /\ CountInv /\ [Next]_vars =>
          [Promise!JoinNext]_<<r, s, {tuples[e] : e \in Entries} \ {Empty}, result>>
  BY <1>2 DEF Stored
<1> QED
  BY <1>1, <1>3, TypeInvariant, ClaimInvariant, RowInvariant, PathsUnbroken, ProbeInvariant, PTL
     DEF Spec, BuildInv, ProbeInv, RefinesJoin, Promise!JoinBehaviour
=============================================================================
