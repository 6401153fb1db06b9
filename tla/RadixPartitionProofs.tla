------------------------- MODULE RadixPartitionProofs -------------------------
(***************************************************************************)
(* The proofs about RadixPartition: for any number of tuples, threads and  *)
(* partitions, any padding and any hash, the threads write to different    *)
(* places and the tasks get the tuples of their partitions.                *)
(*                                                                         *)
(* The argument is that the threads need not look at each other because    *)
(* each row has a place of its own, known in advance: the number of rows   *)
(* ahead of it when the rows are sorted by partition, and the padding up   *)
(* to its partition (Place).  The offsets a thread computes from all       *)
(* histograms are the places of its next rows (OffsetsRight), and a        *)
(* position holds a row if and only if it is the place of a row that has   *)
(* been copied (Stored).                                                   *)
(***************************************************************************)
EXTENDS RadixPartition, RelationsProofs

(* The partition of each row.                                              *)
PartOf == [i \in Rows(N) |-> Hash[rel[i]]]

(* Where the first of the rows of partition p from row i on goes.          *)
Place(p, i) == PlaceIn(PartOf, Padding, p, i)

Begin(t) == ShareBegin(N, ThreadNum, t)
End(t)   == ShareEnd(N, ThreadNum, t)

(* Nobody computes offsets before everybody has counted.                   *)
Waiting ==
    \A t \in Threads : pc[t] \in {"offset", "scatter", "done"} =>
        \A u \in Threads : pc[u] \notin {"hist", "barrier"}

Indices ==
    \A t \in Threads :
        /\ idx[t] \in Begin(t) .. End(t)
        /\ pc[t] \in {"hist", "barrier", "offset"} => idx[t] = Begin(t)
        /\ pc[t] = "done" => idx[t] = End(t)

(* The rows of thread t up to partition p.                                 *)
MineUpTo(t, p) == {i \in Share(N, ThreadNum, t) : PartOf[i] <= p}

Counted ==
    \A t \in Threads : pc[t] # "hist" =>
        \A p \in Parts : /\ hist[t].count[p] = Cardinality(Mine(t, p))
                         /\ hist[t].prefix[p] = Cardinality(MineUpTo(t, p))

OffsetsRight ==
    \A t \in Threads, p \in Parts :
        /\ pc[t] = "scatter" => offset[t][p] = Below(PartOf, p, idx[t])
        /\ pc[t] = "done" => offset[t][p] = Place(p, Begin(t))

Copied(i) == \E t \in Threads : i \in Share(N, ThreadNum, t) /\ i < idx[t]

Stored ==
    \A q \in Positions, i \in Rows(N) :
        tmp[q] = i <=> Copied(i) /\ q = Place(PartOf[i], i)

PlaceInv == TypeOK /\ Waiting /\ Indices /\ Counted /\ OffsetsRight /\ Stored
-----------------------------------------------------------------------------
(***************************************************************************)
(* The places.                                                             *)
(***************************************************************************)

(* The types the places rest on.                                           *)
LEMMA PartFacts ==
    ASSUME TypeOK
    PROVE  /\ PartOf \in [Rows(N) -> Parts] /\ PartOf \in [Rows(N) -> Nat]
           /\ \A i \in Rows(N) : PartOf[i] = Hash[rel[i]] /\ PartOf[i] \in Parts
           /\ N \in Nat /\ ThreadNum \in Nat \ {0} /\ Fanout \in Nat \ {0} /\ Padding \in Nat
           /\ Layout(N, Fanout, Padding, PartOf)
<1>1. rel \in [Rows(N) -> Keys] /\ Hash \in [Keys -> Parts]
  BY PartitionAssumption DEF TypeOK
<1>2. \A i \in Rows(N) : Hash[rel[i]] \in Parts
  BY <1>1
<1> QED BY <1>2, PartitionAssumption DEF PartOf, Parts, Layout

(* The bounds of the shares.                                               *)
LEMMA ShareFacts ==
    ASSUME NEW t \in Threads
    PROVE  /\ Begin(t) \in 0 .. N /\ End(t) \in 0 .. N /\ Begin(t) <= End(t)
           /\ Share(N, ThreadNum, t) = Begin(t) .. End(t) - 1
           /\ Share(N, ThreadNum, t) \subseteq Rows(N)
           /\ \A u \in Threads : t < u => End(t) <= Begin(u)
<1>1. t \in 0 .. ThreadNum - 1 /\ N \in Nat /\ ThreadNum \in Nat \ {0}
  BY PartitionAssumption DEF Threads
<1> QED BY <1>1, ShareBounds DEF Begin, End, Threads

(* A place is a number.                                                    *)
LEMMA PlaceType ==
    ASSUME TypeOK, NEW p \in Parts, NEW i \in 0 .. N
    PROVE  /\ Below(PartOf, p, i) \in 0 .. N
           /\ Place(p, i) \in Nat /\ Place(p, i) <= N + (Fanout - 1) * Padding
  BY PartFacts, PlaceInType DEF Place, Parts

(* The places are ordered as the partitions and the rows in them.          *)
LEMMA PlaceMono ==
    ASSUME TypeOK, NEW p \in Parts, NEW o \in Parts, NEW i \in 0 .. N, NEW j \in 0 .. N,
           p < o \/ (p = o /\ i <= j)
    PROVE  Place(p, i) <= Place(o, j)
  BY PartFacts, PlaceInMono DEF Place, Parts

(* Behind the place of a row comes the place of the next one.              *)
LEMMA PlaceStep ==
    ASSUME TypeOK, NEW i \in Rows(N), NEW p \in Parts
    PROVE  /\ i \in 0 .. N /\ i + 1 \in 0 .. N
           /\ Below(PartOf, p, i + 1) = IF PartOf[i] = p THEN Below(PartOf, p, i) + 1
                                        ELSE Below(PartOf, p, i)
           /\ Place(p, i + 1) = IF PartOf[i] = p THEN Place(p, i) + 1 ELSE Place(p, i)
<1>1. i \in 0 .. N /\ i + 1 \in 0 .. N /\ N \in Nat /\ p \in Nat /\ PartOf \in [Rows(N) -> Nat]
  BY PartFacts DEF Rows, Parts
<1>2. Place(p, i + 1) = IF PartOf[i] = p THEN Place(p, i) + 1 ELSE Place(p, i)
  BY PartFacts, PlaceInStep DEF Place, Parts
<1> QED BY <1>1, <1>2, BelowStep

(* No two rows have the same place.                                        *)
LEMMA PlaceOwn ==
    ASSUME TypeOK, NEW i \in Rows(N)
    PROVE  /\ Place(PartOf[i], i) \in Positions
           /\ \A j \in Rows(N) : Place(PartOf[i], i) = Place(PartOf[j], j) => i = j
  BY PartFacts, PlaceInOwn DEF Place, Positions

(* What is left of a share of partition p lies between two places.         *)
LEMMA PlaceCount ==
    ASSUME TypeOK, NEW p \in Parts, NEW i \in 0 .. N, NEW j \in 0 .. N, i <= j
    PROVE  Below(PartOf, p, j) = Below(PartOf, p, i) + Cardinality(Slice(PartOf, p, i, j))
<1>1. PartOf \in [Rows(N) -> Nat] /\ N \in Nat /\ p \in Nat
  BY PartFacts DEF Parts
<1> QED BY <1>1, BelowCount

(* The rows of a share of one partition, counted.                          *)
LEMMA MineFacts ==
    ASSUME TypeOK, NEW t \in Threads, NEW p \in Parts
    PROVE  /\ Mine(t, p) = ShareIn(N, ThreadNum, PartOf, t, p) /\ IsFiniteSet(Mine(t, p))
           /\ Cardinality(Mine(t, p)) \in 0 .. N
           /\ Below(PartOf, p, End(t)) = Below(PartOf, p, Begin(t)) + Cardinality(Mine(t, p))
<1>1. Mine(t, p) = ShareIn(N, ThreadNum, PartOf, t, p)
  BY PartFacts, ShareFacts DEF Mine, ShareIn
<1> QED BY <1>1, PartFacts, ShareOfCount DEF Begin, End, Threads, Parts

(* What is left of it when its rows before row i have been copied.         *)
LEMMA LeftFacts ==
    ASSUME TypeOK, NEW t \in Threads, NEW p \in Parts, NEW i \in Begin(t) .. End(t)
    PROVE  Below(PartOf, p, End(t)) =
               Below(PartOf, p, i) + Cardinality({x \in Mine(t, p) : x >= i})
<1>0. /\ Begin(t) \in 0 .. N /\ End(t) \in 0 .. N /\ Begin(t) <= End(t)
      /\ Share(N, ThreadNum, t) = Begin(t) .. End(t) - 1 /\ N \in Nat
  BY ShareFacts, PartFacts
<1>1. {x \in Mine(t, p) : x >= i} = Slice(PartOf, p, i, End(t))
  BY <1>0, MineFacts DEF ShareIn, Slice
<1>2. i \in 0 .. N /\ i <= End(t)
  BY <1>0
<1> QED BY <1>0, <1>1, <1>2, PlaceCount

(* The prefix sums of Histogram count the rows up to a partition.          *)
LEMMA PrefixRight ==
    ASSUME TypeOK, NEW t \in Threads, NEW p \in Parts
    PROVE  /\ SumFunction([o \in 0 .. p |-> Cardinality(Mine(t, o))]) = Cardinality(MineUpTo(t, p))
           /\ Cardinality(MineUpTo(t, p)) \in 0 .. N
<1>1. p \in 0 .. Fanout - 1 /\ t \in 0 .. ThreadNum - 1
  BY DEF Parts, Threads
<1>2. [o \in 0 .. p |-> Cardinality(Mine(t, o))]
         = [o \in 0 .. p |-> Cardinality(ShareIn(N, ThreadNum, PartOf, t, o))]
  <2>1. \A o \in 0 .. p : o \in Parts
    BY <1>1, PartFacts DEF Parts
  <2> QED BY <2>1, MineFacts
<1>3. MineUpTo(t, p) = ShareUpTo(N, ThreadNum, PartOf, t, p)
  BY DEF MineUpTo, ShareUpTo
<1> QED BY <1>1, <1>2, <1>3, PartFacts, ShareOfPrefix

(* With all rows counted, a thread's offsets are the ranks of its rows.    *)
LEMMA StartRight ==
    ASSUME TypeOK, Counted, \A u \in Threads : pc[u] # "hist", NEW t \in Threads, NEW p \in Parts
    PROVE  Start(t, p) = Below(PartOf, p, Begin(t))
<1> DEFINE prefix == [u \in Threads |-> hist[u].prefix]
<1>1. p \in 0 .. Fanout - 1 /\ t \in 0 .. ThreadNum - 1 /\ ThreadNum \in Nat \ {0}
  BY PartFacts DEF Parts, Threads
<1>2. \A u \in 0 .. ThreadNum - 1, o \in 0 .. Fanout - 1 :
         prefix[u][o] = Cardinality(ShareUpTo(N, ThreadNum, PartOf, u, o))
  BY DEF Counted, MineUpTo, ShareUpTo, Threads, Parts
<1>3. Start(t, p) = StartIn(ThreadNum, prefix, t, p)
  <2>1. /\ [u \in 0 .. t - 1 |-> prefix[u][p]] = [u \in 0 .. t - 1 |-> hist[u].prefix[p]]
        /\ [u \in t .. ThreadNum - 1 |-> prefix[u][p - 1]]
              = [u \in t .. ThreadNum - 1 |-> hist[u].prefix[p - 1]]
    BY <1>1 DEF Threads
  <2> QED BY <2>1 DEF Start, StartIn
<1> HIDE DEF prefix
<1>4. StartIn(ThreadNum, prefix, t, p) = Below(PartOf, p, ShareBegin(N, ThreadNum, t))
  BY <1>1, <1>2, PartFacts, ShareStart
<1> QED BY <1>3, <1>4 DEF Begin
-----------------------------------------------------------------------------
(***************************************************************************)
(* The invariant.                                                          *)
(***************************************************************************)

(* As long as the relation stays, so do the places and the counts.         *)
LEMMA PlacesStay ==
    ASSUME rel' = rel
    PROVE  /\ PartOf' = PartOf
           /\ \A p, i : Place(p, i)' = Place(p, i)
           /\ \A t, p : Mine(t, p)' = Mine(t, p) /\ MineUpTo(t, p)' = MineUpTo(t, p)
<1>1. PartOf' = PartOf
  BY DEF PartOf
<1> QED BY <1>1 DEF Place, PlaceIn, Mine, MineUpTo

(* A step that copies no tuple leaves what is stored as it is.             *)
LEMMA StoredStays ==
    ASSUME Stored, UNCHANGED <<rel, idx, tmp>>
    PROVE  Stored'
  BY PlacesStay DEF Stored, Copied

(* The invariant holds when the threads start.                             *)
LEMMA PlaceInit ==
    ASSUME Init
    PROVE  PlaceInv
<1> USE DEF Init
<1>0. N \in Nat /\ Padding \in Nat /\ Empty \notin Rows(N)
  BY PartitionAssumption
<1>1. \A t \in Threads : idx[t] = Begin(t) /\ Begin(t) \in 0 .. N /\ End(t) \in 0 .. N /\ Begin(t) <= End(t)
  BY ShareFacts DEF Begin
<1>2. TypeOK
  <2>1. idx \in [Threads -> 0 .. N]
    BY <1>1
  <2>2. Zeros \in [Parts -> 0 .. N] /\ Zeros \in [Parts -> Nat]
    BY <1>0 DEF Zeros
  <2>3. hist \in [Threads -> [count : [Parts -> 0 .. N], prefix : [Parts -> 0 .. N]]]
    BY <2>2
  <2> QED BY <2>1, <2>2, <2>3 DEF TypeOK
<1>3. Waiting
  BY DEF Waiting
<1>4. Indices
  BY <1>1 DEF Indices
<1>5. Counted /\ OffsetsRight
  BY DEF Counted, OffsetsRight
<1>6. Stored
  <2>1. \A i \in Rows(N) : ~Copied(i)
    BY <1>1, ShareFacts DEF Copied
  <2> QED BY <1>0, <2>1 DEF Stored
<1> QED BY <1>2, <1>3, <1>4, <1>5, <1>6 DEF PlaceInv

(* Counting keeps it.                                                      *)
LEMMA HistogramKeeps ==
    ASSUME PlaceInv, NEW t \in Threads, Histogram(t)
    PROVE  PlaceInv'
<1> USE DEF Histogram
<1>0. /\ TypeOK /\ Waiting /\ Indices /\ Counted /\ OffsetsRight /\ Stored
      /\ UNCHANGED <<rel, offset, idx, tmp>> /\ pc[t] = "hist"
      /\ pc' = [pc EXCEPT ![t] = "barrier"]
      /\ pc \in [Threads -> {"hist", "barrier", "offset", "scatter", "done"}]
  BY DEF PlaceInv, TypeOK
<1>1. /\ pc'[t] = "barrier"
      /\ \A u \in Threads : u # t => pc'[u] = pc[u] /\ hist'[u] = hist[u]
  BY <1>0 DEF TypeOK
<1>2. \A p \in Parts : /\ hist'[t].count[p] = Cardinality(Mine(t, p))
                       /\ hist'[t].prefix[p] = Cardinality(MineUpTo(t, p))
  BY <1>0, PrefixRight DEF TypeOK
<1>3. TypeOK'
  <2>1. hist'[t] \in [count : [Parts -> 0 .. N], prefix : [Parts -> 0 .. N]]
    <3>1. \A p \in Parts :
            /\ Cardinality(Mine(t, p)) \in 0 .. N
            /\ SumFunction([o \in 0 .. p |-> Cardinality(Mine(t, o))]) \in 0 .. N
      BY <1>0, MineFacts, PrefixRight
    <3> QED BY <1>0, <3>1 DEF TypeOK
  <2> QED BY <1>0, <1>1, <2>1 DEF TypeOK
<1>4. Waiting'
  BY <1>0, <1>1 DEF Waiting
<1>5. Indices'
  BY <1>0, <1>1 DEF Indices, Begin, End
<1>6. Counted'
  BY <1>0, <1>1, <1>2, PlacesStay DEF Counted
<1>7. OffsetsRight'
  BY <1>0, <1>1, PlacesStay DEF OffsetsRight, Begin
<1>8. Stored'
  BY <1>0, StoredStays
<1> QED BY <1>3, <1>4, <1>5, <1>6, <1>7, <1>8 DEF PlaceInv

(* So does the barrier.                                                    *)
LEMMA ReleaseKeeps ==
    ASSUME PlaceInv, Release
    PROVE  PlaceInv'
<1>0. /\ TypeOK /\ Waiting /\ Indices /\ Counted /\ OffsetsRight /\ Stored
      /\ UNCHANGED <<rel, hist, offset, idx, tmp>>
      /\ \A t \in Threads : pc[t] = "barrier" /\ pc'[t] = "offset"
      /\ pc' = [t \in Threads |-> "offset"]
  BY DEF PlaceInv, Release
<1>1. TypeOK'
  BY <1>0 DEF TypeOK
<1>2. Waiting' /\ Indices'
  BY <1>0 DEF Waiting, Indices, Begin, End
<1>3. Counted' /\ OffsetsRight'
  BY <1>0, PlacesStay DEF Counted, OffsetsRight
<1>4. Stored'
  BY <1>0, StoredStays
<1> QED BY <1>1, <1>2, <1>3, <1>4 DEF PlaceInv

(* With everybody's counts a thread finds the places of its first rows.    *)
LEMMA OffsetsKeeps ==
    ASSUME PlaceInv, NEW t \in Threads, Offsets(t)
    PROVE  PlaceInv'
<1>0. /\ TypeOK /\ Waiting /\ Indices /\ Counted /\ OffsetsRight /\ Stored
      /\ UNCHANGED <<rel, hist, idx, tmp>> /\ pc[t] = "offset"
      /\ pc' = [pc EXCEPT ![t] = "scatter"]
      /\ offset' = [offset EXCEPT ![t] = [p \in Parts |-> Start(t, p)]]
      /\ pc \in [Threads -> {"hist", "barrier", "offset", "scatter", "done"}]
      /\ offset \in [Threads -> [Parts -> Nat]]
  BY DEF PlaceInv, Offsets, TypeOK
<1>1. /\ pc'[t] = "scatter"
      /\ \A u \in Threads : u # t => pc'[u] = pc[u] /\ offset'[u] = offset[u]
      /\ \A p \in Parts : offset'[t][p] = Start(t, p)
      /\ \A u \in Threads : pc[u] # "hist" /\ pc[u] # "barrier"
  BY <1>0 DEF Waiting
<1>2. \A p \in Parts : Start(t, p) = Below(PartOf, p, idx[t]) /\ Start(t, p) \in Nat
  <2>1. idx[t] = Begin(t) /\ Begin(t) \in 0 .. N
    BY <1>0, ShareFacts DEF Indices
  <2>2. \A p \in Parts : Start(t, p) = Below(PartOf, p, Begin(t))
    BY <1>0, <1>1, StartRight
  <2> QED BY <1>0, <2>1, <2>2, PlaceType
<1>3. TypeOK'
  <2>1. offset' \in [Threads -> [Parts -> Nat]]
    BY <1>0, <1>2
  <2> QED BY <1>0, <1>1, <2>1 DEF TypeOK
<1>4. Waiting' /\ Indices'
  BY <1>0, <1>1 DEF Waiting, Indices, Begin, End
<1>5. Counted'
  BY <1>0, <1>1, PlacesStay DEF Counted
<1>6. OffsetsRight'
  BY <1>0, <1>1, <1>2, PlacesStay DEF OffsetsRight, Begin
<1>7. Stored'
  BY <1>0, StoredStays
<1> QED BY <1>3, <1>4, <1>5, <1>6, <1>7 DEF PlaceInv

(* The row that is copied goes to its own place.                           *)
LEMMA ScatterPlace ==
    ASSUME PlaceInv, NEW t \in Threads, Scatter(t)
    PROVE  LET i == idx[t]
               q == Place(PartOf[i], i)
           IN  /\ i \in Share(N, ThreadNum, t) /\ i \in Rows(N) /\ q \in Positions
               /\ tmp' = [tmp EXCEPT ![q] = i]
               /\ offset' = [offset EXCEPT ![t][PartOf[i]] = @ + 1]
<1>0. /\ TypeOK /\ Indices /\ OffsetsRight /\ pc[t] = "scatter"
      /\ idx[t] < End(t)
  BY DEF PlaceInv, Scatter, End
<1>1. idx[t] \in Share(N, ThreadNum, t) /\ idx[t] \in Rows(N)
  <2>1. idx[t] \in Begin(t) .. End(t) - 1
    BY <1>0, ShareFacts DEF Indices
  <2> QED BY <2>1, ShareFacts
<1>2. /\ PartOf[idx[t]] = Hash[rel[idx[t]]] /\ PartOf[idx[t]] \in Parts
      /\ Place(PartOf[idx[t]], idx[t]) \in Positions
  BY <1>0, <1>1, PartFacts, PlaceOwn
<1>3. offset[t][PartOf[idx[t]]] + PartOf[idx[t]] * Padding = Place(PartOf[idx[t]], idx[t])
  BY <1>0, <1>2 DEF OffsetsRight, Place, PlaceIn
<1> QED BY <1>1, <1>2, <1>3 DEF Scatter

(* Copying keeps the invariant.                                            *)
LEMMA ScatterKeeps ==
    ASSUME PlaceInv, NEW t \in Threads, Scatter(t)
    PROVE  PlaceInv'
<1> DEFINE i == idx[t]
           q == Place(PartOf[i], i)
<1>0. /\ TypeOK /\ Waiting /\ Indices /\ Counted /\ OffsetsRight /\ Stored
      /\ UNCHANGED <<rel, hist, pc>> /\ pc[t] = "scatter" /\ i < End(t)
      /\ idx' = [idx EXCEPT ![t] = i + 1]
      /\ idx \in [Threads -> 0 .. N] /\ offset \in [Threads -> [Parts -> Nat]]
      /\ tmp \in [Positions -> Rows(N) \cup {Empty}]
  BY DEF PlaceInv, Scatter, TypeOK, End
<1>1. /\ i \in Share(N, ThreadNum, t) /\ i \in Rows(N) /\ q \in Positions
      /\ tmp' = [tmp EXCEPT ![q] = i]
      /\ offset' = [offset EXCEPT ![t][PartOf[i]] = @ + 1]
  BY ScatterPlace
<1>2. /\ i \in 0 .. N /\ i + 1 \in 0 .. N /\ PartOf[i] \in Parts
      /\ i \in Begin(t) .. End(t) /\ i + 1 \in Begin(t) .. End(t)
  <2>1. i \in 0 .. N /\ i + 1 \in 0 .. N /\ PartOf[i] \in Parts
    BY <1>0, <1>1, PlaceStep, PartFacts
  <2>2. i \in Begin(t) .. End(t) /\ i < End(t)
    BY <1>0 DEF Indices
  <2>3. End(t) \in 0 .. N /\ Begin(t) \in 0 .. N
    BY ShareFacts
  <2> HIDE DEF i
  <2> QED BY <2>1, <2>2, <2>3
<1>3. /\ idx'[t] = i + 1
      /\ \A u \in Threads : u # t => idx'[u] = idx[u] /\ offset'[u] = offset[u]
      /\ \A p \in Parts : offset'[t][p] = IF p = PartOf[i] THEN offset[t][p] + 1 ELSE offset[t][p]
  BY <1>0, <1>1, <1>2
<1>4. TypeOK'
  <2>1. idx' \in [Threads -> 0 .. N]
    BY <1>0, <1>2
  <2>2. offset' \in [Threads -> [Parts -> Nat]]
    BY <1>0, <1>1, <1>2
  <2>3. tmp' \in [Positions -> Rows(N) \cup {Empty}]
    BY <1>0, <1>1
  <2> QED BY <1>0, <2>1, <2>2, <2>3 DEF TypeOK
<1>5. Waiting'
  BY <1>0 DEF Waiting
<1>6. Indices'
  BY <1>0, <1>2, <1>3 DEF Indices, Begin, End
<1>7. Counted'
  BY <1>0, PlacesStay DEF Counted
<1>8. OffsetsRight'
  <2>1. ASSUME NEW u \in Threads, NEW p \in Parts, pc[u] = "scatter"
        PROVE  offset'[u][p] = Below(PartOf, p, idx'[u])
    <3>1. CASE u # t
      BY <1>0, <1>3, <2>1, <3>1 DEF OffsetsRight
    <3>2. CASE u = t
      <4>1. offset[t][p] = Below(PartOf, p, i)
        BY <1>0 DEF OffsetsRight
      <4>2. Below(PartOf, p, i + 1) = IF PartOf[i] = p THEN Below(PartOf, p, i) + 1
                                      ELSE Below(PartOf, p, i)
        BY <1>0, <1>1, PlaceStep
      <4> QED BY <1>3, <3>2, <4>1, <4>2
    <3> QED BY <3>1, <3>2
  <2>2. ASSUME NEW u \in Threads, NEW p \in Parts, pc[u] = "done"
        PROVE  offset'[u][p] = Place(p, Begin(u))
    BY <1>0, <1>3, <2>2 DEF OffsetsRight
  <2> QED BY <1>0, <2>1, <2>2, PlacesStay DEF OffsetsRight, Begin
<1>9. Stored'
  <2>1. ASSUME NEW j \in Rows(N) PROVE Copied(j)' <=> Copied(j) \/ j = i
    <3>1. j \in Int /\ \A u \in Threads : idx[u] \in Int
      BY <1>0 DEF Rows
    <3> HIDE DEF i
    <3>2. i \in Int /\ idx[t] = i
      BY <1>2 DEF i
    <3> QED BY <1>1, <1>3, <3>1, <3>2 DEF Copied
  <2>2. ASSUME NEW r \in Positions, NEW j \in Rows(N)
        PROVE  tmp'[r] = j <=> (Copied(j) \/ j = i) /\ r = Place(PartOf[j], j)
    <3>1. tmp[r] = j <=> Copied(j) /\ r = Place(PartOf[j], j)
      BY <1>0 DEF Stored
    <3>2. q = Place(PartOf[j], j) => j = i
      BY <1>0, <1>1, PlaceOwn
    <3>3. tmp'[r] = IF r = q THEN i ELSE tmp[r]
      BY <1>0, <1>1
    <3>4. j = i => Place(PartOf[j], j) = q
      OBVIOUS
    <3> HIDE DEF i, q
    <3> QED BY <3>1, <3>2, <3>3, <3>4
  <2>3. \A j \in Rows(N) : (Copied(j) <=> Copied(j)) /\ (Copied(j)' <=> Copied(j) \/ j = i)
    BY <2>1
  <2> HIDE DEF i, q
  <2> QED BY <1>0, <2>2, <2>3, PlacesStay DEF Stored
<1> QED BY <1>4, <1>5, <1>6, <1>7, <1>8, <1>9 DEF PlaceInv

(* And moving the offsets back does.                                       *)
LEMMA RewindKeeps ==
    ASSUME PlaceInv, NEW t \in Threads, Rewind(t)
    PROVE  PlaceInv'
<1>0. /\ TypeOK /\ Waiting /\ Indices /\ Counted /\ OffsetsRight /\ Stored
      /\ UNCHANGED <<rel, hist, idx, tmp>> /\ pc[t] = "scatter" /\ idx[t] >= End(t)
      /\ pc' = [pc EXCEPT ![t] = "done"]
      /\ offset' = [offset EXCEPT ![t] =
                    [p \in Parts |-> @[p] - hist[t].count[p] + p * Padding]]
      /\ pc \in [Threads -> {"hist", "barrier", "offset", "scatter", "done"}]
      /\ offset \in [Threads -> [Parts -> Nat]]
  BY DEF PlaceInv, Rewind, TypeOK, End
<1>1. /\ pc'[t] = "done"
      /\ \A u \in Threads : u # t => pc'[u] = pc[u] /\ offset'[u] = offset[u]
      /\ \A p \in Parts : offset'[t][p] = offset[t][p] - hist[t].count[p] + p * Padding
  BY <1>0
<1>2. idx[t] = End(t) /\ Begin(t) \in 0 .. N /\ End(t) \in 0 .. N
  <2>1. idx[t] \in Begin(t) .. End(t) /\ Begin(t) \in 0 .. N /\ End(t) \in 0 .. N
    BY <1>0, ShareFacts DEF Indices
  <2>2. idx[t] >= End(t)
    BY <1>0
  <2>3. \A x, b, e \in Int : x \in b .. e /\ x >= e => x = e
    OBVIOUS
  <2> QED BY <2>1, <2>2, <2>3
<1>3. ASSUME NEW p \in Parts
      PROVE  offset'[t][p] = Place(p, Begin(t)) /\ offset'[t][p] \in Nat
  <2>1. offset[t][p] = Below(PartOf, p, End(t)) /\ hist[t].count[p] = Cardinality(Mine(t, p))
    BY <1>0, <1>2 DEF OffsetsRight, Counted
  <2>2. /\ Below(PartOf, p, End(t)) = Below(PartOf, p, Begin(t)) + Cardinality(Mine(t, p))
        /\ Cardinality(Mine(t, p)) \in 0 .. N
    BY <1>0, MineFacts
  <2>3. Below(PartOf, p, Begin(t)) \in 0 .. N /\ Place(p, Begin(t)) \in Nat
    BY <1>0, <1>2, PlaceType
  <2> DEFINE a == p * Padding
  <2>4. a \in Nat
    <3>1. p \in Nat /\ Padding \in Nat
      BY PartitionAssumption DEF Parts
    <3> QED BY <3>1, TimesMono
  <2>5. Place(p, Begin(t)) = Below(PartOf, p, Begin(t)) + a
    BY DEF Place, PlaceIn
  <2>6. offset'[t][p] = offset[t][p] - hist[t].count[p] + a
    BY <1>1
  <2> HIDE DEF a
  <2> QED BY <2>1, <2>2, <2>3, <2>4, <2>5, <2>6
<1>4. TypeOK'
  <2>1. offset' \in [Threads -> [Parts -> Nat]]
    <3>1. offset'[t] \in [Parts -> Nat]
      BY <1>0, <1>3
    <3> QED BY <1>0, <1>1, <3>1
  <2> QED BY <1>0, <1>1, <2>1 DEF TypeOK
<1>5. Waiting'
  BY <1>0, <1>1 DEF Waiting
<1>6. Indices'
  BY <1>0, <1>1, <1>2 DEF Indices, Begin, End
<1>7. Counted'
  BY <1>0, <1>1, PlacesStay DEF Counted
<1>8. OffsetsRight'
  BY <1>0, <1>1, <1>3, PlacesStay DEF OffsetsRight, Begin
<1>9. Stored'
  BY <1>0, StoredStays
<1> QED BY <1>4, <1>5, <1>6, <1>7, <1>8, <1>9 DEF PlaceInv

(* No step breaks the invariant.                                           *)
LEMMA PlaceNext ==
    ASSUME PlaceInv, [Next]_vars
    PROVE  PlaceInv'
<1>1. ASSUME UNCHANGED vars PROVE PlaceInv'
  <2>1. UNCHANGED <<rel, hist, offset, idx, tmp, pc>> /\ PlaceInv
    BY <1>1 DEF vars
  <2>2. TypeOK' /\ Waiting' /\ Indices'
    BY <2>1 DEF PlaceInv, TypeOK, Waiting, Indices, Begin, End
  <2>3. Counted' /\ OffsetsRight'
    BY <2>1, PlacesStay DEF PlaceInv, Counted, OffsetsRight, Begin
  <2>4. Stored'
    BY <2>1, StoredStays DEF PlaceInv
  <2> QED BY <2>2, <2>3, <2>4 DEF PlaceInv
<1>2. ASSUME NEW t \in Threads, Thread(t) PROVE PlaceInv'
  BY <1>2, HistogramKeeps, OffsetsKeeps, ScatterKeeps, RewindKeeps DEF Thread
<1>3. ASSUME Terminated PROVE UNCHANGED vars
  BY <1>3 DEF Terminated
<1> QED BY <1>1, <1>2, <1>3, ReleaseKeeps DEF Next

(* In every reachable state a position holds a row if and only if it is the *)
(* place of a row that has been copied.                                    *)
THEOREM PlaceInvariant == Spec => []PlaceInv
<1>1. Init => PlaceInv
  BY PlaceInit
<1>2. PlaceInv /\ [Next]_vars => PlaceInv'
  BY PlaceNext
<1> QED BY <1>1, <1>2, PTL DEF Spec

(* The variables keep their types. *)
THEOREM TypeCorrect == Spec => []TypeOK
<1>1. PlaceInv => TypeOK
  BY DEF PlaceInv
<1> QED BY <1>1, PlaceInvariant, PTL
-----------------------------------------------------------------------------
(***************************************************************************)
(* What follows from it.                                                   *)
(***************************************************************************)

(* The only row that may be in the place of a row is that row.             *)
THEOREM NeverOverwritten == Spec => NoOverwrite
<1>1. PlaceInv /\ [Next]_vars => [\A q \in Positions : tmp[q] # Empty => tmp'[q] = tmp[q]]_vars
  <2> SUFFICES ASSUME PlaceInv, [Next]_vars, NEW r \in Positions, tmp[r] # Empty
               PROVE  tmp'[r] = tmp[r]
    OBVIOUS
  <2>0. TypeOK /\ Stored /\ tmp \in [Positions -> Rows(N) \cup {Empty}]
    BY DEF PlaceInv, TypeOK
  <2>1. CASE UNCHANGED tmp
    BY <2>1
  <2>2. ASSUME NEW t \in Threads, Scatter(t) PROVE tmp'[r] = tmp[r]
    <3> DEFINE i == idx[t]
               q == Place(PartOf[i], i)
    <3>1. i \in Rows(N) /\ q \in Positions /\ tmp' = [tmp EXCEPT ![q] = i]
      BY <2>2, ScatterPlace
    <3>2. CASE r = q
      <4>1. tmp[r] \in Rows(N) /\ r = Place(PartOf[tmp[r]], tmp[r])
        BY <2>0 DEF Stored
      <4>2. i = tmp[r]
        BY <2>0, <3>1, <3>2, <4>1, PlaceOwn
      <4> QED BY <2>0, <3>1, <3>2, <4>2
    <3>3. CASE r # q
      <4> HIDE DEF q, i
      <4> QED BY <2>0, <3>1, <3>3
    <3> QED BY <3>2, <3>3
  <2>3. (\E t \in Threads : Scatter(t)) \/ UNCHANGED tmp
    BY DEF Next, Thread, Histogram, Offsets, Rewind, Release, Terminated, vars
  <2> QED BY <2>1, <2>2, <2>3
<1> QED BY <1>1, PlaceInvariant, PTL DEF Spec, NoOverwrite

(* A thread's room reaches from the place of its next row of the partition *)
(* to the place behind its last one.                                       *)
LEMMA RoomIs ==
    ASSUME PlaceInv, NEW t \in Threads, NEW p \in Parts, pc[t] = "scatter"
    PROVE  /\ Room(t, p) = Place(p, idx[t]) .. Place(p, End(t)) - 1
           /\ idx[t] \in 0 .. N /\ End(t) \in 0 .. N
           /\ Begin(t) <= idx[t] /\ idx[t] <= End(t)
<1>0. TypeOK /\ Indices /\ OffsetsRight /\ idx[t] \in Begin(t) .. End(t)
  BY DEF PlaceInv, Indices
<1>1. idx[t] \in 0 .. N /\ End(t) \in 0 .. N /\ Begin(t) <= idx[t] /\ idx[t] <= End(t)
  <2>1. Begin(t) \in 0 .. N /\ End(t) \in 0 .. N /\ N \in Nat
    BY ShareFacts, PartitionAssumption
  <2>2. \A x, b, e \in Int : x \in b .. e /\ b \in 0 .. N /\ e \in 0 .. N
             => x \in 0 .. N /\ b <= x /\ x <= e
    BY <2>1
  <2>3. idx[t] \in Int /\ Begin(t) \in Int /\ End(t) \in Int
    BY <1>0, <2>1
  <2> QED BY <1>0, <2>1, <2>2, <2>3
<1> DEFINE i == idx[t]
           e == End(t)
           c == Cardinality({x \in Mine(t, p) : x >= i})
           a == p * Padding
<1>2. Below(PartOf, p, e) = Below(PartOf, p, i) + c
  BY <1>0, LeftFacts
<1>3. /\ Below(PartOf, p, e) \in 0 .. N /\ Below(PartOf, p, i) \in 0 .. N
      /\ offset[t][p] = Below(PartOf, p, i)
  BY <1>0, <1>1, PlaceType DEF OffsetsRight
<1>4. a \in Nat
  <2>1. p \in Nat /\ Padding \in Nat
    BY PartitionAssumption DEF Parts
  <2> QED BY <2>1, TimesMono
<1>5. c \in Nat
  <2>1. IsFiniteSet({x \in Mine(t, p) : x >= i})
    <3>1. IsFiniteSet(Mine(t, p)) /\ {x \in Mine(t, p) : x >= i} \subseteq Mine(t, p)
      BY <1>0, MineFacts
    <3> QED BY <3>1, FS_Subset
  <2> QED BY <2>1, FS_CardinalityType
<1>6. /\ Room(t, p) = offset[t][p] + a .. offset[t][p] + a + c - 1
      /\ Place(p, i) = Below(PartOf, p, i) + a /\ Place(p, e) = Below(PartOf, p, e) + a
  <2>1. Room(t, p) = offset[t][p] + a .. offset[t][p] + a + c - 1
    BY DEF Room
  <2>2. Place(p, i) = Below(PartOf, p, i) + a /\ Place(p, e) = Below(PartOf, p, e) + a
    BY DEF Place, PlaceIn
  <2> QED BY <2>1, <2>2
<1>7. Room(t, p) = Place(p, i) .. Place(p, e) - 1
  <2> HIDE DEF a, c, i, e
  <2>1. offset[t][p] + a = Place(p, i)
    BY <1>3, <1>6
  <2>2. offset[t][p] + a + c - 1 = Place(p, e) - 1
    BY <1>2, <1>3, <1>4, <1>5, <1>6
  <2> QED BY <1>6, <2>1, <2>2, Zenon
<1> QED BY <1>1, <1>7

(* Two rooms of different threads or partitions lie apart.                 *)
LEMMA RoomsOrdered ==
    ASSUME PlaceInv, NEW t \in Threads, NEW p \in Parts, NEW u \in Threads, NEW o \in Parts,
           pc[t] = "scatter", pc[u] = "scatter", p < o \/ (p = o /\ t < u)
    PROVE  Room(t, p) \cap Room(u, o) = {}
<1>1. TypeOK
  BY DEF PlaceInv
<1>2. p = o => End(t) <= idx[u]
  <2>1. t < u => End(t) <= Begin(u)
    BY ShareFacts
  <2>2. Begin(u) \in 0 .. N /\ End(t) \in 0 .. N
    BY ShareFacts
  <2>3. idx[u] \in 0 .. N /\ Begin(u) <= idx[u]
    BY RoomIs
  <2>4. t \in Int /\ p \in Int
    BY DEF Threads, Parts
  <2> QED BY <2>1, <2>2, <2>3, <2>4
<1>3. Place(p, End(t)) <= Place(o, idx[u])
  <2>1. End(t) \in 0 .. N /\ idx[u] \in 0 .. N
    BY RoomIs
  <2> QED BY <1>1, <1>2, <2>1, PlaceMono
<1>4. Place(p, End(t)) \in Nat /\ Place(o, idx[u]) \in Nat /\ Place(p, idx[t]) \in Nat /\ Place(o, End(u)) \in Nat
  BY <1>1, RoomIs, PlaceType
<1>5. /\ Room(t, p) = Place(p, idx[t]) .. Place(p, End(t)) - 1
      /\ Room(u, o) = Place(o, idx[u]) .. Place(o, End(u)) - 1
  BY RoomIs
<1>6. \A a, b, c, d \in Int : b <= c => (a .. b - 1) \cap (c .. d - 1) = {}
  OBVIOUS
<1> QED BY <1>3, <1>4, <1>5, <1>6

(* The rooms of the copying threads are free and nobody else's.            *)
THEOREM RoomsAreSeparate == Spec => []RoomsSeparate
<1>1. PlaceInv => RoomsSeparate
  <2> SUFFICES ASSUME PlaceInv, NEW t \in Threads, NEW p \in Parts, pc[t] = "scatter"
               PROVE  /\ Room(t, p) \subseteq Positions
                      /\ \A q \in Room(t, p) : tmp[q] = Empty
                      /\ \A u \in Threads, o \in Parts :
                            pc[u] = "scatter" /\ <<u, o>> # <<t, p>> => Room(t, p) \cap Room(u, o) = {}
    BY DEF RoomsSeparate
  <2>0. /\ TypeOK /\ Stored /\ Indices
        /\ tmp \in [Positions -> Rows(N) \cup {Empty}]
        /\ Room(t, p) = Place(p, idx[t]) .. Place(p, End(t)) - 1
        /\ idx[t] \in 0 .. N /\ End(t) \in 0 .. N
        /\ Begin(t) <= idx[t] /\ idx[t] <= End(t)
    BY RoomIs DEF PlaceInv, TypeOK
  <2>1. Place(p, idx[t]) \in Nat /\ Place(p, End(t)) \in Nat /\ Place(p, End(t)) <= N + (Fanout - 1) * Padding
    BY <2>0, PlaceType
  <2>2. Room(t, p) \subseteq Positions
    <3> DEFINE m == (Fanout - 1) * Padding
    <3>1. m \in Nat
      <4>1. Fanout - 1 \in Nat /\ Padding \in Nat
        BY PartitionAssumption
      <4> QED BY <4>1, TimesMono
    <3>2. Place(p, End(t)) <= N + m /\ Positions = 0 .. N + m - 1 /\ N \in Nat
      BY <2>1, PartitionAssumption DEF Positions
    <3> HIDE DEF m
    <3> QED BY <2>0, <2>1, <3>1, <3>2
  <2>3. ASSUME NEW q \in Room(t, p) PROVE tmp[q] = Empty
    <3> SUFFICES ASSUME tmp[q] # Empty PROVE FALSE
      OBVIOUS
    <3> DEFINE j == tmp[q]
               o == PartOf[j]
    <3>1. q \in Positions /\ j \in Rows(N) /\ Copied(j) /\ q = Place(o, j)
      BY <2>0, <2>2 DEF Stored
    <3>2. /\ o \in Parts /\ j \in 0 .. N /\ j + 1 \in 0 .. N
          /\ Place(o, j + 1) = Place(o, j) + 1 /\ Place(o, j) \in Nat
      BY <2>0, <3>1, PartFacts, PlaceStep, PlaceType
    <3>3. Place(p, idx[t]) <= q /\ q < Place(p, End(t)) /\ q \in Int
      BY <2>0, <2>1
    <3> HIDE DEF j, o
    <3>4. ~(p < o)
      <4>1. p < o => Place(p, End(t)) <= Place(o, j)
        BY <2>0, <3>2, PlaceMono
      <4> QED BY <2>1, <3>1, <3>2, <3>3, <4>1
    <3>5. ~(o < p)
      <4>1. o < p => Place(o, j + 1) <= Place(p, idx[t])
        BY <2>0, <3>2, PlaceMono
      <4> QED BY <2>1, <3>1, <3>2, <3>3, <4>1
    <3>6. o = p
      BY <3>2, <3>4, <3>5 DEF Parts
    <3>7. ~(j < idx[t])
      <4>1. j + 1 <= idx[t] => Place(o, j + 1) <= Place(p, idx[t])
        BY <2>0, <3>2, <3>6, PlaceMono
      <4> QED BY <2>0, <2>1, <3>1, <3>2, <3>3, <4>1
    <3>8. ~(End(t) <= j)
      <4>1. End(t) <= j => Place(p, End(t)) <= Place(o, j)
        BY <2>0, <3>2, <3>6, PlaceMono
      <4> QED BY <2>0, <2>1, <3>1, <3>2, <3>3, <4>1
    <3>9. j \in Share(N, ThreadNum, t)
      <4>1. Share(N, ThreadNum, t) = Begin(t) .. End(t) - 1 /\ Begin(t) \in 0 .. N
        BY ShareFacts
      <4> QED BY <2>0, <3>2, <3>7, <3>8, <4>1
    <3>10. PICK u \in Threads : j \in Share(N, ThreadNum, u) /\ j < idx[u]
      BY <3>1 DEF Copied
    <3>11. u = t
      BY <3>9, <3>10, ShareDisjoint, PartitionAssumption DEF Threads
    <3> QED BY <3>7, <3>10, <3>11
  <2>4. ASSUME NEW u \in Threads, NEW o \in Parts, pc[u] = "scatter", <<u, o>> # <<t, p>>
        PROVE  Room(t, p) \cap Room(u, o) = {}
    <3>1. u \in Int /\ t \in Int /\ o \in Int /\ p \in Int
      BY DEF Threads, Parts
    <3>2. \/ p < o \/ (p = o /\ t < u)
          \/ o < p \/ (o = p /\ u < t)
      BY <2>4, <3>1
    <3> QED BY <2>4, <3>2, RoomsOrdered
  <2> QED BY <2>2, <2>3, <2>4
<1> QED BY <1>1, PlaceInvariant, PTL

(* Every place between the first one of a partition and the padding behind *)
(* it is the place of a row.                                               *)
LEMMA PlaceOnto ==
    ASSUME TypeOK, NEW p \in Parts, NEW q \in Int, Place(p, 0) <= q, q < Place(p, N)
    PROVE  \E i \in Rows(N) : PartOf[i] = p /\ Place(p, i) = q
<1>1. 0 \in 0 .. N /\ N \in 0 .. N /\ p \in 0 .. Fanout - 1 /\ Layout(N, Fanout, Padding, PartOf)
  BY PartFacts DEF Parts
<1> QED BY <1>1, PlaceInOnto DEF Place

(* The rows of a partition.                                                *)
Partition(p) == {i \in Rows(N) : Hash[rel[i]] = p}

(* With everybody through, thread 0's offsets are where the partitions     *)
(* begin, and so the tasks have the sizes of the partitions.               *)
LEMMA TasksAre ==
    ASSUME PlaceInv, \A t \in Threads : pc[t] = "done", NEW p \in Parts
    PROVE  /\ TaskSize(p) = Cardinality(Partition(p))
           /\ TaskRange(p) = Place(p, 0) .. Place(p, N) - 1
<1>0. /\ TypeOK /\ OffsetsRight /\ N \in Nat /\ Padding \in Nat /\ Fanout \in Nat \ {0}
      /\ 0 \in Threads /\ 0 \in 0 .. N /\ N \in 0 .. N
  BY PartitionAssumption DEF PlaceInv, Threads
<1>1. Begin(0) = 0
  BY <1>0, PartitionAssumption DEF Begin, ShareBegin
<1>2. \A o \in Parts : offset[0][o] = Place(o, 0)
  BY <1>0, <1>1 DEF OffsetsRight
<1>3. p \in Nat /\ p <= Fanout - 1 /\ PartOf \in [Rows(N) -> Nat] /\ \A i \in Rows(N) : PartOf[i] <= Fanout - 1
  BY <1>0, PartFacts DEF Parts
<1> DEFINE c == Below(PartOf, p, N)
           b == Below(PartOf, p, 0)
           a == p * Padding
<1>4. b \in 0 .. N /\ c \in 0 .. N /\ a \in Nat
  BY <1>0, <1>3, PlaceType, TimesMono
<1>5. c - b = Cardinality(Partition(p))
  <2>1. Slice(PartOf, p, 0, N) = Partition(p)
    BY <1>0, PartFacts DEF Slice, Partition, Rows
  <2>2. c = b + Cardinality(Slice(PartOf, p, 0, N))
    <3>1. 0 <= N
      BY <1>0
    <3> QED BY <1>0, <3>1, PlaceCount
  <2>3. Cardinality(Partition(p)) \in Nat
    <3>1. IsFiniteSet(Slice(PartOf, p, 0, N))
      <4>1. 0 <= N
        BY <1>0
      <4> QED BY <1>0, <1>3, <4>1, BelowCount
    <3> QED BY <2>1, <3>1, FS_CardinalityType
  <2> HIDE DEF b, c
  <2> QED BY <1>4, <2>1, <2>2, <2>3
<1>6. Place(p, 0) = b + a /\ Place(p, N) = c + a
  BY DEF Place, PlaceIn
<1>7. TaskSize(p) = c - b
  <2>1. CASE p = Fanout - 1
    <3>1. c = N
      BY <1>0, <1>3, <2>1, BelowNext
    <3>2. TaskSize(p) = N - Place(p, 0) + a
      BY <1>2, <2>1 DEF TaskSize
    <3> HIDE DEF a, b, c
    <3> QED BY <1>0, <1>4, <1>6, <3>1, <3>2
  <2>2. CASE p # Fanout - 1
    <3>1. p + 1 \in Parts
      BY <1>0, <1>3, <2>2 DEF Parts
    <3>2. TaskSize(p) = Place(p + 1, 0) - Place(p, 0) - Padding
      BY <1>2, <2>2, <3>1 DEF TaskSize
    <3>3. Place(p + 1, 0) = Below(PartOf, p + 1, 0) + (p + 1) * Padding
      BY DEF Place, PlaceIn
    <3>4. Below(PartOf, p + 1, 0) = c
      BY <1>0, <1>3, BelowNext
    <3>5. (p + 1) * Padding = a + Padding
      BY <1>0, <1>3
    <3> HIDE DEF a, b, c
    <3> QED BY <1>0, <1>4, <1>6, <3>2, <3>3, <3>4, <3>5
  <2> QED BY <2>1, <2>2
<1>8. TaskRange(p) = Place(p, 0) .. Place(p, N) - 1
  <2>1. TaskRange(p) = Place(p, 0) .. Place(p, 0) + TaskSize(p) - 1
    BY <1>2 DEF TaskRange
  <2> HIDE DEF a, b, c
  <2>2. Place(p, 0) + TaskSize(p) - 1 = Place(p, N) - 1
    BY <1>4, <1>6, <1>7
  <2> QED BY <2>1, <2>2, Zenon
<1> QED BY <1>5, <1>7, <1>8

(* The ranges that become tasks hold the partitions, and nothing lies      *)
(* beside them.                                                            *)
THEOREM TasksAreRight == Spec => []TasksHoldPartitions
<1>1. PlaceInv => TasksHoldPartitions
  <2> SUFFICES ASSUME PlaceInv, \A t \in Threads : pc[t] = "done"
               PROVE  /\ \A p \in Parts : /\ TaskSize(p) = Cardinality(Partition(p))
                                          /\ {tmp[q] : q \in TaskRange(p)} = Partition(p)
                      /\ \A q \in Positions : tmp[q] # Empty => \E p \in Parts : q \in TaskRange(p)
    BY DEF TasksHoldPartitions, Partition
  <2>0. /\ TypeOK /\ Stored /\ Indices
        /\ tmp \in [Positions -> Rows(N) \cup {Empty}] /\ N \in Nat
    BY PartitionAssumption DEF PlaceInv, TypeOK
  <2>1. ASSUME NEW i \in Rows(N)
        PROVE  /\ Copied(i) /\ PartOf[i] \in Parts /\ PartOf[i] = Hash[rel[i]]
               /\ Place(PartOf[i], i) \in Positions
               /\ Place(PartOf[i], i) \in TaskRange(PartOf[i])
               /\ tmp[Place(PartOf[i], i)] = i
    <3>1. PICK t \in Threads : i \in Share(N, ThreadNum, t)
      BY ShareCover, PartitionAssumption DEF Threads, Rows
    <3>2. i < idx[t]
      <4>1. i \in Begin(t) .. End(t) - 1 /\ Begin(t) \in 0 .. N /\ End(t) \in 0 .. N
        BY <3>1, ShareFacts
      <4>2. idx[t] = End(t)
        BY <2>0 DEF Indices
      <4> QED BY <4>1, <4>2
    <3>3. /\ PartOf[i] \in Parts /\ PartOf[i] = Hash[rel[i]]
          /\ Place(PartOf[i], i) \in Positions
      BY <2>0, PartFacts, PlaceOwn
    <3>4. Copied(i) /\ tmp[Place(PartOf[i], i)] = i
      BY <2>0, <3>1, <3>2, <3>3 DEF Copied, Stored
    <3> DEFINE p == PartOf[i]
    <3>5. /\ i \in 0 .. N /\ i + 1 \in 0 .. N /\ 0 \in 0 .. N /\ N \in 0 .. N
          /\ 0 <= i /\ i + 1 <= N /\ Place(p, i + 1) = Place(p, i) + 1
      BY <2>0, <3>3, PlaceStep
    <3> HIDE DEF p
    <3>6. p \in Parts
      BY <3>3 DEF p
    <3>7. Place(p, 0) <= Place(p, i) /\ Place(p, i + 1) <= Place(p, N)
      BY <2>0, <3>5, <3>6, PlaceMono
    <3>8. Place(p, 0) \in Nat /\ Place(p, i) \in Nat /\ Place(p, N) \in Nat
      BY <2>0, <3>5, <3>6, PlaceType
    <3>9. Place(p, i) \in TaskRange(p)
      <4>1. TaskRange(p) = Place(p, 0) .. Place(p, N) - 1
        BY <3>6, TasksAre
      <4> QED BY <3>5, <3>7, <3>8, <4>1
    <3> QED BY <3>3, <3>4, <3>9 DEF p
  <2>2. ASSUME NEW p \in Parts, NEW q \in TaskRange(p)
        PROVE  tmp[q] \in Partition(p)
    <3>1. TaskRange(p) = Place(p, 0) .. Place(p, N) - 1 /\ Place(p, 0) \in Nat /\ Place(p, N) \in Nat
      <4>1. 0 \in 0 .. N /\ N \in 0 .. N
        BY <2>0
      <4> QED BY <2>0, <4>1, PlaceType, TasksAre
    <3>2. q \in Int /\ Place(p, 0) <= q /\ q < Place(p, N)
      BY <3>1
    <3>3. PICK i \in Rows(N) : PartOf[i] = p /\ Place(p, i) = q
      BY <2>0, <3>2, PlaceOnto
    <3> QED BY <2>1, <3>3 DEF Partition
  <2>3. ASSUME NEW p \in Parts PROVE {tmp[q] : q \in TaskRange(p)} = Partition(p)
    <3>1. \A i \in Partition(p) : \E q \in TaskRange(p) : tmp[q] = i
      BY <2>1 DEF Partition
    <3> QED BY <2>2, <3>1
  <2>4. ASSUME NEW q \in Positions, tmp[q] # Empty PROVE \E p \in Parts : q \in TaskRange(p)
    <3>1. tmp[q] \in Rows(N) /\ q = Place(PartOf[tmp[q]], tmp[q])
      BY <2>0, <2>4 DEF Stored
    <3> QED BY <2>1, <3>1
  <2> QED BY <2>3, <2>4, TasksAre
<1> QED BY <1>1, PlaceInvariant, PTL
=============================================================================
