---------------------- MODULE RadixPartitionSwwcbProofs ----------------------
(***************************************************************************)
(* The proofs about RadixPartitionSwwcb: for any number of tuples, threads *)
(* and partitions, any size of a line and any alignment of the task, the   *)
(* partitioning with write-combining buffers implements the one without    *)
(* them, and the task in front keeps its tuples.                           *)
(*                                                                         *)
(* A line that a thread stores covers positions of other threads.  Nothing *)
(* is lost because those threads still have their tuples of that line in   *)
(* their buffers (Buffered): a room that ends in the line ends in the rest *)
(* of its thread, which is stored when no line is any more.  So a tuple is *)
(* in memory if its line is in front of its thread's slot, or its rest has *)
(* been stored (Written).                                                  *)
(***************************************************************************)
EXTENDS RadixPartitionSwwcb, RelationsProofs

(* The partition of each row.                                              *)
PartOf == [i \in Rows(N) |-> Hash[rel[i]]]

(* Where in tmp the first of the rows of partition p from row i on goes,   *)
(* and where in memory row i goes.                                         *)
Place(p, i) == PlaceIn(PartOf, Padding, p, i)
Address(i)  == GlobalOffset + Place(PartOf[i], i)

Begin(t) == ShareBegin(N, ThreadNum, t)
End(t)   == ShareEnd(N, ThreadNum, t)

Early   == {"hist", "barrier1"}
Placing == {"scatter", "barrier2", "drain", "done"}
Late    == {"drain", "done"}

(* Nobody computes offsets before everybody has counted, and nobody stores *)
(* rests before everybody has stored all full lines.                       *)
Waiting ==
    \A t \in Threads, u \in Threads :
        /\ pc[t] \notin Early => pc[u] \notin Early
        /\ pc[t] \in Late => pc[u] \in Late

Indices ==
    \A t \in Threads :
        /\ idx[t] \in Begin(t) .. End(t)
        /\ pc[t] \in Early \cup {"offset"} => idx[t] = Begin(t)
        /\ pc[t] \in Late \cup {"barrier2"} => idx[t] = End(t)
        /\ pc[t] \notin Late => part[t] = 0
        /\ pc[t] = "done" => part[t] = Fanout

(* The rows of thread t up to partition p.                                 *)
MineUpTo(t, p) == {i \in Share(N, ThreadNum, t) : PartOf[i] <= p}

Counted ==
    \A t \in Threads : pc[t] # "hist" =>
        \A p \in Parts : /\ hist[t].count[p] = Cardinality(Mine(t, p))
                         /\ hist[t].prefix[p] = Cardinality(MineUpTo(t, p))

SlotsRight ==
    \A t \in Threads, p \in Parts : pc[t] \in Placing =>
        /\ offset[t][p] = Place(p, Begin(t))
        /\ slot[t][p] = GlobalOffset + Place(p, idx[t])

(* Thread t has put its row i into a buffer.                               *)
Moved(t, i) == i \in Share(N, ThreadNum, t) /\ i < idx[t]

Buffered ==
    \A t \in Threads, i \in Rows(N) :
        Moved(t, i) /\ LineOf(slot[t][PartOf[i]]) <= Address(i) =>
            buf[t][PartOf[i]][Address(i) % LineSize] = i

Written ==
    \A t \in Threads, i \in Rows(N) :
        Moved(t, i) /\ (Address(i) < LineOf(slot[t][PartOf[i]]) \/ PartOf[i] < part[t]) =>
            mem[Address(i)] = i

LineInv ==
    /\ TypeOK /\ Waiting /\ Indices /\ Counted /\ SlotsRight
    /\ Buffered /\ Written /\ NeighbourUntouched
-----------------------------------------------------------------------------
(***************************************************************************)
(* Lines.                                                                  *)
(***************************************************************************)

(* A quotient is determined by the range that it stands for.               *)
LEMMA QuotientOwn ==
    ASSUME NEW l \in Nat \ {0}, NEW q \in Nat, NEW r \in Nat, NEW x \in Nat,
           l * q <= x, x < l * q + l, l * r <= x, x < l * r + l
    PROVE  q = r
<1>1. ASSUME NEW a \in Nat, NEW b \in Nat, a < b PROVE l * a + l <= l * b
  <2>1. PICK d \in Nat : b = a + 1 + d
    <3>1. b - a - 1 \in Nat /\ b = a + 1 + (b - a - 1)
      BY <1>1
    <3> QED BY <3>1
  <2>2. l * b = l * a + l + l * d /\ l * d \in Nat /\ l * a \in Nat
    BY <2>1
  <2> QED BY <2>2
<1>2. l * q \in Nat /\ l * r \in Nat
  OBVIOUS
<1>3. ~(q < r) /\ ~(r < q)
  BY <1>1, <1>2
<1> QED BY <1>3

(* Where a line begins and ends.                                           *)
LEMMA LineFacts ==
    ASSUME NEW a \in Nat
    PROVE  /\ LineSize \in Nat \ {0} /\ LineOf(a) \in Nat
           /\ LineOf(a) <= a /\ a < LineOf(a) + LineSize
           /\ a % LineSize = a - LineOf(a) /\ a % LineSize \in InLine
           /\ LineOf(a) = LineSize * (a \div LineSize) /\ a \div LineSize \in Nat
<1> DEFINE l == LineSize
<1>1. l \in Nat \ {0}
  BY SwwcbAssumption
<1> HIDE DEF l
<1>2. a \div l \in Nat /\ l * (a \div l) <= a /\ a < l * (a \div l) + l
  BY <1>1, DivFacts
<1>3. a % l = a - l * (a \div l)
  BY <1>1
<1>4. a % l \in 0 .. l - 1
  <2> DEFINE m == l * (a \div l)
  <2>1. m \in Nat
    BY <1>1, <1>2
  <2> HIDE DEF m
  <2>2. m <= a /\ a < m + l /\ a % l = a - m
    BY <1>2, <1>3 DEF m
  <2> QED BY <1>1, <2>1, <2>2
<1>5. LineOf(a) = a - (a % l)
  BY DEF LineOf, l
<1>6. LineOf(a) = l * (a \div l) /\ LineOf(a) \in Nat
  BY <1>1, <1>2, <1>3, <1>4, <1>5
<1> QED BY <1>1, <1>2, <1>3, <1>4, <1>6 DEF l, InLine

(* The positions of a line are those from where it begins.                 *)
LEMMA LineIs ==
    ASSUME NEW a \in Nat, NEW x \in Nat
    PROVE  LineOf(x) = LineOf(a) <=> LineOf(a) <= x /\ x < LineOf(a) + LineSize
<1>1. LineOf(x) = LineOf(a) => LineOf(a) <= x /\ x < LineOf(a) + LineSize
  BY LineFacts
<1>2. ASSUME LineOf(a) <= x, x < LineOf(a) + LineSize PROVE LineOf(x) = LineOf(a)
  <2> DEFINE q == a \div LineSize
             r == x \div LineSize
  <2>1. /\ q \in Nat /\ r \in Nat /\ LineSize \in Nat \ {0}
        /\ LineOf(a) = LineSize * q /\ LineOf(x) = LineSize * r
        /\ LineOf(x) <= x /\ x < LineOf(x) + LineSize
    BY LineFacts
  <2> HIDE DEF q, r
  <2>2. q = r
    BY <1>2, <2>1, QuotientOwn
  <2> QED BY <2>1, <2>2
<1> QED BY <1>1, <1>2

(* Lines are ordered as their positions.                                   *)
LEMMA LineMono ==
    ASSUME NEW a \in Nat, NEW x \in Nat, x <= a
    PROVE  LineOf(x) <= LineOf(a)
<1>1. CASE LineOf(a) <= x
  <2>1. LineOf(x) = LineOf(a)
    BY <1>1, LineIs, LineFacts
  <2> QED BY <2>1, LineFacts
<1>2. CASE ~(LineOf(a) <= x)
  BY <1>2, LineFacts
<1> QED BY <1>1, <1>2

(* The next position is in the same line, or begins the next one.          *)
LEMMA LineNext ==
    ASSUME NEW a \in Nat
    PROVE  /\ a % LineSize = LineSize - 1 => LineOf(a + 1) = a + 1 /\ a = LineOf(a) + LineSize - 1
           /\ a % LineSize # LineSize - 1 => LineOf(a + 1) = LineOf(a) /\ a < LineOf(a) + LineSize - 1
<1> DEFINE b == a + 1
<1>1. b \in Nat
  OBVIOUS
<1>2. /\ LineOf(a) \in Nat /\ LineSize \in Nat \ {0} /\ a % LineSize = a - LineOf(a)
      /\ a < LineOf(a) + LineSize
  BY LineFacts
<1>3. /\ LineOf(b) \in Nat /\ LineOf(b) <= b /\ b < LineOf(b) + LineSize
      /\ LineOf(b) = LineOf(a) <=> LineOf(a) <= b /\ b < LineOf(a) + LineSize
  <2> HIDE DEF b
  <2> QED BY <1>1, LineFacts, LineIs
<1>4. CASE a % LineSize # LineSize - 1
  <2>1. LineOf(a) <= a
    BY LineFacts
  <2>2. a < LineOf(a) + LineSize - 1 /\ a - LineOf(a) # LineSize - 1
    BY <1>2, <1>4, <2>1
  <2>3. LineOf(b) = LineOf(a)
    BY <1>2, <1>3, <2>1, <2>2
  <2> QED BY <1>4, <2>2, <2>3
<1>5. CASE a % LineSize = LineSize - 1
  <2>1. a = LineOf(a) + LineSize - 1
    BY <1>2, <1>5
  <2>2. LineOf(b) = b
    <3> DEFINE q == a \div LineSize
               r == b \div LineSize
               s == q + 1
    <3>1. /\ q \in Nat /\ r \in Nat /\ s \in Nat
          /\ LineOf(a) = LineSize * q /\ LineOf(b) = LineSize * r
      <4> HIDE DEF b
      <4> QED BY <1>1, LineFacts
    <3>2. LineSize * s = LineSize * q + LineSize
      <4> HIDE DEF q
      <4> QED BY <1>2, <3>1
    <3>3. b = LineSize * s
      BY <1>2, <2>1, <3>1, <3>2
    <3> HIDE DEF q, r, s, b
    <3>4. LineSize * s <= b /\ b < LineSize * s + LineSize /\ LineSize * r <= b /\ b < LineSize * r + LineSize
      BY <1>1, <1>2, <1>3, <3>1, <3>3
    <3>5. s = r
      BY <1>1, <1>2, <3>1, <3>4, QuotientOwn
    <3> QED BY <3>1, <3>3, <3>5
  <2> QED BY <1>5, <2>1, <2>2
<1> QED BY <1>4, <1>5
-----------------------------------------------------------------------------
(***************************************************************************)
(* The places.                                                             *)
(***************************************************************************)

(* The types the places rest on.                                           *)
LEMMA PartFacts ==
    ASSUME rel \in Inputs
    PROVE  /\ PartOf \in [Rows(N) -> Parts]
           /\ \A i \in Rows(N) : PartOf[i] = Hash[rel[i]] /\ PartOf[i] \in Parts
           /\ Layout(N, Fanout, Padding, PartOf)
<1>1. rel \in [Rows(N) -> Keys] /\ Hash \in [Keys -> Parts]
  BY SwwcbAssumption
<1>2. \A i \in Rows(N) : Hash[rel[i]] \in Parts
  BY <1>1
<1> QED BY <1>2, SwwcbAssumption DEF PartOf, Parts, Layout

(* The bounds of the shares.                                               *)
LEMMA ShareFacts ==
    ASSUME NEW t \in Threads
    PROVE  /\ Begin(t) \in 0 .. N /\ End(t) \in 0 .. N /\ Begin(t) <= End(t)
           /\ Share(N, ThreadNum, t) = Begin(t) .. End(t) - 1
           /\ Share(N, ThreadNum, t) \subseteq Rows(N)
           /\ \A u \in Threads : t < u => End(t) <= Begin(u)
<1>1. t \in 0 .. ThreadNum - 1 /\ N \in Nat /\ ThreadNum \in Nat \ {0}
  BY SwwcbAssumption DEF Threads
<1> QED BY <1>1, ShareBounds DEF Begin, End, Threads

(* There is room for all places, and for the padding behind them.          *)
LEMMA PlaceType ==
    ASSUME rel \in Inputs, NEW p \in Parts, NEW i \in 0 .. N
    PROVE  /\ Below(PartOf, p, i) \in 0 .. N
           /\ Place(p, i) \in Nat /\ Place(p, i) <= N + (Fanout - 1) * Padding
           /\ GlobalOffset + Place(p, i) \in Nat
           /\ GlobalOffset + Place(p, i) \in Memory /\ Place(p, i) \in Memory
<1> DEFINE m == (Fanout - 1) * Padding
<1>1. /\ Below(PartOf, p, i) \in 0 .. N
      /\ Place(p, i) \in Nat /\ Place(p, i) <= N + m /\ m \in Nat
  BY PartFacts, PlaceInType DEF Place, Parts
<1>2. /\ Fanout * Padding = m + Padding /\ Padding \in Nat \ {0}
      /\ GlobalOffset \in Nat /\ N \in Nat
  BY SwwcbAssumption
<1>3. Memory = 0 .. GlobalOffset + N + (m + Padding) - 1
  BY <1>2 DEF Memory
<1> HIDE DEF m
<1>4. GlobalOffset + Place(p, i) \in Memory /\ Place(p, i) \in Memory
  BY <1>1, <1>2, <1>3
<1> QED BY <1>1, <1>2, <1>4 DEF m

(* The places are ordered as the partitions and the rows in them, and the  *)
(* padding lies between the partitions.                                    *)
LEMMA PlaceMono ==
    ASSUME rel \in Inputs, NEW p \in Parts, NEW o \in Parts, NEW i \in 0 .. N, NEW j \in 0 .. N
    PROVE  /\ p < o => Place(p, i) + Padding <= Place(o, j)
           /\ i <= j => Place(p, i) <= Place(p, j)
  BY PartFacts, PlaceInMono, PlaceInGap DEF Place, Parts

(* Behind the place of a row comes the place of the next one.              *)
LEMMA PlaceStep ==
    ASSUME rel \in Inputs, NEW i \in Rows(N), NEW p \in Parts
    PROVE  /\ i \in 0 .. N /\ i + 1 \in 0 .. N
           /\ Place(p, i + 1) = IF PartOf[i] = p THEN Place(p, i) + 1 ELSE Place(p, i)
<1>1. i \in 0 .. N /\ i + 1 \in 0 .. N
  BY SwwcbAssumption DEF Rows
<1> QED BY <1>1, PartFacts, PlaceInStep DEF Place, Parts

(* No two rows have the same address.                                      *)
LEMMA AddressOwn ==
    ASSUME rel \in Inputs, NEW i \in Rows(N)
    PROVE  /\ Place(PartOf[i], i) \in 0 .. N + (Fanout - 1) * Padding - 1
           /\ Address(i) \in Nat /\ Address(i) \in Memory /\ Address(i) >= GlobalOffset
           /\ \A j \in Rows(N) : /\ Address(i) = Address(j) => i = j
                                 /\ Place(PartOf[i], i) = Place(PartOf[j], j) => i = j
<1>1. /\ Place(PartOf[i], i) \in 0 .. N + (Fanout - 1) * Padding - 1
      /\ \A j \in Rows(N) : Place(PartOf[i], i) = Place(PartOf[j], j) => i = j
  BY PartFacts, PlaceInOwn DEF Place
<1>2. \A j \in Rows(N) : j \in 0 .. N /\ PartOf[j] \in Parts
  BY PartFacts, PlaceStep
<1>3. \A j \in Rows(N) : /\ Place(PartOf[j], j) \in Nat
                         /\ GlobalOffset + Place(PartOf[j], j) \in Memory
  BY <1>2, PlaceType
<1>4. GlobalOffset \in Nat
  BY SwwcbAssumption
<1> QED BY <1>1, <1>3, <1>4 DEF Address

(* A row that thread t has moved lies from the beginning of the thread's   *)
(* room on and before its slot.                                            *)
LEMMA MovedRange ==
    ASSUME rel \in Inputs, Indices, NEW t \in Threads, NEW i \in Rows(N), Moved(t, i)
    PROVE  /\ PartOf[i] \in Parts /\ idx[t] \in 0 .. N /\ Begin(t) <= i /\ i < idx[t]
           /\ idx[t] <= End(t)
           /\ GlobalOffset + Place(PartOf[i], Begin(t)) <= Address(i)
           /\ Address(i) < GlobalOffset + Place(PartOf[i], idx[t])
<1> DEFINE p == PartOf[i]
           c == idx[t]
           b == Begin(t)
<1>1. /\ b \in 0 .. N /\ End(t) \in 0 .. N /\ i \in b .. End(t) - 1 /\ c \in b .. End(t)
      /\ i < c /\ p \in Parts /\ N \in Nat /\ GlobalOffset \in Nat
  BY ShareFacts, PartFacts, SwwcbAssumption DEF Moved, Indices
<1>2. c \in 0 .. N /\ b <= i /\ i \in 0 .. N /\ i + 1 \in 0 .. N /\ i + 1 <= c /\ c <= End(t)
  <2> HIDE DEF b, c
  <2> QED BY <1>1
<1>3. Place(p, i + 1) = Place(p, i) + 1
  BY <1>1, PlaceStep
<1>4. Address(i) = GlobalOffset + Place(p, i)
  BY DEF Address
<1> HIDE DEF b, c, p
<1>5. Place(p, b) <= Place(p, i) /\ Place(p, i + 1) <= Place(p, c)
  BY <1>1, <1>2, PlaceMono
<1>6. Place(p, b) \in Nat /\ Place(p, i) \in Nat /\ Place(p, c) \in Nat
  BY <1>1, <1>2, PlaceType
<1>7. GlobalOffset + Place(p, b) <= Address(i) /\ Address(i) < GlobalOffset + Place(p, c)
  BY <1>1, <1>3, <1>4, <1>5, <1>6
<1> QED BY <1>1, <1>2, <1>7 DEF b, c, p

(* Between the beginning of a thread's room and its slot there are only    *)
(* rows that the thread has moved.                                         *)
LEMMA MovedOnto ==
    ASSUME rel \in Inputs, Indices, NEW t \in Threads, NEW p \in Parts, NEW x \in Int,
           GlobalOffset + Place(p, Begin(t)) <= x, x < GlobalOffset + Place(p, idx[t])
    PROVE  \E i \in Rows(N) : Moved(t, i) /\ PartOf[i] = p /\ Address(i) = x
<1> DEFINE q == x - GlobalOffset
           b == Begin(t)
           c == idx[t]
<1>1. /\ b \in 0 .. N /\ End(t) \in 0 .. N /\ c \in b .. End(t) /\ N \in Nat
      /\ Share(N, ThreadNum, t) = b .. End(t) - 1
      /\ GlobalOffset \in Nat /\ p \in 0 .. Fanout - 1 /\ Layout(N, Fanout, Padding, PartOf)
  BY ShareFacts, PartFacts, SwwcbAssumption DEF Indices, Parts
<1>2. c \in 0 .. N /\ c <= End(t)
  <2> HIDE DEF b, c
  <2> QED BY <1>1
<1>3. Place(p, b) \in Nat /\ Place(p, c) \in Nat
  BY <1>1, <1>2, PlaceType
<1>4. q \in Int /\ Place(p, b) <= q /\ q < Place(p, c) /\ GlobalOffset + q = x
  <2> HIDE DEF b, c
  <2>1. GlobalOffset + Place(p, b) <= x /\ x < GlobalOffset + Place(p, c)
    BY DEF b, c
  <2> QED BY <1>1, <1>3, <2>1
<1> HIDE DEF q, b, c
<1>5. PICK i \in Rows(N) : b <= i /\ i < c /\ PartOf[i] = p /\ Place(p, i) = q
  BY <1>1, <1>2, <1>4, PlaceInOnto DEF Place
<1>6. i \in Share(N, ThreadNum, t)
  <2>1. i \in Int
    BY DEF Rows
  <2> QED BY <1>1, <1>2, <1>5, <2>1
<1> QED BY <1>4, <1>5, <1>6 DEF Moved, Address, c
-----------------------------------------------------------------------------
(***************************************************************************)
(* The counts.                                                             *)
(***************************************************************************)

(* The rows of a share of one partition, counted.                          *)
LEMMA MineFacts ==
    ASSUME rel \in Inputs, NEW t \in Threads, NEW p \in Parts
    PROVE  /\ Mine(t, p) = ShareIn(N, ThreadNum, PartOf, t, p)
           /\ Cardinality(Mine(t, p)) \in 0 .. N
           /\ Place(p, End(t)) = Place(p, Begin(t)) + Cardinality(Mine(t, p))
<1>1. Mine(t, p) = ShareIn(N, ThreadNum, PartOf, t, p)
  BY PartFacts, ShareFacts DEF Mine, ShareIn
<1>2. /\ Cardinality(Mine(t, p)) \in 0 .. N
      /\ Below(PartOf, p, End(t)) = Below(PartOf, p, Begin(t)) + Cardinality(Mine(t, p))
  BY <1>1, PartFacts, ShareOfCount, SwwcbAssumption DEF Begin, End, Threads, Parts
<1>3. /\ Place(p, End(t)) = Below(PartOf, p, End(t)) + p * Padding
      /\ Place(p, Begin(t)) = Below(PartOf, p, Begin(t)) + p * Padding
  BY DEF Place, PlaceIn
<1>4. p * Padding \in Nat
  BY SwwcbAssumption, TimesMono DEF Parts
<1>5. Below(PartOf, p, Begin(t)) \in 0 .. N
  BY ShareFacts, PlaceType
<1> QED BY <1>1, <1>2, <1>3, <1>4, <1>5, SwwcbAssumption

(* The prefix sums of Histogram count the rows up to a partition.          *)
LEMMA PrefixRight ==
    ASSUME rel \in Inputs, NEW t \in Threads, NEW p \in Parts
    PROVE  /\ SumFunction([o \in 0 .. p |-> Cardinality(Mine(t, o))]) = Cardinality(MineUpTo(t, p))
           /\ Cardinality(MineUpTo(t, p)) \in 0 .. N
<1>1. p \in 0 .. Fanout - 1 /\ t \in 0 .. ThreadNum - 1 /\ ThreadNum \in Nat \ {0} /\ Fanout \in Nat
  BY SwwcbAssumption DEF Parts, Threads
<1>2. [o \in 0 .. p |-> Cardinality(Mine(t, o))]
         = [o \in 0 .. p |-> Cardinality(ShareIn(N, ThreadNum, PartOf, t, o))]
  <2>1. \A o \in 0 .. p : o \in Parts
    BY <1>1 DEF Parts
  <2> QED BY <2>1, MineFacts
<1>3. MineUpTo(t, p) = ShareUpTo(N, ThreadNum, PartOf, t, p)
  BY DEF MineUpTo, ShareUpTo
<1> QED BY <1>1, <1>2, <1>3, PartFacts, ShareOfPrefix

(* What thread t counts in front of its rows of partition p, before the    *)
(* padding is added.                                                       *)
Rank(t, p) ==
    SumFunction([u \in 0 .. t - 1 |-> hist[u].prefix[p]])
    + (IF p = 0 THEN 0
       ELSE SumFunction([u \in t .. ThreadNum - 1 |-> hist[u].prefix[p - 1]]))

(* With all rows counted, that is the rank of its first row, and the       *)
(* thread's room begins at the row's place.                                *)
LEMMA StartRight ==
    ASSUME rel \in Inputs, Counted, \A u \in Threads : pc[u] # "hist", NEW t \in Threads, NEW p \in Parts
    PROVE  /\ Rank(t, p) = Below(PartOf, p, Begin(t))
           /\ Start(t, p) = Place(p, Begin(t))
<1> DEFINE prefix == [u \in Threads |-> hist[u].prefix]
<1>1. p \in 0 .. Fanout - 1 /\ t \in 0 .. ThreadNum - 1 /\ ThreadNum \in Nat \ {0}
  BY SwwcbAssumption DEF Parts, Threads
<1>2. \A u \in 0 .. ThreadNum - 1, o \in 0 .. Fanout - 1 :
         prefix[u][o] = Cardinality(ShareUpTo(N, ThreadNum, PartOf, u, o))
  BY DEF Counted, MineUpTo, ShareUpTo, Threads, Parts
<1>3. Rank(t, p) = StartIn(ThreadNum, prefix, t, p)
  <2>1. /\ [u \in 0 .. t - 1 |-> prefix[u][p]] = [u \in 0 .. t - 1 |-> hist[u].prefix[p]]
        /\ [u \in t .. ThreadNum - 1 |-> prefix[u][p - 1]]
              = [u \in t .. ThreadNum - 1 |-> hist[u].prefix[p - 1]]
    BY <1>1 DEF Threads
  <2> QED BY <2>1 DEF Rank, StartIn
<1> HIDE DEF prefix
<1>4. Rank(t, p) = Below(PartOf, p, Begin(t))
  BY <1>1, <1>2, <1>3, PartFacts, ShareStart DEF Begin
<1>5. Start(t, p) = Rank(t, p) + p * Padding
  BY DEF Start, Rank
<1> QED BY <1>4, <1>5 DEF Place, PlaceIn
-----------------------------------------------------------------------------
(***************************************************************************)
(* The invariant.                                                          *)
(***************************************************************************)

(* As long as the relation stays, so do the places and the counts.         *)
LEMMA PlacesStay ==
    ASSUME rel' = rel
    PROVE  /\ PartOf' = PartOf
           /\ \A p, i : Place(p, i)' = Place(p, i)
           /\ \A i : Address(i)' = Address(i)
           /\ \A t, p : Mine(t, p)' = Mine(t, p) /\ MineUpTo(t, p)' = MineUpTo(t, p)
<1>1. PartOf' = PartOf
  BY DEF PartOf
<1> QED BY <1>1 DEF Place, Address, Mine, MineUpTo

(* A step that moves no row and stores nothing leaves the buffers and the  *)
(* memory as they are.                                                     *)
LEMMA LinesStay ==
    ASSUME Buffered, Written, NeighbourUntouched, UNCHANGED <<rel, idx, buf, slot, mem, part>>
    PROVE  Buffered' /\ Written' /\ NeighbourUntouched'
<1>1. Buffered'
  BY PlacesStay DEF Buffered, Moved, LineOf
<1>2. Written'
  BY PlacesStay DEF Written, Moved, LineOf
<1>3. NeighbourUntouched'
  BY DEF NeighbourUntouched
<1> QED BY <1>1, <1>2, <1>3

(* The invariant holds when the threads start.                             *)
LEMMA LineInit ==
    ASSUME Init
    PROVE  LineInv
<1> USE DEF Init
<1>0. /\ N \in Nat /\ Padding \in Nat \ {0} /\ GlobalOffset \in Nat
      /\ Fanout \in Nat \ {0} /\ LineSize \in Nat \ {0}
  BY SwwcbAssumption
<1>1. \A t \in Threads : idx[t] = Begin(t) /\ Begin(t) \in 0 .. N /\ End(t) \in 0 .. N /\ Begin(t) <= End(t)
  BY ShareFacts DEF Begin
<1>2. TypeOK
  <2>1. idx \in [Threads -> 0 .. N]
    BY <1>1
  <2>2. 0 \in Memory
    <3>1. 0 \in Parts /\ 0 \in 0 .. N
      BY <1>0 DEF Parts
    <3> DEFINE m == Fanout * Padding
    <3>2. m \in Nat \ {0}
      BY <1>0
    <3>3. Memory = 0 .. GlobalOffset + N + m - 1
      BY DEF Memory
    <3> HIDE DEF m
    <3> QED BY <1>0, <3>2, <3>3
  <2>3. Zeros \in [Parts -> 0 .. N] /\ Zeros \in [Parts -> Memory]
    BY <1>0, <2>2 DEF Zeros
  <2>4. hist \in [Threads -> [count : [Parts -> 0 .. N], prefix : [Parts -> 0 .. N]]]
    BY <2>3
  <2>5. offset \in [Threads -> [Parts -> Memory]] /\ slot \in [Threads -> [Parts -> Memory]]
    BY <2>3
  <2>6. Blank \in [InLine -> Rows(N) \cup {Junk}]
    BY DEF Blank
  <2>7. buf \in [Threads -> [Parts -> [InLine -> Rows(N) \cup {Junk}]]]
    BY <2>6
  <2>8. mem \in [Memory -> Rows(N) \cup {Junk, Foreign}]
    OBVIOUS
  <2>9. part \in [Threads -> 0 .. Fanout]
    BY <1>0
  <2>10. pc \in [Threads -> {"hist", "barrier1", "offset", "scatter", "barrier2", "drain", "done"}]
    OBVIOUS
  <2> QED BY <2>1, <2>4, <2>5, <2>7, <2>8, <2>9, <2>10 DEF TypeOK
<1>3. Waiting /\ Indices
  BY <1>1 DEF Waiting, Indices, Early, Late
<1>4. Counted /\ SlotsRight
  BY DEF Counted, SlotsRight, Placing
<1>5. Buffered /\ Written
  <2>1. \A t \in Threads, i \in Rows(N) : ~Moved(t, i)
    BY <1>1, ShareFacts DEF Moved
  <2> QED BY <2>1 DEF Buffered, Written
<1>6. NeighbourUntouched
  BY DEF NeighbourUntouched
<1> QED BY <1>2, <1>3, <1>4, <1>5, <1>6 DEF LineInv

(* Counting keeps it.                                                      *)
LEMMA HistogramKeeps ==
    ASSUME LineInv, NEW t \in Threads, Histogram(t)
    PROVE  LineInv'
<1> USE DEF Histogram
<1>0. /\ TypeOK /\ Waiting /\ Indices /\ Counted /\ SlotsRight
      /\ Buffered /\ Written /\ NeighbourUntouched /\ rel \in Inputs
      /\ UNCHANGED <<rel, offset, idx, buf, slot, mem, part>> /\ pc[t] = "hist"
      /\ pc' = [pc EXCEPT ![t] = "barrier1"]
      /\ pc \in [Threads -> {"hist", "barrier1", "offset", "scatter", "barrier2", "drain", "done"}]
      /\ hist \in [Threads -> [count : [Parts -> 0 .. N], prefix : [Parts -> 0 .. N]]]
  BY DEF LineInv, TypeOK
<1>1. /\ pc'[t] = "barrier1"
      /\ \A u \in Threads : u # t => pc'[u] = pc[u] /\ hist'[u] = hist[u]
  BY <1>0
<1>2. \A p \in Parts : /\ hist'[t].count[p] = Cardinality(Mine(t, p))
                       /\ hist'[t].prefix[p] = Cardinality(MineUpTo(t, p))
  BY <1>0, PrefixRight
<1>3. TypeOK'
  <2>1. hist'[t] \in [count : [Parts -> 0 .. N], prefix : [Parts -> 0 .. N]]
    <3>1. \A p \in Parts :
            /\ Cardinality(Mine(t, p)) \in 0 .. N
            /\ SumFunction([o \in 0 .. p |-> Cardinality(Mine(t, o))]) \in 0 .. N
      BY <1>0, MineFacts, PrefixRight
    <3> QED BY <1>0, <3>1
  <2> QED BY <1>0, <1>1, <2>1 DEF TypeOK
<1>4. Waiting'
  BY <1>0, <1>1 DEF Waiting, Early, Late
<1>5. Indices'
  BY <1>0, <1>1 DEF Indices, Begin, End, Early, Late
<1>6. Counted'
  BY <1>0, <1>1, <1>2, PlacesStay DEF Counted
<1>7. SlotsRight'
  BY <1>0, <1>1, PlacesStay DEF SlotsRight, Begin, Placing
<1>8. Buffered' /\ Written' /\ NeighbourUntouched'
  BY <1>0, LinesStay
<1> QED BY <1>3, <1>4, <1>5, <1>6, <1>7, <1>8 DEF LineInv

(* So do the barriers.                                                     *)
LEMMA ReleaseKeeps ==
    ASSUME LineInv, Release
    PROVE  LineInv'
<1>0. /\ TypeOK /\ Waiting /\ Indices /\ Counted /\ SlotsRight
      /\ Buffered /\ Written /\ NeighbourUntouched
      /\ UNCHANGED <<rel, hist, offset, idx, buf, slot, mem, part>>
  BY DEF LineInv, Release
<1>1. \/ /\ \A t \in Threads : pc[t] = "barrier1" /\ pc'[t] = "offset"
         /\ pc' = [t \in Threads |-> "offset"]
      \/ /\ \A t \in Threads : pc[t] = "barrier2" /\ pc'[t] = "drain"
         /\ pc' = [t \in Threads |-> "drain"]
  BY DEF Release, AfterBarrier
<1>2. TypeOK'
  BY <1>0, <1>1 DEF TypeOK
<1>3. Waiting' /\ Indices'
  BY <1>0, <1>1 DEF Waiting, Indices, Begin, End, Early, Late
<1>4. Counted'
  BY <1>0, <1>1, PlacesStay DEF Counted
<1>5. SlotsRight'
  BY <1>0, <1>1, PlacesStay DEF SlotsRight, Begin, Placing
<1>6. Buffered' /\ Written' /\ NeighbourUntouched'
  BY <1>0, LinesStay
<1> QED BY <1>2, <1>3, <1>4, <1>5, <1>6 DEF LineInv

(* With everybody's counts a thread finds the places of its first rows.    *)
LEMMA OffsetsKeeps ==
    ASSUME LineInv, NEW t \in Threads, Offsets(t)
    PROVE  LineInv'
<1>0. /\ TypeOK /\ Waiting /\ Indices /\ Counted /\ SlotsRight
      /\ Buffered /\ Written /\ NeighbourUntouched /\ rel \in Inputs
      /\ UNCHANGED <<rel, hist, idx, buf, mem, part>> /\ pc[t] = "offset"
      /\ pc' = [pc EXCEPT ![t] = "scatter"]
      /\ offset' = [offset EXCEPT ![t] = [p \in Parts |-> Start(t, p)]]
      /\ slot' = [slot EXCEPT ![t] = [p \in Parts |-> Start(t, p) + GlobalOffset]]
      /\ pc \in [Threads -> {"hist", "barrier1", "offset", "scatter", "barrier2", "drain", "done"}]
      /\ offset \in [Threads -> [Parts -> Memory]] /\ slot \in [Threads -> [Parts -> Memory]]
  BY DEF LineInv, Offsets, TypeOK
<1>1. /\ pc'[t] = "scatter"
      /\ \A u \in Threads : u # t => pc'[u] = pc[u] /\ offset'[u] = offset[u] /\ slot'[u] = slot[u]
      /\ \A p \in Parts : offset'[t][p] = Start(t, p) /\ slot'[t][p] = Start(t, p) + GlobalOffset
      /\ \A u \in Threads : pc[u] \notin Early /\ pc[u] # "hist"
  BY <1>0 DEF Waiting, Early
<1>2. idx[t] = Begin(t) /\ Begin(t) \in 0 .. N /\ GlobalOffset \in Nat
  BY <1>0, ShareFacts, SwwcbAssumption DEF Indices
<1>3. ASSUME NEW p \in Parts
      PROVE  /\ Start(t, p) = Place(p, Begin(t)) /\ Start(t, p) \in Memory
             /\ Start(t, p) + GlobalOffset = GlobalOffset + Place(p, Begin(t))
             /\ Start(t, p) + GlobalOffset \in Memory
  <2>1. Start(t, p) = Place(p, Begin(t))
    BY <1>0, <1>1, StartRight
  <2>2. /\ Place(p, Begin(t)) \in Nat /\ Place(p, Begin(t)) \in Memory
        /\ GlobalOffset + Place(p, Begin(t)) \in Memory
    BY <1>0, <1>2, PlaceType
  <2>3. Start(t, p) + GlobalOffset = GlobalOffset + Place(p, Begin(t))
    BY <1>2, <2>1, <2>2
  <2> QED BY <2>1, <2>2, <2>3
<1>4. TypeOK'
  <2>1. offset' \in [Threads -> [Parts -> Memory]] /\ slot' \in [Threads -> [Parts -> Memory]]
    BY <1>0, <1>3
  <2> QED BY <1>0, <1>1, <2>1 DEF TypeOK
<1>5. Waiting' /\ Indices'
  BY <1>0, <1>1 DEF Waiting, Indices, Begin, End, Early, Late
<1>6. Counted'
  BY <1>0, <1>1, PlacesStay DEF Counted
<1>7. SlotsRight'
  BY <1>0, <1>1, <1>2, <1>3, PlacesStay DEF SlotsRight, Begin, Placing
<1>8. \A i \in Rows(N) : ~Moved(t, i)
  BY <1>2, ShareFacts DEF Moved
<1>9. Buffered'
  BY <1>0, <1>1, <1>8, PlacesStay DEF Buffered, Moved, LineOf
<1>10. Written'
  BY <1>0, <1>1, <1>8, PlacesStay DEF Written, Moved, LineOf
<1>11. NeighbourUntouched'
  BY <1>0 DEF NeighbourUntouched
<1> QED BY <1>4, <1>5, <1>6, <1>7, <1>9, <1>10, <1>11 DEF LineInv

(* What Scatter does with its next row: the slot of the row's partition is *)
(* the row's address, and the rows moved are one more.                     *)
LEMMA ScatterIs ==
    ASSUME LineInv, NEW t \in Threads, Scatter(t)
    PROVE  LET i == idx[t]
               p == PartOf[i]
               a == Address(i)
               line == [buf[t][p] EXCEPT ![a % LineSize] = i]
           IN  /\ i \in Share(N, ThreadNum, t) /\ i \in Rows(N) /\ p \in Parts
               /\ i \in Begin(t) .. End(t) - 1 /\ i + 1 \in Begin(t) .. End(t)
               /\ i \in 0 .. N /\ i + 1 \in 0 .. N
               /\ a \in Nat /\ a \in Memory /\ slot[t][p] = a
               /\ a + 1 = GlobalOffset + Place(p, i + 1)
               /\ mem' = IF a % LineSize = LineSize - 1 THEN Flushed(a, line) ELSE mem
               /\ slot' = [slot EXCEPT ![t][p] = a + 1]
               /\ buf' = [buf EXCEPT ![t][p] = [line EXCEPT ![LineSize - 1] = Junk]]
               /\ idx' = [idx EXCEPT ![t] = i + 1]
               /\ UNCHANGED <<rel, hist, offset, part, pc>>
               /\ pc[t] = "scatter"
<1> DEFINE i == idx[t]
           p == PartOf[i]
           a == Address(i)
<1>0. /\ TypeOK /\ Indices /\ SlotsRight /\ rel \in Inputs /\ pc[t] = "scatter" /\ i < End(t)
      /\ i \in Begin(t) .. End(t)
  BY DEF LineInv, TypeOK, Scatter, End, Indices
<1>1. Begin(t) \in 0 .. N /\ End(t) \in 0 .. N /\ N \in Nat /\ GlobalOffset \in Nat
  BY ShareFacts, SwwcbAssumption
<1>2. i \in Begin(t) .. End(t) - 1 /\ i + 1 \in Begin(t) .. End(t)
  <2> HIDE DEF i
  <2> QED BY <1>0, <1>1
<1>3. i \in Share(N, ThreadNum, t) /\ i \in Rows(N)
  BY <1>2, ShareFacts
<1>4. p \in Parts /\ p = Hash[rel[i]] /\ i \in 0 .. N /\ i + 1 \in 0 .. N
  BY <1>0, <1>3, PartFacts, PlaceStep
<1>5. a \in Nat /\ a \in Memory /\ slot[t][p] = a /\ a = GlobalOffset + Place(p, i)
  <2>1. slot[t][p] = GlobalOffset + Place(p, i)
    BY <1>0, <1>4 DEF SlotsRight, Placing
  <2> QED BY <1>0, <1>3, <2>1, AddressOwn DEF Address
<1>6. a + 1 = GlobalOffset + Place(p, i + 1)
  <2>1. Place(p, i + 1) = Place(p, i) + 1 /\ Place(p, i) \in Nat
    BY <1>0, <1>3, <1>4, PlaceStep, PlaceType
  <2> HIDE DEF a, p, i
  <2> QED BY <1>1, <1>5, <2>1
<1> HIDE DEF a
<1>7. /\ mem' = IF a % LineSize = LineSize - 1
                THEN Flushed(a, [buf[t][p] EXCEPT ![a % LineSize] = i]) ELSE mem
      /\ slot' = [slot EXCEPT ![t][p] = a + 1]
      /\ buf' = [buf EXCEPT ![t][p] =
                   [[buf[t][p] EXCEPT ![a % LineSize] = i] EXCEPT ![LineSize - 1] = Junk]]
      /\ idx' = [idx EXCEPT ![t] = i + 1]
      /\ UNCHANGED <<rel, hist, offset, part, pc>>
  BY <1>4, <1>5 DEF Scatter
<1> QED BY <1>0, <1>2, <1>3, <1>4, <1>5, <1>6, <1>7 DEF a

(* A line that thread t stores up to its row i covers no row that another  *)
(* thread, or t in another partition, has stored before: the thread still  *)
(* has it in its buffer.                                                   *)
LEMMA LineApart ==
    ASSUME LineInv, NEW t \in Threads, NEW i \in Rows(N), i \in Share(N, ThreadNum, t),
           Address(i) % LineSize = LineSize - 1,
           NEW u \in Threads, NEW j \in Rows(N), Moved(u, j), slot[u][PartOf[j]] \in Nat,
           slot[u][PartOf[j]] = GlobalOffset + Place(PartOf[j], idx[u]),
           PartOf[i] # PartOf[j] \/ t # u,
           LineOf(Address(j)) = LineOf(Address(i))
    PROVE  LineOf(slot[u][PartOf[j]]) <= Address(j)
<1> DEFINE p == PartOf[i]
           o == PartOf[j]
           a == Address(i)
           x == Address(j)
           c == idx[u]
<1>0. rel \in Inputs /\ Indices /\ Padding \in Nat /\ Padding >= LineSize /\ GlobalOffset \in Nat
  BY SwwcbAssumption DEF LineInv, TypeOK
<1>1. /\ a \in Nat /\ x \in Nat /\ a = GlobalOffset + Place(p, i) /\ x = GlobalOffset + Place(o, j)
      /\ p \in Parts /\ o \in Parts /\ p \in Int /\ o \in Int
      /\ i \in 0 .. N /\ i + 1 \in 0 .. N /\ j \in 0 .. N
      /\ Place(p, i + 1) = Place(p, i) + 1
  BY <1>0, AddressOwn, PartFacts, PlaceStep DEF Address, Parts
<1>2. c \in 0 .. N /\ Begin(u) <= j /\ j < c /\ c <= End(u)
  BY <1>0, MovedRange
<1>3. Begin(t) <= i /\ i + 1 <= End(t) /\ Begin(t) \in 0 .. N /\ End(t) \in 0 .. N /\ N \in Nat
  BY ShareFacts, SwwcbAssumption
<1>4. /\ LineSize \in Nat \ {0} /\ LineOf(a) \in Nat /\ LineOf(a) <= x /\ x <= a
      /\ a = LineOf(a) + LineSize - 1
  <2>1. /\ LineSize \in Nat \ {0} /\ LineOf(a) \in Nat /\ a % LineSize = a - LineOf(a)
    BY <1>1, LineFacts
  <2>2. LineOf(a) <= x /\ x < LineOf(a) + LineSize
    <3> HIDE DEF a, x
    <3>1. LineOf(x) = LineOf(a)
      BY DEF a, x
    <3> QED BY <1>1, <3>1, LineIs
  <2>3. a % LineSize = LineSize - 1
    OBVIOUS
  <2> HIDE DEF a, x
  <2> QED BY <1>1, <2>1, <2>2, <2>3
<1>5. Place(p, i) \in Nat /\ Place(o, j) \in Nat /\ Place(o, c) \in Nat
  BY <1>0, <1>1, <1>2, PlaceType
<1>6. p # o \/ t # u
  OBVIOUS
<1>7. slot[u][o] = GlobalOffset + Place(o, c) /\ slot[u][o] \in Nat
  OBVIOUS
<1> HIDE DEF p, o, a, x, c
<1>8. o = p
  <2>1. ~(o < p)
    <3>1. o < p => Place(o, j) + Padding <= Place(p, i)
      BY <1>0, <1>1, PlaceMono
    <3> QED BY <1>0, <1>1, <1>4, <1>5, <3>1
  <2>2. ~(p < o)
    <3>1. p < o => Place(p, i) + Padding <= Place(o, j)
      BY <1>0, <1>1, PlaceMono
    <3> QED BY <1>0, <1>1, <1>4, <1>5, <3>1
  <2> QED BY <1>1, <2>1, <2>2
<1>9. u < t
  <2>1. t \in Int /\ u \in Int /\ t # u
    BY <1>6, <1>8 DEF Threads
  <2>2. ~(t < u)
    <3>1. t < u => End(t) <= Begin(u)
      BY ShareFacts
    <3>0. /\ i \in Int /\ j \in Int /\ c \in Int
          /\ Begin(u) \in 0 .. N /\ End(t) \in 0 .. N /\ N \in Nat
      BY <1>1, <1>2, <1>3, ShareFacts
    <3>2. t < u => i + 1 <= j
      BY <1>2, <1>3, <3>0, <3>1
    <3>3. t < u => Place(p, i + 1) <= Place(p, j)
      BY <1>0, <1>1, <3>2, PlaceMono
    <3>4. x = GlobalOffset + Place(p, j) /\ Place(p, j) \in Nat
      BY <1>1, <1>5, <1>8
    <3> QED BY <1>0, <1>1, <1>4, <1>5, <3>3, <3>4
  <2> QED BY <2>1, <2>2
<1>10. Place(o, c) <= Place(p, i)
  <2>1. End(u) <= Begin(t) /\ End(u) \in 0 .. N
    BY <1>9, ShareFacts
  <2>2. c <= i
    BY <1>1, <1>2, <1>3, <2>1
  <2> QED BY <1>0, <1>1, <1>2, <1>8, <2>2, PlaceMono
<1>11. slot[u][o] <= a
  BY <1>0, <1>1, <1>5, <1>7, <1>10
<1>12. LineOf(slot[u][o]) <= LineOf(a)
  BY <1>1, <1>7, <1>11, LineMono
<1>13. LineOf(slot[u][o]) <= x
  <2> DEFINE s == slot[u][o]
  <2>1. s \in Nat /\ LineOf(s) <= LineOf(a)
    BY <1>7, <1>12
  <2> HIDE DEF s
  <2>2. LineOf(s) \in Nat
    BY <2>1, LineFacts
  <2>3. LineOf(s) <= x
    BY <1>1, <1>4, <2>1, <2>2
  <2> QED BY <2>3 DEF s
<1> QED BY <1>13 DEF o, x

(* Moving a row keeps the types.                                           *)
LEMMA ScatterTypes ==
    ASSUME LineInv, NEW t \in Threads, Scatter(t)
    PROVE  TypeOK'
<1> DEFINE i == idx[t]
           p == PartOf[i]
           a == Address(i)
           line == [buf[t][p] EXCEPT ![a % LineSize] = i]
<1>0. /\ TypeOK /\ rel \in Inputs
      /\ slot \in [Threads -> [Parts -> Memory]] /\ idx \in [Threads -> 0 .. N]
      /\ buf \in [Threads -> [Parts -> [InLine -> Rows(N) \cup {Junk}]]]
      /\ mem \in [Memory -> Rows(N) \cup {Junk, Foreign}]
  BY DEF LineInv, TypeOK
<1>1. /\ i \in Rows(N) /\ p \in Parts /\ i + 1 \in 0 .. N /\ a \in Nat
      /\ a + 1 = GlobalOffset + Place(p, i + 1)
      /\ mem' = IF a % LineSize = LineSize - 1 THEN Flushed(a, line) ELSE mem
      /\ slot' = [slot EXCEPT ![t][p] = a + 1]
      /\ buf' = [buf EXCEPT ![t][p] = [line EXCEPT ![LineSize - 1] = Junk]]
      /\ idx' = [idx EXCEPT ![t] = i + 1]
      /\ UNCHANGED <<rel, hist, offset, part, pc>>
  BY ScatterIs
<1>2. a + 1 \in Memory
  BY <1>0, <1>1, PlaceType
<1> HIDE DEF i, p, a
<1>3. line \in [InLine -> Rows(N) \cup {Junk}]
  <2>1. buf[t][p] \in [InLine -> Rows(N) \cup {Junk}] /\ i \in Rows(N) \cup {Junk}
    BY <1>0, <1>1
  <2> QED BY <2>1
<1> HIDE DEF line
<1>4. [line EXCEPT ![LineSize - 1] = Junk] \in [InLine -> Rows(N) \cup {Junk}]
  BY <1>3
<1>5. buf' \in [Threads -> [Parts -> [InLine -> Rows(N) \cup {Junk}]]]
  BY <1>0, <1>1, <1>4
<1>6. slot' \in [Threads -> [Parts -> Memory]] /\ idx' \in [Threads -> 0 .. N]
  BY <1>0, <1>1, <1>2
<1>7. mem' \in [Memory -> Rows(N) \cup {Junk, Foreign}]
  <2>1. \A x \in Memory : x % LineSize \in InLine
    <3>1. \A x \in Memory : x \in Nat
      BY DEF Memory
    <3> QED BY <3>1, LineFacts
  <2>2. \A x \in Memory : line[x % LineSize] \in Rows(N) \cup {Junk}
    BY <1>3, <2>1
  <2>3. Flushed(a, line) \in [Memory -> Rows(N) \cup {Junk, Foreign}]
    BY <1>0, <2>2 DEF Flushed
  <2> QED BY <1>0, <1>1, <2>3
<1> QED BY <1>0, <1>1, <1>5, <1>6, <1>7 DEF TypeOK

(* Moving a row keeps the tuples in the buffers.                           *)
LEMMA ScatterBuffered ==
    ASSUME LineInv, NEW t \in Threads, Scatter(t)
    PROVE  Buffered'
<1> DEFINE i == idx[t]
           p == PartOf[i]
           a == Address(i)
           line == [buf[t][p] EXCEPT ![a % LineSize] = i]
<1>0. /\ TypeOK /\ rel \in Inputs /\ Indices /\ SlotsRight /\ Buffered
      /\ slot \in [Threads -> [Parts -> Memory]] /\ idx \in [Threads -> 0 .. N]
      /\ buf \in [Threads -> [Parts -> [InLine -> Rows(N) \cup {Junk}]]]
  BY DEF LineInv, TypeOK
<1>1. /\ i \in Rows(N) /\ p \in Parts /\ a \in Nat /\ slot[t][p] = a
      /\ slot' = [slot EXCEPT ![t][p] = a + 1]
      /\ buf' = [buf EXCEPT ![t][p] = [line EXCEPT ![LineSize - 1] = Junk]]
      /\ idx' = [idx EXCEPT ![t] = i + 1]
      /\ UNCHANGED rel
  BY ScatterIs
<1>2. /\ a % LineSize \in InLine /\ a % LineSize = a - LineOf(a) /\ LineOf(a) \in Nat
      /\ LineSize \in Nat \ {0}
      /\ a % LineSize = LineSize - 1 => LineOf(a + 1) = a + 1
      /\ a % LineSize # LineSize - 1 => LineOf(a + 1) = LineOf(a) /\ a < LineOf(a) + LineSize - 1
  BY <1>1, LineFacts, LineNext
<1>3. /\ \A u \in Threads : u # t => idx'[u] = idx[u] /\ slot'[u] = slot[u] /\ buf'[u] = buf[u]
      /\ \A o \in Parts : o # p => slot'[t][o] = slot[t][o] /\ buf'[t][o] = buf[t][o]
      /\ idx'[t] = i + 1 /\ slot'[t][p] = a + 1
      /\ buf'[t][p] = [line EXCEPT ![LineSize - 1] = Junk]
  BY <1>0, <1>1
<1> SUFFICES ASSUME NEW u \in Threads, NEW j \in Rows(N), Moved(u, j)',
                    LineOf(slot'[u][PartOf[j]]) <= Address(j)
             PROVE  buf'[u][PartOf[j]][Address(j) % LineSize] = j
  BY <1>1, PlacesStay DEF Buffered, LineOf
<1> DEFINE o == PartOf[j]
           x == Address(j)
<1>4. /\ o \in Parts /\ x \in Nat /\ j \in Share(N, ThreadNum, u) /\ j < idx'[u] /\ j \in Int /\ i \in Int
      /\ LineOf(slot'[u][o]) <= x /\ Moved(u, j)'
  <2>1. o \in Parts /\ x \in Nat
    BY <1>0, PartFacts, AddressOwn
  <2>2. j \in Share(N, ThreadNum, u) /\ j < idx'[u]
    BY DEF Moved
  <2>3. j \in Int /\ i \in Int
    BY <1>1 DEF Rows
  <2> QED BY <2>1, <2>2, <2>3
<1>5. Moved(u, j) \/ (u = t /\ j = i)
  <2> HIDE DEF i
  <2>1. idx[t] = i
    BY DEF i
  <2> QED BY <1>3, <1>4, <2>1 DEF Moved
<1>6. CASE u # t \/ o # p
  <2>1. Moved(u, j) /\ slot'[u][o] = slot[u][o] /\ buf'[u][o] = buf[u][o]
    BY <1>3, <1>4, <1>5, <1>6
  <2>2. LineOf(slot[u][o]) <= x
    BY <1>4, <2>1
  <2>3. buf[u][o][x % LineSize] = j
    BY <1>0, <2>1, <2>2 DEF Buffered
  <2> QED BY <2>1, <2>3
<1>7. CASE u = t /\ o = p
  <2>1. x <= a /\ (x = a => j = i)
    <3>1. j <= i
      <4> HIDE DEF i
      <4> QED BY <1>3, <1>4, <1>7
    <3>2. Place(p, j) <= Place(p, i) /\ Place(p, j) \in Nat /\ Place(p, i) \in Nat
      BY <1>0, <1>1, <3>1, PlaceMono, PlaceStep, PlaceType
    <3>3. x = GlobalOffset + Place(p, j) /\ a = GlobalOffset + Place(p, i) /\ GlobalOffset \in Nat
      BY <1>7, SwwcbAssumption DEF Address
    <3>4. x = a => j = i
      BY <1>0, <1>1, AddressOwn
    <3> HIDE DEF x, a
    <3> QED BY <3>2, <3>3, <3>4
  <2>2. LineOf(a + 1) <= x
    BY <1>3, <1>4, <1>7
  <2> HIDE DEF x, a
  <2>3. a % LineSize # LineSize - 1
    BY <1>1, <1>2, <1>4, <2>1, <2>2
  <2>4. LineOf(a) <= x /\ x < LineOf(a) + LineSize - 1
    BY <1>1, <1>2, <1>4, <2>1, <2>2, <2>3
  <2>5. LineOf(x) = LineOf(a)
    BY <1>1, <1>2, <1>4, <2>4, LineIs
  <2>6. x % LineSize = x - LineOf(a) /\ x % LineSize \in InLine
    BY <1>4, <2>5, LineFacts
  <2>7. x % LineSize # LineSize - 1
    BY <1>2, <1>4, <2>4, <2>6
  <2>8. buf'[t][p][x % LineSize] = line[x % LineSize]
    <3>1. line \in [InLine -> Rows(N) \cup {Junk}]
      BY <1>0, <1>1
    <3> HIDE DEF line
    <3> QED BY <1>3, <2>6, <2>7, <3>1
  <2>9. ASSUME j = i PROVE buf'[t][p][x % LineSize] = j
    <3>1. x % LineSize = a % LineSize
      BY <2>9 DEF x, a
    <3>2. line[a % LineSize] = i
      BY <1>0, <1>1, <1>2
    <3> QED BY <2>8, <2>9, <3>1, <3>2
  <2>10. ASSUME j # i PROVE buf'[t][p][x % LineSize] = j
    <3>1. x # a
      <4>1. x = a => j = i
        BY <2>1
      <4> QED BY <2>10, <4>1
    <3>2. x % LineSize # a % LineSize
      BY <1>1, <1>2, <1>4, <2>6, <3>1
    <3>3. line[x % LineSize] = buf[t][p][x % LineSize]
      BY <1>0, <1>1, <2>6, <3>2
    <3>4. Moved(t, j)
      BY <1>5, <1>7, <2>10
    <3>5. LineOf(slot[t][p]) <= x
      BY <1>1, <2>4
    <3>6. buf[t][p][x % LineSize] = j
      BY <1>0, <1>7, <3>4, <3>5 DEF Buffered, x
    <3> QED BY <2>8, <3>3, <3>6
  <2>11. buf'[t][p][x % LineSize] = j
    BY <2>9, <2>10
  <2> QED BY <1>7, <2>11 DEF x
<1> QED BY <1>6, <1>7

(* And it keeps those in memory, whatever a full line is stored over.      *)
LEMMA ScatterWritten ==
    ASSUME LineInv, NEW t \in Threads, Scatter(t)
    PROVE  Written'
<1> DEFINE i == idx[t]
           p == PartOf[i]
           a == Address(i)
           line == [buf[t][p] EXCEPT ![a % LineSize] = i]
<1>0. /\ TypeOK /\ rel \in Inputs /\ Indices /\ SlotsRight /\ Buffered /\ Written /\ Waiting
      /\ slot \in [Threads -> [Parts -> Memory]] /\ idx \in [Threads -> 0 .. N]
      /\ buf \in [Threads -> [Parts -> [InLine -> Rows(N) \cup {Junk}]]]
  BY DEF LineInv, TypeOK
<1>1. /\ i \in Rows(N) /\ i \in Share(N, ThreadNum, t) /\ p \in Parts
      /\ a \in Nat /\ slot[t][p] = a
      /\ mem' = IF a % LineSize = LineSize - 1 THEN Flushed(a, line) ELSE mem
      /\ slot' = [slot EXCEPT ![t][p] = a + 1]
      /\ idx' = [idx EXCEPT ![t] = i + 1]
      /\ UNCHANGED <<rel, part, pc>> /\ pc[t] = "scatter"
  BY ScatterIs
<1>2. /\ a % LineSize \in InLine /\ a % LineSize = a - LineOf(a) /\ LineOf(a) \in Nat /\ LineOf(a) <= a
      /\ LineSize \in Nat \ {0}
      /\ a % LineSize = LineSize - 1 => LineOf(a + 1) = a + 1
      /\ a % LineSize # LineSize - 1 => LineOf(a + 1) = LineOf(a)
  BY <1>1, LineFacts, LineNext
<1>3. /\ \A u \in Threads : u # t => idx'[u] = idx[u] /\ slot'[u] = slot[u]
      /\ \A o \in Parts : o # p => slot'[t][o] = slot[t][o]
      /\ idx'[t] = i + 1 /\ slot'[t][p] = a + 1
  BY <1>0, <1>1
<1>4. \A u \in Threads : pc[u] \notin Late /\ part[u] = 0 /\ part'[u] = 0
  <2>1. pc[t] \notin Late
    BY <1>1 DEF Late
  <2>2. \A u \in Threads : pc[u] \notin Late
    BY <1>0, <2>1 DEF Waiting
  <2> QED BY <1>0, <1>1, <2>2 DEF Indices
<1> SUFFICES ASSUME NEW u \in Threads, NEW j \in Rows(N), Moved(u, j)',
                    Address(j) < LineOf(slot'[u][PartOf[j]]) \/ PartOf[j] < part'[u]
             PROVE  mem'[Address(j)] = j
  BY <1>1, PlacesStay DEF Written, LineOf
<1> DEFINE o == PartOf[j]
           x == Address(j)
<1>5. /\ o \in Parts /\ x \in Nat /\ x \in Memory /\ j \in Int /\ i \in Int
      /\ j \in Share(N, ThreadNum, u) /\ j < idx'[u]
  <2>1. o \in Parts /\ x \in Nat /\ x \in Memory
    BY <1>0, PartFacts, AddressOwn
  <2>2. j \in Share(N, ThreadNum, u) /\ j < idx'[u]
    BY DEF Moved
  <2>3. j \in Int /\ i \in Int
    BY <1>1 DEF Rows
  <2> QED BY <2>1, <2>2, <2>3
<1>6. Moved(u, j) \/ (u = t /\ j = i)
  <2> HIDE DEF i
  <2>1. idx[t] = i
    BY DEF i
  <2> QED BY <1>3, <1>5, <2>1 DEF Moved
<1>7. x < LineOf(slot'[u][o])
  BY <1>4, <1>5 DEF Parts
<1>8. x = a => u = t /\ j = i /\ o = p
  <2>1. x = a => j = i
    BY <1>0, <1>1, AddressOwn
  <2>2. j = i => u = t
    BY <1>1, <1>5, ShareDisjoint, SwwcbAssumption DEF Threads
  <2> HIDE DEF i, a, x
  <2> QED BY <2>1, <2>2
<1>9. mem'[x] = IF a % LineSize = LineSize - 1 /\ LineOf(x) = LineOf(a)
                THEN line[x % LineSize] ELSE mem[x]
  BY <1>1, <1>5 DEF Flushed
<1>10. CASE u # t \/ o # p
  <2>1. Moved(u, j) /\ slot'[u][o] = slot[u][o]
    BY <1>3, <1>5, <1>6, <1>10
  <2>2. mem[x] = j
    BY <1>0, <1>7, <2>1 DEF Written
  <2>3. ~(a % LineSize = LineSize - 1 /\ LineOf(x) = LineOf(a))
    <3> SUFFICES ASSUME a % LineSize = LineSize - 1, LineOf(x) = LineOf(a) PROVE FALSE
      OBVIOUS
    <3>1. pc[u] \in Placing
      <4>1. idx[u] # Begin(u)
        <5>1. Begin(u) <= j /\ j < idx[u] /\ idx[u] \in 0 .. N /\ Begin(u) \in 0 .. N
          BY <1>0, <2>1, MovedRange, ShareFacts
        <5> QED BY <1>5, <5>1
      <4>2. pc[u] \notin Early \cup {"offset"}
        BY <1>0, <4>1 DEF Indices
      <4>3. pc[u] \in {"hist", "barrier1", "offset", "scatter", "barrier2", "drain", "done"}
        BY <1>0 DEF TypeOK
      <4> QED BY <4>2, <4>3 DEF Early, Placing
    <3>2. slot[u][o] = GlobalOffset + Place(o, idx[u]) /\ slot[u][o] \in Nat
      <4>1. slot[u][o] \in Memory
        BY <1>0, <1>5
      <4> QED BY <1>0, <1>5, <3>1, <4>1 DEF SlotsRight, Memory
    <3>3. LineOf(slot[u][o]) <= x
      BY <1>1, <1>10, <2>1, <3>2, LineApart
    <3>4. LineOf(slot[u][o]) \in Nat
      BY <3>2, LineFacts
    <3> QED BY <1>5, <1>7, <2>1, <3>3, <3>4
  <2> QED BY <1>9, <2>2, <2>3
<1>11. CASE u = t /\ o = p
  <2>1. x <= a
    <3>1. j <= i
      <4> HIDE DEF i
      <4> QED BY <1>3, <1>5, <1>11
    <3>2. Place(p, j) <= Place(p, i) /\ Place(p, j) \in Nat /\ Place(p, i) \in Nat
      BY <1>0, <1>1, <3>1, PlaceMono, PlaceStep, PlaceType
    <3>3. x = GlobalOffset + Place(p, j) /\ a = GlobalOffset + Place(p, i) /\ GlobalOffset \in Nat
      BY <1>11, SwwcbAssumption DEF Address
    <3> HIDE DEF x, a
    <3> QED BY <3>2, <3>3
  <2>2. x < LineOf(a + 1)
    BY <1>3, <1>7, <1>11
  <2> HIDE DEF x, a
  <2>3. ASSUME a % LineSize = LineSize - 1, LineOf(x) = LineOf(a)
        PROVE  line[x % LineSize] = j
    <3>1. x % LineSize = x - LineOf(a) /\ x % LineSize \in InLine
      BY <1>5, <2>3, LineFacts
    <3>2. ASSUME x = a PROVE line[x % LineSize] = j
      <4>1. line[a % LineSize] = i
        <5>1. buf[t][p] \in [InLine -> Rows(N) \cup {Junk}]
          BY <1>0, <1>1
        <5> QED BY <1>2, <5>1
      <4> QED BY <1>8, <3>2, <4>1
    <3>3. ASSUME x # a PROVE line[x % LineSize] = j
      <4>1. x % LineSize # a % LineSize
        BY <1>1, <1>2, <1>5, <3>1, <3>3
      <4>2. line[x % LineSize] = buf[t][p][x % LineSize]
        <5>1. buf[t][p] \in [InLine -> Rows(N) \cup {Junk}]
          BY <1>0, <1>1
        <5> QED BY <3>1, <4>1, <5>1
      <4>3. Moved(t, j)
        <5>1. j # i
          BY <1>11, <3>3 DEF x, a
        <5> QED BY <1>6, <1>11, <5>1
      <4>4. LineOf(a) <= x
        BY <1>1, <1>5, <2>3, LineFacts
      <4>5. LineOf(slot[t][p]) <= Address(j)
        BY <1>1, <4>4 DEF x
      <4>6. buf[t][p][x % LineSize] = j
        BY <1>0, <1>11, <4>3, <4>5 DEF Buffered, x
      <4> QED BY <4>2, <4>6
    <3> QED BY <3>2, <3>3
  <2>4. ASSUME ~(a % LineSize = LineSize - 1 /\ LineOf(x) = LineOf(a)) PROVE mem[x] = j
    <3>1. x < LineOf(a)
      <4>1. CASE a % LineSize = LineSize - 1
        <5>1. LineOf(x) <= LineOf(a) /\ LineOf(x) # LineOf(a)
          BY <1>1, <1>5, <2>1, <2>4, <4>1, LineMono
        <5>2. ~(LineOf(a) <= x)
          <6>1. a = LineOf(a) + LineSize - 1
            BY <1>1, <4>1, LineNext
          <6>2. LineOf(a) <= x => LineOf(x) = LineOf(a)
            BY <1>1, <1>2, <1>5, <2>1, <6>1, LineIs
          <6> QED BY <5>1, <6>2
        <5> QED BY <1>2, <1>5, <5>2
      <4>2. CASE a % LineSize # LineSize - 1
        BY <1>2, <2>2, <4>2
      <4> QED BY <4>1, <4>2
    <3>2. Moved(t, j)
      <4>1. x # a
        BY <1>1, <1>2, <1>5, <3>1
      <4>2. j # i
        BY <1>11, <4>1 DEF x, a
      <4> QED BY <1>6, <1>11, <4>2
    <3>3. Address(j) < LineOf(slot[t][PartOf[j]])
      BY <1>1, <1>11, <3>1 DEF x
    <3> QED BY <1>0, <3>2, <3>3 DEF Written, x
  <2>5. mem'[x] = j
    BY <1>9, <2>3, <2>4
  <2> QED BY <2>5 DEF x
<1> QED BY <1>10, <1>11

(* Moving a row keeps the invariant.                                       *)
LEMMA ScatterKeeps ==
    ASSUME LineInv, NEW t \in Threads, Scatter(t)
    PROVE  LineInv'
<1> DEFINE i == idx[t]
           p == PartOf[i]
           a == Address(i)
           line == [buf[t][p] EXCEPT ![a % LineSize] = i]
<1>0. /\ TypeOK /\ rel \in Inputs /\ Waiting /\ Indices /\ Counted /\ SlotsRight /\ NeighbourUntouched
      /\ slot \in [Threads -> [Parts -> Memory]] /\ idx \in [Threads -> 0 .. N]
  BY DEF LineInv, TypeOK
<1>1. /\ i \in Rows(N) /\ p \in Parts /\ i + 1 \in Begin(t) .. End(t) /\ i \in 0 .. N
      /\ a \in Nat /\ a + 1 = GlobalOffset + Place(p, i + 1)
      /\ mem' = IF a % LineSize = LineSize - 1 THEN Flushed(a, line) ELSE mem
      /\ slot' = [slot EXCEPT ![t][p] = a + 1]
      /\ idx' = [idx EXCEPT ![t] = i + 1]
      /\ UNCHANGED <<rel, hist, offset, part, pc>> /\ pc[t] = "scatter"
  BY ScatterIs
<1>2. /\ \A u \in Threads : u # t => idx'[u] = idx[u] /\ slot'[u] = slot[u]
      /\ \A o \in Parts : o # p => slot'[t][o] = slot[t][o]
      /\ idx'[t] = i + 1 /\ slot'[t][p] = a + 1
  BY <1>0, <1>1
<1>3. Waiting'
  BY <1>0, <1>1 DEF Waiting
<1>4. Indices'
  BY <1>0, <1>1, <1>2 DEF Indices, Begin, End, Early, Late
<1>5. Counted'
  BY <1>0, <1>1, PlacesStay DEF Counted
<1>6. SlotsRight'
  <2>1. ASSUME NEW u \in Threads, NEW o \in Parts, pc[u] \in Placing
        PROVE  offset[u][o] = Place(o, Begin(u)) /\ slot'[u][o] = GlobalOffset + Place(o, idx'[u])
    <3>1. offset[u][o] = Place(o, Begin(u)) /\ slot[u][o] = GlobalOffset + Place(o, idx[u])
      BY <1>0, <2>1 DEF SlotsRight
    <3>2. CASE u # t
      BY <1>2, <3>1, <3>2
    <3>3. CASE u = t /\ o # p
      <4>1. Place(o, i + 1) = Place(o, i)
        BY <1>0, <1>1, <3>3, PlaceStep
      <4> QED BY <1>2, <3>1, <3>3, <4>1
    <3>4. CASE u = t /\ o = p
      BY <1>1, <1>2, <3>1, <3>4
    <3> QED BY <3>2, <3>3, <3>4
  <2> QED BY <1>1, <2>1, PlacesStay DEF SlotsRight, Begin
<1>7. NeighbourUntouched'
  <2> SUFFICES ASSUME NEW x \in Memory, x < GlobalOffset - Padding PROVE mem'[x] = Foreign
    BY DEF NeighbourUntouched
  <2>1. mem[x] = Foreign
    BY <1>0 DEF NeighbourUntouched
  <2>2. x \in Nat /\ GlobalOffset \in Nat /\ Padding \in Nat /\ Padding >= LineSize /\ LineSize \in Nat \ {0}
    BY SwwcbAssumption DEF Memory
  <2>3. a >= GlobalOffset
    BY <1>0, <1>1, AddressOwn
  <2> HIDE DEF a
  <2>4. ~(LineOf(x) = LineOf(a))
    <3>1. LineOf(a) <= a /\ a < LineOf(a) + LineSize /\ LineOf(a) \in Nat
      BY <1>1, LineFacts
    <3>2. LineOf(x) = LineOf(a) => LineOf(a) <= x
      BY <1>1, <2>2, LineIs
    <3> QED BY <1>1, <2>2, <2>3, <3>1, <3>2
  <2> QED BY <1>1, <2>1, <2>4 DEF Flushed
<1> QED BY <1>3, <1>4, <1>5, <1>6, <1>7, ScatterTypes, ScatterBuffered, ScatterWritten DEF LineInv

(* Arriving behind the last full line keeps it.                            *)
LEMMA FinishScatterKeeps ==
    ASSUME LineInv, NEW t \in Threads, FinishScatter(t)
    PROVE  LineInv'
<1>0. /\ TypeOK /\ Waiting /\ Indices /\ Counted /\ SlotsRight
      /\ Buffered /\ Written /\ NeighbourUntouched
      /\ UNCHANGED <<rel, hist, offset, idx, buf, slot, mem, part>> /\ pc[t] = "scatter"
      /\ pc' = [pc EXCEPT ![t] = "barrier2"] /\ idx[t] >= End(t)
      /\ pc \in [Threads -> {"hist", "barrier1", "offset", "scatter", "barrier2", "drain", "done"}]
  BY DEF LineInv, TypeOK, FinishScatter, End
<1>1. pc'[t] = "barrier2" /\ \A u \in Threads : u # t => pc'[u] = pc[u]
  BY <1>0
<1>2. idx[t] = End(t)
  <2>1. idx[t] \in Begin(t) .. End(t) /\ Begin(t) \in 0 .. N /\ End(t) \in 0 .. N
    BY <1>0, ShareFacts DEF Indices
  <2>2. \A i, b, e \in Int : i \in b .. e /\ i >= e => i = e
    OBVIOUS
  <2>3. idx[t] \in Int /\ Begin(t) \in Int /\ End(t) \in Int
    BY <2>1
  <2> QED BY <1>0, <2>1, <2>2, <2>3
<1>3. TypeOK'
  BY <1>0, <1>1 DEF TypeOK
<1>4. Waiting'
  BY <1>0, <1>1 DEF Waiting, Early, Late
<1>5. Indices'
  BY <1>0, <1>1, <1>2 DEF Indices, Begin, End, Early, Late
<1>6. Counted'
  BY <1>0, <1>1, PlacesStay DEF Counted
<1>7. SlotsRight'
  BY <1>0, <1>1, PlacesStay DEF SlotsRight, Begin, Placing
<1>8. Buffered' /\ Written' /\ NeighbourUntouched'
  BY <1>0, LinesStay
<1> QED BY <1>3, <1>4, <1>5, <1>6, <1>7, <1>8 DEF LineInv

(* The rest of a buffer is the rows its thread has moved to the line begun. *)
LEMMA RestIs ==
    ASSUME LineInv, NEW t \in Threads, pc[t] \in Placing, NEW p \in Parts
    PROVE  /\ \A x \in Rest(t, p) : \E i \in Rows(N) :
                 /\ Moved(t, i) /\ PartOf[i] = p /\ Address(i) = x
                 /\ buf[t][p][x % LineSize] = i
           /\ \A i \in Rows(N) :
                 Moved(t, i) /\ PartOf[i] = p /\ LineOf(slot[t][p]) <= Address(i) => Address(i) \in Rest(t, p)
<1>0. /\ rel \in Inputs /\ Indices /\ Buffered /\ GlobalOffset \in Nat /\ slot[t][p] \in Nat
      /\ offset[t][p] = Place(p, Begin(t)) /\ slot[t][p] = GlobalOffset + Place(p, idx[t])
      /\ Place(p, Begin(t)) \in Nat
  <2>1. TypeOK /\ SlotsRight /\ Indices /\ Buffered
    BY DEF LineInv
  <2>2. slot[t][p] \in Nat
    BY <2>1 DEF TypeOK, Memory
  <2>3. rel \in Inputs
    BY <2>1 DEF TypeOK
  <2> QED BY <2>1, <2>2, <2>3, ShareFacts, PlaceType, SwwcbAssumption DEF SlotsRight
<1>1. LineOf(slot[t][p]) \in Nat
  BY <1>0, LineFacts
<1>2. ASSUME NEW x \in Rest(t, p)
      PROVE  \E i \in Rows(N) : /\ Moved(t, i) /\ PartOf[i] = p /\ Address(i) = x
                                /\ buf[t][p][x % LineSize] = i
  <2>1. /\ x \in Int /\ LineOf(slot[t][p]) <= x /\ x < slot[t][p]
        /\ x >= offset[t][p] + GlobalOffset
    BY <1>0, <1>1 DEF Rest
  <2>2. GlobalOffset + Place(p, Begin(t)) <= x
    BY <1>0, <2>1
  <2>3. x < GlobalOffset + Place(p, idx[t])
    BY <1>0, <2>1
  <2>4. PICK i \in Rows(N) : Moved(t, i) /\ PartOf[i] = p /\ Address(i) = x
    BY <1>0, <2>1, <2>2, <2>3, MovedOnto
  <2> QED BY <1>0, <2>1, <2>4 DEF Buffered
<1>3. ASSUME NEW i \in Rows(N), Moved(t, i), PartOf[i] = p, LineOf(slot[t][p]) <= Address(i)
      PROVE  Address(i) \in Rest(t, p)
  <2>1. /\ GlobalOffset + Place(p, Begin(t)) <= Address(i)
        /\ Address(i) < GlobalOffset + Place(p, idx[t]) /\ Address(i) \in Nat
    BY <1>0, <1>3, MovedRange, AddressOwn
  <2> DEFINE a == Address(i)
             s == slot[t][p]
  <2>2. a >= offset[t][p] + GlobalOffset
    BY <1>0, <2>1
  <2>3. a < s /\ LineOf(s) <= a /\ LineOf(s) \in Nat /\ s \in Nat /\ a \in Nat
    BY <1>0, <1>1, <1>3, <2>1
  <2> HIDE DEF a, s
  <2>4. a \in LineOf(s) .. s - 1
    BY <2>3
  <2> QED BY <2>2, <2>4 DEF Rest, a, s
<1> QED BY <1>2, <1>3

(* Storing a rest keeps it.                                                *)
LEMMA DrainKeeps ==
    ASSUME LineInv, NEW t \in Threads, Drain(t)
    PROVE  LineInv'
<1> DEFINE p == part[t]
<1>0. /\ TypeOK /\ Waiting /\ Indices /\ Counted /\ SlotsRight /\ rel \in Inputs
      /\ Buffered /\ Written /\ NeighbourUntouched
      /\ UNCHANGED <<rel, hist, offset, idx, buf, slot, pc>> /\ pc[t] = "drain" /\ p < Fanout
      /\ mem' = [a \in Memory |->
                     IF a \in Rest(t, p) THEN buf[t][p][a % LineSize] ELSE mem[a]]
      /\ part' = [part EXCEPT ![t] = p + 1]
      /\ part \in [Threads -> 0 .. Fanout] /\ Fanout \in Nat
      /\ buf \in [Threads -> [Parts -> [InLine -> Rows(N) \cup {Junk}]]]
      /\ mem \in [Memory -> Rows(N) \cup {Junk, Foreign}]
  BY SwwcbAssumption DEF LineInv, TypeOK, Drain
<1>1. /\ p \in Parts /\ p + 1 \in 0 .. Fanout /\ p \in Int /\ part'[t] = p + 1
      /\ \A u \in Threads : u # t => part'[u] = part[u]
  BY <1>0 DEF Parts
<1> HIDE DEF p
<1>2. /\ \A x \in Rest(t, p) : \E i \in Rows(N) :
             /\ Moved(t, i) /\ PartOf[i] = p /\ Address(i) = x
             /\ buf[t][p][x % LineSize] = i
      /\ \A i \in Rows(N) :
             Moved(t, i) /\ PartOf[i] = p /\ LineOf(slot[t][p]) <= Address(i) => Address(i) \in Rest(t, p)
  BY <1>0, <1>1, RestIs DEF Placing
<1>3. TypeOK'
  <2>1. \A x \in Memory : mem'[x] \in Rows(N) \cup {Junk, Foreign}
    BY <1>0, <1>2
  <2>2. mem' \in [Memory -> Rows(N) \cup {Junk, Foreign}]
    BY <1>0, <2>1
  <2>3. part' \in [Threads -> 0 .. Fanout]
    BY <1>0, <1>1
  <2> QED BY <1>0, <2>2, <2>3 DEF TypeOK
<1>4. Waiting'
  BY <1>0 DEF Waiting
<1>5. Indices'
  BY <1>0, <1>1 DEF Indices, Begin, End, Early, Late
<1>6. Counted' /\ SlotsRight'
  BY <1>0, PlacesStay DEF Counted, SlotsRight, Begin
<1>7. Buffered'
  BY <1>0, PlacesStay DEF Buffered, Moved, LineOf
<1>8. Written'
  <2> SUFFICES ASSUME NEW u \in Threads, NEW j \in Rows(N), Moved(u, j),
                      Address(j) < LineOf(slot[u][PartOf[j]]) \/ PartOf[j] < part'[u]
               PROVE  mem'[Address(j)] = j
    BY <1>0, PlacesStay DEF Written, Moved, LineOf
  <2>1. PartOf[j] \in Parts /\ PartOf[j] \in Int /\ Address(j) \in Memory
    BY <1>0, PartFacts, AddressOwn DEF Parts
  <2>2. CASE Address(j) \in Rest(t, p)
    <3>1. PICK i \in Rows(N) : /\ Moved(t, i) /\ PartOf[i] = p /\ Address(i) = Address(j)
                               /\ buf[t][p][Address(j) % LineSize] = i
      BY <1>2, <2>2
    <3>2. i = j
      BY <1>0, <3>1, AddressOwn
    <3> QED BY <1>0, <2>1, <2>2, <3>1, <3>2
  <2>3. CASE Address(j) \notin Rest(t, p)
    <3>1. mem'[Address(j)] = mem[Address(j)]
      BY <1>0, <2>1, <2>3
    <3>2. Address(j) < LineOf(slot[u][PartOf[j]]) \/ PartOf[j] < part[u]
      <4> SUFFICES ASSUME u = t, PartOf[j] = p PROVE Address(j) < LineOf(slot[u][PartOf[j]])
        <5>1. CASE u # t
          BY <1>1, <5>1
        <5>2. CASE u = t /\ PartOf[j] # p
          <6>1. part'[u] = p + 1 /\ part[u] = p
            BY <1>1, <5>2 DEF p
          <6> QED BY <1>1, <2>1, <5>2, <6>1
        <5>3. CASE u = t /\ PartOf[j] = p
          BY <5>3
        <5> QED BY <5>1, <5>2, <5>3
      <4>1. ~(LineOf(slot[t][p]) <= Address(j))
        BY <1>2, <2>3
      <4>2. LineOf(slot[t][p]) \in Nat /\ Address(j) \in Nat
        <5>1. slot[t][p] \in Nat
          BY <1>0, <1>1 DEF TypeOK, Memory
        <5> QED BY <1>0, <5>1, LineFacts, AddressOwn
      <4> QED BY <4>1, <4>2
    <3> QED BY <1>0, <3>1, <3>2 DEF Written
  <2> QED BY <2>2, <2>3
<1>9. NeighbourUntouched'
  <2> SUFFICES ASSUME NEW x \in Memory, x < GlobalOffset - Padding PROVE mem'[x] = Foreign
    BY DEF NeighbourUntouched
  <2>1. mem[x] = Foreign
    BY <1>0 DEF NeighbourUntouched
  <2>2. x \notin Rest(t, p)
    <3>1. \A i \in Rows(N) : Address(i) >= GlobalOffset /\ Address(i) \in Nat
      BY <1>0, AddressOwn
    <3>2. GlobalOffset \in Nat /\ Padding \in Nat /\ x \in Int
      BY SwwcbAssumption DEF Memory
    <3> QED BY <1>2, <3>1, <3>2
  <2> QED BY <1>0, <2>1, <2>2
<1> QED BY <1>3, <1>4, <1>5, <1>6, <1>7, <1>8, <1>9 DEF LineInv

(* Arriving behind the last rest keeps it.                                 *)
LEMMA FinishDrainKeeps ==
    ASSUME LineInv, NEW t \in Threads, FinishDrain(t)
    PROVE  LineInv'
<1>0. /\ TypeOK /\ Waiting /\ Indices /\ Counted /\ SlotsRight
      /\ Buffered /\ Written /\ NeighbourUntouched
      /\ UNCHANGED <<rel, hist, offset, idx, buf, slot, mem, part>> /\ pc[t] = "drain"
      /\ pc' = [pc EXCEPT ![t] = "done"] /\ part[t] >= Fanout
      /\ pc \in [Threads -> {"hist", "barrier1", "offset", "scatter", "barrier2", "drain", "done"}]
      /\ part[t] \in 0 .. Fanout /\ Fanout \in Nat
  BY SwwcbAssumption DEF LineInv, TypeOK, FinishDrain
<1>1. /\ pc'[t] = "done" /\ \A u \in Threads : u # t => pc'[u] = pc[u]
      /\ part[t] = Fanout
  BY <1>0
<1>2. TypeOK'
  BY <1>0, <1>1 DEF TypeOK
<1>3. Waiting'
  BY <1>0, <1>1 DEF Waiting, Early, Late
<1>4. Indices'
  BY <1>0, <1>1 DEF Indices, Begin, End, Early, Late
<1>5. Counted'
  BY <1>0, <1>1, PlacesStay DEF Counted
<1>6. SlotsRight'
  BY <1>0, <1>1, PlacesStay DEF SlotsRight, Begin, Placing
<1>7. Buffered' /\ Written' /\ NeighbourUntouched'
  BY <1>0, LinesStay
<1> QED BY <1>2, <1>3, <1>4, <1>5, <1>6, <1>7 DEF LineInv

(* Every step keeps it.                                                    *)
LEMMA LineStep ==
    ASSUME LineInv, [Next]_vars
    PROVE  LineInv'
<1>1. CASE \E t \in Threads : Thread(t)
  <2>1. PICK t \in Threads : Thread(t)
    BY <1>1
  <2>2. CASE Histogram(t)
    BY <2>2, HistogramKeeps
  <2>3. CASE Offsets(t)
    BY <2>3, OffsetsKeeps
  <2>4. CASE Scatter(t)
    BY <2>4, ScatterKeeps
  <2>5. CASE FinishScatter(t)
    BY <2>5, FinishScatterKeeps
  <2>6. CASE Drain(t)
    BY <2>6, DrainKeeps
  <2>7. CASE FinishDrain(t)
    BY <2>7, FinishDrainKeeps
  <2> QED BY <2>1, <2>2, <2>3, <2>4, <2>5, <2>6, <2>7 DEF Thread
<1>2. CASE Release
  BY <1>2, ReleaseKeeps
<1>3. CASE UNCHANGED vars
  <2>1. UNCHANGED <<rel, hist, offset, idx, buf, slot, mem, part, pc>>
    BY <1>3 DEF vars
  <2>2. TypeOK' /\ Waiting' /\ Indices'
    BY <2>1 DEF LineInv, TypeOK, Waiting, Indices, Begin, End
  <2>3. Counted' /\ SlotsRight'
    BY <2>1, PlacesStay DEF LineInv, Counted, SlotsRight, Begin
  <2>4. Buffered' /\ Written' /\ NeighbourUntouched'
    BY <2>1, LinesStay DEF LineInv
  <2> QED BY <2>2, <2>3, <2>4 DEF LineInv
<1> QED BY <1>1, <1>2, <1>3 DEF Next, Terminated

(* The invariant of the partitioning with write-combining buffers: rooms   *)
(* begin at their places, what is in the line begun is in the buffer, and  *)
(* what is in front of it, or has been stored as a rest, is in memory      *)
(* (phj.c:319-358).                                                        *)
THEOREM LineInvariant == Spec => []LineInv
<1>1. Init => LineInv
  BY LineInit
<1>2. LineInv /\ [Next]_vars => LineInv'
  BY LineStep
<1> QED BY <1>1, <1>2, PTL DEF Spec

(* All variables keep their types; no slot and no offset leaves the array  *)
(* (phj.c:304-315).                                                        *)
THEOREM TypeCorrect == Spec => []TypeOK
<1>1. LineInv => TypeOK
  BY DEF LineInv
<1> QED BY <1>1, LineInvariant, PTL

(* The lines stored in front of a room stay within the padding between two *)
(* tasks (phj.c:333).                                                      *)
THEOREM NeighbourIsUntouched == Spec => []NeighbourUntouched
<1>1. LineInv => NeighbourUntouched
  BY DEF LineInv
<1> QED BY <1>1, LineInvariant, PTL
-----------------------------------------------------------------------------
(***************************************************************************)
(* The refinement.  Seen through the buffers the output is a function of   *)
(* the rows that have been moved alone: stores change nothing in it.       *)
(***************************************************************************)

PlaceOf(i) == Place(PartOf[i], i)
Copied(i)  == \E t \in Threads : Moved(t, i)
Output     == 0 .. N + (Fanout - 1) * Padding - 1

(* What the partitioning without buffers has at position x.                *)
Content(x) ==
    IF \E i \in Rows(N) : Copied(i) /\ PlaceOf(i) = x
    THEN CHOOSE i \in Rows(N) : Copied(i) /\ PlaceOf(i) = x
    ELSE Empty

(* Every position has the row moved there, or nothing.                     *)
ContentRight ==
    /\ \A i \in Rows(N) : Copied(i) => Content(PlaceOf(i)) = i
    /\ \A x : ~(\E i \in Rows(N) : Copied(i) /\ PlaceOf(i) = x) => Content(x) = Empty

(* It does, because no two rows have the same place.                       *)
LEMMA ContentIs == rel \in Inputs => ContentRight
<1> SUFFICES ASSUME rel \in Inputs PROVE ContentRight
  OBVIOUS
<1>1. \A i, j \in Rows(N) : PlaceOf(i) = PlaceOf(j) => i = j
  BY AddressOwn DEF PlaceOf
<1>2. ASSUME NEW i \in Rows(N), Copied(i) PROVE Content(PlaceOf(i)) = i
  <2> HIDE DEF PlaceOf, Copied
  <2>1. \E j \in Rows(N) : Copied(j) /\ PlaceOf(j) = PlaceOf(i)
    BY <1>2
  <2>2. Content(PlaceOf(i)) \in Rows(N) /\ PlaceOf(Content(PlaceOf(i))) = PlaceOf(i)
    BY <2>1 DEF Content
  <2> QED BY <1>1, <2>2
<1> QED BY <1>2 DEF ContentRight, Content

(* A thread that has moved a row knows where its rooms are.                *)
LEMMA MovedPlacing ==
    ASSUME LineInv, NEW t \in Threads, NEW i \in Rows(N), Moved(t, i)
    PROVE  pc[t] \in Placing
<1>0. rel \in Inputs /\ Indices /\ TypeOK
  BY DEF LineInv, TypeOK
<1>1. idx[t] # Begin(t)
  <2>1. Begin(t) <= i /\ i < idx[t] /\ idx[t] \in 0 .. N /\ Begin(t) \in 0 .. N /\ i \in Int
    BY <1>0, MovedRange, ShareFacts DEF Rows
  <2> QED BY <2>1
<1>2. pc[t] \notin Early \cup {"offset"}
  BY <1>0, <1>1 DEF Indices
<1>3. pc[t] \in {"hist", "barrier1", "offset", "scatter", "barrier2", "drain", "done"}
  BY <1>0 DEF TypeOK
<1> QED BY <1>2, <1>3 DEF Early, Placing

(* The positions placed in a room are those of the rows moved there.       *)
LEMMA PlacedIs ==
    ASSUME LineInv, NEW t \in Threads, NEW p \in Parts, NEW x \in Int
    PROVE  GlobalOffset + x \in Placed(t, p) <=>
               \E i \in Rows(N) : Moved(t, i) /\ PartOf[i] = p /\ PlaceOf(i) = x
<1>0. rel \in Inputs /\ Indices /\ SlotsRight /\ GlobalOffset \in Nat
  BY SwwcbAssumption DEF LineInv, TypeOK
<1>1. Place(p, Begin(t)) \in Nat /\ Place(p, idx[t]) \in Nat
  <2>1. idx[t] \in 0 .. N
    BY DEF LineInv, TypeOK
  <2> QED BY <1>0, <2>1, ShareFacts, PlaceType
<1>2. pc[t] \in Placing =>
        /\ offset[t][p] = Place(p, Begin(t)) /\ slot[t][p] = GlobalOffset + Place(p, idx[t])
  BY <1>0 DEF SlotsRight
<1>3. Placed(t, p) = IF pc[t] \in Placing
                     THEN GlobalOffset + Place(p, Begin(t)) .. GlobalOffset + Place(p, idx[t]) - 1
                     ELSE {}
  <2>1. ASSUME pc[t] \in Placing
        PROVE  Placed(t, p) = GlobalOffset + Place(p, Begin(t)) .. GlobalOffset + Place(p, idx[t]) - 1
    <3> DEFINE b == Place(p, Begin(t))
               s == slot[t][p]
    <3>1. offset[t][p] = b /\ s = GlobalOffset + Place(p, idx[t])
      BY <1>2, <2>1
    <3> HIDE DEF b, s
    <3>2. Placed(t, p) = GlobalOffset + b .. s - 1
      BY <2>1, <3>1 DEF Placed, Placing, s
    <3>3. s - 1 = GlobalOffset + Place(p, idx[t]) - 1
      BY <1>0, <1>1, <3>1
    <3> QED BY <3>2, <3>3, Zenon DEF b
  <2>2. pc[t] \notin Placing => Placed(t, p) = {}
    BY DEF Placed, Placing
  <2> QED BY <2>1, <2>2, Zenon
<1>4. \A i \in Rows(N) : Address(i) = GlobalOffset + PlaceOf(i) /\ PlaceOf(i) \in Int
  BY <1>0, AddressOwn DEF Address, PlaceOf
<1>5. ASSUME GlobalOffset + x \in Placed(t, p)
      PROVE  \E i \in Rows(N) : Moved(t, i) /\ PartOf[i] = p /\ PlaceOf(i) = x
  <2>1. /\ GlobalOffset + Place(p, Begin(t)) <= GlobalOffset + x
        /\ GlobalOffset + x < GlobalOffset + Place(p, idx[t]) /\ GlobalOffset + x \in Int
    BY <1>0, <1>1, <1>3, <1>5
  <2>2. PICK i \in Rows(N) : Moved(t, i) /\ PartOf[i] = p /\ Address(i) = GlobalOffset + x
    BY <1>0, <2>1, MovedOnto
  <2> QED BY <1>0, <1>4, <2>2
<1>6. ASSUME NEW i \in Rows(N), Moved(t, i), PartOf[i] = p, PlaceOf(i) = x
      PROVE  GlobalOffset + x \in Placed(t, p)
  <2>1. /\ GlobalOffset + Place(p, Begin(t)) <= Address(i)
        /\ Address(i) < GlobalOffset + Place(p, idx[t])
    BY <1>0, <1>6, MovedRange
  <2>2. pc[t] \in Placing
    BY <1>6, MovedPlacing
  <2>3. Address(i) = GlobalOffset + x
    BY <1>4, <1>6
  <2> QED BY <1>0, <1>1, <1>3, <2>1, <2>2, <2>3
<1> QED BY <1>5, <1>6

(* A row moved is in the buffer as long as InBuffer says so, and in memory *)
(* from then on.                                                           *)
LEMMA SeenThroughBuffer ==
    ASSUME LineInv, NEW t \in Threads, NEW i \in Rows(N), Moved(t, i)
    PROVE  /\ InBuffer(t, PartOf[i], Address(i)) => buf[t][PartOf[i]][Address(i) % LineSize] = i
           /\ ~InBuffer(t, PartOf[i], Address(i)) => mem[Address(i)] = i
<1> DEFINE p == PartOf[i]
           a == Address(i)
           l == LineOf(slot[t][p])
<1>0. rel \in Inputs /\ Indices /\ Buffered /\ Written /\ pc[t] \in Placing
  BY MovedPlacing DEF LineInv, TypeOK
<1>1. p \in Parts /\ a \in Nat /\ l \in Nat /\ p < Fanout /\ p \in Int /\ part[t] \in Int
  <2>1. p \in Parts /\ a \in Nat
    BY <1>0, PartFacts, AddressOwn
  <2>2. slot[t][p] \in Nat /\ part[t] \in Int
    BY <2>1 DEF LineInv, TypeOK, Memory
  <2>3. p < Fanout /\ p \in Int
    BY <2>1, SwwcbAssumption DEF Parts
  <2> QED BY <2>1, <2>2, <2>3, LineFacts
<1>2. (l <= a => buf[t][p][a % LineSize] = i) /\ (a < l \/ p < part[t] => mem[a] = i)
  BY <1>0 DEF Buffered, Written
<1>3. InBuffer(t, p, a) <=> a >= l /\ (pc[t] \in {"scatter", "barrier2"} \/ (pc[t] = "drain" /\ part[t] <= p))
  BY DEF InBuffer
<1>4. pc[t] = "done" => part[t] = Fanout
  BY <1>0 DEF Indices
<1>5. pc[t] \in {"scatter", "barrier2", "drain", "done"}
  BY <1>0 DEF Placing
<1> HIDE DEF p, a, l
<1>6. InBuffer(t, p, a) => buf[t][p][a % LineSize] = i
  BY <1>1, <1>2, <1>3
<1>7. ~InBuffer(t, p, a) => mem[a] = i
  BY <1>1, <1>2, <1>3, <1>4, <1>5
<1> QED BY <1>6, <1>7 DEF p, a

(* So the output seen through the buffers is the rows moved.               *)
LEMMA LogicalIs == LineInv => \A x \in Output : Logical(x) = Content(x)
<1> SUFFICES ASSUME LineInv, NEW x \in Output PROVE Logical(x) = Content(x)
  OBVIOUS
<1> DEFINE a == GlobalOffset + x
           owners == {o \in Threads \X Parts : a \in Placed(o[1], o[2])}
           seen(o) == IF InBuffer(o[1], o[2], a) THEN buf[o[1]][o[2]][a % LineSize] ELSE mem[a]
<1>0. rel \in Inputs /\ x \in Int
  BY DEF LineInv, TypeOK, Output
<1>1. Logical(x) = IF owners = {} THEN Empty ELSE seen(CHOOSE o \in owners : TRUE)
  BY DEF Logical
<1>2. ASSUME NEW o \in owners PROVE seen(o) = Content(x)
  <2>1. o[1] \in Threads /\ o[2] \in Parts /\ a \in Placed(o[1], o[2])
    OBVIOUS
  <2>2. PICK i \in Rows(N) : Moved(o[1], i) /\ PartOf[i] = o[2] /\ PlaceOf(i) = x
    BY <1>0, <2>1, PlacedIs
  <2>3. Content(x) = i
    BY <1>0, <2>1, <2>2, ContentIs DEF Copied, ContentRight
  <2>4. Address(i) = a
    BY <2>2 DEF Address, PlaceOf
  <2>5. seen(o) = i
    BY <2>1, <2>2, <2>4, SeenThroughBuffer
  <2> QED BY <2>3, <2>5
<1>3. owners = {} => Content(x) = Empty
  <2> SUFFICES ASSUME NEW i \in Rows(N), Copied(i), PlaceOf(i) = x PROVE owners # {}
    BY <1>0, ContentIs DEF ContentRight
  <2>1. PICK t \in Threads : Moved(t, i)
    BY DEF Copied
  <2>2. PartOf[i] \in Parts
    BY <1>0, PartFacts
  <2>3. a \in Placed(t, PartOf[i])
    BY <1>0, <2>1, <2>2, PlacedIs
  <2>4. <<t, PartOf[i]>> \in owners
    BY <2>2, <2>3
  <2> QED BY <2>4
<1> HIDE DEF owners, seen
<1>4. owners # {} => (CHOOSE o \in owners : TRUE) \in owners
  OBVIOUS
<1> QED BY <1>1, <1>2, <1>3, <1>4

(* What the refinement mapping makes of the offsets, the output and the    *)
(* positions of the threads.                                               *)
PlainOffset ==
    [t \in Threads |->
        IF pc[t] \in {"scatter", "barrier2", "drain"}
        THEN [p \in Parts |-> slot[t][p] - GlobalOffset - p * Padding]
        ELSE offset[t]]

PlainTmp == [x \in 0 .. N + (Fanout - 1) * Padding - 1 |-> Logical(x)]

PlainPc ==
    [t \in Threads |->
        CASE pc[t] = "barrier1" -> "barrier"
          [] pc[t] \in {"barrier2", "drain"} -> "scatter"
          [] OTHER -> pc[t]]

(* A step that moves no row shows nothing in the output.                   *)
LEMMA TmpStays ==
    ASSUME LineInv, LineInv', UNCHANGED <<rel, idx>>
    PROVE  PlainTmp' = PlainTmp
<1>1. \A x \in Output : Logical(x) = Content(x)
  BY LogicalIs
<1>2. (\A x \in Output : Logical(x) = Content(x))'
  BY LogicalIs, PTL
<1>3. \A x : Content(x)' = Content(x)
  BY PlacesStay DEF Content, Copied, Moved, PlaceOf
<1>4. \A x \in Output : Logical(x)' = Logical(x)
  BY <1>1, <1>2, <1>3 DEF Output
<1> QED BY <1>4 DEF PlainTmp, Output

(* A row that is moved appears at its place, and nothing else changes.     *)
LEMMA TmpGrows ==
    ASSUME LineInv, LineInv', NEW t \in Threads, Scatter(t)
    PROVE  PlainTmp' = [PlainTmp EXCEPT ![PlaceOf(idx[t])] = idx[t]]
<1> SUFFICES ASSUME NEW i, i = idx[t]
             PROVE  PlainTmp' = [PlainTmp EXCEPT ![PlaceOf(i)] = i]
  OBVIOUS
<1>0. /\ rel \in Inputs /\ i \in Rows(N) /\ i \in Share(N, ThreadNum, t)
      /\ rel' = rel /\ idx' = [idx EXCEPT ![t] = i + 1] /\ i \in Int
      /\ idx \in [Threads -> 0 .. N]
  <2>1. /\ idx[t] \in Share(N, ThreadNum, t) /\ idx[t] \in Rows(N)
        /\ idx' = [idx EXCEPT ![t] = idx[t] + 1] /\ rel' = rel
    BY ScatterIs
  <2>2. rel \in Inputs /\ idx \in [Threads -> 0 .. N]
    BY DEF LineInv, TypeOK
  <2> QED BY <2>1, <2>2 DEF Rows
<1>1. \A x \in Output : Logical(x) = Content(x)
  BY LogicalIs
<1>2. (\A x \in Output : Logical(x) = Content(x))'
  BY LogicalIs, PTL
<1>3. /\ \A j : PlaceOf(j)' = PlaceOf(j)
      /\ PlaceOf(i) \in Output
      /\ \A j \in Rows(N) : PlaceOf(i) = PlaceOf(j) => i = j
  BY <1>0, PlacesStay, AddressOwn DEF PlaceOf, Output
<1>4. ASSUME NEW j \in Rows(N) PROVE Copied(j)' <=> Copied(j) \/ j = i
  <2>1. ASSUME NEW u \in Threads PROVE Moved(u, j)' <=> Moved(u, j) \/ (u = t /\ j = i)
    <3>1. j \in Int /\ idx[u] \in Int
      BY <1>0 DEF Rows
    <3>2. CASE u = t
      <4>1. idx[t] = i /\ idx'[t] = i + 1
        BY <1>0
      <4> QED BY <1>0, <3>1, <3>2, <4>1 DEF Moved
    <3>3. CASE u # t
      BY <1>0, <3>3 DEF Moved
    <3> QED BY <3>2, <3>3
  <2> QED BY <2>1 DEF Copied
<1>5. ContentRight'
  <2>1. (rel \in Inputs)'
    BY <1>0
  <2> QED BY <2>1, ContentIs, PTL
<1>6. Content(PlaceOf(i))' = i
  BY <1>0, <1>3, <1>4, <1>5 DEF ContentRight
<1>7. ASSUME NEW x \in Output, x # PlaceOf(i) PROVE Content(x)' = Content(x)
  <2>1. \A j \in Rows(N) : (Copied(j) /\ PlaceOf(j) = x)' <=> Copied(j) /\ PlaceOf(j) = x
    BY <1>3, <1>4, <1>7
  <2> QED BY <2>1 DEF Content
<1>8. \A x \in Output : Logical(x)' = IF x = PlaceOf(i) THEN i ELSE Logical(x)
  BY <1>1, <1>2, <1>3, <1>6, <1>7 DEF Output
<1>9. PlainTmp = [x \in Output |-> Logical(x)] /\ PlainTmp' = [x \in Output |-> Logical(x)']
  BY DEF PlainTmp, Output
<1> QED BY <1>3, <1>8, <1>9

(* The operators the two modules share are the same in both.               *)
LEMMA SameOperators ==
    /\ \A t \in Threads : /\ Plain!ShareBegin(N, ThreadNum, t) = ShareBegin(N, ThreadNum, t)
                          /\ Plain!ShareEnd(N, ThreadNum, t) = ShareEnd(N, ThreadNum, t)
                          /\ Plain!Share(N, ThreadNum, t) = Share(N, ThreadNum, t)
    /\ Plain!Parts = Parts /\ Plain!Threads = Threads /\ Plain!Zeros = Zeros
    /\ Plain!Positions = Output
    /\ \A S : Plain!Cardinality(S) = Cardinality(S)
    /\ \A f : Plain!SumFunction(f) = SumFunction(f)
    /\ \A t \in Threads : \A p : Plain!Mine(t, p) = Mine(t, p)
<1>1. \A t \in Threads : /\ Plain!ShareBegin(N, ThreadNum, t) = ShareBegin(N, ThreadNum, t)
                          /\ Plain!ShareEnd(N, ThreadNum, t) = ShareEnd(N, ThreadNum, t)
  BY DEF Plain!ShareBegin, Plain!ShareEnd, ShareBegin, ShareEnd
<1>2. \A t \in Threads : Plain!Share(N, ThreadNum, t) = Share(N, ThreadNum, t)
  BY <1>1 DEF Plain!Share, Share
<1>3. Plain!Parts = Parts /\ Plain!Threads = Threads /\ Plain!Positions = Output
  BY DEF Plain!Parts, Plain!Threads, Plain!Positions, Parts, Threads, Output
<1>4. Plain!Zeros = Zeros
  BY <1>3 DEF Plain!Zeros, Zeros
<1>5. \A S : Plain!Cardinality(S) = Cardinality(S)
  BY DEF Plain!Cardinality, Cardinality
<1>6. \A f : Plain!SumFunction(f) = SumFunction(f)
  BY DEF Plain!SumFunction, SumFunction, Plain!SumFunctionOnSet, SumFunctionOnSet,
         Plain!FoldFunctionOnSet, FoldFunctionOnSet, Plain!MapThenFoldSet, MapThenFoldSet
<1>7. \A t \in Threads : \A p : Plain!Mine(t, p) = Mine(t, p)
  BY <1>2 DEF Plain!Mine, Mine
<1> QED BY <1>1, <1>2, <1>3, <1>4, <1>5, <1>6, <1>7

(* The steps that the partitioning without buffers does not have change    *)
(* nothing it can see.                                                     *)
LEMMA PlainStays ==
    ASSUME LineInv, LineInv', UNCHANGED <<rel, hist, offset, idx, slot>>, PlainPc' = PlainPc,
           \A t \in Threads : pc'[t] \in {"scatter", "barrier2", "drain"}
                                <=> pc[t] \in {"scatter", "barrier2", "drain"}
    PROVE  UNCHANGED Plain!vars
<1>1. PlainTmp' = PlainTmp
  BY TmpStays
<1>2. PlainOffset' = PlainOffset
  BY DEF PlainOffset
<1> QED BY <1>1, <1>2 DEF Plain!vars, PlainTmp, PlainOffset, PlainPc

(* The buffered partitioning implements the one without buffers: the lines *)
(* that are stored over each other's tuples cannot be seen (phj.c:319-358). *)
THEOREM Refinement == Spec => RefinesPlain
<1> USE DEF PlainOffset, PlainTmp, PlainPc
<1>1. Init => Plain!Init
  <2> SUFFICES ASSUME Init PROVE Plain!Init
    OBVIOUS
  <2>1. \A t \in Threads : pc[t] = "hist" /\ idx[t] = Begin(t)
    BY DEF Init, Begin
  <2>2. \A i : ~Copied(i)
    <3>1. \A t \in Threads : Begin(t) \in 0 .. N /\ Share(N, ThreadNum, t) = Begin(t) .. End(t) - 1 /\ End(t) \in 0 .. N
      BY ShareFacts
    <3>2. \A t \in Threads : \A i : ~Moved(t, i)
      BY <2>1, <3>1 DEF Moved
    <3> QED BY <3>2 DEF Copied
  <2>3. \A x \in Output : Logical(x) = Empty
    <3>1. \A x \in Output : Logical(x) = Content(x)
      BY LineInit, LogicalIs
    <3> QED BY <2>2, <3>1 DEF Content
  <2>4. PlainTmp = [q \in Plain!Positions |-> Empty]
    BY <2>3, SameOperators DEF Output
  <2>5. PlainOffset = [t \in Threads |-> Zeros] /\ PlainPc = [t \in Threads |-> "hist"]
    BY <2>1 DEF Init
  <2>6. [t \in Plain!Threads |-> Plain!ShareBegin(N, ThreadNum, t)]
           = [t \in Threads |-> ShareBegin(N, ThreadNum, t)]
    BY SameOperators
  <2>7. Plain!Threads = Threads /\ Plain!Zeros = Zeros
    BY SameOperators
  <2> QED BY <2>4, <2>5, <2>6, <2>7 DEF Init, Plain!Init
<1>2. LineInv /\ LineInv' /\ [Next]_vars => [Plain!Next]_Plain!vars
  <2> SUFFICES ASSUME LineInv, LineInv', [Next]_vars PROVE [Plain!Next]_Plain!vars
    OBVIOUS
  <2>0. /\ rel \in Inputs /\ Indices /\ SlotsRight /\ Waiting /\ Counted
        /\ pc \in [Threads -> {"hist", "barrier1", "offset", "scatter", "barrier2", "drain", "done"}]
        /\ offset \in [Threads -> [Parts -> Memory]] /\ slot \in [Threads -> [Parts -> Memory]]
        /\ GlobalOffset \in Nat /\ Padding \in Nat
    BY SwwcbAssumption DEF LineInv, TypeOK
  <2>1. ASSUME NEW t \in Threads, Histogram(t) PROVE Plain!Histogram(t)
    <3>1. PlainTmp' = PlainTmp
      BY <2>1, TmpStays DEF Histogram
    <3>2. PlainOffset' = PlainOffset
      BY <2>0, <2>1 DEF Histogram
    <3>3. PlainPc[t] = "hist" /\ PlainPc' = [PlainPc EXCEPT ![t] = "barrier"]
      BY <2>0, <2>1 DEF Histogram
    <3>4. [p \in Plain!Parts |-> Plain!Cardinality(Plain!Mine(t, p))]
             = [p \in Parts |-> Cardinality(Mine(t, p))]
      BY SameOperators
    <3>5. [p \in Plain!Parts |-> Plain!SumFunction([o \in 0 .. p |-> Plain!Cardinality(Plain!Mine(t, o))])]
             = [p \in Parts |-> SumFunction([o \in 0 .. p |-> Cardinality(Mine(t, o))])]
      <4>1. \A p : [o \in 0 .. p |-> Plain!Cardinality(Plain!Mine(t, o))]
                     = [o \in 0 .. p |-> Cardinality(Mine(t, o))]
        BY SameOperators
      <4> QED BY <4>1, SameOperators
    <3> QED BY <2>1, <3>1, <3>2, <3>3, <3>4, <3>5 DEF Histogram, Plain!Histogram
  <2>2. ASSUME NEW t \in Threads, Offsets(t) PROVE Plain!Offsets(t)
    <3>1. PlainTmp' = PlainTmp
      BY <2>2, TmpStays DEF Offsets
    <3>2. PlainPc[t] = "offset" /\ PlainPc' = [PlainPc EXCEPT ![t] = "scatter"]
      BY <2>0, <2>2 DEF Offsets
    <3>3. ASSUME NEW p \in Parts PROVE slot'[t][p] - GlobalOffset - p * Padding = Rank(t, p)
      <4>1. slot'[t][p] = Start(t, p) + GlobalOffset
        BY <2>0, <2>2 DEF Offsets
      <4>2. Start(t, p) = Rank(t, p) + p * Padding
        BY DEF Start, Rank
      <4>3. Rank(t, p) \in Nat /\ p * Padding \in Nat
        <5>1. \A u \in Threads : pc[u] # "hist"
          BY <2>0, <2>2 DEF Waiting, Early, Offsets
        <5>2. Rank(t, p) = Below(PartOf, p, Begin(t)) /\ Begin(t) \in 0 .. N
          BY <2>0, <5>1, StartRight, ShareFacts
        <5>3. p * Padding \in Nat
          BY <2>0, TimesMono, SwwcbAssumption DEF Parts
        <5> QED BY <2>0, <5>2, <5>3, PlaceType
      <4> QED BY <2>0, <4>1, <4>2, <4>3
    <3>4. PlainOffset' = [PlainOffset EXCEPT ![t] = [p \in Parts |-> Rank(t, p)]]
      <4>1. PlainOffset'[t] = [p \in Parts |-> Rank(t, p)]
        BY <2>0, <2>2, <3>3 DEF Offsets
      <4>2. \A u \in Threads : u # t => PlainOffset'[u] = PlainOffset[u]
        BY <2>0, <2>2 DEF Offsets
      <4> HIDE DEF Rank
      <4> QED BY <4>1, <4>2
    <3>5. [p \in Plain!Parts |-> Plain!Start(t, p)] = [p \in Parts |-> Rank(t, p)]
      <4>1. \A p : Plain!Start(t, p) = Rank(t, p)
        BY SameOperators DEF Plain!Start, Rank
      <4> QED BY <4>1, SameOperators
    <3> QED BY <2>2, <3>1, <3>2, <3>4, <3>5 DEF Offsets, Plain!Offsets
  <2>3. ASSUME NEW t \in Threads, Scatter(t) PROVE Plain!Scatter(t)
    <3> DEFINE i == idx[t]
               p == PartOf[i]
    <3>1. PlainTmp' = [PlainTmp EXCEPT ![PlaceOf(i)] = i]
      BY <2>3, TmpGrows
    <3>2. /\ pc[t] = "scatter" /\ UNCHANGED <<rel, hist, offset, part, pc>>
          /\ i \in Rows(N) /\ p \in Parts
          /\ slot[t][p] = Address(i) /\ slot' = [slot EXCEPT ![t][p] = Address(i) + 1]
          /\ idx' = [idx EXCEPT ![t] = i + 1]
      BY <2>3, ScatterIs
    <3>3. p = Hash[rel[i]] /\ i < ShareEnd(N, ThreadNum, t)
      BY <2>0, <2>3, <3>2, PartFacts DEF Scatter
    <3>4. /\ PlainOffset[t][p] + p * Padding = PlaceOf(i)
          /\ PlainOffset' = [PlainOffset EXCEPT ![t][p] = PlainOffset[t][p] + 1]
      <4>1. Address(i) = GlobalOffset + PlaceOf(i) /\ PlaceOf(i) \in Int /\ p * Padding \in Int
        <5>1. PlaceOf(i) \in Int
          BY <2>0, <3>2, AddressOwn DEF PlaceOf
        <5>2. p * Padding \in Int
          BY <2>0, <3>2 DEF Parts
        <5> QED BY <5>1, <5>2 DEF Address, PlaceOf
      <4>2. PlainOffset[t][p] = slot[t][p] - GlobalOffset - p * Padding
        BY <3>2
      <4>3. PlainOffset[t][p] + p * Padding = PlaceOf(i)
        <5> HIDE DEF PlainOffset, PlaceOf, p, i
        <5> QED BY <2>0, <3>2, <4>1, <4>2
      <4>4. /\ PlainOffset'[t][p] = PlainOffset[t][p] + 1
            /\ \A o \in Parts : o # p => PlainOffset'[t][o] = PlainOffset[t][o]
            /\ \A u \in Threads : u # t => PlainOffset'[u] = PlainOffset[u]
        <5>1. slot'[t][p] = Address(i) + 1
          BY <2>0, <3>2
        <5>2. PlainOffset'[t][p] = slot'[t][p] - GlobalOffset - p * Padding
          BY <3>2
        <5>3. PlainOffset'[t][p] = PlainOffset[t][p] + 1
          <6> HIDE DEF PlainOffset, PlaceOf, p, i
          <6> QED BY <2>0, <3>2, <4>1, <4>2, <5>1, <5>2
        <5>4. \A o \in Parts : o # p => slot'[t][o] = slot[t][o]
          BY <2>0, <3>2
        <5>5. \A u \in Threads : u # t => slot'[u] = slot[u]
          BY <2>0, <3>2
        <5> QED BY <3>2, <5>3, <5>4, <5>5
      <4>5. /\ DOMAIN PlainOffset = Threads /\ DOMAIN PlainOffset[t] = Parts
            /\ DOMAIN PlainOffset' = Threads /\ DOMAIN PlainOffset'[t] = Parts
        BY <3>2
      <4>6. PlainOffset' = [PlainOffset EXCEPT ![t][p] = PlainOffset[t][p] + 1]
        <5>1. PlainOffset = [u \in Threads |-> PlainOffset[u]] /\ PlainOffset' = [u \in Threads |-> PlainOffset'[u]]
          OBVIOUS
        <5>2. /\ PlainOffset[t] = [o \in Parts |-> PlainOffset[t][o]]
              /\ PlainOffset'[t] = [o \in Parts |-> PlainOffset'[t][o]]
          BY <3>2
        <5> HIDE DEF PlainOffset, p, i
        <5>3. PlainOffset'[t] = [PlainOffset[t] EXCEPT ![p] = PlainOffset[t][p] + 1]
          BY <3>2, <4>4, <5>2
        <5> QED BY <4>4, <5>1, <5>3
      <4> QED BY <4>3, <4>6
    <3>5. PlainPc' = PlainPc /\ PlainPc[t] = "scatter"
      BY <3>2
    <3>6. p = Hash[rel[idx[t]]] /\ idx[t] < Plain!ShareEnd(N, ThreadNum, t)
      BY <3>3, SameOperators
    <3> HIDE DEF p
    <3>7. /\ PlainTmp' = [PlainTmp EXCEPT ![PlainOffset[t][p] + p * Padding] = idx[t]]
          /\ PlainOffset' = [PlainOffset EXCEPT ![t][p] = PlainOffset[t][p] + 1]
          /\ idx' = [idx EXCEPT ![t] = idx[t] + 1] /\ UNCHANGED <<rel, hist>>
      BY <3>1, <3>2, <3>4, Zenon
    <3> QED BY <3>5, <3>6, <3>7 DEF Plain!Scatter
  <2>4. ASSUME NEW t \in Threads, FinishScatter(t) PROVE UNCHANGED Plain!vars
    <3>1. PlainPc' = PlainPc
      BY <2>0, <2>4 DEF FinishScatter
    <3>2. \A u \in Threads : pc'[u] \in {"scatter", "barrier2", "drain"}
                               <=> pc[u] \in {"scatter", "barrier2", "drain"}
      BY <2>0, <2>4 DEF FinishScatter
    <3> QED BY <2>4, <3>1, <3>2, PlainStays DEF FinishScatter
  <2>5. ASSUME NEW t \in Threads, Drain(t) PROVE UNCHANGED Plain!vars
    <3>1. PlainPc' = PlainPc /\ pc' = pc
      BY <2>5 DEF Drain
    <3> QED BY <2>5, <3>1, PlainStays DEF Drain
  <2>6. ASSUME NEW t \in Threads, FinishDrain(t) PROVE Plain!Rewind(t)
    <3>1. PlainTmp' = PlainTmp
      BY <2>6, TmpStays DEF FinishDrain
    <3>2. PlainPc[t] = "scatter" /\ PlainPc' = [PlainPc EXCEPT ![t] = "done"]
      BY <2>0, <2>6 DEF FinishDrain
    <3>3. idx[t] = End(t) /\ idx[t] >= ShareEnd(N, ThreadNum, t)
      <4>1. idx[t] = End(t) /\ End(t) \in 0 .. N
        BY <2>0, <2>6, ShareFacts DEF Indices, Late, FinishDrain
      <4> QED BY <4>1 DEF End
    <3>4. ASSUME NEW p \in Parts
          PROVE  offset[t][p] = PlainOffset[t][p] - hist[t].count[p] + p * Padding
      <4> DEFINE c == Cardinality(Mine(t, p))
                 m == p * Padding
      <4>1. offset[t][p] = Place(p, Begin(t)) /\ slot[t][p] = GlobalOffset + Place(p, End(t))
        BY <2>0, <2>6, <3>3 DEF SlotsRight, Placing, FinishDrain
      <4>2. hist[t].count[p] = c
        BY <2>0, <2>6 DEF Counted, FinishDrain
      <4>3. Place(p, End(t)) = Place(p, Begin(t)) + c /\ c \in Int
        BY <2>0, MineFacts
      <4>4. m \in Int /\ Place(p, Begin(t)) \in Int
        <5>1. m \in Int
          BY <2>0 DEF Parts
        <5> QED BY <2>0, <5>1, ShareFacts, PlaceType
      <4>5. PlainOffset[t][p] = slot[t][p] - GlobalOffset - m
        BY <2>6 DEF FinishDrain
      <4> HIDE DEF c, m, PlainOffset
      <4>6. offset[t][p] = PlainOffset[t][p] - hist[t].count[p] + m
        BY <2>0, <4>1, <4>2, <4>3, <4>4, <4>5
      <4> QED BY <4>6 DEF m
    <3>5. PlainOffset' = [PlainOffset EXCEPT ![t] =
                            [p \in Parts |-> PlainOffset[t][p] - hist[t].count[p] + p * Padding]]
      <4>1. PlainOffset'[t] = offset[t] /\ \A u \in Threads : u # t => PlainOffset'[u] = PlainOffset[u]
        BY <2>0, <2>6 DEF FinishDrain
      <4>2. DOMAIN PlainOffset = Threads /\ DOMAIN PlainOffset' = Threads
        OBVIOUS
      <4> HIDE DEF PlainOffset
      <4>3. offset[t] = [p \in Parts |-> PlainOffset[t][p] - hist[t].count[p] + p * Padding]
        BY <2>0, <3>4
      <4>4. PlainOffset' = [u \in Threads |-> PlainOffset'[u]] /\ PlainOffset = [u \in Threads |-> PlainOffset[u]]
        BY DEF PlainOffset
      <4> QED BY <4>1, <4>2, <4>3, <4>4
    <3>6. [p \in Plain!Parts |-> PlainOffset[t][p] - hist[t].count[p] + p * Padding]
             = [p \in Parts |-> PlainOffset[t][p] - hist[t].count[p] + p * Padding]
      BY SameOperators, Zenon
    <3>7. idx[t] >= Plain!ShareEnd(N, ThreadNum, t)
      BY <3>3, SameOperators
    <3> QED BY <2>6, <3>1, <3>2, <3>5, <3>6, <3>7 DEF FinishDrain, Plain!Rewind
  <2>7. ASSUME Release PROVE Plain!Release \/ UNCHANGED Plain!vars
    <3>1. \/ \A t \in Threads : pc[t] = "barrier1" /\ pc'[t] = "offset"
          \/ \A t \in Threads : pc[t] = "barrier2" /\ pc'[t] = "drain"
      BY <2>7 DEF Release, AfterBarrier
    <3>2. UNCHANGED <<rel, hist, offset, idx, buf, slot, mem, part>>
      BY <2>7 DEF Release
    <3>3. ASSUME \A t \in Threads : pc[t] = "barrier1" /\ pc'[t] = "offset" PROVE Plain!Release
      <4>1. PlainTmp' = PlainTmp
        BY <3>2, TmpStays
      <4>2. PlainOffset' = PlainOffset
        BY <3>2, <3>3
      <4>3. PlainPc' = [t \in Threads |-> "offset"] /\ \A t \in Threads : PlainPc[t] = "barrier"
        BY <3>3
      <4> QED BY <3>2, <4>1, <4>2, <4>3 DEF Plain!Release, Plain!Threads, Threads
    <3>4. ASSUME \A t \in Threads : pc[t] = "barrier2" /\ pc'[t] = "drain" PROVE UNCHANGED Plain!vars
      <4>1. PlainPc' = PlainPc
        BY <3>4
      <4> QED BY <3>2, <3>4, <4>1, PlainStays
    <3> QED BY <3>1, <3>3, <3>4
  <2>8. ASSUME UNCHANGED vars PROVE UNCHANGED Plain!vars
    <3>1. PlainPc' = PlainPc /\ pc' = pc
      BY <2>8 DEF vars
    <3> QED BY <2>8, <3>1, PlainStays DEF vars
  <2>9. ASSUME NEW t \in Threads, Thread(t) PROVE (\E u \in Plain!Threads : Plain!Thread(u)) \/ UNCHANGED Plain!vars
    <3>1. t \in Plain!Threads
      BY DEF Plain!Threads, Threads
    <3>2. Plain!Histogram(t) \/ Plain!Offsets(t) \/ Plain!Scatter(t) \/ Plain!Rewind(t) => Plain!Thread(t)
      BY DEF Plain!Thread
    <3> HIDE DEF PlainOffset, PlainTmp, PlainPc
    <3> QED BY <2>1, <2>2, <2>3, <2>4, <2>5, <2>6, <2>9, <3>1, <3>2, Zenon DEF Thread
  <2>10. (\E u \in Plain!Threads : Plain!Thread(u)) \/ Plain!Release => Plain!Next
    BY DEF Plain!Next
  <2> QED BY <2>7, <2>8, <2>9, <2>10, Zenon DEF Next, Terminated
<1> QED BY <1>1, <1>2, LineInvariant, PTL DEF Spec, RefinesPlain, Plain!Spec
=============================================================================
