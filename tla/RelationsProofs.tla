--------------------------- MODULE RelationsProofs ---------------------------
(***************************************************************************)
(* What the other proofs need about data of any size.                      *)
(*                                                                         *)
(* First, induction over the naturals and over the subsets of a finite     *)
(* set, sums of functions, sums that wrap around, and walks along          *)
(* pointers.  The library states induction for a predicate, which would    *)
(* have to be instantiated.  Here it is stated for a set: the naturals, or *)
(* the subsets, for which something holds.  It follows from the existence  *)
(* of a minimal element outside of that set.                               *)
(*                                                                         *)
(* Then how the drivers split a relation (or a table) over their threads,  *)
(* the ranks and places of the rows of a share, and how the threads count  *)
(* and add up what they find, for any number of items and threads.         *)
(***************************************************************************)
EXTENDS Relations, Pointers, FiniteSetTheorems, TLAPS

(* A set that holds 0 and the successor of each of its numbers holds them all. *)
LEMMA NatSetInduction ==
    ASSUME NEW T, 0 \in T, \A n \in Nat : n \in T => n + 1 \in T
    PROVE  Nat \subseteq T
<1> SUFFICES ASSUME Nat \ T # {} PROVE FALSE
  OBVIOUS
<1> DEFINE R == {ss \in Nat \X Nat : ss[1] < ss[2]}
<1>1. IsWellFoundedOn(R, Nat)
  BY NatLessThanWellFounded DEF OpToRel
<1> HIDE DEF R
<1>2. PICK x \in Nat \ T : \A y \in Nat \ T : ~(<<y, x>> \in R)
  BY <1>1, WFMin, Zenon
<1>3. x - 1 \in Nat
  OBVIOUS
<1>4. x - 1 \notin T
  BY <1>3
<1>5. <<x - 1, x>> \in R
  BY <1>3, <1>2 DEF R
<1> QED
  BY <1>2, <1>3, <1>4, <1>5

(* If a subset of S is in F as soon as all subsets of one element less are, *)
(* then S is in F.                                                         *)
LEMMA FiniteSetInduction ==
    ASSUME NEW S, IsFiniteSet(S), NEW F,
           \A T \in SUBSET S : (\A x \in T : T \ {x} \in F) => T \in F
    PROVE  S \in F
<1> SUFFICES ASSUME S \notin F PROVE FALSE
  OBVIOUS
<1> DEFINE Bad == (SUBSET S) \ F
           R == StrictSubsetOrdering(S)
<1>1. IsWellFoundedOn(R, SUBSET S)
  <2>1. FiniteSubsetsOf(S) = SUBSET S
    BY FS_FiniteSubsetsOfFinite, Zenon
  <2>2. IsWellFoundedOn(R, FiniteSubsetsOf(S))
    BY FS_StrictSubsetOrderingWellFounded, Zenon
  <2> HIDE DEF R
  <2> QED BY <2>1, <2>2
<1>2. Bad # {} /\ Bad \subseteq SUBSET S
  OBVIOUS
<1>3. PICK T \in Bad : \A U \in Bad : ~(<<U, T>> \in R)
  <2> HIDE DEF R, Bad
  <2> QED BY <1>1, <1>2, WFMin, Zenon
<1>4. T \in SUBSET S /\ T \notin F
  BY Zenon DEF Bad
<1>5. PICK x \in T : T \ {x} \notin F
  BY <1>4
<1>6. <<T \ {x}, T>> \in R
  BY <1>4, <1>5 DEF StrictSubsetOrdering
<1> QED
  BY <1>3, <1>4, <1>5, <1>6
-----------------------------------------------------------------------------
(***************************************************************************)
(* Sums.                                                                   *)
(***************************************************************************)

Picked(s) == CHOOSE y \in s : TRUE

IsSumOver(f, S, g) == g = [s \in SUBSET S |-> IF s = {} THEN 0
                       ELSE f[Picked(s)] + g[s \ {Picked(s)}]]

(* The sum of the community modules is this recursive function, applied.   *)
LEMMA SumIsIter ==
    ASSUME NEW f, NEW S
    PROVE SumFunctionOnSet(f, S) = (CHOOSE g : IsSumOver(f, S, g))[S]
  BY DEF SumFunctionOnSet, FoldFunctionOnSet, MapThenFoldSet, IsSumOver, Picked

UpTo(S, n) == {s \in SUBSET S : Cardinality(s) <= n}

(* A nonempty set has the element that is picked.                          *)
LEMMA PickIn ==
    ASSUME NEW s, s # {} PROVE Picked(s) \in s
  BY DEF Picked

(* There is a function that satisfies the recursion.                       *)
LEMMA RecExists ==
    ASSUME NEW f, NEW S, IsFiniteSet(S), \A x \in S : f[x] \in Int
    PROVE  \E g : g \in [SUBSET S -> Int] /\ IsSumOver(f, S, g)
<1> DEFINE Step(s, g) == IF s = {} THEN 0 ELSE f[Picked(s)] + g[s \ {Picked(s)}]
           Good(n) == \E g \in [UpTo(S, n) -> Int] :
                         \A s \in UpTo(S, n) : g[s] = Step(s, g)
           G == {n \in Nat : Good(n)}
<1>0. \A s \in SUBSET S : IsFiniteSet(s) /\ Cardinality(s) \in Nat
  BY FS_Subset, FS_CardinalityType
<1>1. Good(0)
  <2>1. \A s \in UpTo(S, 0) : s = {}
    BY <1>0, FS_EmptySet DEF UpTo
  <2> DEFINE g == [s \in UpTo(S, 0) |-> 0]
  <2>2. g \in [UpTo(S, 0) -> Int] /\ \A s \in UpTo(S, 0) : g[s] = Step(s, g)
    BY <2>1
  <2> QED BY <2>2
<1>2. ASSUME NEW n \in Nat, Good(n) PROVE Good(n + 1)
  <2>1. PICK g \in [UpTo(S, n) -> Int] : \A s \in UpTo(S, n) : g[s] = Step(s, g)
    BY <1>2
  <2> DEFINE h == [s \in UpTo(S, n + 1) |-> Step(s, g)]
  <2>2. \A s \in UpTo(S, n + 1) : s # {} =>
            Picked(s) \in S /\ s \ {Picked(s)} \in UpTo(S, n)
    <3> SUFFICES ASSUME NEW s \in UpTo(S, n + 1), s # {}
                 PROVE  Picked(s) \in S /\ s \ {Picked(s)} \in UpTo(S, n)
      OBVIOUS
    <3>1. Picked(s) \in s /\ s \in SUBSET S /\ Cardinality(s) <= n + 1
      BY PickIn DEF UpTo
    <3>2. Cardinality(s \ {Picked(s)}) = Cardinality(s) - 1
      BY <3>1, <1>0, FS_RemoveElement
    <3>3. Cardinality(s) \in Nat
      BY <3>1, <1>0
    <3> QED BY <3>1, <3>2, <3>3 DEF UpTo
  <2>3. h \in [UpTo(S, n + 1) -> Int]
    <3>1. \A s \in UpTo(S, n + 1) : Step(s, g) \in Int
      BY <2>2
    <3> QED BY <3>1
  <2>4. \A s \in UpTo(S, n) : s \in UpTo(S, n + 1) /\ h[s] = g[s]
    <3>1. \A s \in UpTo(S, n) : s \in UpTo(S, n + 1)
      BY <1>0 DEF UpTo
    <3> QED BY <2>1, <3>1
  <2>5. \A s \in UpTo(S, n + 1) : h[s] = Step(s, h)
    BY <2>2, <2>4
  <2> QED BY <2>3, <2>5
<1> HIDE DEF Good
<1>3. Nat \subseteq G
  <2>1. 0 \in G
    BY <1>1
  <2>2. \A n \in Nat : n \in G => n + 1 \in G
    BY <1>2
  <2> HIDE DEF G
  <2> QED BY <2>1, <2>2, NatSetInduction
<1>4. Cardinality(S) \in Nat /\ UpTo(S, Cardinality(S)) = SUBSET S
  <2>1. \A s \in SUBSET S : Cardinality(s) <= Cardinality(S)
    BY FS_Subset
  <2> QED BY <2>1, <1>0 DEF UpTo
<1>5. Good(Cardinality(S))
  BY <1>3, <1>4
<1> USE DEF Good
<1>6. PICK g \in [SUBSET S -> Int] : \A s \in SUBSET S : g[s] = Step(s, g)
  BY <1>4, <1>5
<1> QED BY <1>6 DEF IsSumOver

(* The recursion over S and the one over a subset of S agree where both    *)
(* are defined.                                                            *)
LEMMA RecUnique ==
    ASSUME NEW f, NEW S, NEW T \in SUBSET S, IsFiniteSet(S),
           NEW g, NEW h, IsSumOver(f, S, g), IsSumOver(f, T, h)
    PROVE  \A U \in SUBSET T : g[U] = h[U]
<1> TAKE U \in SUBSET T
<1> DEFINE F == {s \in SUBSET T : g[s] = h[s]}
<1>1. {} \in F
  BY DEF IsSumOver
<1>2. \A V \in SUBSET U : (\A x \in V : V \ {x} \in F) => V \in F
  <2> SUFFICES ASSUME NEW V \in SUBSET U, V # {}, V \ {Picked(V)} \in F
               PROVE  V \in F
    BY <1>1, PickIn
  <2>1. V \in SUBSET S /\ V \in SUBSET T /\ g[V \ {Picked(V)}] = h[V \ {Picked(V)}]
    OBVIOUS
  <2>2. g[V] = f[Picked(V)] + g[V \ {Picked(V)}] /\ h[V] = f[Picked(V)] + h[V \ {Picked(V)}]
    BY <2>1 DEF IsSumOver
  <2> QED BY <2>1, <2>2
<1>3. IsFiniteSet(U)
  BY FS_Subset
<1>4. U \in F
  <2> HIDE DEF F
  <2> QED BY <1>2, <1>3, FiniteSetInduction
<1> QED BY <1>4

(* A sum is 0, or the element that is picked first and the sum of the rest. *)
LEMMA SumByPick ==
    ASSUME NEW f, NEW S, IsFiniteSet(S), \A x \in S : f[x] \in Int
    PROVE  /\ SumFunctionOnSet(f, S) \in Int
           /\ SumFunctionOnSet(f, S) =
                IF S = {} THEN 0
                ELSE f[Picked(S)] + SumFunctionOnSet(f, S \ {Picked(S)})
<1> DEFINE g == CHOOSE g : IsSumOver(f, S, g)
           T == S \ {Picked(S)}
           h == CHOOSE h : IsSumOver(f, T, h)
<1>1. PICK g1 : g1 \in [SUBSET S -> Int] /\ IsSumOver(f, S, g1)
  BY RecExists
<1>2. IsSumOver(f, S, g)
  BY <1>1
<1>3. \A U \in SUBSET S : g[U] = g1[U]
  <2> HIDE DEF g
  <2> QED BY <1>1, <1>2, RecUnique
<1>4. IsFiniteSet(T)
  BY FS_RemoveElement
<1>5. PICK h1 : h1 \in [SUBSET T -> Int] /\ IsSumOver(f, T, h1)
  <2>1. \A x \in T : f[x] \in Int
    OBVIOUS
  <2> HIDE DEF T
  <2> QED BY <1>4, <2>1, RecExists
<1>6. IsSumOver(f, T, h)
  <2> HIDE DEF T
  <2> QED BY <1>5
<1>7. SumFunctionOnSet(f, S) = g[S] /\ SumFunctionOnSet(f, T) = h[T]
  <2> HIDE DEF T
  <2> QED BY SumIsIter
<1>8. g[T] = h[T]
  <2>1. T \in SUBSET S
    OBVIOUS
  <2> HIDE DEF g, h, T
  <2> QED BY <1>2, <1>6, <2>1, RecUnique
<1>9. g[S] = IF S = {} THEN 0 ELSE f[Picked(S)] + g[T]
  <2> HIDE DEF g
  <2> QED BY <1>2 DEF IsSumOver
<1>10. g[S] \in Int
  BY <1>1, <1>3
<1> HIDE DEF g, h, T
<1>11. SumFunctionOnSet(f, S) = IF S = {} THEN 0 ELSE f[Picked(S)] + SumFunctionOnSet(f, T)
  BY <1>7, <1>8, <1>9
<1> QED BY <1>7, <1>10, <1>11 DEF T

(* Nothing adds up to 0.                                                   *)
LEMMA SumEmpty == \A f : SumFunctionOnSet(f, {}) = 0
  BY SumByPick, FS_EmptySet

(* Any element may be taken out of the sum first.                          *)
LEMMA SumRemove ==
    ASSUME NEW f, NEW S, IsFiniteSet(S), \A x \in S : f[x] \in Int, NEW x \in S
    PROVE  /\ SumFunctionOnSet(f, S) = f[x] + SumFunctionOnSet(f, S \ {x})
           /\ SumFunctionOnSet(f, S \ {x}) \in Int
<1> DEFINE sum(V) == SumFunctionOnSet(f, V)
           F == {V \in SUBSET S : \A z \in V : sum(V) = f[z] + sum(V \ {z})}
<1>1. \A V \in SUBSET S : IsFiniteSet(V) /\ sum(V) \in Int
                          /\ (V # {} => Picked(V) \in V /\ sum(V) = f[Picked(V)] + sum(V \ {Picked(V)}))
  <2> TAKE V \in SUBSET S
  <2>1. IsFiniteSet(V)
    BY FS_Subset
  <2> QED BY <2>1, SumByPick, PickIn
<1> HIDE DEF sum
<1>2. \A V \in SUBSET S : (\A y \in V : V \ {y} \in F) => V \in F
  <2> SUFFICES ASSUME NEW V \in SUBSET S, \A y \in V : V \ {y} \in F, NEW z \in V
               PROVE  sum(V) = f[z] + sum(V \ {z})
    OBVIOUS
  <2> DEFINE y == Picked(V)
  <2>1. y \in V /\ sum(V) = f[y] + sum(V \ {y})
    BY <1>1
  <2> HIDE DEF y
  <2>2. CASE z # y
    <3>1. (V \ {y}) \ {z} = (V \ {z}) \ {y}
      OBVIOUS
    <3>2. sum(V \ {y}) = f[z] + sum((V \ {y}) \ {z})
      BY <2>1, <2>2
    <3>3. sum(V \ {z}) = f[y] + sum((V \ {z}) \ {y})
      BY <2>1, <2>2
    <3>4. sum((V \ {z}) \ {y}) \in Int /\ f[z] \in Int /\ f[y] \in Int
      BY <1>1, <2>1
    <3> QED BY <2>1, <3>1, <3>2, <3>3, <3>4
  <2> QED BY <2>1, <2>2
<1>3. S \in F
  <2> HIDE DEF F
  <2> QED BY <1>2, FiniteSetInduction
<1>4. sum(S) = f[x] + sum(S \ {x}) /\ sum(S \ {x}) \in Int
  BY <1>1, <1>3
<1> QED BY <1>4 DEF sum

(* Sums of integers are integers, sums of naturals are naturals.           *)
LEMMA SumType ==
    ASSUME NEW f, NEW S, IsFiniteSet(S)
    PROVE  /\ (\A x \in S : f[x] \in Int) => SumFunctionOnSet(f, S) \in Int
           /\ (\A x \in S : f[x] \in Nat) => SumFunctionOnSet(f, S) \in Nat
<1>1. (\A x \in S : f[x] \in Int) => SumFunctionOnSet(f, S) \in Int
  BY SumByPick
<1>2. ASSUME \A x \in S : f[x] \in Nat
      PROVE  SumFunctionOnSet(f, S) \in Nat
  <2> DEFINE F == {V \in SUBSET S : SumFunctionOnSet(f, V) \in Nat}
  <2>1. \A V \in SUBSET S : (\A x \in V : V \ {x} \in F) => V \in F
    <3> SUFFICES ASSUME NEW V \in SUBSET S, \A x \in V : SumFunctionOnSet(f, V \ {x}) \in Nat
                 PROVE  SumFunctionOnSet(f, V) \in Nat
      OBVIOUS
    <3>1. CASE V = {}
      BY <3>1, SumEmpty
    <3>2. ASSUME NEW x \in V PROVE SumFunctionOnSet(f, V) \in Nat
      <4>1. IsFiniteSet(V) /\ \A y \in V : f[y] \in Int
        BY <1>2, FS_Subset
      <4>2. SumFunctionOnSet(f, V) = f[x] + SumFunctionOnSet(f, V \ {x})
        BY <4>1, SumRemove
      <4> QED BY <1>2, <4>2
    <3> QED BY <3>1, <3>2
  <2>2. S \in F
    <3> HIDE DEF F
    <3> QED BY <2>1, FiniteSetInduction
  <2> QED BY <2>2
<1> QED BY <1>1, <1>2

(* One more element adds its value.                                        *)
LEMMA SumAdd ==
    ASSUME NEW f, NEW S, IsFiniteSet(S), NEW x, x \notin S,
           \A y \in S \cup {x} : f[y] \in Int
    PROVE  SumFunctionOnSet(f, S \cup {x}) = f[x] + SumFunctionOnSet(f, S)
<1> DEFINE T == S \cup {x}
<1>1. IsFiniteSet(T) /\ x \in T /\ T \ {x} = S
  BY FS_AddElement
<1>2. \A y \in T : f[y] \in Int
  OBVIOUS
<1> HIDE DEF T
<1>3. SumFunctionOnSet(f, T) = f[x] + SumFunctionOnSet(f, T \ {x})
  BY <1>1, <1>2, SumRemove
<1> QED BY <1>1, <1>3 DEF T

(* One summand. *)
LEMMA SumSingle ==
    ASSUME NEW f, NEW x, f[x] \in Int
    PROVE  IsFiniteSet({x}) /\ SumFunctionOnSet(f, {x}) = f[x]
<1>1. IsFiniteSet({}) /\ IsFiniteSet({x}) /\ {} \cup {x} = {x}
  BY FS_EmptySet, FS_Singleton
<1>2. SumFunctionOnSet(f, {} \cup {x}) = f[x] + SumFunctionOnSet(f, {})
  BY <1>1, SumAdd
<1> QED BY <1>1, <1>2, SumEmpty

(* The sum of sums is the sum of the summands.                             *)
LEMMA SumPlus ==
    ASSUME NEW f, NEW g, NEW h, NEW S, IsFiniteSet(S),
           \A x \in S : f[x] \in Int /\ g[x] \in Int /\ h[x] = f[x] + g[x]
    PROVE  SumFunctionOnSet(h, S) = SumFunctionOnSet(f, S) + SumFunctionOnSet(g, S)
<1> DEFINE F == {V \in SUBSET S : SumFunctionOnSet(h, V) =
                     SumFunctionOnSet(f, V) + SumFunctionOnSet(g, V)}
<1>1. \A V \in SUBSET S : (\A x \in V : V \ {x} \in F) => V \in F
  <2> SUFFICES ASSUME NEW V \in SUBSET S, \A x \in V : V \ {x} \in F
               PROVE  V \in F
    OBVIOUS
  <2>1. CASE V = {}
    BY <2>1, SumEmpty
  <2>2. ASSUME NEW x \in V PROVE V \in F
    <3>1. IsFiniteSet(V)
      BY FS_Subset
    <3>2. \A y \in V : f[y] \in Int /\ g[y] \in Int /\ h[y] \in Int
      OBVIOUS
    <3>3. /\ SumFunctionOnSet(f, V) = f[x] + SumFunctionOnSet(f, V \ {x})
          /\ SumFunctionOnSet(f, V \ {x}) \in Int
      BY <3>1, <3>2, SumRemove
    <3>4. /\ SumFunctionOnSet(g, V) = g[x] + SumFunctionOnSet(g, V \ {x})
          /\ SumFunctionOnSet(g, V \ {x}) \in Int
      BY <3>1, <3>2, SumRemove
    <3>5. SumFunctionOnSet(h, V) = h[x] + SumFunctionOnSet(h, V \ {x})
      BY <3>1, <3>2, SumRemove
    <3>6. SumFunctionOnSet(h, V \ {x}) =
            SumFunctionOnSet(f, V \ {x}) + SumFunctionOnSet(g, V \ {x})
      OBVIOUS
    <3> QED BY <3>2, <3>3, <3>4, <3>5, <3>6
  <2> QED BY <2>1, <2>2
<1>2. S \in F
  <2> HIDE DEF F
  <2> QED BY <1>1, FiniteSetInduction
<1> QED BY <1>2

(* Only the values at the elements summed over count.                      *)
LEMMA SumSame ==
    ASSUME NEW f, NEW g, NEW S, IsFiniteSet(S),
           \A x \in S : f[x] \in Int /\ g[x] = f[x]
    PROVE  SumFunctionOnSet(g, S) = SumFunctionOnSet(f, S)
<1> DEFINE z == [x \in S |-> 0]
           F == {V \in SUBSET S : SumFunctionOnSet(z, V) = 0}
<1>1. \A V \in SUBSET S : (\A x \in V : V \ {x} \in F) => V \in F
  <2> SUFFICES ASSUME NEW V \in SUBSET S, \A x \in V : V \ {x} \in F
               PROVE  SumFunctionOnSet(z, V) = 0
    OBVIOUS
  <2>1. CASE V = {}
    BY <2>1, SumEmpty
  <2>2. ASSUME NEW x \in V PROVE SumFunctionOnSet(z, V) = 0
    <3>1. IsFiniteSet(V)
      BY FS_Subset
    <3>2. \A y \in V : z[y] = 0
      OBVIOUS
    <3>3. SumFunctionOnSet(z, V \ {x}) = 0
      OBVIOUS
    <3> HIDE DEF z
    <3>4. SumFunctionOnSet(z, V) = z[x] + SumFunctionOnSet(z, V \ {x})
      BY <3>1, <3>2, SumRemove
    <3> QED BY <3>2, <3>3, <3>4
  <2> QED BY <2>1, <2>2
<1>2. S \in F
  <2> HIDE DEF F
  <2> QED BY <1>1, FiniteSetInduction
<1>3. SumFunctionOnSet(z, S) = 0 /\ \A x \in S : z[x] = 0
  BY <1>2
<1> HIDE DEF z
<1>4. SumFunctionOnSet(g, S) = SumFunctionOnSet(f, S) + SumFunctionOnSet(z, S)
  BY <1>3, SumPlus
<1>5. SumFunctionOnSet(f, S) \in Int
  BY SumType
<1> QED BY <1>3, <1>4, <1>5

(* The sum over two sets that have nothing in common.                      *)
LEMMA SumUnion ==
    ASSUME NEW f, NEW S, NEW T, IsFiniteSet(S), IsFiniteSet(T), S \cap T = {},
           \A x \in S \cup T : f[x] \in Int
    PROVE  SumFunctionOnSet(f, S \cup T) = SumFunctionOnSet(f, S) + SumFunctionOnSet(f, T)
<1> DEFINE F == {V \in SUBSET T : SumFunctionOnSet(f, S \cup V) =
                     SumFunctionOnSet(f, S) + SumFunctionOnSet(f, V)}
<1>0. SumFunctionOnSet(f, S) \in Int
  BY SumType
<1>1. \A V \in SUBSET T : (\A x \in V : V \ {x} \in F) => V \in F
  <2> SUFFICES ASSUME NEW V \in SUBSET T, \A x \in V : V \ {x} \in F
               PROVE  V \in F
    OBVIOUS
  <2>1. CASE V = {}
    <3>1. S \cup V = S
      BY <2>1
    <3> QED BY <1>0, <2>1, <3>1, SumEmpty
  <2>2. ASSUME NEW x \in V PROVE V \in F
    <3> DEFINE U == S \cup V
    <3>1. IsFiniteSet(V)
      BY FS_Subset
    <3>2. IsFiniteSet(U) /\ x \in U /\ U \ {x} = S \cup (V \ {x})
      BY <3>1, FS_Union
    <3>3. \A y \in U : f[y] \in Int
      OBVIOUS
    <3>4. \A y \in V : f[y] \in Int
      OBVIOUS
    <3>5. SumFunctionOnSet(f, S \cup (V \ {x})) =
            SumFunctionOnSet(f, S) + SumFunctionOnSet(f, V \ {x})
      OBVIOUS
    <3> HIDE DEF U
    <3>6. SumFunctionOnSet(f, U) = f[x] + SumFunctionOnSet(f, U \ {x})
      BY <3>2, <3>3, SumRemove
    <3>7. /\ SumFunctionOnSet(f, V) = f[x] + SumFunctionOnSet(f, V \ {x})
          /\ SumFunctionOnSet(f, V \ {x}) \in Int
      BY <3>1, <3>4, SumRemove
    <3>8. SumFunctionOnSet(f, U) = SumFunctionOnSet(f, S) + SumFunctionOnSet(f, V)
      BY <1>0, <3>2, <3>4, <3>5, <3>6, <3>7
    <3> QED BY <3>8 DEF U
  <2> QED BY <2>1, <2>2
<1>2. T \in F
  <2> HIDE DEF F
  <2> QED BY <1>1, FiniteSetInduction
<1> QED BY <1>2

(* Adding up ones is counting.                                             *)
LEMMA SumOnes ==
    ASSUME NEW f, NEW S, IsFiniteSet(S), \A x \in S : f[x] = 1
    PROVE  SumFunctionOnSet(f, S) = Cardinality(S)
<1> DEFINE F == {V \in SUBSET S : SumFunctionOnSet(f, V) = Cardinality(V)}
<1>1. \A V \in SUBSET S : (\A x \in V : V \ {x} \in F) => V \in F
  <2> SUFFICES ASSUME NEW V \in SUBSET S, \A x \in V : V \ {x} \in F
               PROVE  SumFunctionOnSet(f, V) = Cardinality(V)
    OBVIOUS
  <2>1. CASE V = {}
    BY <2>1, SumEmpty, FS_EmptySet
  <2>2. ASSUME NEW x \in V PROVE SumFunctionOnSet(f, V) = Cardinality(V)
    <3>1. IsFiniteSet(V)
      BY FS_Subset
    <3>2. \A y \in V : f[y] \in Int
      OBVIOUS
    <3>3. SumFunctionOnSet(f, V) = 1 + SumFunctionOnSet(f, V \ {x})
      BY <3>1, <3>2, SumRemove
    <3>4. Cardinality(V \ {x}) = Cardinality(V) - 1 /\ Cardinality(V) \in Nat
      BY <3>1, FS_RemoveElement, FS_CardinalityType
    <3>5. SumFunctionOnSet(f, V \ {x}) = Cardinality(V \ {x})
      OBVIOUS
    <3> QED BY <3>3, <3>4, <3>5
  <2> QED BY <2>1, <2>2
<1>2. S \in F
  <2> HIDE DEF F
  <2> QED BY <1>1, FiniteSetInduction
<1> QED BY <1>2

(* The parts part[p] together. *)
Together(part, P) == UNION {part[p] : p \in P}

(* A sum may be taken part by part.                                        *)
LEMMA SumPartition ==
    ASSUME NEW f, NEW h, NEW P, NEW part, IsFiniteSet(P),
           \A p \in P : /\ IsFiniteSet(part[p])
                        /\ \A x \in part[p] : f[x] \in Int
                        /\ h[p] = SumFunctionOnSet(f, part[p]),
           \A p, q \in P : p # q => part[p] \cap part[q] = {}
    PROVE  /\ IsFiniteSet(Together(part, P))
           /\ SumFunctionOnSet(h, P) = SumFunctionOnSet(f, Together(part, P))
<1> USE DEF Together
<1> DEFINE U(V) == Together(part, V)
           F == {V \in SUBSET P : IsFiniteSet(U(V)) /\
                    SumFunctionOnSet(h, V) = SumFunctionOnSet(f, U(V))}
<1>0. \A p \in P : h[p] \in Int
  BY SumType
<1>1. \A V \in SUBSET P : (\A x \in V : V \ {x} \in F) => V \in F
  <2> SUFFICES ASSUME NEW V \in SUBSET P, \A x \in V : V \ {x} \in F
               PROVE  V \in F
    OBVIOUS
  <2>1. CASE V = {}
    <3>1. U(V) = {}
      BY <2>1
    <3> QED BY <2>1, <3>1, SumEmpty, FS_EmptySet
  <2>2. ASSUME NEW x \in V PROVE V \in F
    <3> DEFINE W == U(V \ {x})
    <3>1. U(V) = W \cup part[x]
      OBVIOUS
    <3>2. W \cap part[x] = {}
      OBVIOUS
    <3>3. IsFiniteSet(V)
      BY FS_Subset
    <3>4. \A y \in W : f[y] \in Int
      OBVIOUS
    <3>5. IsFiniteSet(W) /\ SumFunctionOnSet(h, V \ {x}) = SumFunctionOnSet(f, W)
      OBVIOUS
    <3>6. SumFunctionOnSet(h, V) = h[x] + SumFunctionOnSet(h, V \ {x})
      BY <1>0, <3>3, SumRemove
    <3> HIDE DEF U, F, W, Together
    <3>7. IsFiniteSet(part[x]) /\ \A y \in part[x] : f[y] \in Int
      OBVIOUS
    <3>8. SumFunctionOnSet(f, W \cup part[x]) = SumFunctionOnSet(f, W) + SumFunctionOnSet(f, part[x])
      BY <3>2, <3>4, <3>5, <3>7, SumUnion
    <3>9. IsFiniteSet(W \cup part[x])
      BY <3>5, <3>7, FS_Union
    <3>10. SumFunctionOnSet(f, W) \in Int /\ SumFunctionOnSet(f, part[x]) \in Int
      BY <3>4, <3>5, <3>7, SumType
    <3>11. SumFunctionOnSet(h, V) = SumFunctionOnSet(f, U(V))
      BY <3>1, <3>5, <3>6, <3>8, <3>10
    <3> QED BY <3>1, <3>9, <3>11 DEF F
  <2> QED BY <2>1, <2>2
<1>2. P \in F
  <2> HIDE DEF F
  <2> QED BY <1>1, FiniteSetInduction
<1> QED BY <1>2

(* Summing over the images of a bijection.                                 *)
LEMMA SumReindex ==
    ASSUME NEW f, NEW g, NEW S, NEW T, NEW b \in [S -> T], IsFiniteSet(S),
           \A x, y \in S : b[x] = b[y] => x = y,
           \A z \in T : \E x \in S : b[x] = z,
           \A x \in S : f[x] \in Int /\ g[b[x]] = f[x]
    PROVE  IsFiniteSet(T) /\ SumFunctionOnSet(g, T) = SumFunctionOnSet(f, S)
<1> DEFINE part == [x \in S |-> {b[x]}]
<1>1. \A x \in S : /\ IsFiniteSet(part[x])
                   /\ \A z \in part[x] : g[z] \in Int
                   /\ f[x] = SumFunctionOnSet(g, part[x])
  <2> TAKE x \in S
  <2>1. IsFiniteSet({b[x]}) /\ SumFunctionOnSet(g, {b[x]}) = g[b[x]]
    BY SumSingle
  <2> QED BY <2>1
<1>2. \A x, y \in S : x # y => part[x] \cap part[y] = {}
  OBVIOUS
<1>3. Together(part, S) = T
  BY DEF Together
<1> HIDE DEF part
<1>4. /\ IsFiniteSet(Together(part, S))
      /\ SumFunctionOnSet(f, S) = SumFunctionOnSet(g, Together(part, S))
  BY <1>1, <1>2, SumPartition
<1> QED BY <1>3, <1>4
-----------------------------------------------------------------------------
(***************************************************************************)
(* Sums modulo a number.                                                   *)
(***************************************************************************)

(* A power of two is positive: it is the number of subsets of a set.       *)
LEMMA PowerOfTwo == \A n \in Nat : 2^n \in Nat \ {0}
<1> TAKE n \in Nat
<1>1. IsFiniteSet(1 .. n) /\ Cardinality(1 .. n) = n
  BY FS_Interval
<1>2. IsFiniteSet(SUBSET (1 .. n)) /\ Cardinality(SUBSET (1 .. n)) = 2^n
  BY <1>1, FS_SUBSET
<1>3. Cardinality(SUBSET (1 .. n)) \in Nat
  BY <1>2, FS_CardinalityType
<1>4. Cardinality(SUBSET (1 .. n)) # 0
  BY <1>2, FS_EmptySet
<1> QED BY <1>2, <1>3, <1>4

(* Division with remainder.                                                *)
LEMMA ModFacts ==
    ASSUME NEW a \in Int, NEW m \in Nat \ {0}
    PROVE  a % m \in 0 .. m - 1 /\ a = m * (a \div m) + (a % m) /\ a \div m \in Int
  OBVIOUS

(* The remainder is the only number below the modulus that fits.           *)
LEMMA ModUnique ==
    ASSUME NEW m \in Nat \ {0}, NEW q \in Int, NEW c \in 0 .. m - 1
    PROVE  (m * q + c) % m = c
  OBVIOUS

(* Multiples of the modulus do not count.                                  *)
LEMMA ModShift ==
    ASSUME NEW m \in Nat \ {0}, NEW q \in Int, NEW a \in Int
    PROVE  (m * q + a) % m = a % m
<1> DEFINE c == a % m
           d == a \div m
<1>1. c \in 0 .. m - 1 /\ a = m * d + c /\ d \in Int
  BY ModFacts
<1> HIDE DEF c, d
<1>2. (m * (q + d) + c) % m = c
  BY <1>1, ModUnique
<1>3. m * q + a = m * (q + d) + c
  BY <1>1
<1> QED BY <1>2, <1>3 DEF c

(* A sum may be reduced early.                                             *)
LEMMA ModAdd ==
    ASSUME NEW m \in Nat \ {0}, NEW a \in Int, NEW b \in Int
    PROVE  ((a % m) + b) % m = (a + b) % m
<1> DEFINE c == a % m
           d == a \div m
<1>1. c \in 0 .. m - 1 /\ a = m * d + c /\ d \in Int
  BY ModFacts
<1> HIDE DEF c, d
<1>2. a + b = m * d + (c + b)
  BY <1>1
<1> DEFINE e == c + b
<1>3. e \in Int
  BY <1>1
<1> HIDE DEF e
<1>4. (m * d + e) % m = e % m
  BY <1>1, <1>3, ModShift
<1>5. a + b = m * d + e
  BY <1>2 DEF e
<1> QED BY <1>4, <1>5 DEF c, e

(* It does not matter when a sum that wraps around is reduced.             *)
LEMMA SumMod ==
    ASSUME NEW f, NEW g, NEW S, NEW m \in Nat \ {0}, IsFiniteSet(S),
           \A x \in S : f[x] \in Int /\ g[x] = f[x] % m
    PROVE  SumFunctionOnSet(g, S) % m = SumFunctionOnSet(f, S) % m
<1> DEFINE F == {V \in SUBSET S : SumFunctionOnSet(g, V) % m = SumFunctionOnSet(f, V) % m}
<1>0. \A x \in S : g[x] \in Int
  <2> TAKE x \in S
  <2>1. f[x] \in Int /\ g[x] = f[x] % m
    OBVIOUS
  <2> QED BY <2>1, ModFacts
<1>1. \A V \in SUBSET S : (\A x \in V : V \ {x} \in F) => V \in F
  <2> SUFFICES ASSUME NEW V \in SUBSET S, \A x \in V : V \ {x} \in F
               PROVE  SumFunctionOnSet(g, V) % m = SumFunctionOnSet(f, V) % m
    OBVIOUS
  <2>1. CASE V = {}
    BY <2>1, SumEmpty
  <2>2. ASSUME NEW x \in V
        PROVE  SumFunctionOnSet(g, V) % m = SumFunctionOnSet(f, V) % m
    <3> DEFINE a == SumFunctionOnSet(f, V \ {x})
               b == SumFunctionOnSet(g, V \ {x})
    <3>1. IsFiniteSet(V)
      BY FS_Subset
    <3>2. \A y \in V : f[y] \in Int
      OBVIOUS
    <3>3. SumFunctionOnSet(f, V) = f[x] + a /\ a \in Int
      BY <3>1, <3>2, SumRemove
    <3>4. SumFunctionOnSet(g, V) = g[x] + b /\ b \in Int
      BY <1>0, <3>1, SumRemove
    <3>5. b % m = a % m
      OBVIOUS
    <3> HIDE DEF a, b
    <3>6. f[x] \in Int /\ g[x] = f[x] % m /\ g[x] \in Int
      BY <1>0
    <3> DEFINE y == f[x]
    <3>7. y \in Int /\ g[x] = y % m
      BY <3>6
    <3> HIDE DEF y
    <3>8. ((y % m) + b) % m = (y + b) % m
      BY <3>4, <3>7, ModAdd
    <3>9. ((b % m) + y) % m = (b + y) % m /\ ((a % m) + y) % m = (a + y) % m
      BY <3>3, <3>4, <3>7, ModAdd
    <3>10. (b + y) % m = (a + y) % m
      BY <3>5, <3>9
    <3>11. b + y = y + b /\ a + y = y + a
      BY <3>3, <3>4, <3>7
    <3>12. SumFunctionOnSet(f, V) = y + a
      BY <3>3 DEF y
    <3> QED BY <3>4, <3>7, <3>8, <3>10, <3>11, <3>12
  <2> QED BY <2>1, <2>2
<1>2. S \in F
  <2> HIDE DEF F
  <2> QED BY <1>1, FiniteSetInduction
<1> QED BY <1>2
-----------------------------------------------------------------------------
(***************************************************************************)
(* Walks along pointers.                                                   *)
(***************************************************************************)

(* The walk satisfies its recursion.                                       *)
LEMMA FollowDef ==
    ASSUME NEW first, NEW next, NEW null, NEW n \in Nat
    PROVE  Follow(first, next, null, n) =
             [k \in 0 .. n |->
                IF k = 0 THEN first
                ELSE IF Follow(first, next, null, n)[k - 1] = null THEN null
                ELSE next[Follow(first, next, null, n)[k - 1]]]
<1> DEFINE Step(g, k) == IF k = 0 THEN first
                         ELSE IF g[k - 1] = null THEN null ELSE next[g[k - 1]]
           Good(m) == \E g : g = [k \in 0 .. m |-> Step(g, k)]
           G == {m \in Nat : Good(m)}
<1>1. Good(0)
  <2> DEFINE g == [k \in 0 .. 0 |-> first]
  <2>1. g = [k \in 0 .. 0 |-> Step(g, k)]
    OBVIOUS
  <2> HIDE DEF g
  <2> QED BY <2>1
<1>2. ASSUME NEW m \in Nat, Good(m) PROVE Good(m + 1)
  <2>1. PICK g : g = [k \in 0 .. m |-> Step(g, k)]
    BY <1>2
  <2> DEFINE h == [k \in 0 .. m + 1 |-> IF k = m + 1 THEN Step(g, k) ELSE g[k]]
  <2>2. \A k \in 0 .. m + 1 : h[k] = Step(h, k)
    <3> TAKE k \in 0 .. m + 1
    <3>1. CASE k = m + 1
      BY <3>1
    <3>2. CASE k # m + 1
      <4>1. k \in 0 .. m /\ h[k] = g[k] /\ (k # 0 => k - 1 \in 0 .. m /\ h[k - 1] = g[k - 1])
        BY <3>2
      <4>2. g[k] = Step(g, k)
        BY <2>1, <4>1
      <4> QED BY <4>1, <4>2
    <3> QED BY <3>1, <3>2
  <2>3. h = [k \in 0 .. m + 1 |-> Step(h, k)]
    BY <2>2
  <2> HIDE DEF h
  <2> QED BY <2>3
<1> HIDE DEF Good
<1>3. Nat \subseteq G
  <2>1. 0 \in G
    BY <1>1
  <2>2. \A m \in Nat : m \in G => m + 1 \in G
    BY <1>2
  <2> HIDE DEF G
  <2> QED BY <2>1, <2>2, NatSetInduction
<1>4. Good(n)
  BY <1>3
<1>5. \E g : g = [k \in 0 .. n |-> Step(g, k)]
  BY <1>4 DEF Good
<1>6. Follow(first, next, null, n) = CHOOSE g : g = [k \in 0 .. n |-> Step(g, k)]
  BY DEF Follow
<1> QED BY <1>5, <1>6

(* One step of the walk at a time. *)
LEMMA FollowStep ==
    ASSUME NEW first, NEW next, NEW null, NEW n \in Nat
    PROVE  /\ DOMAIN Follow(first, next, null, n) = 0 .. n
           /\ Follow(first, next, null, n)[0] = first
           /\ \A k \in 1 .. n :
                  Follow(first, next, null, n)[k] =
                      IF Follow(first, next, null, n)[k - 1] = null THEN null
                      ELSE next[Follow(first, next, null, n)[k - 1]]
<1> DEFINE w == Follow(first, next, null, n)
<1>1. w = [k \in 0 .. n |-> IF k = 0 THEN first
                            ELSE IF w[k - 1] = null THEN null ELSE next[w[k - 1]]]
  BY FollowDef
<1> HIDE DEF w
<1>2. DOMAIN w = 0 .. n /\ w[0] = first
  BY <1>1
<1>3. \A k \in 1 .. n : w[k] = IF w[k - 1] = null THEN null ELSE next[w[k - 1]]
  BY <1>1
<1> QED BY <1>2, <1>3 DEF w

(* Integer division by k >= 1 loses less than k. *)
LEMMA DivFacts ==
    ASSUME NEW n \in Nat, NEW k \in Nat \ {0}
    PROVE  /\ n \div k \in Nat
           /\ k * (n \div k) <= n
           /\ n < k * (n \div k) + k
  BY SMT

(* The bounds of a share lie within the relation, in order. *)
LEMMA ShareInRange ==
    ASSUME NEW n \in Nat, NEW k \in Nat \ {0}, NEW t \in 0 .. k - 1
    PROVE  /\ ShareBegin(n, k, t) \in Nat
           /\ ShareEnd(n, k, t) \in 0 .. n
           /\ ShareBegin(n, k, t) <= ShareEnd(n, k, t)
<1> DEFINE m == n \div k
<1>1. m \in Nat /\ k * m <= n
  BY DivFacts
<1> HIDE DEF m
<1>2. /\ (t + 1) * m <= k * m /\ t * m <= k * m
      /\ t * m \in Nat /\ (t + 1) * m \in Nat /\ t * m <= (t + 1) * m
  BY <1>1, SMT
<1> QED
  BY <1>1, <1>2 DEF ShareBegin, ShareEnd, m

(* A thread starts at an item or, when nothing is left, at the end.        *)
LEMMA ShareBeginInRange ==
    ASSUME NEW n \in Nat, NEW k \in Nat \ {0}, NEW t \in 0 .. k - 1
    PROVE  ShareBegin(n, k, t) \in 0 .. n
<1> DEFINE a == ShareBegin(n, k, t)
           b == ShareEnd(n, k, t)
<1>1. a \in Nat /\ b \in 0 .. n /\ a <= b
  BY ShareInRange
<1> HIDE DEF a, b
<1>2. a \in 0 .. n
  BY <1>1
<1> QED
  BY <1>2 DEF a

(* A thread only works on items there are. *)
LEMMA ShareWithin ==
    ASSUME NEW n \in Nat, NEW k \in Nat \ {0}, NEW t \in 0 .. k - 1
    PROVE  Share(n, k, t) \subseteq 0 .. n - 1
<1>1. ShareBegin(n, k, t) \in Nat /\ ShareEnd(n, k, t) \in 0 .. n
  BY ShareInRange
<1> QED
  BY <1>1 DEF Share

(* No item is left out: the last thread takes what the division leaves over. *)
LEMMA ShareCover ==
    ASSUME NEW n \in Nat, NEW k \in Nat \ {0}, NEW h \in 0 .. n - 1
    PROVE  \E t \in 0 .. k - 1 : h \in Share(n, k, t)
<1> DEFINE m == n \div k
<1>1. m \in Nat
  BY DivFacts
<1>2. CASE h >= (k - 1) * m
  <2>1. h \in Share(n, k, k - 1)
    BY <1>1, <1>2 DEF Share, ShareBegin, ShareEnd
  <2> QED BY <2>1
<1>3. CASE h < (k - 1) * m
  <2>1. m > 0
    BY <1>1, <1>3, SMT
  <2> DEFINE t == h \div m
  <2>2. t \in Nat /\ m * t <= h /\ h < m * t + m
    BY DivFacts, <2>1, <1>1
  <2> HIDE DEF t, m
  <2>3. t < k - 1
    <3>1. SUFFICES ASSUME t >= k - 1 PROVE FALSE
      BY <2>2, SMT
    <3>2. m * t >= m * (k - 1)
      BY <3>1, <2>2, <1>1, SMT
    <3> QED BY <3>2, <1>3, <2>2, <1>1, SMT
  <2>4. h \in Share(n, k, t)
    BY <2>2, <2>3, <1>1 DEF Share, ShareBegin, ShareEnd, m
  <2> QED BY <2>3, <2>4, <2>2
<1> QED BY <1>2, <1>3, <1>1, SMT

(* No item is worked on by two threads. *)
LEMMA ShareDisjoint ==
    ASSUME NEW n \in Nat, NEW k \in Nat \ {0},
           NEW t \in 0 .. k - 1, NEW u \in 0 .. k - 1,
           NEW h \in Share(n, k, t), h \in Share(n, k, u)
    PROVE  t = u
<1> DEFINE m == n \div k
<1>1. m \in Nat
  BY DivFacts
<1>2. ASSUME NEW a \in 0 .. k - 1, NEW b \in 0 .. k - 1, a < b,
             h \in Share(n, k, a), h \in Share(n, k, b)
      PROVE  FALSE
  <2>1. h < (a + 1) * m /\ h >= b * m /\ h \in Int
    BY <1>1, <1>2 DEF Share, ShareBegin, ShareEnd
  <2> HIDE DEF m
  <2>2. (a + 1) * m <= b * m
    BY <1>1, <1>2, SMT
  <2> QED
    BY <1>1, <2>1, <2>2, SMT
<1> QED
  BY <1>2

(* The shares partition the work: every item belongs to exactly one thread *)
(* (the r_offset / s_offset arithmetic of the drivers, nphj.c:799-826).    *)
THEOREM SharesPartition ==
    ASSUME NEW n \in Nat, NEW k \in Nat \ {0}, NEW h \in 0 .. n - 1
    PROVE  \E t \in 0 .. k - 1 : h \in Share(n, k, t)
               /\ \A u \in 0 .. k - 1 : h \in Share(n, k, u) => u = t
  BY ShareCover, ShareDisjoint
-----------------------------------------------------------------------------
(***************************************************************************)
(* Tallies.  A probe thread keeps the number of pairs it has found and     *)
(* their checksum; the driver adds these up.                               *)
(***************************************************************************)

(* The row ids of the pairs of rows in Q, to be added up.                  *)
PairSums(Q) == [q \in Q |-> RowId(q[1]) + RowId(q[2])]

Tally(bits, Q) == [matched |-> Cardinality(Q), checksum |-> RowidSum(bits, Q)]

(* The checksum of a set of pairs, as a sum over that set.                 *)
LEMMA RowidSumIs ==
    ASSUME NEW bits, NEW Q
    PROVE  RowidSum(bits, Q) = SumFunctionOnSet(PairSums(Q), Q) % 2^bits
<1>1. RowidSum(bits, Q) = SumFunction(PairSums(Q)) % 2^bits
  BY DEF RowidSum, PairSums
<1>2. DOMAIN PairSums(Q) = Q
  BY DEF PairSums
<1> QED BY <1>1, <1>2 DEF SumFunction

(* The answer of the join is the tally of all matching pairs.              *)
LEMMA AnswerIsTally ==
    ASSUME NEW bits, NEW r, NEW s
    PROVE  JoinAnswer(bits, r, s) = Tally(bits, Matches(r, s))
  BY DEF JoinAnswer, Tally

(* No pairs, no checksum.                                                  *)
LEMMA TallyEmpty ==
    ASSUME NEW bits \in Nat
    PROVE  Tally(bits, {}) = [matched |-> 0, checksum |-> 0]
<1> DEFINE m == 2^bits
<1>1. m \in Nat \ {0}
  BY PowerOfTwo
<1> HIDE DEF m
<1>2. 0 % m = 0
  BY <1>1
<1>3. RowidSum(bits, {}) = 0 % m
  BY RowidSumIs, SumEmpty DEF m
<1> QED BY <1>2, <1>3, FS_EmptySet DEF Tally

(* More pairs add their number and the sum of their row ids, modulo the    *)
(* width of a rowid_t.                                                     *)
LEMMA TallyAdd ==
    ASSUME NEW bits \in Nat, NEW Q \in SUBSET (Int \X Int), NEW D \in SUBSET (Int \X Int),
           IsFiniteSet(Q), IsFiniteSet(D), Q \cap D = {}
    PROVE  Tally(bits, Q \cup D) =
             [matched  |-> Tally(bits, Q).matched + Cardinality(D),
              checksum |-> (Tally(bits, Q).checksum + SumFunctionOnSet(PairSums(D), D))
                               % 2^bits]
<1> DEFINE m == 2^bits
           f == PairSums(Q \cup D)
           a == SumFunctionOnSet(PairSums(Q), Q)
           b == SumFunctionOnSet(PairSums(D), D)
<1>1. m \in Nat \ {0}
  BY PowerOfTwo
<1>2. Cardinality(Q \cup D) = Cardinality(Q) + Cardinality(D)
  <2>1. Cardinality(Q \cap D) = 0
    BY FS_EmptySet
  <2>2. Cardinality(Q \cup D) = Cardinality(Q) + Cardinality(D) - Cardinality(Q \cap D)
    BY FS_Union, Zenon
  <2> QED BY <2>1, <2>2, FS_CardinalityType
<1>3. \A q \in Q \cup D : f[q] \in Int
  BY DEF PairSums, RowId
<1>4. SumFunctionOnSet(f, Q) = a /\ a \in Int
  <2>1. \A q \in Q : PairSums(Q)[q] \in Int /\ f[q] = PairSums(Q)[q]
    BY DEF PairSums, RowId
  <2> HIDE DEF f
  <2> QED BY <2>1, SumSame, SumType
<1>5. SumFunctionOnSet(f, D) = b /\ b \in Int
  <2>1. \A q \in D : PairSums(D)[q] \in Int /\ f[q] = PairSums(D)[q]
    BY DEF PairSums, RowId
  <2> HIDE DEF f
  <2> QED BY <2>1, SumSame, SumType
<1>6. SumFunctionOnSet(f, Q \cup D) = a + b
  <2> HIDE DEF f, a, b
  <2> QED BY <1>3, <1>4, <1>5, SumUnion
<1>7. RowidSum(bits, Q \cup D) = (a + b) % m /\ RowidSum(bits, Q) = a % m
  BY <1>6, RowidSumIs
<1> HIDE DEF m, f, a, b
<1>8. ((a % m) + b) % m = (a + b) % m
  BY <1>1, <1>4, <1>5, ModAdd
<1>9. RowidSum(bits, Q \cup D) = (RowidSum(bits, Q) + b) % m
  BY <1>7, <1>8
<1> QED BY <1>2, <1>9 DEF Tally, m, b

(* The pairs of rows of two relations are finitely many.                   *)
LEMMA MatchesFinite ==
    ASSUME NEW m \in Nat, NEW n \in Nat, NEW r, NEW s,
           DOMAIN r = Rows(m), DOMAIN s = Rows(n)
    PROVE  /\ IsFiniteSet(Matches(r, s))
           /\ \A Q \in SUBSET Matches(r, s) :
                  IsFiniteSet(Q) /\ Q \in SUBSET (Int \X Int)
<1>1. IsFiniteSet(Rows(m)) /\ IsFiniteSet(Rows(n))
  BY FS_Interval DEF Rows
<1>2. IsFiniteSet(Rows(m) \X Rows(n))
  BY <1>1, FS_Product
<1>3. Matches(r, s) \subseteq Rows(m) \X Rows(n)
  BY DEF Matches
<1>4. Rows(m) \X Rows(n) \subseteq Int \X Int
  BY DEF Rows
<1> QED BY <1>2, <1>3, <1>4, FS_Subset

(* One more pair. *)
LEMMA TallyOne ==
    ASSUME NEW bits \in Nat, NEW Q \in SUBSET (Int \X Int), IsFiniteSet(Q),
           NEW i \in Int, NEW j \in Int, <<i, j>> \notin Q
    PROVE  Tally(bits, Q \cup {<<i, j>>}) =
             [matched  |-> Tally(bits, Q).matched + 1,
              checksum |-> (Tally(bits, Q).checksum + RowId(j) + RowId(i)) % 2^bits]
<1> DEFINE D == {<<i, j>>}
           f == PairSums(D)
           c == Tally(bits, Q).checksum
<1>1. f[<<i, j>>] = RowId(i) + RowId(j) /\ RowId(i) \in Int /\ RowId(j) \in Int
  BY DEF PairSums, RowId
<1>2. IsFiniteSet(D) /\ SumFunctionOnSet(f, D) = RowId(i) + RowId(j)
  <2> DEFINE x == <<i, j>>
  <2>1. f[x] \in Int /\ f[x] = RowId(i) + RowId(j)
    BY <1>1
  <2> HIDE DEF f, x
  <2>2. IsFiniteSet({x}) /\ SumFunctionOnSet(f, {x}) = f[x]
    BY <2>1, SumSingle
  <2> QED BY <2>1, <2>2 DEF x
<1>3. Cardinality(D) = 1
  BY FS_Singleton
<1>4. D \in SUBSET (Int \X Int) /\ Q \cap D = {}
  OBVIOUS
<1>5. c \in Int
  <2>1. c = SumFunctionOnSet(PairSums(Q), Q) % 2^bits
    BY RowidSumIs DEF Tally
  <2>2. \A q \in Q : PairSums(Q)[q] \in Int
    BY DEF PairSums, RowId
  <2>3. SumFunctionOnSet(PairSums(Q), Q) \in Int
    BY <2>2, SumType
  <2>4. 2^bits \in Nat \ {0}
    BY PowerOfTwo
  <2> DEFINE a == SumFunctionOnSet(PairSums(Q), Q)
             m == 2^bits
  <2> HIDE DEF a, m, c
  <2>5. c = a % m /\ a \in Int /\ m \in Nat \ {0}
    BY <2>1, <2>3, <2>4 DEF a, m
  <2> QED BY <2>5, ModFacts
<1> HIDE DEF D, f
<1>6. Tally(bits, Q \cup D) =
        [matched  |-> Tally(bits, Q).matched + Cardinality(D),
         checksum |-> (c + SumFunctionOnSet(f, D)) % 2^bits]
  BY <1>2, <1>4, TallyAdd DEF f
<1> HIDE DEF c
<1>7. c + (RowId(i) + RowId(j)) = c + RowId(j) + RowId(i)
  BY <1>1, <1>5
<1> QED BY <1>2, <1>3, <1>6, <1>7 DEF D, c

(* The pairs D, which are not in Q, are those of j with the rows found in  *)
(* the places X, no row in two of them; f gives what each place adds.      *)
NewPairs(Q, X, row, j, D, f) ==
    /\ IsFiniteSet(X)
    /\ \A x \in X : row[x] \in Int /\ <<row[x], j>> \notin Q
    /\ \A x, y \in X : row[x] = row[y] => x = y
    /\ \A x \in X : <<row[x], j>> \in D
    /\ \A q \in D : \E x \in X : q = <<row[x], j>>
    /\ DOMAIN f = X
    /\ \A x \in X : f[x] = RowId(row[x]) + RowId(j)

(* As many pairs more as there are places where a partner of j is found.   *)
LEMMA TallyMany ==
    ASSUME NEW bits \in Nat, NEW Q \in SUBSET (Int \X Int), IsFiniteSet(Q),
           NEW X, NEW row, NEW j \in Int, NEW D, NEW f, NewPairs(Q, X, row, j, D, f)
    PROVE  Tally(bits, Q \cup D) =
             [matched  |-> Tally(bits, Q).matched + Cardinality(X),
              checksum |-> (Tally(bits, Q).checksum + SumFunction(f)) % 2^bits]
<1> USE DEF NewPairs
<1> DEFINE b == [x \in X |-> <<row[x], j>>]
           g == PairSums(D)
           one == [x \in X |-> 1]
           uno == [q \in D |-> 1]
<1>1. D \in SUBSET (Int \X Int) /\ Q \cap D = {}
  OBVIOUS
<1>2. /\ b \in [X -> D]
      /\ \A x, y \in X : b[x] = b[y] => x = y
      /\ \A q \in D : \E x \in X : b[x] = q
  OBVIOUS
<1>3. \A x \in X : f[x] \in Int /\ g[b[x]] = f[x]
  BY DEF PairSums, RowId
<1>4. \A x \in X : one[x] \in Int /\ one[x] = 1 /\ uno[b[x]] = one[x]
  BY <1>2
<1>5. \A q \in D : uno[q] = 1
  OBVIOUS
<1>6. DOMAIN f = X
  OBVIOUS
<1> HIDE DEF b, g, one, uno
<1>7. IsFiniteSet(D) /\ SumFunctionOnSet(g, D) = SumFunctionOnSet(f, X)
  BY <1>2, <1>3, SumReindex
<1>8. SumFunctionOnSet(uno, D) = SumFunctionOnSet(one, X)
  BY <1>2, <1>4, SumReindex
<1>9. Cardinality(D) = Cardinality(X)
  BY <1>4, <1>5, <1>7, <1>8, SumOnes
<1>10. SumFunction(f) = SumFunctionOnSet(g, D)
  BY <1>6, <1>7 DEF SumFunction
<1>11. Tally(bits, Q \cup D) =
         [matched  |-> Tally(bits, Q).matched + Cardinality(D),
          checksum |-> (Tally(bits, Q).checksum + SumFunctionOnSet(g, D)) % 2^bits]
  BY <1>1, <1>7, TallyAdd DEF g
<1> QED BY <1>9, <1>10, <1>11

(* The driver gets the tally of all pairs by adding up those of the        *)
(* threads, when no pair was found twice.                                  *)
LEMMA TallyCollect ==
    ASSUME NEW bits \in Nat, NEW P, IsFiniteSet(P), NEW part,
           \A p \in P : part[p] \in SUBSET (Int \X Int) /\ IsFiniteSet(part[p]),
           \A p, q \in P : p # q => part[p] \cap part[q] = {},
           NEW acc, \A p \in P : acc[p] = Tally(bits, part[p])
    PROVE  [matched  |-> SumFunction([p \in P |-> acc[p].matched]),
            checksum |-> SumFunction([p \in P |-> acc[p].checksum]) % 2^bits]
               = Tally(bits, Together(part, P))
<1> DEFINE m == 2^bits
           All == Together(part, P)
           f == PairSums(All)
           one == [q \in All |-> 1]
           cnt == [p \in P |-> acc[p].matched]
           sum == [p \in P |-> SumFunctionOnSet(f, part[p])]
           chk == [p \in P |-> acc[p].checksum]
<1>1. m \in Nat \ {0}
  BY PowerOfTwo
<1>2. \A p \in P : part[p] \subseteq All
  BY DEF Together
<1>3. \A q \in All : f[q] \in Int
  <2>1. All \subseteq Int \X Int
    BY DEF Together
  <2> HIDE DEF All
  <2> QED BY <2>1 DEF PairSums, RowId
<1>4. \A p \in P : RowidSum(bits, part[p]) = SumFunctionOnSet(f, part[p]) % m
  <2> TAKE p \in P
  <2>1. \A q \in part[p] : f[q] \in Int /\ PairSums(part[p])[q] = f[q]
    BY <1>2, <1>3 DEF PairSums
  <2>2. IsFiniteSet(part[p])
    OBVIOUS
  <2> HIDE DEF f, All
  <2>3. SumFunctionOnSet(PairSums(part[p]), part[p]) = SumFunctionOnSet(f, part[p])
    BY <2>1, <2>2, SumSame
  <2> QED BY <2>3, RowidSumIs
<1>5. \A p \in P : cnt[p] = Cardinality(part[p]) /\ chk[p] = SumFunctionOnSet(f, part[p]) % m
  <2> TAKE p \in P
  <2>1. cnt[p] = acc[p].matched /\ chk[p] = acc[p].checksum
    OBVIOUS
  <2>2. acc[p].matched = Cardinality(part[p]) /\ acc[p].checksum = RowidSum(bits, part[p])
    <3>1. acc[p] = Tally(bits, part[p])
      OBVIOUS
    <3>2. /\ Tally(bits, part[p]).matched = Cardinality(part[p])
          /\ Tally(bits, part[p]).checksum = RowidSum(bits, part[p])
      BY DEF Tally
    <3> HIDE DEF m, All, f, one, cnt, sum, chk
    <3> QED BY <3>1, <3>2
  <2> QED BY <1>4, <2>1, <2>2
<1>6. \A p \in P : cnt[p] = SumFunctionOnSet(one, part[p])
  <2> TAKE p \in P
  <2>1. \A q \in part[p] : one[q] = 1
    BY <1>2
  <2> HIDE DEF one
  <2> QED BY <1>5, <2>1, SumOnes
<1>7. \A q \in All : one[q] = 1
  OBVIOUS
<1> HIDE DEF f, one, cnt, chk
<1>8. SumFunctionOnSet(cnt, P) = SumFunctionOnSet(one, All) /\ IsFiniteSet(All)
  <2>1. \A p \in P : /\ IsFiniteSet(part[p])
                     /\ \A q \in part[p] : one[q] \in Int
                     /\ cnt[p] = SumFunctionOnSet(one, part[p])
    BY <1>2, <1>6, <1>7
  <2> QED BY <2>1, SumPartition
<1>9. SumFunctionOnSet(one, All) = Cardinality(All)
  BY <1>7, <1>8, SumOnes
<1>10. SumFunctionOnSet(sum, P) = SumFunctionOnSet(f, All)
  <2>1. \A p \in P : /\ IsFiniteSet(part[p])
                     /\ \A q \in part[p] : f[q] \in Int
                     /\ sum[p] = SumFunctionOnSet(f, part[p])
    BY <1>2, <1>3
  <2> HIDE DEF sum
  <2> QED BY <2>1, SumPartition
<1>11. SumFunctionOnSet(chk, P) % m = SumFunctionOnSet(sum, P) % m
  <2>1. \A p \in P : sum[p] \in Int /\ chk[p] = sum[p] % m
    BY <1>2, <1>3, <1>5, SumType
  <2> HIDE DEF sum, m
  <2> QED BY <1>1, <2>1, SumMod
<1>12. SumFunctionOnSet(chk, P) % m = RowidSum(bits, All)
  BY <1>10, <1>11, RowidSumIs DEF f
<1>13. SumFunction(cnt) = SumFunctionOnSet(cnt, P) /\ SumFunction(chk) = SumFunctionOnSet(chk, P)
  BY DEF SumFunction, cnt, chk
<1> QED BY <1>8, <1>9, <1>12, <1>13 DEF Tally, cnt, chk
-----------------------------------------------------------------------------
(***************************************************************************)
(* Ranks.  Sorted by partition, and within a partition by row, every row   *)
(* has a rank: the number of rows ahead of it.  part[i] is the partition   *)
(* of row i.                                                               *)
(***************************************************************************)

(* The rows ahead of row i of partition p, and how many they are.          *)
Ahead(part, p, i) == {j \in DOMAIN part : part[j] < p \/ (part[j] = p /\ j < i)}
Below(part, p, i) == Cardinality(Ahead(part, p, i))

(* A number of disjoint sets has as many elements as all of them together. *)
LEMMA CardinalitySum ==
    ASSUME NEW P, IsFiniteSet(P), NEW part, NEW h,
           \A p \in P : IsFiniteSet(part[p]) /\ h[p] = Cardinality(part[p]),
           \A p, q \in P : p # q => part[p] \cap part[q] = {}
    PROVE  /\ IsFiniteSet(Together(part, P))
           /\ SumFunctionOnSet(h, P) = Cardinality(Together(part, P))
<1> DEFINE All == Together(part, P)
           one == [x \in All |-> 1]
<1>1. \A p \in P : \A x \in part[p] : x \in All
  BY DEF Together
<1>2. \A x \in All : one[x] = 1
  OBVIOUS
<1> HIDE DEF one, All
<1>3. \A p \in P : /\ IsFiniteSet(part[p])
                   /\ \A x \in part[p] : one[x] \in Int
                   /\ h[p] = SumFunctionOnSet(one, part[p])
  <2> TAKE p \in P
  <2>1. \A x \in part[p] : one[x] = 1
    BY <1>1, <1>2
  <2> QED BY <2>1, SumOnes
<1>4. IsFiniteSet(All) /\ SumFunctionOnSet(h, P) = SumFunctionOnSet(one, All)
  BY <1>3, SumPartition DEF All
<1>5. SumFunctionOnSet(one, All) = Cardinality(All)
  BY <1>2, <1>4, SumOnes
<1> QED BY <1>4, <1>5 DEF All

(* A rank is a number up to that of the rows.                              *)
LEMMA BelowType ==
    ASSUME NEW n \in Nat, NEW part \in [Rows(n) -> Nat], NEW p \in Nat, NEW i \in Int
    PROVE  /\ IsFiniteSet(Ahead(part, p, i)) /\ Ahead(part, p, i) \subseteq Rows(n)
           /\ Below(part, p, i) \in 0 .. n
<1>1. IsFiniteSet(Rows(n)) /\ Cardinality(Rows(n)) = n
  <2>1. 0 \in Int /\ n - 1 \in Int
    OBVIOUS
  <2>2. IsFiniteSet(0 .. n - 1) /\ Cardinality(0 .. n - 1) = IF 0 > n - 1 THEN 0 ELSE (n - 1) - 0 + 1
    BY <2>1, FS_Interval
  <2> QED BY <2>2 DEF Rows
<1>2. Ahead(part, p, i) \subseteq Rows(n)
  BY DEF Ahead
<1>3. IsFiniteSet(Ahead(part, p, i)) /\ Cardinality(Ahead(part, p, i)) <= n
  BY <1>1, <1>2, FS_Subset
<1>4. Cardinality(Ahead(part, p, i)) \in Nat
  BY <1>3, FS_CardinalityType
<1> QED BY <1>2, <1>3, <1>4 DEF Below

(* One row further, the rank of a partition's next row grows by one or not. *)
LEMMA BelowStep ==
    ASSUME NEW n \in Nat, NEW part \in [Rows(n) -> Nat], NEW p \in Nat, NEW i \in Rows(n)
    PROVE  Below(part, p, i + 1) = IF part[i] = p THEN Below(part, p, i) + 1
                                   ELSE Below(part, p, i)
<1>1. /\ i \in Int /\ i + 1 \in Int /\ DOMAIN part = Rows(n)
      /\ \A j \in Rows(n) : j \in Int /\ part[j] \in Nat /\ (j < i + 1 <=> j < i \/ j = i)
  BY DEF Rows
<1>2. IsFiniteSet(Ahead(part, p, i)) /\ (part[i] = p => i \notin Ahead(part, p, i))
  BY <1>1, BelowType DEF Ahead
<1>3. CASE part[i] = p
  <2>1. Ahead(part, p, i + 1) = Ahead(part, p, i) \cup {i}
    BY <1>1, <1>3 DEF Ahead
  <2>2. IsFiniteSet(Ahead(part, p, i)) /\ i \notin Ahead(part, p, i)
    BY <1>2, <1>3
  <2>3. Cardinality(Ahead(part, p, i) \cup {i}) = Cardinality(Ahead(part, p, i)) + 1
    BY <2>2, FS_AddElement
  <2> QED BY <1>3, <2>1, <2>3 DEF Below
<1>4. CASE part[i] # p
  <2>1. Ahead(part, p, i + 1) = Ahead(part, p, i)
    BY <1>1, <1>4 DEF Ahead
  <2> QED BY <1>4, <2>1 DEF Below
<1> QED BY <1>3, <1>4

(* Ranks are ordered as the partitions and the rows in them are.           *)
LEMMA BelowMono ==
    ASSUME NEW n \in Nat, NEW part \in [Rows(n) -> Nat], NEW p \in Nat, NEW o \in Nat,
           NEW i \in Int, NEW j \in 0 .. n,
           (p < o /\ i <= n) \/ (p = o /\ i <= j)
    PROVE  Below(part, p, i) <= Below(part, o, j)
<1>1. Ahead(part, p, i) \subseteq Ahead(part, o, j)
  BY DEF Ahead, Rows
<1>2. IsFiniteSet(Ahead(part, o, j))
  <2>1. j \in Int
    OBVIOUS
  <2> QED BY <2>1, BelowType
<1> QED BY <1>1, <1>2, FS_Subset DEF Below

(* One partition ends where the next one begins.                           *)
LEMMA BelowNext ==
    ASSUME NEW n \in Nat, NEW part \in [Rows(n) -> Nat], NEW p \in Nat
    PROVE  /\ Below(part, p, n) = Below(part, p + 1, 0)
           /\ Below(part, 0, 0) = 0
           /\ (\A i \in Rows(n) : part[i] <= p) => Below(part, p, n) = n
<1>1. Ahead(part, p, n) = Ahead(part, p + 1, 0)
  BY DEF Ahead, Rows
<1>2. Below(part, 0, 0) = 0
  <2>1. Ahead(part, 0, 0) = {}
    BY DEF Ahead, Rows
  <2> QED BY <2>1, FS_EmptySet DEF Below
<1>3. ASSUME \A i \in Rows(n) : part[i] <= p PROVE Below(part, p, n) = n
  <2>1. Ahead(part, p, n) = 0 .. n - 1
    BY <1>3 DEF Ahead, Rows
  <2>2. 0 \in Int /\ n - 1 \in Int
    OBVIOUS
  <2>3. Cardinality(0 .. n - 1) = IF 0 > n - 1 THEN 0 ELSE (n - 1) - 0 + 1
    BY <2>2, FS_Interval
  <2> QED BY <2>1, <2>3 DEF Below
<1> QED BY <1>1, <1>2, <1>3 DEF Below

(* The rows of partition p from row i up to row j, row j left out.         *)
Slice(part, p, i, j) == {x \in i .. j - 1 : part[x] = p}

(* Between two rows lie the rows of the partition between them.            *)
LEMMA BelowCount ==
    ASSUME NEW n \in Nat, NEW part \in [Rows(n) -> Nat], NEW p \in Nat,
           NEW i \in 0 .. n, NEW j \in 0 .. n, i <= j
    PROVE  /\ IsFiniteSet(Slice(part, p, i, j))
           /\ Below(part, p, j) = Below(part, p, i) + Cardinality(Slice(part, p, i, j))
<1> DEFINE D == Slice(part, p, i, j)
<1>1. i \in Int /\ j \in Int /\ D \subseteq Rows(n)
  BY DEF Rows, Slice
<1>2. Ahead(part, p, j) = Ahead(part, p, i) \cup D /\ Ahead(part, p, i) \cap D = {}
  BY DEF Ahead, Rows, Slice
<1>3. IsFiniteSet(Ahead(part, p, i)) /\ IsFiniteSet(Ahead(part, p, j))
  BY <1>1, BelowType
<1>4. IsFiniteSet(D)
  BY <1>2, <1>3, FS_Subset
<1> HIDE DEF D
<1>5. Cardinality(Ahead(part, p, i) \cup D) =
         Cardinality(Ahead(part, p, i)) + Cardinality(D) - Cardinality(Ahead(part, p, i) \cap D)
  BY <1>3, <1>4, FS_Union
<1>6. Cardinality(Ahead(part, p, i)) \in Nat /\ Cardinality(D) \in Nat
  BY <1>3, <1>4, FS_CardinalityType
<1>7. Below(part, p, j) = Below(part, p, i) + Cardinality(D)
  BY <1>2, <1>5, <1>6, FS_EmptySet DEF Below
<1> QED BY <1>4, <1>7 DEF D

(* Row i belongs to thread t and to none before it, or after.              *)
LEMMA ShareOrder ==
    ASSUME NEW n \in Nat, NEW k \in Nat \ {0}, NEW t \in 0 .. k - 1, NEW u \in 0 .. k - 1, t < u
    PROVE  ShareEnd(n, k, t) <= ShareBegin(n, k, u)
<1> DEFINE m == n \div k
<1>1. m \in Nat
  BY DivFacts
<1>2. ShareEnd(n, k, t) = (t + 1) * m /\ ShareBegin(n, k, u) = u * m
  BY DEF ShareBegin, ShareEnd
<1> HIDE DEF m
<1>3. (t + 1) * m <= u * m
  BY <1>1, SMT
<1> QED BY <1>2, <1>3

(* In h are the counts of the rows in S by partition, up to partition p.   *)
ByPartition(S, part, p, h) ==
    \A o \in 0 .. p : h[o] = Cardinality({i \in S : part[i] = o})

RowsUpTo(S, part, p) == {i \in S : part[i] <= p}

(* The prefix sums of a share's counts.                                    *)
LEMMA PrefixIs ==
    ASSUME NEW S, IsFiniteSet(S), NEW part, \A i \in S : part[i] \in Nat, NEW p \in Nat,
           NEW h, ByPartition(S, part, p, h)
    PROVE  SumFunctionOnSet(h, 0 .. p) = Cardinality(RowsUpTo(S, part, p))
<1> USE DEF ByPartition, RowsUpTo
<1> DEFINE in == [o \in 0 .. p |-> {i \in S : part[i] = o}]
<1>1. \A o \in 0 .. p : IsFiniteSet(in[o]) /\ h[o] = Cardinality(in[o])
  <2> TAKE o \in 0 .. p
  <2>1. in[o] \in SUBSET S
    OBVIOUS
  <2>2. IsFiniteSet(in[o])
    <3> HIDE DEF in
    <3> QED BY <2>1, FS_Subset
  <2> QED BY <2>2
<1>2. \A o, q \in 0 .. p : o # q => in[o] \cap in[q] = {}
  OBVIOUS
<1>3. Together(in, 0 .. p) = {i \in S : part[i] <= p}
  BY DEF Together
<1>4. IsFiniteSet(0 .. p)
  <2>1. 0 \in Int /\ p \in Int
    OBVIOUS
  <2> QED BY <2>1, FS_Interval
<1> DEFINE O == 0 .. p
<1> HIDE DEF in, O
<1>5. SumFunctionOnSet(h, O) = Cardinality(Together(in, O))
  BY <1>1, <1>2, <1>4, CardinalitySum DEF O
<1> QED BY <1>3, <1>5 DEF O

(* The shares of the threads in T, as far as part[i] <= p.                 *)
CountedBy(n, k, part, T, p) == {i \in Rows(n) : part[i] <= p /\ \E u \in T : i \in Share(n, k, u)}

(* The sum of what some threads have counted.                              *)
LEMMA SharesSum ==
    ASSUME NEW n \in Nat, NEW k \in Nat \ {0}, NEW part \in [Rows(n) -> Nat], NEW p \in Int,
           NEW T \in SUBSET (0 .. k - 1), NEW h,
           \A u \in T : h[u] = Cardinality({i \in Share(n, k, u) : part[i] <= p})
    PROVE  /\ IsFiniteSet(CountedBy(n, k, part, T, p))
           /\ SumFunctionOnSet(h, T) = Cardinality(CountedBy(n, k, part, T, p))
<1> DEFINE in == [u \in T |-> {i \in Share(n, k, u) : part[i] <= p}]
<1>0. \A u \in T : u \in 0 .. k - 1 /\ Share(n, k, u) \subseteq Rows(n)
  BY ShareWithin DEF Rows
<1>1. \A u \in T : IsFiniteSet(in[u]) /\ h[u] = Cardinality(in[u])
  <2> TAKE u \in T
  <2>1. in[u] \subseteq 0 .. n - 1
    BY <1>0 DEF Rows
  <2>2. 0 \in Int /\ n - 1 \in Int
    OBVIOUS
  <2>3. IsFiniteSet(0 .. n - 1)
    BY <2>2, FS_Interval
  <2>4. IsFiniteSet(in[u])
    <3> HIDE DEF in
    <3> QED BY <2>1, <2>3, FS_Subset
  <2> QED BY <2>4
<1>2. \A u, v \in T : u # v => in[u] \cap in[v] = {}
  <2> SUFFICES ASSUME NEW u \in T, NEW v \in T, NEW i \in in[u] \cap in[v] PROVE u = v
    OBVIOUS
  <2>1. i \in Share(n, k, u) /\ i \in Share(n, k, v)
    OBVIOUS
  <2> HIDE DEF in
  <2> QED BY <1>0, <2>1, ShareDisjoint
<1>3. Together(in, T) = CountedBy(n, k, part, T, p)
  BY <1>0 DEF Together, CountedBy
<1>4. IsFiniteSet(T)
  <2>1. 0 \in Int /\ k - 1 \in Int
    OBVIOUS
  <2>2. IsFiniteSet(0 .. k - 1)
    BY <2>1, FS_Interval
  <2> QED BY <2>2, FS_Subset
<1> HIDE DEF in
<1>5. IsFiniteSet(Together(in, T)) /\ SumFunctionOnSet(h, T) = Cardinality(Together(in, T))
  BY <1>1, <1>2, <1>4, CardinalitySum
<1> QED BY <1>3, <1>5

(* In h the threads in T have the counts of their rows up to partition p.  *)
HoldCounts(n, k, part, T, p, h) ==
    \A u \in T : h[u] = Cardinality({i \in Share(n, k, u) : part[i] <= p})

(* The threads before t have counted their rows up to partition p in g, the *)
(* others theirs up to p - 1 in h.                                         *)
CountsFor(n, k, part, p, t, g, h) ==
    /\ n \in Nat /\ k \in Nat \ {0} /\ part \in [Rows(n) -> Nat]
    /\ p \in Nat /\ t \in 0 .. k - 1
    /\ HoldCounts(n, k, part, 0 .. t - 1, p, g)
    /\ p # 0 => HoldCounts(n, k, part, t .. k - 1, p - 1, h)

SumOfCounts(k, p, t, g, h) ==
    SumFunctionOnSet(g, 0 .. t - 1)
    + (IF p = 0 THEN 0 ELSE SumFunctionOnSet(h, t .. k - 1))

(* What the threads before t have counted up to partition p, and the others *)
(* up to p - 1, is what is ahead of thread t's rows of partition p.        *)
LEMMA StartIs ==
    ASSUME NEW n, NEW k, NEW part, NEW p, NEW t, NEW g, NEW h,
           CountsFor(n, k, part, p, t, g, h)
    PROVE  SumOfCounts(k, p, t, g, h) = Below(part, p, ShareBegin(n, k, t))
<1> DEFINE A == CountedBy(n, k, part, 0 .. t - 1, p)
           B == CountedBy(n, k, part, t .. k - 1, p - 1)
           b == ShareBegin(n, k, t)
<1> USE DEF CountsFor
<1>0. b \in 0 .. n /\ 0 .. t - 1 \in SUBSET (0 .. k - 1) /\ t .. k - 1 \in SUBSET (0 .. k - 1)
  BY ShareBeginInRange
<1>1. \A i \in Rows(n), u \in 0 .. k - 1 : i \in Share(n, k, u) => (u < t <=> i < b)
  <2> SUFFICES ASSUME NEW i \in Rows(n), NEW u \in 0 .. k - 1, i \in Share(n, k, u)
               PROVE  u < t <=> i < b
    OBVIOUS
  <2>1. ShareBegin(n, k, u) <= i /\ i < ShareEnd(n, k, u) /\ i \in Int
    <3>1. ShareEnd(n, k, u) \in 0 .. n /\ ShareBegin(n, k, u) \in 0 .. n
      BY ShareInRange, ShareBeginInRange
    <3> QED BY <3>1 DEF Share, Rows
  <2>2. CASE u < t
    <3>1. ShareEnd(n, k, u) <= b
      BY <2>2, ShareOrder
    <3>2. ShareEnd(n, k, u) \in 0 .. n
      BY ShareInRange
    <3> QED BY <1>0, <2>1, <2>2, <3>1, <3>2
  <2>3. CASE u = t
    BY <1>0, <2>1, <2>3
  <2>4. CASE t < u
    <3>1. ShareEnd(n, k, t) <= ShareBegin(n, k, u) /\ b <= ShareEnd(n, k, t)
      BY <2>4, ShareOrder, ShareInRange
    <3>2. ShareEnd(n, k, t) \in 0 .. n /\ ShareBegin(n, k, u) \in 0 .. n
      BY ShareInRange, ShareBeginInRange
    <3> QED BY <1>0, <2>1, <2>4, <3>1, <3>2
  <2> QED BY <2>2, <2>3, <2>4
<1>2. \A i \in Rows(n) : \E u \in 0 .. k - 1 : i \in Share(n, k, u)
  BY ShareCover DEF Rows
<1>3. A = {i \in Rows(n) : part[i] <= p /\ i < b}
  <2>1. \A i \in Rows(n) : (\E u \in 0 .. t - 1 : i \in Share(n, k, u)) <=> i < b
    <3> TAKE i \in Rows(n)
    <3>1. PICK u \in 0 .. k - 1 : i \in Share(n, k, u)
      BY <1>2
    <3>2. u < t => u \in 0 .. t - 1
      OBVIOUS
    <3> HIDE DEF b
    <3> QED BY <1>0, <1>1, <3>1, <3>2
  <2> HIDE DEF b
  <2> QED BY <2>1 DEF CountedBy
<1>4. B = {i \in Rows(n) : part[i] <= p - 1 /\ ~(i < b)}
  <2>1. \A i \in Rows(n) : (\E u \in t .. k - 1 : i \in Share(n, k, u)) <=> ~(i < b)
    <3> TAKE i \in Rows(n)
    <3>1. PICK u \in 0 .. k - 1 : i \in Share(n, k, u)
      BY <1>2
    <3>2. ~(u < t) => u \in t .. k - 1
      OBVIOUS
    <3>3. \A v \in t .. k - 1 : v \in 0 .. k - 1 /\ ~(v < t)
      OBVIOUS
    <3> HIDE DEF b
    <3> QED BY <1>0, <1>1, <3>1, <3>2, <3>3
  <2> HIDE DEF b
  <2> QED BY <2>1 DEF CountedBy
<1>5. Ahead(part, p, b) = A \cup B /\ A \cap B = {}
  <2> HIDE DEF A, B, b
  <2>1. \A i \in Rows(n) : i \in Int /\ part[i] \in Nat
    BY DEF Rows
  <2> QED BY <1>0, <1>3, <1>4, <2>1 DEF Ahead
<1>6. IsFiniteSet(A) /\ SumFunctionOnSet(g, 0 .. t - 1) = Cardinality(A)
  <2> DEFINE T == 0 .. t - 1
  <2>1. T \in SUBSET (0 .. k - 1) /\ p \in Int
    BY <1>0
  <2>2. \A u \in T : g[u] = Cardinality({i \in Share(n, k, u) : part[i] <= p})
    BY DEF HoldCounts
  <2> HIDE DEF T
  <2>3. /\ IsFiniteSet(CountedBy(n, k, part, T, p))
        /\ SumFunctionOnSet(g, T) = Cardinality(CountedBy(n, k, part, T, p))
    BY <2>1, <2>2, SharesSum
  <2> QED BY <2>3 DEF T
<1>7. /\ IsFiniteSet(B)
      /\ p # 0 => SumFunctionOnSet(h, t .. k - 1) = Cardinality(B)
      /\ p = 0 => B = {}
  <2>1. CASE p # 0
    <3> DEFINE T == t .. k - 1
               q == p - 1
    <3>1. T \in SUBSET (0 .. k - 1) /\ q \in Int
      BY <1>0
    <3>2. \A u \in T : h[u] = Cardinality({i \in Share(n, k, u) : part[i] <= q})
      BY <2>1 DEF HoldCounts
    <3> HIDE DEF T, q, A, B, b
    <3>3. \A z \in Int : (\A u \in T : h[u] = Cardinality({i \in Share(n, k, u) : part[i] <= z}))
             => /\ IsFiniteSet(CountedBy(n, k, part, T, z))
                /\ SumFunctionOnSet(h, T) = Cardinality(CountedBy(n, k, part, T, z))
      BY <3>1, SharesSum
    <3>4. /\ IsFiniteSet(CountedBy(n, k, part, T, q))
          /\ SumFunctionOnSet(h, T) = Cardinality(CountedBy(n, k, part, T, q))
      BY <3>1, <3>2, <3>3
    <3> QED BY <2>1, <3>4 DEF T, q, B
  <2>2. CASE p = 0
    <3>1. B = {}
      BY <1>4, <2>2
    <3> QED BY <2>2, <3>1, FS_EmptySet
  <2> QED BY <2>1, <2>2
<1> HIDE DEF A, B, b
<1>8. Cardinality(A \cup B) = Cardinality(A) + Cardinality(B) - Cardinality(A \cap B)
  BY <1>6, <1>7, FS_Union
<1>9. Cardinality(A) \in Nat /\ Cardinality(B) \in Nat
  BY <1>6, <1>7, FS_CardinalityType
<1>10. Below(part, p, b) = Cardinality(A) + Cardinality(B)
  <2>1. Cardinality(A \cap B) = 0
    BY <1>5, FS_EmptySet
  <2>2. Below(part, p, b) = Cardinality(A \cup B)
    BY <1>5 DEF Below
  <2> QED BY <1>8, <1>9, <2>1, <2>2
<1>11. SumOfCounts(k, p, t, g, h) = Cardinality(A) + (IF p = 0 THEN 0 ELSE Cardinality(B))
  BY <1>6, <1>7 DEF SumOfCounts
<1>12. p = 0 => Cardinality(B) = 0
  BY <1>7, FS_EmptySet
<1> QED BY <1>9, <1>10, <1>11, <1>12 DEF b
-----------------------------------------------------------------------------
(***************************************************************************)
(* Places.  When the partitions lie behind each other, pad positions apart, *)
(* and the rows of each in their order, a row's place is its rank and the  *)
(* padding up to its partition.                                            *)
(***************************************************************************)

(* Where the first of the rows of partition p from row i on goes.          *)
PlaceIn(part, pad, p, i) == Below(part, p, i) + p * pad

(* n rows in f partitions.                                                 *)
Layout(n, f, pad, part) ==
    n \in Nat /\ f \in Nat \ {0} /\ pad \in Nat /\ part \in [Rows(n) -> 0 .. f - 1]

(* What a layout consists of.                                              *)
LEMMA LayoutFacts ==
    ASSUME NEW n, NEW f, NEW pad, NEW part, Layout(n, f, pad, part)
    PROVE  /\ n \in Nat /\ f \in Nat \ {0} /\ f - 1 \in Nat /\ pad \in Nat
           /\ part \in [Rows(n) -> Nat]
           /\ \A i \in Rows(n) : /\ part[i] \in 0 .. f - 1
                                 /\ i \in 0 .. n /\ i + 1 \in 0 .. n
           /\ \A p \in 0 .. f - 1 : p \in Nat /\ p <= f - 1
  BY DEF Layout, Rows

(* A product grows with its factor.                                        *)
LEMMA TimesMono ==
    ASSUME NEW a \in Nat, NEW b \in Nat, NEW c \in Nat, a <= b
    PROVE  a * c \in Nat /\ b * c \in Nat /\ a * c <= b * c
  OBVIOUS

(* A place is a number.                                                    *)
LEMMA PlaceInType ==
    ASSUME NEW n, NEW f, NEW pad, NEW part, Layout(n, f, pad, part),
           NEW p \in 0 .. f - 1, NEW i \in 0 .. n
    PROVE  /\ Below(part, p, i) \in 0 .. n
           /\ PlaceIn(part, pad, p, i) \in Nat
           /\ (f - 1) * pad \in Nat
           /\ PlaceIn(part, pad, p, i) <= n + (f - 1) * pad
<1>0. n \in Nat /\ part \in [Rows(n) -> Nat] /\ p \in Nat /\ f - 1 \in Nat /\ p <= f - 1 /\ pad \in Nat /\ i \in Int
  BY LayoutFacts
<1>1. Below(part, p, i) \in 0 .. n
  BY <1>0, BelowType
<1> DEFINE g == f - 1
<1> HIDE DEF g
<1>2. p \in Nat /\ g \in Nat /\ p <= g /\ pad \in Nat
  BY <1>0 DEF g
<1>3. p * pad \in Nat /\ g * pad \in Nat /\ p * pad <= g * pad
  BY <1>2, TimesMono
<1> QED BY <1>0, <1>1, <1>3 DEF PlaceIn, g

(* The places are ordered as the partitions and the rows in them.          *)
LEMMA PlaceInMono ==
    ASSUME NEW n, NEW f, NEW pad, NEW part, Layout(n, f, pad, part),
           NEW p \in 0 .. f - 1, NEW o \in 0 .. f - 1, NEW i \in 0 .. n, NEW j \in 0 .. n,
           p < o \/ (p = o /\ i <= j)
    PROVE  PlaceIn(part, pad, p, i) <= PlaceIn(part, pad, o, j)
<1>0. /\ n \in Nat /\ part \in [Rows(n) -> Nat] /\ p \in Nat /\ o \in Nat /\ pad \in Nat
      /\ p <= o
  BY LayoutFacts
<1>1. Below(part, p, i) <= Below(part, o, j)
  BY <1>0, BelowMono
<1>2. p * pad \in Nat /\ o * pad \in Nat /\ p * pad <= o * pad
  BY <1>0, TimesMono
<1>3. Below(part, p, i) \in 0 .. n /\ Below(part, o, j) \in 0 .. n
  BY PlaceInType
<1> QED BY <1>0, <1>1, <1>2, <1>3 DEF PlaceIn

(* The padding lies between one partition and the next.                    *)
LEMMA PlaceInGap ==
    ASSUME NEW n, NEW f, NEW pad, NEW part, Layout(n, f, pad, part),
           NEW p \in 0 .. f - 1, NEW o \in 0 .. f - 1, NEW i \in 0 .. n, NEW j \in 0 .. n, p < o
    PROVE  PlaceIn(part, pad, p, i) + pad <= PlaceIn(part, pad, o, j)
<1>0. /\ n \in Nat /\ part \in [Rows(n) -> Nat] /\ p \in Nat /\ o \in Nat /\ pad \in Nat
  BY LayoutFacts
<1>1. Below(part, p, i) <= Below(part, o, j)
  BY <1>0, BelowMono
<1>2. p * pad \in Nat /\ o * pad \in Nat /\ p * pad + pad <= o * pad
  <2> DEFINE q == p + 1
  <2>1. q \in Nat /\ q <= o /\ q * pad = p * pad + pad
    BY <1>0
  <2> HIDE DEF q
  <2>2. q * pad \in Nat /\ o * pad \in Nat /\ q * pad <= o * pad
    BY <1>0, <2>1, TimesMono
  <2>3. p * pad \in Nat
    BY <1>0, TimesMono
  <2> QED BY <2>1, <2>2, <2>3
<1>3. Below(part, p, i) \in 0 .. n /\ Below(part, o, j) \in 0 .. n
  BY PlaceInType
<1> QED BY <1>0, <1>1, <1>2, <1>3 DEF PlaceIn

(* Behind the place of a row comes the place of the next one.              *)
LEMMA PlaceInStep ==
    ASSUME NEW n, NEW f, NEW pad, NEW part, Layout(n, f, pad, part),
           NEW i \in Rows(n), NEW p \in 0 .. f - 1
    PROVE  PlaceIn(part, pad, p, i + 1) = IF part[i] = p THEN PlaceIn(part, pad, p, i) + 1
                                          ELSE PlaceIn(part, pad, p, i)
<1>0. n \in Nat /\ part \in [Rows(n) -> Nat] /\ p \in Nat /\ i \in 0 .. n /\ pad \in Nat
  BY LayoutFacts
<1>1. Below(part, p, i + 1) = IF part[i] = p THEN Below(part, p, i) + 1 ELSE Below(part, p, i)
  BY <1>0, BelowStep
<1>2. Below(part, p, i) \in 0 .. n /\ p * pad \in Nat
  BY <1>0, PlaceInType, TimesMono
<1> QED BY <1>0, <1>1, <1>2 DEF PlaceIn

(* No two rows have the same place.                                        *)
LEMMA PlaceInOwn ==
    ASSUME NEW n, NEW f, NEW pad, NEW part, Layout(n, f, pad, part), NEW i \in Rows(n)
    PROVE  /\ PlaceIn(part, pad, part[i], i) \in 0 .. n + (f - 1) * pad - 1
           /\ \A j \in Rows(n) :
                 PlaceIn(part, pad, part[i], i) = PlaceIn(part, pad, part[j], j) => i = j
<1> DEFINE P(k) == PlaceIn(part, pad, part[k], k)
<1>0. n \in Nat /\ (f - 1) * pad \in Nat
  BY LayoutFacts, PlaceInType
<1>1. \A k \in Rows(n) : /\ part[k] \in 0 .. f - 1 /\ k \in 0 .. n /\ k + 1 \in 0 .. n
                         /\ P(k) \in Nat
                         /\ PlaceIn(part, pad, part[k], k + 1) = P(k) + 1
                         /\ PlaceIn(part, pad, part[k], k + 1) <= n + (f - 1) * pad
  BY LayoutFacts, PlaceInStep, PlaceInType
<1>2. P(i) \in 0 .. n + (f - 1) * pad - 1
  <2> DEFINE m == (f - 1) * pad
  <2>1. P(i) \in Nat /\ P(i) + 1 <= n + m
    BY <1>1
  <2> HIDE DEF P, m
  <2>2. m \in Nat
    BY <1>0 DEF m
  <2>3. P(i) \in 0 .. n + m - 1
    BY <1>0, <2>1, <2>2
  <2> QED BY <2>3 DEF m
<1>3. ASSUME NEW k \in Rows(n), NEW l \in Rows(n),
             part[k] < part[l] \/ (part[k] = part[l] /\ k < l)
      PROVE  P(k) < P(l)
  <2>1. /\ k \in Int /\ l \in Int
        /\ part[k] < part[l] \/ (part[k] = part[l] /\ k + 1 <= l)
    BY <1>1, <1>3
  <2>2. PlaceIn(part, pad, part[k], k + 1) <= P(l)
    BY <1>1, <2>1, PlaceInMono
  <2> QED BY <1>1, <2>2
<1>4. ASSUME NEW j \in Rows(n), i # j PROVE P(i) # P(j)
  <2>1. part[i] \in Int /\ part[j] \in Int /\ i \in Int /\ j \in Int
    BY <1>1
  <2>2. \/ part[i] < part[j] \/ (part[i] = part[j] /\ i < j)
        \/ part[j] < part[i] \/ (part[j] = part[i] /\ j < i)
    BY <1>4, <2>1
  <2>3. P(i) < P(j) \/ P(j) < P(i)
    BY <1>3, <2>2
  <2> HIDE DEF P
  <2> QED BY <1>1, <2>3
<1> QED BY <1>2, <1>4

(* Every place from that of row b on and before that of row e is the place *)
(* of a row between them.                                                  *)
LEMMA PlaceInOnto ==
    ASSUME NEW n, NEW f, NEW pad, NEW part, Layout(n, f, pad, part),
           NEW p \in 0 .. f - 1, NEW b \in 0 .. n, NEW e \in 0 .. n, NEW q \in Int,
           PlaceIn(part, pad, p, b) <= q, q < PlaceIn(part, pad, p, e)
    PROVE  \E i \in Rows(n) : b <= i /\ i < e /\ part[i] = p /\ PlaceIn(part, pad, p, i) = q
<1> SUFFICES ASSUME \A i \in Rows(n) : b <= i /\ i < e /\ part[i] = p
                                       => PlaceIn(part, pad, p, i) # q
             PROVE  FALSE
  OBVIOUS
<1> DEFINE T == {m \in Nat : b + m <= e => PlaceIn(part, pad, p, b + m) <= q}
<1>0. n \in Nat /\ b \in Nat /\ e \in Nat /\ e <= n /\ b + 0 = b
  BY LayoutFacts
<1>1. 0 \in T
  BY <1>0
<1>2. ASSUME NEW m \in Nat, m \in T PROVE m + 1 \in T
  <2> SUFFICES ASSUME b + (m + 1) <= e PROVE PlaceIn(part, pad, p, b + (m + 1)) <= q
    BY <1>2
  <2> DEFINE i == b + m
  <2>1. i \in Rows(n) /\ i \in 0 .. n /\ b <= i /\ i < e /\ PlaceIn(part, pad, p, i) <= q /\ i + 1 = b + (m + 1)
    BY <1>0, <1>2 DEF Rows
  <2> HIDE DEF i
  <2>2. PlaceIn(part, pad, p, i) \in Nat
    BY <2>1, PlaceInType
  <2>3. PlaceIn(part, pad, p, i + 1) = IF part[i] = p THEN PlaceIn(part, pad, p, i) + 1
                                       ELSE PlaceIn(part, pad, p, i)
    BY <2>1, PlaceInStep
  <2>4. PlaceIn(part, pad, p, i + 1) <= q
    BY <2>1, <2>2, <2>3
  <2> QED BY <2>1, <2>4
<1>3. Nat \subseteq T
  <2> HIDE DEF T
  <2> QED BY <1>1, <1>2, NatSetInduction
<1>4. b < e
  <2>1. e <= b => PlaceIn(part, pad, p, e) <= PlaceIn(part, pad, p, b)
    BY PlaceInMono
  <2>2. PlaceIn(part, pad, p, e) \in Nat /\ PlaceIn(part, pad, p, b) \in Nat
    BY PlaceInType
  <2> QED BY <1>0, <2>1, <2>2
<1> DEFINE d == e - b
<1>5. d \in T /\ d \in Nat /\ b + d = e
  <2>1. d \in Nat /\ b + d = e
    BY <1>0, <1>4
  <2> HIDE DEF T
  <2> QED BY <1>3, <2>1
<1>6. PlaceIn(part, pad, p, e) <= q
  <2> HIDE DEF d
  <2> QED BY <1>0, <1>5
<1>7. PlaceIn(part, pad, p, e) \in Nat
  BY PlaceInType
<1> QED BY <1>6, <1>7
-----------------------------------------------------------------------------
(***************************************************************************)
(* What a thread counts of its share.                                      *)
(***************************************************************************)

(* The rows of partition p in the share of thread t, and those up to p.    *)
ShareIn(n, k, part, t, p)   == {i \in Share(n, k, t) : part[i] = p}
ShareUpTo(n, k, part, t, p) == {i \in Share(n, k, t) : part[i] <= p}

(* The bounds of a share, one behind the other.                            *)
LEMMA ShareBounds ==
    ASSUME NEW n \in Nat, NEW k \in Nat \ {0}, NEW t \in 0 .. k - 1
    PROVE  /\ ShareBegin(n, k, t) \in 0 .. n /\ ShareEnd(n, k, t) \in 0 .. n
           /\ ShareBegin(n, k, t) <= ShareEnd(n, k, t)
           /\ Share(n, k, t) = ShareBegin(n, k, t) .. ShareEnd(n, k, t) - 1
           /\ Share(n, k, t) \subseteq Rows(n) /\ IsFiniteSet(Share(n, k, t))
           /\ \A u \in 0 .. k - 1 : t < u => ShareEnd(n, k, t) <= ShareBegin(n, k, u)
<1>1. Share(n, k, t) \subseteq 0 .. n - 1
  BY ShareWithin
<1>2. 0 \in Int /\ n - 1 \in Int
  OBVIOUS
<1>3. IsFiniteSet(0 .. n - 1)
  BY <1>2, FS_Interval
<1>4. IsFiniteSet(Share(n, k, t))
  BY <1>1, <1>3, FS_Subset
<1> QED BY <1>1, <1>4, ShareInRange, ShareBeginInRange, ShareOrder DEF Share, Rows

(* The counts of a share and the ranks at its ends.                        *)
LEMMA ShareOfCount ==
    ASSUME NEW n, NEW f, NEW pad, NEW part, Layout(n, f, pad, part),
           NEW k \in Nat \ {0}, NEW t \in 0 .. k - 1, NEW p \in 0 .. f - 1
    PROVE  /\ IsFiniteSet(ShareIn(n, k, part, t, p))
           /\ Cardinality(ShareIn(n, k, part, t, p)) \in 0 .. n
           /\ Below(part, p, ShareEnd(n, k, t)) =
                Below(part, p, ShareBegin(n, k, t)) + Cardinality(ShareIn(n, k, part, t, p))
<1> DEFINE b == ShareBegin(n, k, t)
           e == ShareEnd(n, k, t)
           S == ShareIn(n, k, part, t, p)
<1>1. n \in Nat /\ part \in [Rows(n) -> Nat] /\ p \in Nat
  BY LayoutFacts
<1>2. b \in 0 .. n /\ e \in 0 .. n /\ b <= e /\ S = Slice(part, p, b, e)
  BY <1>1, ShareBounds DEF ShareIn, Slice
<1> HIDE DEF b, e
<1>3. /\ IsFiniteSet(Slice(part, p, b, e))
      /\ Below(part, p, e) = Below(part, p, b) + Cardinality(Slice(part, p, b, e))
  BY <1>1, <1>2, BelowCount
<1>4. Below(part, p, e) \in 0 .. n /\ Below(part, p, b) \in 0 .. n
  BY <1>2, PlaceInType
<1> HIDE DEF S
<1>5. Cardinality(S) \in Nat
  BY <1>2, <1>3, FS_CardinalityType
<1> QED BY <1>1, <1>2, <1>3, <1>4, <1>5 DEF b, e, S

(* The prefix sums of the counts of a share.                               *)
LEMMA ShareOfPrefix ==
    ASSUME NEW n, NEW f, NEW pad, NEW part, Layout(n, f, pad, part),
           NEW k \in Nat \ {0}, NEW t \in 0 .. k - 1, NEW p \in 0 .. f - 1
    PROVE  /\ SumFunction([o \in 0 .. p |-> Cardinality(ShareIn(n, k, part, t, o))])
                = Cardinality(ShareUpTo(n, k, part, t, p))
           /\ Cardinality(ShareUpTo(n, k, part, t, p)) \in 0 .. n
<1> DEFINE h == [o \in 0 .. p |-> Cardinality(ShareIn(n, k, part, t, o))]
           S == Share(n, k, t)
           U == ShareUpTo(n, k, part, t, p)
<1>1. n \in Nat /\ part \in [Rows(n) -> Nat] /\ p \in Nat
  BY LayoutFacts
<1>2. IsFiniteSet(S) /\ S \subseteq Rows(n) /\ \A i \in S : part[i] \in Nat
  BY <1>1, ShareBounds
<1>3. ByPartition(S, part, p, h)
  BY DEF ShareIn, ByPartition
<1>4. SumFunction(h) = SumFunctionOnSet(h, 0 .. p)
  BY DEF SumFunction
<1>5. U = RowsUpTo(S, part, p)
  BY DEF ShareUpTo, RowsUpTo
<1> HIDE DEF h, S, U
<1>6. SumFunctionOnSet(h, 0 .. p) = Cardinality(RowsUpTo(S, part, p))
  BY <1>1, <1>2, <1>3, PrefixIs
<1>7. Cardinality(U) \in 0 .. n
  <2>1. U \subseteq 0 .. n - 1
    BY <1>2, <1>5 DEF Rows, RowsUpTo
  <2>2. 0 \in Int /\ n - 1 \in Int /\ n \in Nat
    BY <1>1
  <2>3. IsFiniteSet(0 .. n - 1) /\ Cardinality(0 .. n - 1) = IF 0 > n - 1 THEN 0 ELSE (n - 1) - 0 + 1
    BY <2>2, FS_Interval
  <2>4. IsFiniteSet(U) /\ Cardinality(U) <= Cardinality(0 .. n - 1)
    BY <2>1, <2>3, FS_Subset
  <2>5. Cardinality(U) \in Nat
    BY <2>4, FS_CardinalityType
  <2> QED BY <2>2, <2>3, <2>4, <2>5
<1> QED BY <1>4, <1>5, <1>6, <1>7 DEF h, U

(* What is counted in front of a share: up to partition p by the threads   *)
(* before it, up to p - 1 by the others.                                   *)
StartIn(k, prefix, t, p) ==
    SumFunction([u \in 0 .. t - 1 |-> prefix[u][p]])
    + (IF p = 0 THEN 0 ELSE SumFunction([u \in t .. k - 1 |-> prefix[u][p - 1]]))

(* Where the counts of all threads send the first row of a share.          *)
LEMMA ShareStart ==
    ASSUME NEW n, NEW f, NEW pad, NEW part, Layout(n, f, pad, part),
           NEW k \in Nat \ {0}, NEW t \in 0 .. k - 1, NEW p \in 0 .. f - 1, NEW prefix,
           \A u \in 0 .. k - 1, o \in 0 .. f - 1 :
               prefix[u][o] = Cardinality(ShareUpTo(n, k, part, u, o))
    PROVE  StartIn(k, prefix, t, p) = Below(part, p, ShareBegin(n, k, t))
<1> DEFINE g == [u \in 0 .. t - 1 |-> prefix[u][p]]
           h == [u \in t .. k - 1 |-> prefix[u][p - 1]]
<1>0. n \in Nat /\ part \in [Rows(n) -> Nat] /\ p \in Nat /\ p <= f - 1 /\ f - 1 \in Nat
  BY LayoutFacts
<1>1. HoldCounts(n, k, part, 0 .. t - 1, p, g)
  BY <1>0 DEF ShareUpTo, HoldCounts
<1>2. p # 0 => HoldCounts(n, k, part, t .. k - 1, p - 1, h)
  <2>1. p # 0 => p - 1 \in 0 .. f - 1
    BY <1>0
  <2> QED BY <1>0, <2>1 DEF ShareUpTo, HoldCounts
<1>3. SumFunction(g) = SumFunctionOnSet(g, 0 .. t - 1) /\ SumFunction(h) = SumFunctionOnSet(h, t .. k - 1)
  BY DEF SumFunction
<1> HIDE DEF g, h
<1>4. CountsFor(n, k, part, p, t, g, h)
  BY <1>0, <1>1, <1>2 DEF CountsFor
<1>5. SumOfCounts(k, p, t, g, h) = Below(part, p, ShareBegin(n, k, t))
  BY <1>4, StartIs
<1>6. SumFunction(g) + (IF p = 0 THEN 0 ELSE SumFunction(h)) = Below(part, p, ShareBegin(n, k, t))
  BY <1>3, <1>5 DEF SumOfCounts
<1> QED BY <1>6 DEF g, h, StartIn
=============================================================================
