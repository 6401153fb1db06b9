---------------------------- MODULE TaskQueueProofs ----------------------------
(***************************************************************************)
(* The proofs about TaskQueue: with any number of threads and tasks, and   *)
(* blocks of any size, no task_t is given to two threads, count is the     *)
(* depth of the stack, and the queue implements the pool of tasks.         *)
(*                                                                         *)
(* What the stack holds is what its pointers lead to, so that the          *)
(* invariant says that they form a path: from head through count different *)
(* task_t to NULL (Linked).  A push puts one task_t in front of the path,  *)
(* a take removes the first one, and no other step touches a task_t that   *)
(* is on it, because the allocator never hands one out again (Allocation)  *)
(* and the mutex keeps the two halves of a push or a take together         *)
(* (Locks, Reading).  None of these is inductive without the others.       *)
(***************************************************************************)
EXTENDS TaskQueue, RelationsProofs

(* The barriers keep the threads in the same phase. *)
Adding  == {"ready", "barrier1"} \cup AddPC
Taking  == GetPC \cup {"exit"}

SamePhase ==
    \/ \A t \in Threads : pc[t] \in Adding
    \/ pc[0] \in {"alone", "barrier2"} /\ \A t \in Threads \ {0} : pc[t] = "barrier2"
    \/ \A t \in Threads : pc[t] \in Taking

Pushing(t) == pc[t] \in {"push", "link", "bump"}

Bounds ==
    /\ IsFiniteSet(DOMAIN used)
    /\ \A t \in Threads :
        /\ added[t] <= Goal(t)
        /\ pc[t] \in Adding => added[t] <= AddNum[t]
        /\ pc[t] \in AddPC => added[t] < AddNum[t]
        /\ pc[t] = "carve" \/ Filling(t) => slot[t] \in Slots
        /\ Pushing(t) => slot[t] \in DOMAIN used

Locks ==
    \A t \in Threads :
        /\ pc[t] = "carve" => allocLock = t
        /\ pc[t] \in {"link", "bump", "peek", "take"} => lock = t

(* The task_t that the allocator has handed out. *)
Handed(x) == x[1] < blocks \/ (x[1] = blocks /\ x[2] < curr)

Allocation ==
    /\ \A x \in DOMAIN used : Handed(x)
    /\ \A t \in Threads : pc[t] = "carve" => slot[t] = FreeSlot.addr
    /\ \A t \in Threads : Filling(t) => Handed(slot[t])
    /\ \A t, u \in Threads : Filling(t) /\ Filling(u) /\ slot[u] = slot[t] => u = t

(* From head the pointers lead through w[0], ..., w[count - 1] to NULL.    *)
IsPath(w) ==
    /\ w[0] = head /\ w[count] = NULL
    /\ \A k \in 0 .. count - 1 : w[k] \in DOMAIN used /\ used[w[k]].next = w[k + 1]
    /\ \A j, k \in 0 .. count - 1 : w[j] = w[k] => j = k

Linked == \E w \in [0 .. count -> Slots \cup {NULL}] : IsPath(w)

Apart == \A t \in Threads : Filling(t) => slot[t] \notin Stack

(* What a thread has read under the mutex still holds.                     *)
Reading ==
    \A t \in Threads :
        /\ pc[t] = "take" => count > 0 /\ slot[t] = head /\ seen[t] = used[head].next
        /\ pc[t] = "bump" => used[slot[t]].next = head

WasAdded(z) == z[2] < added[z[1]]

(* Whose tasks the task_t hold: no task is on the stack twice, or on the   *)
(* stack and worked on already.                                            *)
Labels ==
    /\ \A t \in Threads : Pushing(t) => used[slot[t]].task = <<t, added[t]>>
    /\ \A x \in Stack : WasAdded(used[x].task)
    /\ \A x, y \in Stack : used[x].task = used[y].task => x = y
    /\ \A t \in Threads : \A z \in got[t] :
           WasAdded(z) /\ \A x \in Stack : used[x].task # z

BaseInv  == TypeOK /\ SamePhase /\ Bounds /\ Locks
QueueInv == BaseInv /\ Allocation /\ Linked /\ Apart /\ Reading /\ Labels
-----------------------------------------------------------------------------
(***************************************************************************)
(* The stack as a path.                                                    *)
(***************************************************************************)

(* A path is what Stack follows, and it is as long as count says.          *)
LEMMA StackIsPath ==
    ASSUME TypeOK, IsFiniteSet(DOMAIN used),
           NEW w \in [0 .. count -> Slots \cup {NULL}], IsPath(w)
    PROVE  /\ Stack = {w[k] : k \in 0 .. count - 1}
           /\ IsFiniteSet(Stack) /\ Cardinality(Stack) = count
<1>0. /\ count \in Nat /\ DOMAIN used \subseteq Slots /\ NULL \notin DOMAIN used
      /\ Cardinality(DOMAIN used) \in Nat
  BY NullAssumption, FS_CardinalityType DEF TypeOK
<1> DEFINE n == count
           m == Cardinality(DOMAIN used)
           after == [a \in DOMAIN used |-> used[a].next]
           node == Follow(head, after, NULL, m)
           f == [k \in 0 .. n - 1 |-> w[k]]
<1>1. /\ w[0] = head /\ w[n] = NULL
      /\ \A k \in 0 .. n - 1 : w[k] \in DOMAIN used /\ w[k] # NULL /\ after[w[k]] = w[k + 1]
      /\ \A j, k \in 0 .. n - 1 : w[j] = w[k] => j = k
  BY <1>0 DEF IsPath
<1>2. Stack = {node[k] : k \in DOMAIN node} \ {NULL}
  BY DEF Stack
<1>3. /\ DOMAIN node = 0 .. m
      /\ node[0] = head
      /\ \A k \in 1 .. m : node[k] = IF node[k - 1] = NULL THEN NULL ELSE after[node[k - 1]]
  <2> HIDE DEF after, m
  <2>1. m \in Nat
    BY <1>0 DEF m
  <2> QED BY <2>1, FollowStep
<1>4. /\ f \in [0 .. n - 1 -> DOMAIN used] /\ n \in Nat
      /\ \A j, k \in 0 .. n - 1 : f[j] = f[k] => j = k
      /\ \A k \in 0 .. n - 1 : f[k] = w[k]
  BY <1>0, <1>1
<1> HIDE DEF n, m, after, node, f
<1>5. n <= m /\ m \in Nat
  <2>1. f \in Injection(0 .. n - 1, DOMAIN used)
    BY <1>4 DEF Injection, IsInjective
  <2>2. IsFiniteSet(0 .. n - 1) /\ Cardinality(0 .. n - 1) = n
    <3>1. 0 \in Int /\ n - 1 \in Int
      BY <1>4
    <3>2. Cardinality(0 .. n - 1) = IF 0 > n - 1 THEN 0 ELSE (n - 1) - 0 + 1
      BY <3>1, FS_Interval
    <3> QED BY <1>4, <3>1, <3>2, FS_Interval
  <2>3. Cardinality(0 .. n - 1) <= m
    BY <2>1, FS_Injection DEF m
  <2> QED BY <1>0, <2>2, <2>3 DEF m
<1> DEFINE T == {k \in Nat : k <= m => node[k] = IF k <= n THEN w[k] ELSE NULL}
<1>6. 0 \in T
  BY <1>1, <1>3, <1>4
<1>7. ASSUME NEW k \in Nat, k \in T PROVE k + 1 \in T
  <2> SUFFICES ASSUME k + 1 <= m
               PROVE  node[k + 1] = IF k + 1 <= n THEN w[k + 1] ELSE NULL
    OBVIOUS
  <2>1. node[k] = IF k <= n THEN w[k] ELSE NULL
    BY <1>5, <1>7
  <2>2. node[k + 1] = IF node[k] = NULL THEN NULL ELSE after[node[k]]
    <3>1. k + 1 \in 1 .. m /\ (k + 1) - 1 = k
      BY <1>5
    <3> QED BY <1>3, <3>1
  <2>3. CASE k + 1 <= n
    <3>1. k \in 0 .. n - 1 /\ k <= n
      BY <1>4, <2>3
    <3> QED BY <1>1, <2>1, <2>2, <2>3, <3>1
  <2>4. CASE ~(k + 1 <= n)
    <3>1. k = n \/ k > n
      BY <1>4, <2>4
    <3> QED BY <1>1, <1>4, <2>1, <2>2, <2>4, <3>1
  <2> QED BY <2>3, <2>4
<1>8. Nat \subseteq T
  <2> HIDE DEF T
  <2> QED BY <1>6, <1>7, NatSetInduction
<1>9. \A k \in 0 .. m : node[k] = IF k <= n THEN w[k] ELSE NULL
  <2> TAKE k \in 0 .. m
  <2>1. k \in Nat /\ k <= m
    BY <1>5
  <2> QED BY <1>8, <2>1
<1> HIDE DEF T
<1>10. Stack = {w[k] : k \in 0 .. n - 1}
  <2>1. \A k \in 0 .. n - 1 : k \in 0 .. m /\ node[k] = w[k] /\ w[k] # NULL
    BY <1>1, <1>4, <1>5, <1>9
  <2>2. \A k \in 0 .. m : node[k] # NULL => k \in 0 .. n - 1 /\ node[k] = w[k]
    <3> TAKE k \in 0 .. m
    <3>1. CASE k <= n
      BY <1>1, <1>4, <1>9, <3>1
    <3>2. CASE ~(k <= n)
      BY <1>9, <3>2
    <3> QED BY <3>1, <3>2
  <2> QED BY <1>2, <1>3, <2>1, <2>2
<1>11. IsFiniteSet(Stack) /\ Cardinality(Stack) = n
  <2> DEFINE g == [k \in 1 .. n |-> w[k - 1]]
  <2>1. g \in [1 .. n -> Stack] /\ \A k \in 1 .. n : g[k] = w[k - 1] /\ k - 1 \in 0 .. n - 1
    BY <1>4, <1>10
  <2>2. \A j, k \in 1 .. n : g[j] = g[k] => j = k
    <3> SUFFICES ASSUME NEW j \in 1 .. n, NEW k \in 1 .. n, g[j] = g[k] PROVE j = k
      OBVIOUS
    <3>1. j - 1 \in 0 .. n - 1 /\ k - 1 \in 0 .. n - 1 /\ w[j - 1] = w[k - 1]
      BY <2>1
    <3>2. j - 1 = k - 1
      BY <1>1, <3>1
    <3> QED BY <1>4, <3>2
  <2>3. \A x \in Stack : \E k \in 1 .. n : g[k] = x
    <3> TAKE x \in Stack
    <3>1. PICK k \in 0 .. n - 1 : x = w[k]
      BY <1>10
    <3>2. k + 1 \in 1 .. n /\ (k + 1) - 1 = k
      BY <1>4
    <3> QED BY <2>1, <3>1, <3>2
  <2> HIDE DEF g
  <2>4. g \in Bijection(1 .. n, Stack)
    BY <2>1, <2>2, <2>3 DEF Bijection, Injection, Surjection, IsInjective
  <2>5. ExistsBijection(1 .. n, Stack)
    BY <2>4 DEF ExistsBijection
  <2> QED BY <1>4, <2>5, FS_CountingElements, FS_NatBijection
<1> QED BY <1>10, <1>11 DEF n

(* The same as a formula. *)
LEMMA StackIs ==
    TypeOK /\ IsFiniteSet(DOMAIN used) =>
        \A w \in [0 .. count -> Slots \cup {NULL}] :
            IsPath(w) => /\ Stack = {w[k] : k \in 0 .. count - 1}
                         /\ IsFiniteSet(Stack) /\ Cardinality(Stack) = count
  BY StackIsPath

(* And the same of the next state. *)
LEMMA StackIsNext ==
    (TypeOK /\ IsFiniteSet(DOMAIN used) =>
        \A w \in [0 .. count -> Slots \cup {NULL}] :
            IsPath(w) => /\ Stack = {w[k] : k \in 0 .. count - 1}
                         /\ IsFiniteSet(Stack) /\ Cardinality(Stack) = count)'
  BY StackIs, PTL

(* What the path says about head and count.                                *)
LEMMA StackFacts ==
    ASSUME TypeOK, IsFiniteSet(DOMAIN used), Linked
    PROVE  /\ Stack \subseteq DOMAIN used
           /\ IsFiniteSet(Stack) /\ Cardinality(Stack) = count
           /\ count > 0 => head \in Stack /\ head \in DOMAIN used
           /\ count = 0 => Stack = {} /\ head = NULL
<1>1. PICK w \in [0 .. count -> Slots \cup {NULL}] : IsPath(w)
  BY DEF Linked
<1>2. /\ Stack = {w[k] : k \in 0 .. count - 1}
      /\ IsFiniteSet(Stack) /\ Cardinality(Stack) = count
  BY <1>1, StackIsPath
<1>3. count \in Nat
  BY DEF TypeOK
<1>4. /\ w[0] = head /\ w[count] = NULL
      /\ \A k \in 0 .. count - 1 : w[k] \in DOMAIN used
  BY <1>1 DEF IsPath
<1>5. count > 0 => 0 \in 0 .. count - 1
  BY <1>3
<1>6. count = 0 => 0 .. count - 1 = {}
  OBVIOUS
<1> QED BY <1>2, <1>4, <1>5, <1>6

(* A step that leaves head, count and the task_t on the stack alone.       *)
LEMMA KeepStack ==
    ASSUME TypeOK, Bounds, Linked, TypeOK', IsFiniteSet(DOMAIN used'),
           head' = head, count' = count,
           \A x \in Stack : x \in DOMAIN used' /\ used'[x] = used[x]
    PROVE  Linked' /\ Stack' = Stack
<1>1. PICK w \in [0 .. count -> Slots \cup {NULL}] : IsPath(w)
  BY DEF Linked
<1>2. Stack = {w[k] : k \in 0 .. count - 1}
  BY <1>1, StackIsPath DEF Bounds
<1>3. IsPath(w)'
  BY <1>1, <1>2 DEF IsPath
<1>4. Stack' = {w[k] : k \in 0 .. count' - 1}
  BY <1>3, StackIsNext
<1> QED BY <1>2, <1>3, <1>4 DEF Linked

(* A push puts one task_t in front of the others.                          *)
LEMMA PushStack ==
    ASSUME TypeOK, Bounds, Linked, TypeOK', IsFiniteSet(DOMAIN used'),
           NEW d \in Slots, d \notin Stack, d \in DOMAIN used', used'[d].next = head,
           head' = d, count' = count + 1,
           \A x \in Stack : x \in DOMAIN used' /\ used'[x] = used[x]
    PROVE  Linked' /\ Stack' = Stack \cup {d}
<1>0. count \in Nat
  BY DEF TypeOK
<1>1. PICK w \in [0 .. count -> Slots \cup {NULL}] : IsPath(w)
  BY DEF Linked
<1>2. Stack = {w[k] : k \in 0 .. count - 1}
  BY <1>1, StackIsPath DEF Bounds
<1>3. /\ w[0] = head /\ w[count] = NULL
      /\ \A k \in 0 .. count - 1 : w[k] \in DOMAIN used /\ used[w[k]].next = w[k + 1]
      /\ \A j, k \in 0 .. count - 1 : w[j] = w[k] => j = k
  BY <1>1 DEF IsPath
<1>4. PICK v \in [0 .. count + 1 -> Slots \cup {NULL}] :
         v = [k \in 0 .. count + 1 |-> IF k = 0 THEN d ELSE w[k - 1]]
  <2> DEFINE z == [k \in 0 .. count + 1 |-> IF k = 0 THEN d ELSE w[k - 1]]
  <2>1. z \in [0 .. count + 1 -> Slots \cup {NULL}]
    BY <1>0
  <2> QED BY <2>1
<1>5. v[0] = d /\ \A k \in 1 .. count + 1 : v[k] = w[k - 1] /\ k - 1 \in 0 .. count
  BY <1>0, <1>4
<1>6. ASSUME NEW k \in 0 .. count
      PROVE  v[k] \in DOMAIN used' /\ used'[v[k]].next = v[k + 1]
  <2>1. CASE k = 0
    <3>1. v[1] = w[0]
      BY <1>0, <1>5
    <3> QED BY <1>3, <1>5, <2>1, <3>1
  <2>2. CASE k # 0
    <3>1. /\ k - 1 \in 0 .. count - 1 /\ k \in 1 .. count + 1 /\ k + 1 \in 1 .. count + 1
          /\ (k + 1) - 1 = k /\ (k - 1) + 1 = k
      BY <1>0, <2>2
    <3>2. v[k] = w[k - 1] /\ v[k + 1] = w[k]
      BY <1>5, <3>1
    <3>3. used[w[k - 1]].next = w[k] /\ w[k - 1] \in Stack
      BY <1>2, <1>3, <3>1
    <3> QED BY <3>2, <3>3
  <2> QED BY <2>1, <2>2
<1>7. ASSUME NEW j \in 0 .. count, NEW k \in 0 .. count, v[j] = v[k] PROVE j = k
  <2>1. \A i \in 1 .. count : v[i] # d
    <3> TAKE i \in 1 .. count
    <3>1. i - 1 \in 0 .. count - 1 /\ i \in 1 .. count + 1
      BY <1>0
    <3> QED BY <1>2, <1>5, <3>1
  <2>2. CASE j = 0 \/ k = 0
    BY <1>0, <1>5, <1>7, <2>1, <2>2
  <2>3. CASE j # 0 /\ k # 0
    <3>1. /\ j - 1 \in 0 .. count - 1 /\ k - 1 \in 0 .. count - 1
          /\ j \in 1 .. count + 1 /\ k \in 1 .. count + 1
      BY <1>0, <2>3
    <3>2. w[j - 1] = w[k - 1]
      BY <1>5, <1>7, <3>1
    <3>3. j - 1 = k - 1
      BY <1>3, <3>1, <3>2
    <3> QED BY <1>0, <3>3
  <2> QED BY <2>2, <2>3
<1>8. v[count + 1] = NULL
  <2>1. count + 1 \in 1 .. count + 1 /\ (count + 1) - 1 = count
    BY <1>0
  <2> QED BY <1>3, <1>5, <2>1
<1>9. (count + 1) - 1 = count
  BY <1>0
<1>10. IsPath(v)'
  BY <1>5, <1>6, <1>7, <1>8, <1>9 DEF IsPath
<1>11. Stack' = {v[k] : k \in 0 .. count}
  BY <1>9, <1>10, StackIsNext
<1>12. \A x \in Stack : \E k \in 0 .. count : v[k] = x
  <2> TAKE x \in Stack
  <2>1. PICK k \in 0 .. count - 1 : x = w[k]
    BY <1>2
  <2>2. k + 1 \in 0 .. count /\ k + 1 \in 1 .. count + 1 /\ (k + 1) - 1 = k
    BY <1>0
  <2> QED BY <1>5, <2>1, <2>2
<1>13. \A k \in 0 .. count : v[k] \in Stack \cup {d}
  <2> TAKE k \in 0 .. count
  <2>1. k # 0 => k \in 1 .. count + 1 /\ k - 1 \in 0 .. count - 1
    BY <1>0
  <2> QED BY <1>2, <1>5, <2>1
<1>14. 0 \in 0 .. count
  BY <1>0
<1>15. Stack' = Stack \cup {d}
  BY <1>5, <1>11, <1>12, <1>13, <1>14
<1> QED BY <1>10, <1>15 DEF Linked

(* A take removes the first task_t.                                        *)
LEMMA PopStack ==
    ASSUME TypeOK, Bounds, Linked, TypeOK',
           count > 0, head' = used[head].next, count' = count - 1, used' = used
    PROVE  Linked' /\ Stack' = Stack \ {head} /\ head \in Stack
<1>0. count \in Nat /\ 0 \in 0 .. count - 1
  BY DEF TypeOK
<1>1. PICK w \in [0 .. count -> Slots \cup {NULL}] : IsPath(w)
  BY DEF Linked
<1>2. Stack = {w[k] : k \in 0 .. count - 1}
  BY <1>1, StackIsPath DEF Bounds
<1>3. /\ w[0] = head /\ w[count] = NULL
      /\ \A k \in 0 .. count - 1 : w[k] \in DOMAIN used /\ used[w[k]].next = w[k + 1]
      /\ \A j, k \in 0 .. count - 1 : w[j] = w[k] => j = k
  BY <1>1 DEF IsPath
<1>4. PICK v \in [0 .. count - 1 -> Slots \cup {NULL}] :
         v = [k \in 0 .. count - 1 |-> w[k + 1]]
  <2> DEFINE z == [k \in 0 .. count - 1 |-> w[k + 1]]
  <2>1. z \in [0 .. count - 1 -> Slots \cup {NULL}]
    BY <1>0
  <2> QED BY <2>1
<1>5. \A k \in 0 .. count - 1 : v[k] = w[k + 1]
  BY <1>4
<1>6. v[0] = used[head].next /\ v[count - 1] = NULL
  <2>1. count - 1 \in 0 .. count - 1 /\ (count - 1) + 1 = count /\ 0 + 1 = 1
    BY <1>0
  <2>2. v[0] = w[1] /\ used[w[0]].next = w[1]
    BY <1>0, <1>3, <1>5, <2>1
  <2> QED BY <1>3, <1>5, <2>1, <2>2
<1>7. ASSUME NEW k \in 0 .. (count - 1) - 1
      PROVE  v[k] \in DOMAIN used /\ used[v[k]].next = v[k + 1]
  <2>1. k \in 0 .. count - 1 /\ k + 1 \in 0 .. count - 1
    BY <1>0
  <2> QED BY <1>3, <1>5, <2>1
<1>8. ASSUME NEW j \in 0 .. (count - 1) - 1, NEW k \in 0 .. (count - 1) - 1, v[j] = v[k]
      PROVE  j = k
  <2>1. /\ j \in 0 .. count - 1 /\ j + 1 \in 0 .. count - 1
        /\ k \in 0 .. count - 1 /\ k + 1 \in 0 .. count - 1
    BY <1>0
  <2>2. w[j + 1] = w[k + 1]
    BY <1>5, <1>8, <2>1
  <2>3. j + 1 = k + 1
    BY <1>3, <2>1, <2>2
  <2> QED BY <1>0, <2>3
<1>9. IsPath(v)'
  BY <1>6, <1>7, <1>8 DEF IsPath
<1>10. Stack' = {v[k] : k \in 0 .. (count - 1) - 1}
  <2>1. IsFiniteSet(DOMAIN used')
    BY DEF Bounds
  <2> QED BY <1>9, <2>1, StackIsNext
<1>11. ASSUME NEW k \in 0 .. count - 1, k # 0
       PROVE  \E j \in 0 .. (count - 1) - 1 : v[j] = w[k]
  <2>1. k - 1 \in 0 .. (count - 1) - 1 /\ k - 1 \in 0 .. count - 1 /\ (k - 1) + 1 = k
    BY <1>0, <1>11
  <2> QED BY <1>5, <2>1
<1>12. ASSUME NEW j \in 0 .. (count - 1) - 1
       PROVE  \E k \in 0 .. count - 1 : k # 0 /\ v[j] = w[k]
  <2>1. j \in 0 .. count - 1 /\ j + 1 \in 0 .. count - 1 /\ j + 1 # 0
    BY <1>0
  <2> QED BY <1>5, <2>1
<1>13. Stack' = Stack \ {head}
  <2>1. \A k \in 0 .. count - 1 : w[k] = head <=> k = 0
    BY <1>0, <1>3
  <2>2. ASSUME NEW x \in Stack', x \notin Stack \ {head} PROVE FALSE
    BY <1>2, <1>10, <1>12, <2>1, <2>2
  <2>3. ASSUME NEW x \in Stack \ {head} PROVE x \in Stack'
    <3>1. PICK k \in 0 .. count - 1 : x = w[k]
      BY <1>2, <2>3
    <3>2. k # 0
      BY <2>1, <2>3, <3>1
    <3> QED BY <1>10, <1>11, <3>1, <3>2
  <2> QED BY <2>2, <2>3
<1>14. head \in Stack
  BY <1>0, <1>2, <1>3
<1> QED BY <1>9, <1>13, <1>14 DEF Linked
-----------------------------------------------------------------------------
(***************************************************************************)
(* Types, phases, bounds and mutexes.                                      *)
(***************************************************************************)

(* Thread 0 is there, and the tasks a thread adds are tasks.               *)
LEMMA TaskFacts ==
    /\ 0 \in Threads
    /\ \A t \in Threads :
        /\ t # NULL /\ Goal(t) \in Nat /\ AddNum[t] \in Nat /\ AddNum[t] <= Goal(t)
        /\ \A k \in Nat : k < Goal(t) => <<t, k>> \in Tasks
<1>1. 0 \in Threads
  BY QueueAssumption DEF Threads
<1> SUFFICES ASSUME NEW t \in Threads
             PROVE  /\ t # NULL /\ Goal(t) \in Nat /\ AddNum[t] \in Nat /\ AddNum[t] <= Goal(t)
                    /\ \A k \in Nat : k < Goal(t) => <<t, k>> \in Tasks
  BY <1>1
<1>2. t # NULL /\ Goal(t) \in Nat /\ AddNum[t] \in Nat /\ AddNum[t] <= Goal(t)
  BY QueueAssumption, NullAssumption DEF Goal
<1>3. ASSUME NEW k \in Nat, k < Goal(t) PROVE <<t, k>> \in Tasks
  <2>1. k \in 0 .. Goal(t) - 1
    BY <1>2, <1>3
  <2>2. <<t, k>> \in {t} \X (0 .. Goal(t) - 1)
    BY <2>1
  <2> QED BY <2>2 DEF Tasks
<1> QED BY <1>2, <1>3

(* task_queue_get_slot gives a task_t that it has not given before.        *)
LEMMA FreeSlotFacts ==
    ASSUME TypeOK
    PROVE  /\ FreeSlot.addr \in Slots /\ ~Handed(FreeSlot.addr)
           /\ FreeSlot.blocks = FreeSlot.addr[1] /\ FreeSlot.curr = FreeSlot.addr[2] + 1
           /\ FreeSlot.blocks \in Nat /\ FreeSlot.curr \in 0 .. AllocNum
           /\ \A x \in Slots :
                (x[1] < FreeSlot.blocks \/ (x[1] = FreeSlot.blocks /\ x[2] < FreeSlot.curr))
                    <=> Handed(x) \/ x = FreeSlot.addr
<1>0. /\ blocks \in Nat /\ curr \in 0 .. AllocNum /\ AllocNum \in Nat \ {0}
      /\ \A x \in Slots : x = <<x[1], x[2]>> /\ x[1] \in Nat /\ x[2] \in 0 .. AllocNum - 1
  BY QueueAssumption DEF TypeOK, Slots
<1>1. CASE curr < AllocNum
  <2>1. FreeSlot = [addr |-> <<blocks, curr>>, blocks |-> blocks, curr |-> curr + 1]
    BY <1>1 DEF FreeSlot
  <2>2. <<blocks, curr>> \in Slots /\ <<blocks, curr>>[1] = blocks /\ <<blocks, curr>>[2] = curr
    BY <1>0, <1>1 DEF Slots
  <2> QED BY <1>0, <1>1, <2>1, <2>2 DEF Handed
<1>2. CASE ~(curr < AllocNum)
  <2>1. FreeSlot = [addr |-> <<blocks + 1, 0>>, blocks |-> blocks + 1, curr |-> 1]
    BY <1>2 DEF FreeSlot
  <2>2. <<blocks + 1, 0>> \in Slots /\ <<blocks + 1, 0>>[1] = blocks + 1 /\ <<blocks + 1, 0>>[2] = 0
    BY <1>0 DEF Slots
  <2>3. curr = AllocNum
    BY <1>0, <1>2
  <2> QED BY <1>0, <2>1, <2>2, <2>3 DEF Handed
<1> QED BY <1>1, <1>2

(* A write to a task_t leaves the others as they are.                      *)
LEMMA WrittenFacts ==
    ASSUME TypeOK, NEW a \in Slots, NEW z \in Tasks, NEW n \in Slots \cup {NULL},
           used' = Written(a, [task |-> z, next |-> n])
    PROVE  /\ DOMAIN used' = DOMAIN used \cup {a} /\ DOMAIN used' \subseteq Slots
           /\ used' \in [DOMAIN used' -> [task : Tasks, next : Slots \cup {NULL}]]
           /\ used'[a].task = z /\ used'[a].next = n
           /\ \A x \in DOMAIN used : x # a => used'[x] = used[x]
<1>1. /\ DOMAIN used \subseteq Slots
      /\ used \in [DOMAIN used -> [task : Tasks, next : Slots \cup {NULL}]]
  BY DEF TypeOK
<1>2. [task |-> z, next |-> n] \in [task : Tasks, next : Slots \cup {NULL}]
  OBVIOUS
<1>3. used' = [x \in DOMAIN used \cup {a} |-> IF x = a THEN [task |-> z, next |-> n] ELSE used[x]]
  BY DEF Written
<1> QED BY <1>1, <1>2, <1>3

(* The types of the variables, element by element.                         *)
LEMMA TypeFacts ==
    ASSUME TypeOK
    PROVE  /\ lock \in Threads \cup {NULL} /\ allocLock \in Threads \cup {NULL}
           /\ head \in Slots \cup {NULL} /\ count \in Nat
           /\ DOMAIN used \subseteq Slots
           /\ \A x \in DOMAIN used : used[x].task \in Tasks /\ used[x].next \in Slots \cup {NULL}
           /\ DOMAIN pc = Threads /\ DOMAIN added = Threads /\ DOMAIN slot = Threads
           /\ DOMAIN seen = Threads /\ DOMAIN got = Threads
           /\ \A t \in Threads : /\ added[t] \in Nat /\ slot[t] \in Slots \cup {NULL}
                                 /\ seen[t] \in Slots \cup {NULL} /\ got[t] \subseteq Tasks
  BY DEF TypeOK

(* Every step keeps the types.                                             *)
LEMMA TypeNext == QueueInv /\ [Next]_vars => TypeOK'
<1> SUFFICES ASSUME QueueInv, [Next]_vars PROVE TypeOK'
  OBVIOUS
<1>0. TypeOK /\ Bounds /\ Linked /\ Reading /\ Locks
  BY DEF QueueInv, BaseInv
<1>1. CASE UNCHANGED vars
  BY <1>0, <1>1 DEF TypeOK, vars, queue, alloc, local
<1>2. CASE Barrier1
  BY <1>0, <1>2 DEF TypeOK, Barrier1, queue, alloc, AddPC, GetPC
<1>3. CASE AddAlone
  <2>1. FreeSlot.addr \in Slots /\ FreeSlot.blocks \in Nat /\ FreeSlot.curr \in 0 .. AllocNum
    BY <1>0, FreeSlotFacts
  <2>2. <<0, added[0]>> \in Tasks /\ head \in Slots \cup {NULL} /\ 0 \in Threads
    BY <1>0, <1>3, TaskFacts, TypeFacts DEF AddAlone
  <2>3. used' = Written(FreeSlot.addr, [task |-> <<0, added[0]>>, next |-> head])
    BY <1>3 DEF AddAlone
  <2> DEFINE a == FreeSlot.addr
             z == <<0, added[0]>>
  <2>4. a \in Slots /\ z \in Tasks /\ used' = Written(a, [task |-> z, next |-> head])
    BY <2>1, <2>2, <2>3
  <2> HIDE DEF a, z
  <2>5. /\ DOMAIN used' \subseteq Slots
        /\ used' \in [DOMAIN used' -> [task : Tasks, next : Slots \cup {NULL}]]
    BY <1>0, <2>2, <2>4, WrittenFacts
  <2>6. added' \in [Threads -> Nat] /\ head' \in Slots /\ count' \in Nat
    BY <1>0, <1>3, <2>1, <2>2 DEF TypeOK, AddAlone
  <2> QED BY <1>0, <1>3, <2>1, <2>5, <2>6 DEF TypeOK, AddAlone
<1>4. CASE AloneDone
  BY <1>0, <1>4 DEF TypeOK, AloneDone, queue, alloc
<1>5. CASE Barrier2
  BY <1>0, <1>5 DEF TypeOK, Barrier2, queue, alloc, AddPC, GetPC
<1>6. ASSUME NEW t \in Threads, Choose(t) PROVE TypeOK'
  BY <1>0, <1>6 DEF TypeOK, Choose, queue, alloc, AddPC, GetPC
<1>7. ASSUME NEW t \in Threads, LockAlloc(t) PROVE TypeOK'
  <2>1. FreeSlot.addr \in Slots
    BY <1>0, FreeSlotFacts
  <2> QED BY <1>0, <1>7, <2>1 DEF TypeOK, LockAlloc, queue, alloc, AddPC, GetPC
<1>8. ASSUME NEW t \in Threads, Carve(t) PROVE TypeOK'
  <2>1. slot[t] \in Slots
    BY <1>0, <1>8 DEF Bounds, Carve
  <2>2. slot[t][1] \in Nat /\ slot[t][2] + 1 \in 0 .. AllocNum
    BY <2>1, QueueAssumption DEF Slots
  <2> QED BY <1>0, <1>8, <2>2 DEF TypeOK, Carve, queue, AddPC, GetPC
<1>9. ASSUME NEW t \in Threads, Fill(t) PROVE TypeOK'
  <2>1. slot[t] \in Slots /\ added[t] < AddNum[t]
    BY <1>0, <1>9 DEF Bounds, Fill, Filling, AddPC
  <2>2. <<t, added[t]>> \in Tasks
    BY <1>0, <2>1, TaskFacts, TypeFacts
  <2> DEFINE a == slot[t]
             z == <<t, added[t]>>
             n == NULL
  <2>3. /\ a \in Slots /\ z \in Tasks /\ n \in Slots \cup {NULL}
        /\ used' = Written(a, [task |-> z, next |-> n])
    BY <1>9, <2>1, <2>2 DEF Fill
  <2> HIDE DEF a, z, n
  <2>4. /\ DOMAIN used' \subseteq Slots
        /\ used' \in [DOMAIN used' -> [task : Tasks, next : Slots \cup {NULL}]]
    BY <1>0, <2>3, WrittenFacts
  <2> QED BY <1>0, <1>9, <2>4 DEF TypeOK, Fill, queue, alloc, AddPC, GetPC
<1>10. ASSUME NEW t \in Threads, LockPush(t) PROVE TypeOK'
  BY <1>0, <1>10 DEF TypeOK, LockPush, alloc, AddPC, GetPC
<1>11. ASSUME NEW t \in Threads, Link(t) PROVE TypeOK'
  <2>1. slot[t] \in DOMAIN used
    BY <1>0, <1>11 DEF Bounds, Link, Pushing
  <2>2. DOMAIN used' = DOMAIN used
    BY <1>11 DEF Link
  <2>3. used' \in [DOMAIN used -> [task : Tasks, next : Slots \cup {NULL}]]
    BY <1>0, <1>11, <2>1 DEF Link, TypeOK
  <2> QED BY <1>0, <1>11, <2>2, <2>3 DEF TypeOK, Link, queue, alloc, AddPC, GetPC
<1>12. ASSUME NEW t \in Threads, Bump(t) PROVE TypeOK'
  BY <1>0, <1>12 DEF TypeOK, Bump, alloc, AddPC, GetPC
<1>13. ASSUME NEW t \in Threads, LockPop(t) PROVE TypeOK'
  BY <1>0, <1>13 DEF TypeOK, LockPop, alloc, AddPC, GetPC
<1>14. ASSUME NEW t \in Threads, Peek(t) PROVE TypeOK'
  <2>1. count > 0 => used[head].next \in Slots \cup {NULL} /\ head \in Slots
    BY <1>0, StackFacts, TypeFacts DEF Bounds
  <2>2. slot' \in [Threads -> Slots \cup {NULL}] /\ seen' \in [Threads -> Slots \cup {NULL}]
    BY <1>0, <1>14, <2>1 DEF TypeOK, Peek
  <2>3. pc' \in [Threads -> {"ready", "barrier1", "alone", "barrier2", "exit"} \cup AddPC \cup GetPC]
    BY <1>0, <1>14 DEF TypeOK, Peek, AddPC, GetPC
  <2> QED BY <1>0, <1>14, <2>2, <2>3 DEF TypeOK, Peek, alloc
<1>15. ASSUME NEW t \in Threads, Take(t) PROVE TypeOK'
  <2>1. slot[t] \in DOMAIN used /\ count > 0
    <3>1. count > 0 /\ slot[t] = head
      BY <1>0, <1>15 DEF Reading, Take
    <3> QED BY <1>0, <3>1, StackFacts DEF Bounds
  <2>2. used[slot[t]].task \in Tasks
    BY <1>0, <2>1, TypeFacts
  <2>3. got' \in [Threads -> SUBSET Tasks]
    BY <1>0, <1>15, <2>2 DEF TypeOK, Take
  <2>4. count' \in Nat /\ head' \in Slots \cup {NULL}
    BY <1>0, <1>15, <2>1 DEF TypeOK, Take
  <2> QED BY <1>0, <1>15, <2>3, <2>4 DEF TypeOK, Take, alloc, AddPC, GetPC
<1> QED BY <1>1, <1>2, <1>3, <1>4, <1>5, <1>6, <1>7, <1>8, <1>9, <1>10, <1>11, <1>12, <1>13,
           <1>14, <1>15 DEF Next, Add, Get, Terminated

(* The phases exclude each other.                                          *)
LEMMA Phases ==
    ASSUME SamePhase
    PROVE  /\ (\E t \in Threads : pc[t] \in Adding) => \A t \in Threads : pc[t] \in Adding
           /\ (\E t \in Threads : pc[t] \in Taking) => \A t \in Threads : pc[t] \in Taking
           /\ pc[0] = "alone" => \A t \in Threads \ {0} : pc[t] = "barrier2"
  BY TaskFacts DEF SamePhase, Adding, Taking, AddPC, GetPC

(* A thread that adds or takes moves within its phase.                     *)
LEMMA StepPhases ==
    ASSUME TypeOK, NEW t \in Threads
    PROVE  /\ Add(t) => pc[t] \in Adding /\ pc'[t] \in Adding
           /\ Get(t) => pc[t] \in Taking /\ pc'[t] \in Taking
  BY DEF TypeOK, Add, Get, Choose, LockAlloc, Carve, Fill, LockPush, Link, Bump,
         LockPop, Peek, Take, Adding, Taking, AddPC, GetPC

(* It changes no local variable of another thread.                         *)
Others(t) ==
    \A u \in Threads \ {t} :
        /\ pc'[u] = pc[u] /\ added'[u] = added[u] /\ slot'[u] = slot[u]
        /\ seen'[u] = seen[u] /\ got'[u] = got[u]

(* Stated of each of its steps.                                            *)
LEMMA StepOthers ==
    ASSUME TypeOK, NEW t \in Threads, Add(t) \/ Get(t)
    PROVE  Others(t)
<1>1. CASE Choose(t) \/ LockAlloc(t) \/ Carve(t) \/ Fill(t)
  BY <1>1, TypeFacts DEF Others, Choose, LockAlloc, Carve, Fill
<1>2. CASE LockPush(t) \/ Link(t) \/ Bump(t)
  BY <1>2, TypeFacts DEF Others, LockPush, Link, Bump
<1>3. CASE Get(t)
  BY <1>3, TypeFacts DEF Others, Get, LockPop, Peek, Take
<1> QED BY <1>1, <1>2, <1>3 DEF Add

(* Every step keeps the threads in the same phase.                         *)
LEMMA PhaseNext == QueueInv /\ [Next]_vars => SamePhase'
<1> SUFFICES ASSUME QueueInv, [Next]_vars PROVE SamePhase'
  OBVIOUS
<1>0. TypeOK /\ SamePhase
  BY DEF QueueInv, BaseInv
<1>1. CASE UNCHANGED pc
  BY <1>0, <1>1 DEF SamePhase
<1>2. CASE Barrier1
  BY <1>2, TaskFacts DEF Barrier1, SamePhase
<1>3. CASE AloneDone
  BY <1>0, <1>3, Phases, TypeFacts, TaskFacts DEF AloneDone, SamePhase
<1>4. CASE Barrier2
  BY <1>4 DEF Barrier2, SamePhase, Taking, GetPC
<1>5. ASSUME NEW t \in Threads, Add(t) \/ Get(t) PROVE SamePhase'
  BY <1>0, <1>5, Phases, StepPhases, StepOthers DEF Others, SamePhase
<1> QED BY <1>1, <1>2, <1>3, <1>4, <1>5 DEF Next, AddAlone, Terminated, vars, local

(* Every step keeps the number of tasks each thread has added in bounds,   *)
(* and gives it a task_t before it fills it.                               *)
LEMMA BoundsNext == QueueInv /\ [Next]_vars => Bounds'
<1> SUFFICES ASSUME QueueInv, [Next]_vars PROVE Bounds'
  OBVIOUS
<1>0. TypeOK /\ SamePhase /\ Bounds
  BY DEF QueueInv, BaseInv
<1> DEFINE B(t) ==
        /\ added[t] <= Goal(t)
        /\ pc[t] \in Adding => added[t] <= AddNum[t]
        /\ pc[t] \in AddPC => added[t] < AddNum[t]
        /\ pc[t] = "carve" \/ Filling(t) => slot[t] \in Slots
        /\ Pushing(t) => slot[t] \in DOMAIN used
<1>1. IsFiniteSet(DOMAIN used) /\ \A t \in Threads : B(t)
  BY <1>0 DEF Bounds
<1>2. IsFiniteSet(DOMAIN used') /\ (\A t \in Threads : B(t)') => Bounds'
  BY DEF Bounds
<1>3. \A t \in Threads : UNCHANGED <<pc, added, slot>> /\ DOMAIN used \subseteq DOMAIN used' => B(t)'
  BY <1>1 DEF Filling, Pushing
<1>4. ASSUME NEW t \in Threads, NEW u \in Threads \ {t}, Others(t), DOMAIN used \subseteq DOMAIN used'
      PROVE  B(u)'
  BY <1>1, <1>4 DEF Others, Filling, Pushing
<1>5. CASE UNCHANGED vars
  BY <1>1, <1>2, <1>3, <1>5 DEF vars, local
<1>6. CASE Barrier1
  <2>1. \A t \in Threads : B(t)'
    BY <1>1, <1>6 DEF Barrier1, Filling, Pushing, Adding, AddPC
  <2> QED BY <1>1, <1>2, <1>6, <2>1 DEF Barrier1
<1>7. CASE AddAlone
  <2>1. DOMAIN used' = DOMAIN used \cup {FreeSlot.addr}
    BY <1>7 DEF AddAlone, Written
  <2>2. IsFiniteSet(DOMAIN used')
    BY <1>1, <2>1, FS_AddElement
  <2>3. UNCHANGED <<pc, slot>> /\ added' = [added EXCEPT ![0] = @ + 1]
    BY <1>7 DEF AddAlone
  <2>4. /\ pc[0] = "alone" /\ added[0] < Goal(0) /\ added[0] \in Nat /\ 0 \in Threads
        /\ Goal(0) \in Nat
    BY <1>0, <1>7, TaskFacts, TypeFacts DEF AddAlone
  <2>5. B(0)'
    BY <1>0, <2>3, <2>4, TypeFacts DEF Filling, Pushing, Adding, AddPC
  <2>6. \A t \in Threads \ {0} : B(t)'
    BY <1>0, <1>1, <2>1, <2>3, TypeFacts DEF Filling, Pushing
  <2> QED BY <1>2, <2>2, <2>5, <2>6
<1>8. CASE AloneDone
  <2>1. \A t \in Threads : B(t)'
    BY <1>0, <1>1, <1>8, TypeFacts DEF AloneDone, Filling, Pushing, Adding, AddPC
  <2> QED BY <1>1, <1>2, <1>8, <2>1 DEF AloneDone
<1>9. CASE Barrier2
  <2>1. \A t \in Threads : B(t)'
    BY <1>1, <1>9 DEF Barrier2, Filling, Pushing, Adding, AddPC
  <2> QED BY <1>1, <1>2, <1>9, <2>1 DEF Barrier2
<1>10. ASSUME NEW t \in Threads, Add(t) \/ Get(t) PROVE Bounds'
  <2>0. /\ added[t] \in Nat /\ AddNum[t] \in Nat /\ Goal(t) \in Nat /\ AddNum[t] <= Goal(t)
        /\ added[t] <= Goal(t)
    BY <1>0, <1>1, TaskFacts, TypeFacts
  <2>1. IsFiniteSet(DOMAIN used') /\ DOMAIN used \subseteq DOMAIN used'
    <3>1. CASE Fill(t)
      <4>1. DOMAIN used' = DOMAIN used \cup {slot[t]}
        BY <3>1 DEF Fill, Written
      <4> QED BY <1>1, <4>1, FS_AddElement
    <3>2. ~Fill(t) => DOMAIN used' = DOMAIN used
      BY <1>10 DEF Add, Get, Choose, LockAlloc, Carve, LockPush, Link, Bump, LockPop, Peek, Take
    <3> QED BY <1>1, <3>1, <3>2
  <2>2. B(t)'
    <3>1. CASE Choose(t)
      BY <1>0, <1>1, <2>0, <3>1, TypeFacts DEF Choose, Filling, Pushing, Adding, AddPC
    <3>2. CASE LockAlloc(t)
      <4>1. FreeSlot.addr \in Slots
        BY <1>0, FreeSlotFacts
      <4> QED BY <1>0, <1>1, <2>0, <3>2, <4>1, TypeFacts
              DEF LockAlloc, Filling, Pushing, Adding, AddPC
    <3>3. CASE Carve(t)
      BY <1>0, <1>1, <2>0, <3>3, TypeFacts DEF Carve, Filling, Pushing, Adding, AddPC
    <3>4. CASE Fill(t)
      <4>1. slot[t] \in DOMAIN used'
        BY <3>4 DEF Fill, Written
      <4> QED BY <1>0, <1>1, <2>0, <3>4, <4>1, TypeFacts DEF Fill, Filling, Pushing, Adding, AddPC
    <3>5. CASE LockPush(t)
      BY <1>0, <1>1, <2>0, <3>5, TypeFacts DEF LockPush, Filling, Pushing, Adding, AddPC
    <3>6. CASE Link(t)
      BY <1>0, <1>1, <2>0, <2>1, <3>6, TypeFacts DEF Link, Filling, Pushing, Adding, AddPC
    <3>7. CASE Bump(t)
      <4>1. added'[t] = added[t] + 1 /\ added[t] < AddNum[t] /\ pc'[t] = "ready"
        BY <1>0, <1>1, <3>7, TypeFacts DEF Bump, AddPC
      <4> QED BY <2>0, <4>1 DEF Filling, Pushing, Adding, AddPC
    <3>8. CASE Get(t)
      <4>1. pc'[t] \in Taking /\ added'[t] = added[t]
        BY <1>0, <3>8, StepPhases, TypeFacts DEF Get, LockPop, Peek, Take
      <4> QED BY <2>0, <4>1 DEF Filling, Pushing, Adding, Taking, AddPC, GetPC
    <3> QED BY <1>10, <3>1, <3>2, <3>3, <3>4, <3>5, <3>6, <3>7, <3>8 DEF Add
  <2>3. Others(t)
    BY <1>0, <1>10, StepOthers
  <2> HIDE DEF B
  <2> QED BY <1>2, <1>4, <2>1, <2>2, <2>3
<1> QED BY <1>5, <1>6, <1>7, <1>8, <1>9, <1>10 DEF Next, Terminated

(* Every step respects the two mutexes.                                    *)
LEMMA LocksNext == QueueInv /\ [Next]_vars => Locks'
<1> SUFFICES ASSUME QueueInv, [Next]_vars PROVE Locks'
  OBVIOUS
<1>0. TypeOK /\ Locks
  BY DEF QueueInv, BaseInv
<1>1. CASE UNCHANGED <<pc, lock, allocLock>>
  BY <1>0, <1>1 DEF Locks
<1>2. CASE Barrier1 \/ Barrier2 \/ AloneDone
  BY <1>0, <1>2, TypeFacts DEF Locks, Barrier1, Barrier2, AloneDone, queue, alloc
<1>3. ASSUME NEW t \in Threads, Add(t) PROVE Locks'
  <2>1. CASE Choose(t) \/ LockAlloc(t) \/ Carve(t) \/ Fill(t)
    BY <1>0, <2>1, TypeFacts, TaskFacts
    DEF Locks, Choose, LockAlloc, Carve, Fill, queue, alloc
  <2>2. CASE LockPush(t) \/ Link(t) \/ Bump(t)
    BY <1>0, <2>2, TypeFacts, TaskFacts DEF Locks, LockPush, Link, Bump, queue, alloc
  <2> QED BY <1>3, <2>1, <2>2 DEF Add
<1>4. ASSUME NEW t \in Threads, Get(t) PROVE Locks'
  BY <1>0, <1>4, TypeFacts, TaskFacts DEF Locks, Get, LockPop, Peek, Take, alloc
<1> QED BY <1>1, <1>2, <1>3, <1>4 DEF Next, Terminated, AddAlone, vars, local, queue, alloc

(* Together: the next state has its types, phases, bounds and mutexes.     *)
LEMMA BaseNext == QueueInv /\ [Next]_vars => BaseInv'
  BY TypeNext, PhaseNext, BoundsNext, LocksNext DEF BaseInv
-----------------------------------------------------------------------------
(***************************************************************************)
(* Who holds which task_t.                                                 *)
(***************************************************************************)

(* A thread that fills a task_t in the next state fills it already, or is  *)
(* handed it in this step.                                                 *)
LEMMA FillingNext ==
    ASSUME QueueInv, [Next]_vars, NEW t \in Threads, Filling(t)'
    PROVE  slot'[t] = slot[t] /\ (Filling(t) \/ Carve(t))
<1>0. TypeOK
  BY DEF QueueInv, BaseInv
<1>1. pc'[t] \in {"fill", "push", "link", "bump"}
  BY DEF Filling
<1>2. CASE UNCHANGED <<pc, slot>>
  BY <1>2 DEF Filling
<1>3. CASE Barrier1 \/ AloneDone \/ Barrier2
  BY <1>0, <1>1, <1>3, TypeFacts DEF Barrier1, AloneDone, Barrier2, Filling
<1>4. CASE Add(t)
  BY <1>0, <1>1, <1>4, TypeFacts
  DEF Filling, Add, Choose, LockAlloc, Carve, Fill, LockPush, Link, Bump
<1>5. CASE Get(t)
  BY <1>0, <1>1, <1>5, StepPhases DEF Taking, GetPC
<1>6. ASSUME NEW u \in Threads \ {t}, Add(u) \/ Get(u)
      PROVE  pc'[t] = pc[t] /\ slot'[t] = slot[t]
  BY <1>0, <1>6, StepOthers DEF Others
<1> QED BY <1>2, <1>3, <1>4, <1>5, <1>6 DEF Next, AddAlone, Terminated, Filling, vars, local

(* In the same way for one that is about to be handed a task_t.            *)
LEMMA CarvingNext ==
    ASSUME QueueInv, [Next]_vars, NEW t \in Threads, pc'[t] = "carve"
    PROVE  (slot'[t] = slot[t] /\ pc[t] = "carve") \/ LockAlloc(t)
<1>0. TypeOK
  BY DEF QueueInv, BaseInv
<1>2. CASE UNCHANGED <<pc, slot>>
  BY <1>2
<1>3. CASE Barrier1 \/ AloneDone \/ Barrier2
  BY <1>0, <1>3, TypeFacts DEF Barrier1, AloneDone, Barrier2
<1>4. CASE Add(t)
  BY <1>0, <1>4, TypeFacts DEF Add, Choose, LockAlloc, Carve, Fill, LockPush, Link, Bump
<1>5. CASE Get(t)
  BY <1>0, <1>5, StepPhases DEF Taking, GetPC
<1>6. ASSUME NEW u \in Threads \ {t}, Add(u) \/ Get(u)
      PROVE  pc'[t] = pc[t] /\ slot'[t] = slot[t]
  BY <1>0, <1>6, StepOthers DEF Others
<1> QED BY <1>2, <1>3, <1>4, <1>5, <1>6 DEF Next, AddAlone, Terminated, vars, local

(* The allocator moves on in two steps only, and writes are to task_t that *)
(* are handed out.                                                         *)
LEMMA AllocNext ==
    ASSUME TypeOK, [Next]_vars, ~AddAlone
    PROVE  /\ (\A t \in Threads : ~Carve(t)) => blocks' = blocks /\ curr' = curr
           /\ DOMAIN used' = DOMAIN used \/ \E t \in Threads :
                 Fill(t) /\ DOMAIN used' = DOMAIN used \cup {slot[t]}
<1>1. CASE UNCHANGED <<alloc, used>>
  BY <1>1 DEF alloc
<1>2. CASE Barrier1 \/ AloneDone \/ Barrier2
  BY <1>2 DEF Barrier1, AloneDone, Barrier2, alloc
<1>3. ASSUME NEW t \in Threads, Add(t) \/ Get(t)
      PROVE  /\ Carve(t) \/ (blocks' = blocks /\ curr' = curr)
             /\ DOMAIN used' = DOMAIN used \/ (Fill(t) /\ DOMAIN used' = DOMAIN used \cup {slot[t]})
  <2>1. Fill(t) => DOMAIN used' = DOMAIN used \cup {slot[t]}
    BY DEF Fill, Written
  <2>2. Link(t) => DOMAIN used' = DOMAIN used
    BY DEF Link
  <2> QED BY <1>3, <2>1, <2>2
          DEF Add, Get, Choose, LockAlloc, Carve, Fill, LockPush, Link, Bump, LockPop, Peek, Take, alloc
<1> QED BY <1>1, <1>2, <1>3 DEF Next, Terminated, vars

(* No task_t is handed out twice.                                          *)
LEMMA AllocationNext == QueueInv /\ [Next]_vars => Allocation'
<1> SUFFICES ASSUME QueueInv, [Next]_vars PROVE Allocation'
  OBVIOUS
<1>0. /\ TypeOK /\ SamePhase /\ Bounds /\ Locks /\ Allocation
      /\ \A t \in Threads : Filling(t) => slot[t] \in Slots
  BY DEF QueueInv, BaseInv, Bounds
<1>1. CASE AddAlone
  <2>1. \A t \in Threads : ~Filling(t) /\ pc[t] # "carve" /\ pc'[t] = pc[t]
    BY <1>0, <1>1, Phases DEF AddAlone, Filling
  <2>2. \A t \in Threads : ~Filling(t)'
    BY <2>1 DEF Filling
  <2>3. \A x \in Slots : Handed(x) \/ x = FreeSlot.addr => Handed(x)'
    BY <1>0, <1>1, FreeSlotFacts DEF AddAlone, Handed
  <2>4. DOMAIN used' = DOMAIN used \cup {FreeSlot.addr}
    BY <1>1 DEF AddAlone, Written
  <2>5. FreeSlot.addr \in Slots
    BY <1>0, FreeSlotFacts
  <2>6. \A x \in DOMAIN used' : Handed(x)'
    BY <1>0, <2>3, <2>4, <2>5, TypeFacts DEF Allocation
  <2> QED BY <2>1, <2>2, <2>6 DEF Allocation
<1>2. ASSUME NEW t \in Threads, Carve(t) PROVE Allocation'
  <2>1. slot[t] = FreeSlot.addr /\ pc[t] = "carve" /\ slot' = slot /\ used' = used
    BY <1>0, <1>2 DEF Carve, Allocation
  <2>2. blocks' = FreeSlot.blocks /\ curr' = FreeSlot.curr
    BY <1>0, <1>2, <2>1, FreeSlotFacts DEF Carve
  <2>3. FreeSlot.addr \in Slots /\ ~Handed(FreeSlot.addr)
    BY <1>0, FreeSlotFacts
  <2>4. \A x \in Slots : Handed(x) \/ x = FreeSlot.addr => Handed(x)'
    BY <1>0, <2>2, FreeSlotFacts DEF Handed
  <2>5. \A x \in DOMAIN used : Handed(x)'
    BY <1>0, <2>4, TypeFacts DEF Allocation
  <2>6. \A u \in Threads \ {t} : pc'[u] = pc[u] /\ pc[u] # "carve"
    BY <1>0, <1>2, TypeFacts DEF Carve, Locks
  <2>7. pc'[t] # "carve"
    BY <1>0, <1>2, TypeFacts DEF Carve
  <2>8. \A u \in Threads : Filling(u)' => u = t \/ Filling(u)
    BY <2>6 DEF Filling
  <2>9. \A u \in Threads : Filling(u)' => Handed(slot[u])'
    BY <1>0, <2>1, <2>3, <2>4, <2>8 DEF Allocation
  <2>10. \A u \in Threads \ {t} : Filling(u)' => slot[u] # slot[t]
    BY <1>0, <2>1, <2>3, <2>8 DEF Allocation
  <2> QED BY <1>0, <2>1, <2>5, <2>6, <2>7, <2>8, <2>9, <2>10 DEF Allocation
<1>3. CASE ~AddAlone /\ \A t \in Threads : ~Carve(t)
  <2>1. blocks' = blocks /\ curr' = curr
    BY <1>0, <1>3, AllocNext
  <2>2. FreeSlot' = FreeSlot /\ \A x : Handed(x)' <=> Handed(x)
    BY <2>1 DEF FreeSlot, Handed
  <2>3. \A x \in DOMAIN used' : Handed(x)
    <3>1. DOMAIN used' = DOMAIN used \/ \E t \in Threads :
             Fill(t) /\ DOMAIN used' = DOMAIN used \cup {slot[t]}
      BY <1>0, <1>3, AllocNext
    <3>2. \A t \in Threads : Fill(t) => Handed(slot[t])
      BY <1>0 DEF Allocation, Fill, Filling
    <3>3. \A x \in DOMAIN used : Handed(x)
      BY <1>0 DEF Allocation
    <3> QED BY <3>1, <3>2, <3>3
  <2>4. \A t \in Threads : Filling(t)' => Filling(t) /\ slot'[t] = slot[t]
    BY <1>3, FillingNext
  <2>5. \A t \in Threads : pc'[t] = "carve" => slot'[t] = FreeSlot.addr
    <3> SUFFICES ASSUME NEW t \in Threads, pc'[t] = "carve" PROVE slot'[t] = FreeSlot.addr
      OBVIOUS
    <3>1. CASE LockAlloc(t)
      BY <1>0, <3>1, TypeFacts DEF LockAlloc
    <3>2. CASE slot'[t] = slot[t] /\ pc[t] = "carve"
      BY <1>0, <3>2 DEF Allocation
    <3> QED BY <3>1, <3>2, CarvingNext
  <2> QED BY <1>0, <2>2, <2>3, <2>4, <2>5 DEF Allocation
<1> QED BY <1>1, <1>2, <1>3
-----------------------------------------------------------------------------
(***************************************************************************)
(* What the steps do to the stack.                                         *)
(***************************************************************************)

(* What is on the stack, as the invariant has it.                          *)
LEMMA OnStack ==
    ASSUME QueueInv
    PROVE  /\ Stack \subseteq DOMAIN used /\ Stack \subseteq Slots
           /\ \A x \in Stack : Handed(x)
           /\ count > 0 => head \in Stack
           /\ count = 0 => Stack = {}
  BY StackFacts, TypeFacts DEF QueueInv, BaseInv, Bounds, Allocation

(* The three steps that change it: a push (Bump), a push of thread 0 alone *)
(* and a take.                                                             *)
LEMMA BumpStack ==
    ASSUME QueueInv, NEW t \in Threads, Bump(t), TypeOK', Bounds'
    PROVE  /\ Linked' /\ Stack' = Stack \cup {slot[t]}
           /\ slot[t] \notin Stack /\ slot[t] \in DOMAIN used /\ used' = used
<1>0. TypeOK /\ Bounds /\ Linked
  BY DEF QueueInv, BaseInv
<1>1. /\ slot[t] \in Slots /\ slot[t] \in DOMAIN used /\ slot[t] \notin Stack
      /\ used[slot[t]].next = head
  BY DEF QueueInv, BaseInv, Bounds, Apart, Reading, Bump, Filling, Pushing
<1>2. head' = slot[t] /\ count' = count + 1 /\ used' = used
  BY DEF Bump
<1>3. IsFiniteSet(DOMAIN used')
  BY DEF Bounds
<1>4. \A x \in Stack : x \in DOMAIN used' /\ used'[x] = used[x]
  BY <1>2, OnStack
<1> DEFINE d == slot[t]
<1>5. /\ d \in Slots /\ d \notin Stack /\ d \in DOMAIN used' /\ used'[d].next = head
      /\ head' = d
  BY <1>1, <1>2
<1> HIDE DEF d
<1>6. Linked' /\ Stack' = Stack \cup {d}
  BY <1>0, <1>2, <1>3, <1>4, <1>5, PushStack
<1> QED BY <1>1, <1>2, <1>6 DEF d

(* Thread 0 alone pushes what it has just been given.                      *)
LEMMA AloneStack ==
    ASSUME QueueInv, AddAlone, TypeOK', Bounds'
    PROVE  /\ Linked' /\ Stack' = Stack \cup {FreeSlot.addr}
           /\ FreeSlot.addr \notin Stack
           /\ used'[FreeSlot.addr].task = <<0, added[0]>>
           /\ \A x \in Stack : x \in DOMAIN used' /\ used'[x] = used[x]
<1>0. TypeOK /\ Bounds /\ Linked
  BY DEF QueueInv, BaseInv
<1> DEFINE d == FreeSlot.addr
           z == <<0, added[0]>>
<1>1. d \in Slots /\ d \notin Stack
  BY <1>0, FreeSlotFacts, OnStack
<1>2. z \in Tasks /\ head \in Slots \cup {NULL}
  BY <1>0, TaskFacts, TypeFacts DEF AddAlone
<1>3. /\ used' = Written(d, [task |-> z, next |-> head])
      /\ head' = d /\ count' = count + 1
  BY DEF AddAlone
<1> HIDE DEF d, z
<1>4. /\ d \in DOMAIN used' /\ used'[d].task = z /\ used'[d].next = head
      /\ \A x \in DOMAIN used : x \in DOMAIN used' /\ (x # d => used'[x] = used[x])
  <2>1. /\ DOMAIN used' = DOMAIN used \cup {d} /\ DOMAIN used' \subseteq Slots
        /\ used' \in [DOMAIN used' -> [task : Tasks, next : Slots \cup {NULL}]]
        /\ used'[d].task = z /\ used'[d].next = head
        /\ \A x \in DOMAIN used : x # d => used'[x] = used[x]
    BY <1>0, <1>1, <1>2, <1>3, WrittenFacts, Zenon
  <2> QED BY <2>1
<1>5. \A x \in Stack : x \in DOMAIN used' /\ used'[x] = used[x]
  BY <1>1, <1>4, OnStack
<1>6. IsFiniteSet(DOMAIN used')
  BY DEF Bounds
<1>7. Linked' /\ Stack' = Stack \cup {d}
  BY <1>0, <1>1, <1>3, <1>4, <1>5, <1>6, PushStack
<1> QED BY <1>1, <1>4, <1>5, <1>7 DEF d, z

(* A take removes what it works on.                                        *)
LEMMA TakeStack ==
    ASSUME QueueInv, NEW t \in Threads, Take(t), TypeOK'
    PROVE  /\ Linked' /\ Stack' = Stack \ {head} /\ head \in Stack
           /\ slot[t] = head /\ used' = used
<1>0. TypeOK /\ Bounds /\ Linked
  BY DEF QueueInv, BaseInv
<1>1. count > 0 /\ slot[t] = head /\ seen[t] = used[head].next
  BY DEF QueueInv, Reading, Take
<1>2. head' = used[head].next /\ count' = count - 1 /\ used' = used
  BY <1>1 DEF Take
<1> QED BY <1>0, <1>1, <1>2, PopStack

(* The other steps write to no task_t that is on it.                       *)
LEMMA StackKept ==
    ASSUME QueueInv, [Next]_vars, TypeOK', Bounds',
           ~AddAlone, \A t \in Threads : ~Bump(t) /\ ~Take(t)
    PROVE  /\ head' = head /\ count' = count
           /\ Linked' /\ Stack' = Stack
           /\ \A x \in Stack : x \in DOMAIN used' /\ used'[x] = used[x]
<1>0. TypeOK /\ Bounds /\ Linked
  BY DEF QueueInv, BaseInv
<1>1. ASSUME UNCHANGED vars \/ Barrier1 \/ AloneDone \/ Barrier2
      PROVE  head' = head /\ count' = count /\ used' = used
  BY <1>1 DEF Barrier1, AloneDone, Barrier2, queue, vars
<1>3. ASSUME NEW t \in Threads, Add(t) \/ Get(t)
      PROVE  /\ head' = head /\ count' = count
             /\ used' = used \/ Fill(t) \/ Link(t)
  BY <1>3 DEF Add, Get, Choose, LockAlloc, Carve, Fill, LockPush, Link, Bump, LockPop, Peek, Take, queue
<1>4. /\ head' = head /\ count' = count
      /\ used' = used \/ \E t \in Threads : Fill(t) \/ Link(t)
  BY <1>1, <1>3 DEF Next, Terminated
<1>5. ASSUME NEW t \in Threads, Fill(t) \/ Link(t)
      PROVE  \A x \in Stack : x \in DOMAIN used' /\ used'[x] = used[x]
  <2>1. slot[t] \notin Stack
    BY <1>5 DEF QueueInv, Apart, Fill, Link, Filling
  <2>2. \A x \in DOMAIN used : x # slot[t] => x \in DOMAIN used' /\ used'[x] = used[x]
    <3>1. CASE Fill(t)
      BY <3>1 DEF Fill, Written
    <3>2. CASE Link(t)
      BY <3>2 DEF Link
    <3> QED BY <1>5, <3>1, <3>2
  <2> QED BY <2>1, <2>2, OnStack
<1>6. \A x \in Stack : x \in DOMAIN used' /\ used'[x] = used[x]
  BY <1>4, <1>5, OnStack
<1>7. IsFiniteSet(DOMAIN used')
  BY DEF Bounds
<1> QED BY <1>0, <1>4, <1>6, <1>7, KeepStack

(* Every step keeps the path.                                              *)
LEMMA LinkedNext == QueueInv /\ [Next]_vars => Linked'
<1> SUFFICES ASSUME QueueInv, [Next]_vars PROVE Linked'
  OBVIOUS
<1>1. TypeOK' /\ Bounds'
  BY BaseNext DEF BaseInv
<1> QED BY <1>1, BumpStack, AloneStack, TakeStack, StackKept

(* A task_t that a thread fills is not on the stack.                       *)
LEMMA ApartNext == QueueInv /\ [Next]_vars => Apart'
<1> SUFFICES ASSUME QueueInv, [Next]_vars, NEW u \in Threads, Filling(u)'
             PROVE  slot'[u] \notin Stack'
  BY DEF Apart
<1>0. TypeOK' /\ Bounds' /\ TypeOK /\ SamePhase
  BY BaseNext DEF QueueInv, BaseInv
<1>1. slot'[u] = slot[u] /\ (Filling(u) \/ Carve(u))
  BY FillingNext
<1>2. slot[u] \notin Stack
  <2>1. CASE Carve(u)
    <3>1. slot[u] = FreeSlot.addr
      BY <2>1 DEF QueueInv, Allocation, Carve
    <3> QED BY <1>0, <3>1, FreeSlotFacts, OnStack
  <2>2. CASE Filling(u)
    BY <2>2 DEF QueueInv, Apart
  <2> QED BY <1>1, <2>1, <2>2
<1>3. CASE AddAlone
  <2>1. ~Filling(u) /\ pc[u] # "carve"
    BY <1>0, <1>3, Phases DEF AddAlone, Filling
  <2> QED BY <1>1, <2>1 DEF Carve
<1>4. ASSUME NEW t \in Threads, Bump(t) PROVE slot'[u] \notin Stack'
  <2>1. Stack' = Stack \cup {slot[t]}
    BY <1>0, <1>4, BumpStack
  <2>2. slot[u] # slot[t]
    <3>1. t # u
      BY <1>0, <1>4, TypeFacts DEF Bump, Filling
    <3>2. Filling(t) /\ ~Carve(u)
      <4>1. Carve(u) => pc'[t] = pc[t]
        BY <1>0, <3>1, TypeFacts DEF Carve
      <4>2. pc[t] = "bump" /\ pc'[t] = "ready"
        BY <1>0, <1>4, TypeFacts DEF Bump
      <4> QED BY <4>1, <4>2 DEF Filling
    <3>3. Filling(u)
      BY <1>1, <3>2
    <3> QED BY <3>1, <3>2, <3>3 DEF QueueInv, Allocation
  <2> QED BY <1>1, <1>2, <2>1, <2>2
<1>5. ASSUME NEW t \in Threads, Take(t) PROVE slot'[u] \notin Stack'
  BY <1>0, <1>1, <1>2, <1>5, TakeStack
<1>6. CASE ~AddAlone /\ \A t \in Threads : ~Bump(t) /\ ~Take(t)
  BY <1>0, <1>1, <1>2, <1>6, StackKept
<1> QED BY <1>3, <1>4, <1>5, <1>6

(* What a thread reads under the mutex stays so until it acts on it.       *)
LEMMA ReadingNext == QueueInv /\ [Next]_vars => Reading'
<1> SUFFICES ASSUME QueueInv, [Next]_vars, NEW t \in Threads
             PROVE  /\ pc'[t] = "take" =>
                         count' > 0 /\ slot'[t] = head' /\ seen'[t] = used'[head'].next
                    /\ pc'[t] = "bump" => used'[slot'[t]].next = head'
  BY DEF Reading
<1>0. TypeOK' /\ Bounds' /\ TypeOK /\ SamePhase /\ Locks /\ Bounds
  BY BaseNext DEF QueueInv, BaseInv
<1>1. /\ pc[t] = "take" => count > 0 /\ slot[t] = head /\ seen[t] = used[head].next
      /\ pc[t] = "bump" => used[slot[t]].next = head
  BY DEF QueueInv, Reading
<1>2. CASE AddAlone
  <2>1. pc'[t] = pc[t] /\ (t = 0 => pc[t] = "alone") /\ (t # 0 => pc[t] = "barrier2")
    BY <1>0, <1>2, Phases DEF AddAlone
  <2> QED BY <2>1
<1>3. ASSUME NEW u \in Threads, Bump(u) \/ Take(u)
      PROVE  pc'[t] # "take" /\ pc'[t] # "bump"
  <2>1. CASE t = u
    BY <1>0, <1>3, <2>1, TypeFacts DEF Bump, Take
  <2>2. CASE t # u
    <3>1. pc'[t] = pc[t]
      BY <1>0, <1>3, <2>2, TypeFacts DEF Bump, Take
    <3>2. lock = u
      BY <1>0, <1>3 DEF Locks, Bump, Take
    <3> QED BY <1>0, <2>2, <3>1, <3>2 DEF Locks
  <2> QED BY <2>1, <2>2
<1>4. CASE ~AddAlone /\ \A u \in Threads : ~Bump(u) /\ ~Take(u)
  <2>1. /\ head' = head /\ count' = count
        /\ \A x \in Stack : x \in DOMAIN used' /\ used'[x] = used[x]
    BY <1>0, <1>4, StackKept
  <2>2. count > 0 => used'[head] = used[head]
    BY <2>1, OnStack
  <2>3. CASE pc'[t] = pc[t] /\ slot'[t] = slot[t] /\ seen'[t] = seen[t]
    <3>1. pc[t] = "bump" => used'[slot[t]] = used[slot[t]]
      <4> SUFFICES ASSUME pc[t] = "bump" PROVE used'[slot[t]] = used[slot[t]]
        OBVIOUS
      <4>1. Filling(t) /\ slot[t] \in DOMAIN used
        BY <1>0 DEF Filling, Bounds, Pushing
      <4>2. ASSUME NEW u \in Threads, Fill(u) \/ Link(u) PROVE used'[slot[t]] = used[slot[t]]
        <5>1. u # t
          BY <1>0, <2>3, <4>2, TypeFacts DEF Fill, Link
        <5>2. Filling(u)
          BY <4>2 DEF Fill, Link, Filling
        <5>3. slot[t] # slot[u]
          BY <4>1, <5>1, <5>2 DEF QueueInv, Allocation
        <5>4. CASE Fill(u)
          BY <4>1, <5>3, <5>4 DEF Fill, Written
        <5>5. CASE Link(u)
          BY <4>1, <5>3, <5>5 DEF Link
        <5> QED BY <4>2, <5>4, <5>5
      <4>3. used' = used \/ \E u \in Threads : Fill(u) \/ Link(u)
        BY <1>4 DEF Next, Terminated, vars, Barrier1, AloneDone, Barrier2, Add, Get,
              Choose, LockAlloc, Carve, LockPush, LockPop, Peek
      <4> QED BY <4>2, <4>3
    <3> QED BY <1>1, <2>1, <2>2, <2>3, <3>1
  <2>4. CASE Barrier1 \/ AloneDone \/ Barrier2
    BY <1>0, <1>1, <2>1, <2>4, TypeFacts DEF Barrier1, AloneDone, Barrier2
  <2>5. CASE Add(t)
    <3>1. CASE Link(t)
      <4>1. slot[t] \in DOMAIN used
        BY <1>0, <3>1 DEF Bounds, Link, Pushing
      <4>2. used[slot[t]] \in [task : Tasks, next : Slots \cup {NULL}]
        BY <1>0, <4>1 DEF TypeOK
      <4>3. used'[slot[t]].next = head
        BY <3>1, <4>1, <4>2 DEF Link
      <4> QED BY <1>0, <2>1, <3>1, <4>3, TypeFacts DEF Link
    <3>2. CASE ~Link(t)
      BY <1>0, <1>4, <2>5, <3>2, TypeFacts DEF Add, Choose, LockAlloc, Carve, Fill, LockPush
    <3> QED BY <3>1, <3>2
  <2>6. CASE Get(t)
    <3>1. CASE LockPop(t)
      BY <1>0, <3>1, TypeFacts DEF LockPop
    <3>2. CASE Peek(t)
      BY <1>0, <2>1, <2>2, <3>2, TypeFacts DEF Peek
    <3> QED BY <1>4, <2>6, <3>1, <3>2 DEF Get
  <2>7. ASSUME NEW u \in Threads \ {t}, Add(u) \/ Get(u)
        PROVE  pc'[t] = pc[t] /\ slot'[t] = slot[t] /\ seen'[t] = seen[t]
    BY <1>0, <2>7, StepOthers DEF Others
  <2>8. CASE UNCHANGED vars
    BY <2>3, <2>8 DEF vars, local
  <2> QED BY <1>4, <2>3, <2>4, <2>5, <2>6, <2>7, <2>8 DEF Next, Terminated
<1> QED BY <1>2, <1>3, <1>4

(* The other steps neither count a task as added nor as worked on.         *)
LEMMA QuietNext ==
    ASSUME [Next]_vars, ~AddAlone, \A t \in Threads : ~Bump(t) /\ ~Take(t)
    PROVE  /\ added' = added /\ got' = got
           /\ used' = used \/ \E t \in Threads : Fill(t) \/ Link(t)
<1>1. ASSUME NEW t \in Threads, Add(t) \/ Get(t)
      PROVE  added' = added /\ got' = got /\ (used' = used \/ Fill(t) \/ Link(t))
  BY <1>1 DEF Add, Get, Choose, LockAlloc, Carve, Fill, LockPush, Link, Bump, LockPop, Peek, Take
<1>2. ASSUME UNCHANGED vars \/ Barrier1 \/ AloneDone \/ Barrier2
      PROVE  added' = added /\ got' = got /\ used' = used
  BY <1>2 DEF Barrier1, AloneDone, Barrier2, vars, local
<1> QED BY <1>1, <1>2 DEF Next, Terminated

(* A thread that has filled a task_t finds its own task in it.             *)
LEMMA OwnLabelNext ==
    ASSUME QueueInv, [Next]_vars, NEW t \in Threads, Pushing(t)'
    PROVE  used'[slot'[t]].task = <<t, added'[t]>>
<1>0. TypeOK /\ SamePhase /\ Bounds
  BY DEF QueueInv, BaseInv
<1>1. Filling(t)'
  BY DEF Filling, Pushing
<1>2. slot'[t] = slot[t] /\ (Filling(t) \/ Carve(t))
  BY <1>1, FillingNext
<1>3. ~Carve(t)
  BY <1>0, TypeFacts DEF Carve, Pushing
<1>4. Filling(t) /\ slot[t] \in Slots
  BY <1>0, <1>2, <1>3 DEF Bounds
<1>5. ~AddAlone
  BY <1>0, <1>4, Phases DEF AddAlone, Filling
<1>6. Pushing(t) => slot[t] \in DOMAIN used /\ used[slot[t]].task = <<t, added[t]>>
  BY <1>0 DEF Bounds, QueueInv, Labels
<1>7. CASE Fill(t)
  <2>1. added[t] < AddNum[t] /\ added'[t] = added[t]
    BY <1>0, <1>7 DEF Bounds, Fill, AddPC
  <2> DEFINE a == slot[t]
             z == <<t, added[t]>>
             n == NULL
  <2>2. /\ a \in Slots /\ z \in Tasks /\ n \in Slots \cup {NULL}
        /\ used' = Written(a, [task |-> z, next |-> n])
    BY <1>0, <1>4, <1>7, <2>1, TaskFacts, TypeFacts DEF Fill
  <2> HIDE DEF a, z, n
  <2>3. used'[a].task = z
    BY <1>0, <2>2, WrittenFacts
  <2> QED BY <1>2, <2>1, <2>3 DEF a, z
<1>8. ~Fill(t) => Pushing(t)
  <2>1. CASE Add(t) \/ Get(t)
    BY <1>0, <1>4, <2>1, TypeFacts
    DEF Filling, Pushing, Add, Get, Choose, LockAlloc, Carve, LockPush, Link, Bump, LockPop, Peek, Take
  <2>2. ASSUME NEW u \in Threads \ {t}, Add(u) \/ Get(u) PROVE pc'[t] = pc[t]
    BY <1>0, <2>2, StepOthers DEF Others
  <2>3. CASE Barrier1 \/ AloneDone \/ Barrier2
    BY <1>0, <2>3, TypeFacts DEF Barrier1, AloneDone, Barrier2, Pushing
  <2>4. CASE UNCHANGED vars
    BY <2>4 DEF vars, local, Pushing
  <2> QED BY <1>5, <2>1, <2>2, <2>3, <2>4 DEF Next, Terminated, Pushing
<1>9. ASSUME ~Fill(t) PROVE used'[slot[t]].task = used[slot[t]].task /\ added'[t] = added[t]
  <2>0. Pushing(t) /\ slot[t] \in DOMAIN used
    BY <1>6, <1>8, <1>9
  <2>1. ASSUME NEW u \in Threads, Bump(u)
        PROVE  used' = used /\ added'[t] = added[t]
    <3>1. t # u
      BY <1>0, <2>1, TypeFacts DEF Bump, Pushing
    <3> QED BY <1>0, <2>1, <3>1, TypeFacts DEF Bump
  <2>2. ASSUME NEW u \in Threads, Take(u)
        PROVE  used' = used /\ added'[t] = added[t]
    BY <2>2 DEF Take
  <2>3. ASSUME NEW u \in Threads, Link(u)
        PROVE  used'[slot[t]].task = used[slot[t]].task
    <3>1. used[slot[t]] \in [task : Tasks, next : Slots \cup {NULL}]
      BY <1>0, <2>0 DEF TypeOK
    <3> QED BY <2>0, <2>3, <3>1 DEF Link
  <2>4. ASSUME NEW u \in Threads, Fill(u)
        PROVE  used'[slot[t]].task = used[slot[t]].task
    <3>1. slot[u] # slot[t]
      <4>1. u # t /\ Filling(u)
        BY <1>9, <2>4 DEF Fill, Filling
      <4> QED BY <1>4, <4>1 DEF QueueInv, Allocation
    <3> QED BY <2>0, <2>4, <3>1 DEF Fill, Written
  <2> QED BY <1>5, <2>1, <2>2, <2>3, <2>4, QuietNext
<1> QED BY <1>2, <1>6, <1>7, <1>8, <1>9

(* A task on the stack, or in the hands of a thread, has been added; the   *)
(* next task of a thread has not.                                          *)
LEMMA LabelFacts ==
    ASSUME QueueInv
    PROVE  /\ \A x \in Stack : used[x].task \in Tasks /\ WasAdded(used[x].task)
           /\ \A x, y \in Stack : used[x].task = used[y].task => x = y
           /\ \A t \in Threads : \A z \in got[t] :
                 z \in Tasks /\ WasAdded(z) /\ \A x \in Stack : used[x].task # z
           /\ \A t \in Threads : added[t] \in Nat /\ ~WasAdded(<<t, added[t]>>)
<1>0. TypeOK
  BY DEF QueueInv, BaseInv
<1>1. \A x \in Stack : used[x].task \in Tasks
  BY <1>0, OnStack, TypeFacts
<1>2. \A t \in Threads : added[t] \in Nat /\ ~WasAdded(<<t, added[t]>>) /\ got[t] \subseteq Tasks
  BY <1>0, TypeFacts DEF WasAdded
<1> QED BY <1>1, <1>2 DEF QueueInv, Labels

(* A push of thread t: its next task is new to the stack.                  *)
LEMMA LabelsPushed ==
    ASSUME QueueInv, NEW t \in Threads, NEW d, d \notin Stack, Stack' = Stack \cup {d},
           used'[d].task = <<t, added[t]>>, \A x \in Stack : used'[x] = used[x],
           added' = [added EXCEPT ![t] = @ + 1], got' = got,
           \A u \in Threads : Pushing(u)' => used'[slot'[u]].task = <<u, added'[u]>>
    PROVE  Labels'
<1>0. DOMAIN added = Threads /\ added[t] \in Nat
  BY TypeFacts DEF QueueInv, BaseInv
<1>1. \A z \in Tasks : z[1] \in Threads /\ z[2] \in Nat
  BY TaskFacts DEF Tasks
<1>2. \A z \in Tasks : WasAdded(z) => WasAdded(z)'
  <2> SUFFICES ASSUME NEW z \in Tasks, WasAdded(z) PROVE WasAdded(z)'
    OBVIOUS
  <2>1. added[z[1]] \in Nat /\ (added'[z[1]] = added[z[1]] \/ added'[z[1]] = added[z[1]] + 1)
    BY <1>0, <1>1, LabelFacts
  <2> QED BY <1>1, <2>1 DEF WasAdded
<1>3. \A z : z = <<t, added[t]>> => WasAdded(z)' /\ ~WasAdded(z)
  <2>1. added'[t] = added[t] + 1
    BY <1>0
  <2> QED BY <1>0, <2>1 DEF WasAdded
<1>4. \A x \in Stack' : WasAdded(used[x].task)'
  <2> SUFFICES ASSUME NEW x \in Stack' PROVE WasAdded(used[x].task)'
    OBVIOUS
  <2>1. CASE x = d
    BY <1>3, <2>1
  <2>2. CASE x \in Stack
    BY <1>2, <2>2, LabelFacts
  <2> QED BY <2>1, <2>2
<1>5. ASSUME NEW x \in Stack', NEW y \in Stack', used'[x].task = used'[y].task
      PROVE  x = y
  <2>1. \A v \in Stack : used[v].task # <<t, added[t]>>
    BY <1>3, LabelFacts
  <2>2. CASE x = d \/ y = d
    BY <1>5, <2>1, <2>2
  <2>3. CASE x \in Stack /\ y \in Stack
    BY <1>5, <2>3, LabelFacts
  <2> QED BY <2>2, <2>3
<1>6. ASSUME NEW u \in Threads, NEW z \in got[u]
      PROVE  WasAdded(z)' /\ \A x \in Stack' : used'[x].task # z
  <2>1. z \in Tasks /\ WasAdded(z) /\ \A x \in Stack : used[x].task # z
    BY LabelFacts
  <2>2. z # <<t, added[t]>>
    BY <1>3, <2>1
  <2> QED BY <1>2, <2>1, <2>2
<1> QED BY <1>4, <1>5, <1>6 DEF Labels

(* Every step keeps what is said of the tasks.                             *)
LEMMA LabelsNext == QueueInv /\ [Next]_vars => Labels'
<1> SUFFICES ASSUME QueueInv, [Next]_vars PROVE Labels'
  OBVIOUS
<1>0. TypeOK' /\ Bounds' /\ TypeOK
  BY BaseNext DEF BaseInv, QueueInv
<1>1. \A u \in Threads : Pushing(u)' => used'[slot'[u]].task = <<u, added'[u]>>
  BY OwnLabelNext
<1>2. CASE AddAlone
  <2> DEFINE d == FreeSlot.addr
  <2>1. /\ d \notin Stack /\ Stack' = Stack \cup {d} /\ 0 \in Threads
        /\ used'[d].task = <<0, added[0]>> /\ \A x \in Stack : used'[x] = used[x]
    BY <1>0, <1>2, AloneStack, TaskFacts
  <2>2. added' = [added EXCEPT ![0] = @ + 1] /\ got' = got
    BY <1>2 DEF AddAlone
  <2> HIDE DEF d
  <2> QED BY <1>1, <2>1, <2>2, LabelsPushed
<1>3. ASSUME NEW t \in Threads, Bump(t) PROVE Labels'
  <2> DEFINE d == slot[t]
  <2>1. d \notin Stack /\ Stack' = Stack \cup {d} /\ used' = used
    BY <1>0, <1>3, BumpStack
  <2>2. used'[d].task = <<t, added[t]>>
    BY <1>3, <2>1 DEF QueueInv, Labels, Bump, Pushing
  <2>3. added' = [added EXCEPT ![t] = @ + 1] /\ got' = got
    BY <1>3 DEF Bump
  <2> HIDE DEF d
  <2> QED BY <1>1, <2>1, <2>2, <2>3, LabelsPushed
<1>4. ASSUME NEW t \in Threads, Take(t) PROVE Labels'
  <2>1. Stack' = Stack \ {head} /\ head \in Stack /\ slot[t] = head /\ used' = used
    BY <1>0, <1>4, TakeStack
  <2>2. added' = added
    BY <1>4 DEF Take
  <2>3. \A u \in Threads : \A z \in got'[u] : z \in got[u] \/ z = used[head].task
    BY <1>0, <1>4, <2>1, TypeFacts DEF Take
  <2>4. \A u \in Threads : \A z \in got'[u] : WasAdded(z) /\ \A x \in Stack' : used[x].task # z
    BY <2>1, <2>3, LabelFacts
  <2>5. \A x \in Stack' : WasAdded(used[x].task)
    BY <2>1, LabelFacts
  <2>6. \A x, y \in Stack' : used[x].task = used[y].task => x = y
    BY <2>1, LabelFacts
  <2> QED BY <1>1, <2>1, <2>2, <2>4, <2>5, <2>6 DEF Labels, WasAdded
<1>5. CASE ~AddAlone /\ \A t \in Threads : ~Bump(t) /\ ~Take(t)
  <2>1. Stack' = Stack /\ \A x \in Stack : used'[x] = used[x]
    BY <1>0, <1>5, StackKept
  <2>2. added' = added /\ got' = got
    BY <1>5, QuietNext
  <2> QED BY <1>1, <2>1, <2>2, LabelFacts DEF Labels, WasAdded
<1> QED BY <1>2, <1>3, <1>4, <1>5
-----------------------------------------------------------------------------
(***************************************************************************)
(* The invariant, and what follows from it.                                *)
(***************************************************************************)

(* An empty queue satisfies it.                                            *)
LEMMA QueueInit == Init => QueueInv
<1> SUFFICES ASSUME Init PROVE QueueInv
  OBVIOUS
<1>0. /\ head = NULL /\ count = 0 /\ used = <<>> /\ lock = NULL /\ allocLock = NULL
      /\ \A t \in Threads : pc[t] = "ready" /\ added[t] = 0 /\ got[t] = {}
  BY DEF Init
<1>1. DOMAIN used = {}
  BY <1>0
<1>2. used \in [DOMAIN used -> [task : Tasks, next : Slots \cup {NULL}]]
  <2>1. used = [x \in DOMAIN used |-> used[x]]
    BY <1>0, <1>1
  <2> QED BY <1>1, <2>1
<1>3. TypeOK
  BY <1>0, <1>1, <1>2, QueueAssumption DEF Init, TypeOK
<1>4. SamePhase /\ Locks
  BY <1>0 DEF SamePhase, Adding, Locks
<1>5. Bounds
  <2>1. \A t \in Threads : AddNum[t] \in Nat /\ Goal(t) \in Nat
    BY TaskFacts
  <2> QED BY <1>0, <1>1, <2>1, FS_EmptySet DEF Bounds, Filling, Pushing, Adding, AddPC
<1>6. Allocation
  BY <1>0, <1>1 DEF Allocation, Filling
<1>7. Linked
  <2> DEFINE w == [k \in 0 .. 0 |-> NULL]
  <2>1. w \in [0 .. count -> Slots \cup {NULL}] /\ w[0] = NULL
    BY <1>0
  <2>2. 0 .. count - 1 = {}
    BY <1>0
  <2>3. IsPath(w)
    BY <1>0, <2>1, <2>2 DEF IsPath
  <2> QED BY <2>1, <2>3 DEF Linked
<1>8. Stack = {}
  BY <1>0, <1>3, <1>5, <1>7, StackFacts DEF Bounds
<1>9. Apart /\ Reading /\ Labels
  BY <1>0, <1>8 DEF Apart, Reading, Labels, Filling, Pushing
<1> QED BY <1>3, <1>4, <1>5, <1>6, <1>7, <1>9 DEF QueueInv, BaseInv

(* The queue as the joins use it keeps its invariant.                      *)
THEOREM QueueInvariant == Spec => []QueueInv
<1>1. QueueInv /\ [Next]_vars => QueueInv'
  BY BaseNext, AllocationNext, LinkedNext, ApartNext, ReadingNext, LabelsNext DEF QueueInv
<1> QED BY <1>1, QueueInit, PTL DEF Spec

(* The variables keep their types.                                         *)
THEOREM TypeCorrect == Spec => []TypeOK
<1>1. QueueInv => TypeOK
  BY DEF QueueInv, BaseInv
<1> QED BY <1>1, QueueInvariant, PTL

(* No task_t is given to two threads, and none that is being filled is on  *)
(* the stack: task_pthread.h:149-174, with any number of threads and tasks. *)
THEOREM SlotsStayApart == Spec => []SlotsApart
<1>1. QueueInv => SlotsApart
  BY DEF QueueInv, Apart, Allocation, SlotsApart
<1> QED BY <1>1, QueueInvariant, PTL

(* While nobody is at it the stack is as deep as count says                *)
(* (task_pthread.h:113).                                                   *)
THEOREM CountCorrect == Spec => []CountIsDepth
<1>1. QueueInv => CountIsDepth
  BY StackFacts DEF QueueInv, BaseInv, Bounds, CountIsDepth
<1> QED BY <1>1, QueueInvariant, PTL

(* The queue implements the pool of tasks (task_pthread.h:110-133): a push *)
(* is a Put, a take a Get, a look at an empty stack a GetNothing, and the  *)
(* other steps change nothing that the pool knows of.                      *)
THEOREM Refinement == Spec => RefinesPool
<1> DEFINE P == {used[x].task : x \in Stack}
           D == {t \in Threads : pc[t] = "exit"}
<1>1. Init => Pool!Init
  <2> SUFFICES ASSUME Init PROVE Pool!Init
    OBVIOUS
  <2>1. Stack = {}
    BY QueueInit, OnStack DEF Init
  <2>2. D = {} /\ got = [t \in Threads |-> {}]
    BY DEF Init
  <2> QED BY <2>1, <2>2 DEF Pool!Init
<1>2. QueueInv /\ [Next]_vars => [Pool!Next]_Pool!vars
  <2> SUFFICES ASSUME QueueInv, [Next]_vars PROVE [Pool!Next]_Pool!vars
    OBVIOUS
  <2>0. TypeOK' /\ Bounds' /\ TypeOK /\ SamePhase
    BY BaseNext DEF BaseInv, QueueInv
  <2>1. ASSUME NEW t \in Threads, NEW d, Stack' = Stack \cup {d},
               used'[d].task = <<t, added[t]>>, \A x \in Stack : used'[x] = used[x],
               <<t, added[t]>> \in Tasks, got' = got, D' = D
        PROVE  Pool!Put
    <3>1. P' = P \cup {<<t, added[t]>>}
      BY <2>1
    <3>2. <<t, added[t]>> \notin Pool!Known
      BY LabelFacts DEF Pool!Known
    <3> QED BY <2>1, <3>1, <3>2 DEF Pool!Put
  <2>2. CASE AddAlone
    <3> DEFINE d == FreeSlot.addr
    <3>1. /\ Stack' = Stack \cup {d} /\ 0 \in Threads /\ <<0, added[0]>> \in Tasks
          /\ used'[d].task = <<0, added[0]>> /\ \A x \in Stack : used'[x] = used[x]
      BY <2>0, <2>2, AloneStack, TaskFacts, TypeFacts DEF AddAlone
    <3>2. D' = D /\ got' = got
      BY <2>2 DEF AddAlone
    <3> HIDE DEF d, D
    <3>3. Pool!Put
      BY <2>1, <3>1, <3>2
    <3> QED BY <3>3 DEF Pool!Next
  <2>3. ASSUME NEW t \in Threads, Bump(t) PROVE Pool!Put
    <3> DEFINE d == slot[t]
    <3>1. Stack' = Stack \cup {d} /\ used' = used
      BY <2>0, <2>3, BumpStack
    <3>2. used'[d].task = <<t, added[t]>>
      BY <2>3, <3>1 DEF QueueInv, Labels, Bump, Pushing
    <3>3. <<t, added[t]>> \in Tasks
      BY <2>0, <2>3, TaskFacts, TypeFacts DEF QueueInv, BaseInv, Bounds, Bump, AddPC
    <3>4. D' = D /\ got' = got
      BY <2>0, <2>3, TypeFacts DEF Bump
    <3> HIDE DEF d, D
    <3> QED BY <2>1, <3>1, <3>2, <3>3, <3>4
  <2>4. ASSUME NEW t \in Threads, Take(t) PROVE Pool!Get(t)
    <3>1. Stack' = Stack \ {head} /\ head \in Stack /\ slot[t] = head /\ used' = used
      BY <2>0, <2>4, TakeStack
    <3>2. P' = P \ {used[head].task} /\ used[head].task \in P
      BY <3>1, LabelFacts
    <3>3. D' = D /\ t \notin D
      BY <2>0, <2>4, TypeFacts DEF Take
    <3>4. got' = [got EXCEPT ![t] = @ \cup {used[head].task}]
      BY <2>4, <3>1 DEF Take
    <3> QED BY <3>2, <3>3, <3>4 DEF Pool!Get
  <2>5. CASE ~AddAlone /\ \A t \in Threads : ~Bump(t) /\ ~Take(t)
    <3>1. Stack' = Stack /\ count' = count /\ \A x \in Stack : used'[x] = used[x]
      BY <2>0, <2>5, StackKept
    <3>2. P' = P /\ got' = got
      BY <2>5, <3>1, QuietNext
    <3>3. ASSUME NEW t \in Threads, Peek(t), pc'[t] = "exit" PROVE Pool!GetNothing(t)
      <4>1. count = 0
        BY <2>0, <3>3, TypeFacts DEF Peek
      <4>2. P = {}
        BY <4>1, OnStack
      <4>3. D' = D \cup {t} /\ t \notin D
        BY <2>0, <3>3, TypeFacts DEF Peek
      <4> QED BY <3>2, <4>2, <4>3 DEF Pool!GetNothing
    <3>4. ASSUME NEW t \in Threads, Add(t) \/ Get(t), ~(Peek(t) /\ pc'[t] = "exit")
          PROVE  D' = D
      <4>1. pc[t] # "exit" /\ pc'[t] # "exit"
        BY <2>0, <2>5, <3>4, TypeFacts
        DEF Add, Get, Choose, LockAlloc, Carve, Fill, LockPush, Link, LockPop, Peek
      <4>2. \A u \in Threads \ {t} : pc'[u] = pc[u]
        BY <2>0, <3>4, StepOthers DEF Others
      <4> QED BY <4>1, <4>2
    <3>5. ASSUME Barrier1 \/ AloneDone \/ Barrier2 PROVE D' = D
      BY <2>0, <3>5, TypeFacts DEF Barrier1, AloneDone, Barrier2
    <3>6. ASSUME UNCHANGED vars PROVE D' = D
      BY <3>6 DEF vars, local
    <3>7. D' = D \/ \E t \in Threads : Pool!GetNothing(t)
      BY <2>5, <3>3, <3>4, <3>5, <3>6 DEF Next, Terminated
    <3> QED BY <3>2, <3>7 DEF Pool!Next, Pool!vars
  <2> QED BY <2>2, <2>3, <2>4, <2>5 DEF Pool!Next
<1> QED BY <1>1, <1>2, QueueInvariant, PTL DEF Spec, RefinesPool, Pool!Spec
================================================================================
