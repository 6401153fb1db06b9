--------------------------- MODULE PhjPairProofs ----------------------------
(***************************************************************************)
(* What the rooms of the partitioned hash join hold, and why no pair is    *)
(* lost or found twice.  The proofs about Phj, continued.                  *)
(*                                                                         *)
(* Layer 4: the rooms hold the tuples they are said to hold (Setting).     *)
(* Threads that partition have the same job but for their shares, and no   *)
(* step changes what they read.  So the tasks that are made hold the       *)
(* tuples of their part, and no other step touches their rooms.            *)
(*                                                                         *)
(* Layer 5: the pairs still to be joined are shared out to groups of tasks *)
(* (PairInv), each pair to one of them; the pairs of none have been        *)
(* joined, and the tallies of the threads are theirs.  Steps that make     *)
(* tasks of tasks move pairs between groups (MoveAmong), and a probe moves *)
(* those of its task to the tally of its thread (PairProbe).               *)
(***************************************************************************)
EXTENDS PhjProofs

(***************************************************************************)
(* Layer 4: what the rooms hold.                                           *)
(***************************************************************************)

(* A relation has two arrays, as in the builds that do not join over row   *)
(* ids.                                                                    *)
TwoArrays == \A b \in Builds : b.file \notin RowIds

(* Before the first tasks are made.                                        *)
NotYet == part[0] = "first" /\ pc[0] \in Early

(* Thread t is between zeroing its histogram and the barrier behind the    *)
(* scatter, or thread 0 reads the histograms of all.                       *)
Shared   == pc[0] \in {"tasks", "skewtasks"}
Going(t) == pc[t] \in Partitioning \cup {"parted"} \/ Shared

(* The arrays are there, with what has been allocated.                     *)
ArraysThere ==
    \A X \in Rels :
        /\ X \in DOMAIN mem /\ {"org", "tmp"} \subseteq DOMAIN mem[X]
        /\ Allocated(X) \subseteq Cells(X) /\ Allocated(X) \subseteq DOMAIN mem[X]["tmp"]

(* Nothing is written to the relations before the first tasks are made.    *)
Loaded == NotYet => \A X \in Rels : \A c \in Rows(Size[X]) : mem[X]["org"][c] = c

(* All tasks, wherever they are; and each of their rooms is filled, with   *)
(* no tuple twice.                                                         *)
InHand   == {t \in Builders : pc[t] \in {"cluster", "emit"}}
Standing == ToSet(part_queue) \cup ToSet(skew_queue) \cup JoinTasks
                \cup {task[t] : t \in InHand} \cup ({skewtask} \ {NULL})
Full(x)  == x.R.num \in Nat /\ \A X \in Rels : Filled(X, x[X])
AllFull  == \A x \in Standing : Full(x)

(* The arrays that join tasks are in.                                      *)
Home     == IF build.passes = 1 THEN "tmp" ELSE "org"
FinalArr == \A x \in Final, X \in Rels : x[X].arr = Home

(* Histograms hold the counts of their thread's share.                     *)
HistRight ==
    \A t \in Builders, X \in Rels :
        /\ pc[t] \in Uncounted(X) => hist[X][t] = NoCounts
        /\ pc[t] \in Counted(X) \cup {"parted"} \/ Shared => Counts(t, X)

(* What a thread has scattered is where its job has it, and so is what it  *)
(* has stored in full lines.                                               *)
Through(t, X)  == \/ Shared
                  \/ pc[t] \in {"parted", "skewed"}
                  \/ X = "R" /\ pc[t] \in {"countS", "countedS", "scatterS", "linedS", "restsS"}
LinesOut(t, X) == pc[t] \in IF X = "R" THEN {"linedR", "restsR"} ELSE {"linedS", "restsS"}
HasArrived(t, X, K) == \A k \in K : Arrived(X, Job(t, X), Target(t, X), k)
Scattering ==
    \A t \in Builders, X \in Rels :
        /\ Through(t, X) => HasArrived(t, X, Span(Job(t, X)))
        /\ LinesOut(t, X) => HasArrived(t, X, Lines(Job(t, X)))

(* What a thread has clustered, as far as it has still to make tasks of it.*)
ToEmit(x, X, p) ==
    \A k \in Rows(x[X].num) :
        ClusterJob(X, x[X]).hash[k] >= p => Arrived(X, ClusterJob(X, x[X]), "org", k)
Emitting ==
    \A t \in Builders : pc[t] = "emit" => \A X \in Rels : ToEmit(task[t], X, next[t])

(* Probe threads start together, when there is nothing left to partition,  *)
(* and a table has the rows of its task.                                   *)
ProbersAlike ==
    /\ DOMAIN table = Probers
    /\ (\E p \in Probers : ppc[p] \in {"idle", "wipe", "wiped"}) =>
           \/ \A p \in Probers : ppc[p] = "idle"
           \/ \A p \in Probers : ppc[p] \in {"wipe", "wiped"}
ProbeRight ==
    \A p \in Probers : ppc[p] = "probe" => TableRows(p) = RowsAt("R", ptask[p].R)

(* When a queue is done with, it is empty.                                 *)
Finished ==
    /\ ~build.skew => skew_queue = <<>>
    /\ pc[0] \in {"drain", "drained", "max", "maxed", "exit"} => skew_queue = <<>> /\ skewtask = NULL
    /\ part[0] = "skew" /\ pc[0] \in {"fetched", "look"} /\ skewtask = NULL => skew_queue = <<>>
    /\ build.passes = 2 /\ pc[0] \in {"drained", "max", "maxed", "exit"} => part_queue = <<>>
    /\ ~Unspawned => part_queue = <<>>
    /\ \A p \in Probers : ppc[p] \in {"joined", "exit"} => join_queue = <<>>

ContentInv ==
    /\ Loads /\ ArraysThere /\ Loaded /\ AllFull /\ FinalArr /\ HistRight /\ Scattering
    /\ Emitting /\ ProbersAlike /\ ProbeRight /\ Finished

Setting == Symmetric /\ TwoArrays /\ FitInv /\ RoomInv /\ ContentInv

-----------------------------------------------------------------------------
(* What the invariants say of the state in which a step is taken.          *)
LEMMA SettingFacts ==
    ASSUME Setting
    PROVE  /\ FitInv /\ RoomInv /\ ContentInv /\ Plain /\ PhaseInv /\ Symmetric /\ TwoArrays
           /\ build \in Builds /\ build.passes \in {1, 2} /\ (build.skew => build.passes = 2)
           /\ pc \in [Builders -> BuildPC] /\ part \in [Builders -> {"first", "skew"}]
           /\ 0 \in Builders /\ SecondRels = Rels /\ (\A t : Current(t) = Rels)
           /\ Other("tmp") = "org" /\ Other("org") = "tmp" /\ Back = "org"
<1>1. FitInv /\ RoomInv /\ ContentInv /\ Plain /\ PhaseInv /\ Symmetric /\ TwoArrays
  BY DEF Setting, FitInv
<1>2. /\ build \in Builds /\ pc \in [Builders -> BuildPC] /\ part \in [Builders -> {"first", "skew"}]
  BY <1>1 DEF PhaseInv
<1>3. 0 \in Builders /\ build.passes \in {1, 2} /\ (build.skew => build.passes = 2)
  BY <1>2, PhjAssumption DEF Builders
<1>4. SecondRels = Rels /\ \A t : Current(t) = Rels
  BY <1>1, <1>2, SymmetricFacts
<1>5. Other("tmp") = "org" /\ Other("org") = "tmp" /\ Back = "org"
  BY <1>1, <1>2 DEF TwoArrays, Other, Back
<1> QED BY <1>1, <1>2, <1>3, <1>4, <1>5

(* While a thread partitions with the others, all are in the same part of  *)
(* the program, and what they partition is known.                          *)
LEMMA GoingFacts ==
    ASSUME Setting, NEW t \in Builders, Going(t)
    PROVE  /\ part[t] = part[0] /\ \A u \in Builders : pc[u] \notin SecondPhase
           /\ part[t] = "first" => NotYet
           /\ part[t] = "skew" => /\ skewtask # NULL /\ skewtask \in PlainTasks /\ InSkew
                                  /\ build.passes = 2
<1>1. PhaseInv /\ Plain /\ 0 \in Builders /\ InOrder /\ part \in [Builders -> {"first", "skew"}]
  BY SettingFacts DEF FitInv
<1>2. PICK P \in Phases : \A u \in Builders : pc[u] \in P
  BY <1>1 DEF PhaseInv, SamePhase
<1>3. P \cap SecondPhase = {} /\ (P \cap {"fetch"} # {} => pc[0] = "skewtasks")
  <2>1. CASE P \in ScatterPhases
    BY <2>1 DEF ScatterPhases, AfterR, AfterS, SecondPhase
  <2>2. CASE P \notin ScatterPhases
    <3>1. pc[t] \in P /\ pc[0] \in P
      BY <1>1, <1>2
    <3> QED BY <2>2, <3>1 DEF Phases, SecondPhase, LookPhase, Going, Shared, Partitioning
  <2> QED BY <2>1, <2>2
<1>4. \A u \in Builders : pc[u] \notin SecondPhase /\ part[u] = part[0]
  BY <1>1, <1>2, <1>3 DEF PhaseInv, Turns
<1>5. part[t] = "first" => pc[0] \in Early
  <2> SUFFICES ASSUME part[t] = "first" PROVE pc[0] \in Early
    OBVIOUS
  <2>1. pc[0] \notin {"skewtasks", "look", "skewed"}
    BY <1>1, <1>4 DEF PhaseInv, Turns
  <2>2. pc[t] \in P /\ pc[0] \in P
    BY <1>1, <1>2
  <2>3. CASE P \in ScatterPhases
    BY <2>1, <2>2, <2>3 DEF ScatterPhases, AfterR, AfterS, Early
  <2>4. CASE P \notin ScatterPhases
    BY <2>1, <2>2, <2>4 DEF Phases, SecondPhase, LookPhase, Going, Shared, Partitioning, Early
  <2> QED BY <2>3, <2>4
<1>6. ASSUME part[t] = "skew" PROVE skewtask # NULL /\ pc[0] # "fetch"
  <2>1. pc[t] # "parted" /\ pc[0] # "tasks"
    BY <1>1, <1>4, <1>6 DEF PhaseInv, Turns
  <2>2. skewtask # NULL
    BY <1>1, <1>6, <2>1 DEF PhaseInv, SkewKnown, Going, Shared
  <2>3. pc[0] # "fetch"
    BY <1>1, <1>2, <1>3
  <2> QED BY <2>2, <2>3
<1>7. part[t] = "skew" => build.passes = 2
  BY <1>1 DEF InOrder
<1> QED BY <1>1, <1>4, <1>5, <1>6, <1>7 DEF NotYet, InSkew, Plain, PlainSkew

(* What a thread partitions is filled, and it writes to the other array.   *)
LEMMA GoingReady ==
    ASSUME Setting, NEW t \in Builders, Going(t), NEW X \in Rels
    PROVE  /\ Partitionable(t, X)
           /\ part[t] = "first" => /\ Whole(t, X) = Room("org", 0, Size[X])
                                   /\ Target(t, X) = "tmp"
           /\ part[t] = "skew" => /\ Whole(t, X) = skewtask[X] /\ skewtask[X].arr = "tmp"
                                  /\ Target(t, X) = "org"
           /\ Whole(t, X).arr # Target(t, X) /\ Target(t, X) \in {"org", "tmp"}
<1>1. /\ Loads /\ build \in Builds /\ part[t] \in {"first", "skew"} /\ ArraysThere /\ Loaded
      /\ AllFull /\ AllSound /\ Other("tmp") = "org"
  BY SettingFacts DEF ContentInv, RoomInv
<1>2. part[t] = "first" => NotYet
  BY GoingFacts
<1>3. part[t] = "skew" => skewtask # NULL /\ skewtask \in PlainTasks
  BY GoingFacts
<1>4. CASE part[t] = "first"
  <2>1. Whole(t, X) = Room("org", 0, Size[X]) /\ Target(t, X) = "tmp"
    BY <1>4 DEF Whole, Target
  <2>2. \A c \in Rows(Size[X]) : c \in Cells(X) /\ mem[X]["org"][c] = c
    <3>1. Rows(Size[X]) \subseteq Allocated(X)
      <4>1. Size[X] \in Nat /\ 2^RadixBits \in Nat /\ Pad \in Nat
        BY PhjAssumption, PowerOfTwo DEF Size, Rels
      <4>2. 2^RadixBits * Pad \in Nat
        BY <4>1
      <4> QED BY <4>1, <4>2 DEF Rows, Allocated
    <3> QED BY <1>1, <1>2, <1>4, <3>1 DEF Loaded, ArraysThere
  <2>3. Size[X] \in Nat
    BY PhjAssumption DEF Size, Rels
  <2>4. Filled(X, Room("org", 0, Size[X]))
    <3>1. \A k \in Rows(Size[X]) : 0 + k = k
      BY <2>3 DEF Rows
    <3> QED BY <2>2, <3>1 DEF Filled, Room, At, Cells
  <2>5. Whole(t, X).num = Size[X] /\ Whole(t, X).arr = "org"
    BY <2>1 DEF Room
  <2> QED BY <1>1, <1>4, <2>1, <2>3, <2>4, <2>5 DEF Partitionable
<1>5. CASE part[t] = "skew"
  <2>1. skewtask \in Standing
    BY <1>3, <1>5 DEF Standing
  <2>2. Filled(X, skewtask[X])
    BY <1>1, <2>1 DEF AllFull, Full
  <2>3. skewtask[X].arr = "tmp" /\ skewtask[X].num \in Nat
    BY <1>1, <1>3, <1>5 DEF AllSound, Sound
  <2>4. Whole(t, X) = skewtask[X] /\ Target(t, X) = "org"
    BY <1>1, <1>5, <2>3 DEF Whole, Target
  <2> QED BY <1>1, <1>3, <1>5, <2>2, <2>3, <2>4 DEF Partitionable
<1> QED BY <1>1, <1>4, <1>5

(* A thread only scatters when all have counted.                           *)
Scatters(t, X) == Scatter(t, X) \/ StoreLines(t, X) \/ StoreRests(t, X)

(* Who scatters has its job, and the histograms of all threads are right.  *)
LEMMA ScatterCounted ==
    ASSUME Setting, NEW t \in Builders, NEW X \in Rels, Scatters(t, X)
    PROVE  /\ Going(t) /\ AllCounted(t, X)
           /\ pc[t] \in IF X = "R" THEN {"scatterR", "restsR"} ELSE {"scatterS", "restsS"}
<1>1. PhaseInv /\ HistRight /\ Plain
  BY SettingFacts DEF ContentInv
<1>2. pc[t] \in IF X = "R" THEN {"scatterR", "restsR"} ELSE {"scatterS", "restsS"}
  BY DEF Scatters, Scatter, StoreLines, StoreRests, Rels
<1>3. Going(t)
  BY <1>2 DEF Going, Partitioning
<1>4. PICK P \in Phases : \A u \in Builders : pc[u] \in P
  BY <1>1 DEF PhaseInv, SamePhase
<1>5. P \in ScatterPhases
  <2>1. pc[t] \in P
    BY <1>4
  <2> QED BY <1>2, <2>1 DEF Phases, SecondPhase, LookPhase
<1>6. \A u \in Builders : pc[u] \in Counted(X) \cup {"parted"}
  <2>1. pc[t] \in P
    BY <1>4
  <2>2. P \subseteq Counted(X) \cup {"parted"}
    <3>1. CASE X = "R"
      BY <1>2, <1>5, <2>1, <3>1 DEF ScatterPhases, AfterR, AfterS, Counted
    <3>2. CASE X = "S"
      BY <1>2, <1>5, <2>1, <3>2 DEF ScatterPhases, AfterR, AfterS, Counted
    <3> QED BY <3>1, <3>2 DEF Rels
  <2> QED BY <1>4, <2>2
<1>7. \A u \in Builders : Counts(u, X)
  BY <1>1, <1>6 DEF HistRight
<1>8. \A u \in Builders : part[u] = part[t]
  <2>1. \A u \in Builders : Going(u)
    BY <1>6 DEF Going, Partitioning, Counted
  <2> QED BY <1>3, <2>1, GoingFacts
<1> QED BY <1>2, <1>3, <1>7, <1>8 DEF AllCounted

(* So this is what it leaves.                                              *)
Copying(g, K, L) ==
    \/ K = Span(g) /\ L = {}
    \/ K = Lines(g) /\ L = Lines(g)
    \/ K = Span(g) \ Lines(g) /\ L = {}
    \/ K = Span(g) /\ L = Lines(g)

(* What each of the steps of the scatter stores.                           *)
LEMMA ScatterIs ==
    ASSUME Setting, NEW t \in Builders, NEW X \in Rels, NEW g, g = Job(t, X),
           NEW a, a = Target(t, X)
    PROVE  /\ Scatter(t, X) => mem' = Storing(X, g, a, Span(g), {})
           /\ StoreLines(t, X) => mem' = Storing(X, g, a, Lines(g), Lines(g))
           /\ StoreRests(t, X) => mem' = Storing(X, g, a, Span(g) \ Lines(g), {})
<1> SUFFICES ASSUME Scatters(t, X)
             PROVE  /\ Scatter(t, X) => mem' = Storing(X, g, a, Span(g), {})
                    /\ StoreLines(t, X) => mem' = Storing(X, g, a, Lines(g), Lines(g))
                    /\ StoreRests(t, X) => mem' = Storing(X, g, a, Span(g) \ Lines(g), {})
  BY DEF Scatters
<1>1. Going(t) /\ AllCounted(t, X)
  BY ScatterCounted
<1>2. Partitionable(t, X)
  BY <1>1, GoingReady
<1>3. Ways(X, g, Fanout(t), SkipOf(t), a, Starts(t, X), Source(t, X))
  BY <1>1, <1>2, SharesAre
<1> HIDE DEF Scattered, Lined, Rested
<1> QED BY <1>3 DEF Ways, Scatter, StoreLines, StoreRests

-----------------------------------------------------------------------------
(***************************************************************************)
(* What a step writes.                                                     *)
(***************************************************************************)

(* Nothing of relation X but cells of array a from base to end and, before *)
(* it, in the same line.                                                   *)
WritesAt(X, a, base, end) ==
    /\ X \in DOMAIN mem' /\ DOMAIN mem'[X] = DOMAIN mem[X]
    /\ \A b \in DOMAIN mem[X] : b # a => mem'[X][b] = mem[X][b]
    /\ \A c \in DOMAIN mem[X][a] :
           /\ c \in DOMAIN mem'[X][a]
           /\ c \in Int /\ (c <= base - Pad \/ c >= end) => mem'[X][a][c] = mem[X][a][c]

(* What is clear of it is kept.                                            *)
LEMMA ClearKept ==
    ASSUME ArraysThere, NEW X \in Rels, NEW a \in {"org", "tmp"}, NEW base \in Int, NEW end \in Int,
           WritesAt(X, a, base, end), NEW room \in PlainRooms, room.arr \in {"org", "tmp"},
           room.arr # a \/ EndOf(room, Pad) <= base \/ end <= room.base
    PROVE  Kept(X, room)
<1>1. Pad \in Nat \ {0}
  BY PhjAssumption
<1>2. X \in DOMAIN mem /\ {"org", "tmp"} \subseteq DOMAIN mem[X]
  BY DEF ArraysThere
<1>3. \A c \in Cells(X) : c \in Cells(X)'
  BY <1>2 DEF WritesAt, Cells
<1>4. ASSUME NEW k \in Rows(room.num), room.base + k \in DOMAIN mem[X][room.arr]
      PROVE  /\ room.base + k \in DOMAIN mem'[X][room.arr]
             /\ mem'[X][room.arr][room.base + k] = mem[X][room.arr][room.base + k]
  <2>1. CASE room.arr # a
    BY <1>2, <1>4, <2>1 DEF WritesAt
  <2>2. CASE room.arr = a
    <3>1. /\ room.base \in Int /\ room.num \in Int /\ k \in Int /\ 0 <= k /\ k < room.num
      BY DEF PlainRooms, Rows
    <3>2. EndOf(room, Pad) = room.base + room.num + Pad
      BY DEF EndOf
    <3> PICK c : c = room.base + k
      OBVIOUS
    <3>3. c \in Int /\ (c <= base - Pad \/ c >= end)
      BY <1>1, <2>2, <3>1, <3>2
    <3> QED BY <1>4, <2>2, <3>3 DEF WritesAt
  <2> QED BY <2>1, <2>2
<1> QED BY <1>3, <1>4 DEF Kept

(* A thread that scatters writes to the place of its job.                  *)
LEMMA ScatterWrites ==
    ASSUME Setting, NEW t \in Builders, NEW X \in Rels, Scatters(t, X), NEW g, g = Job(t, X),
           NEW a, a = Target(t, X)
    PROVE  /\ WritesAt(X, a, g.base, g.base + g.n + Fanout(t) * g.pad)
           /\ DOMAIN mem' = DOMAIN mem /\ \A Y \in Rels \ {X} : mem'[Y] = mem[Y]
<1>1. Going(t) /\ Partitionable(t, X) /\ a \in {"org", "tmp"}
  BY ScatterCounted, GoingReady
<1>2. X \in DOMAIN mem /\ a \in DOMAIN mem[X] /\ \A Y \in Rels : Y \in DOMAIN mem
  BY <1>1, SettingFacts DEF ContentInv, ArraysThere
<1> PICK f : f = Fanout(t)
  OBVIOUS
<1>3. IsJob(g, f)
  <2>1. IsJob(g, Fanout(t))
    BY <1>1, JobFits
  <2> QED BY <2>1
<1>4. \E K, L : Copying(g, K, L) /\ mem' = Storing(X, g, a, K, L)
  BY ScatterIs DEF Scatters, Copying
<1>5. PICK K, L : Copying(g, K, L) /\ mem' = Storing(X, g, a, K, L)
  BY <1>4
<1>6. K \in SUBSET Span(g) /\ L \in SUBSET K /\ (L = {} \/ L = Lines(g))
  BY <1>5 DEF Copying, Lines
<1> PICK out : out = mem'
  OBVIOUS
<1>7. out = Storing(X, g, a, K, L)
  BY <1>5
<1>8. /\ DOMAIN out = DOMAIN mem /\ DOMAIN out[X] = DOMAIN mem[X]
      /\ \A Y : Y \in DOMAIN mem /\ Y # X => out[Y] = mem[Y]
      /\ \A b : b \in DOMAIN mem[X] /\ b # a => out[X][b] = mem[X][b]
      /\ \A c \in DOMAIN mem[X][a] :
             /\ c \in DOMAIN out[X][a]
             /\ c \in Int /\ (c <= g.base - Pad \/ c >= g.base + g.n + f * g.pad) =>
                    out[X][a][c] = mem[X][a][c]
  <2>1. Copied(X, g, f, a, K, L, out)
    BY <1>2, <1>3, <1>6, <1>7, CopyFacts
  <2> QED BY <2>1 DEF Copied
<1>9. WritesAt(X, a, g.base, g.base + g.n + f * g.pad)
  BY <1>2, <1>8 DEF WritesAt
<1>10. WritesAt(X, a, g.base, g.base + g.n + Fanout(t) * g.pad)
  BY <1>9
<1>11. DOMAIN mem' = DOMAIN mem /\ \A Y \in Rels \ {X} : mem'[Y] = mem[Y]
  BY <1>2, <1>8
<1> QED BY <1>10, <1>11

(* A thread that clusters writes to the place of its task in the other     *)
(* array, where the tuples of the task arrive.                             *)
LEMMA ClusterWrites ==
    ASSUME Setting, NEW t \in Builders, Cluster(t), NEW X \in Rels, NEW x, x = task[t],
           NEW g, g = ClusterJob(X, x[X])
    PROVE  /\ x[X] \in PlainRooms /\ x[X].arr = "tmp" /\ x[X].num \in Nat /\ Filled(X, x[X])
           /\ WritesAt(X, "org", x[X].base, EndOf(x[X], Margin))
           /\ \A k \in Rows(g.n) : /\ Dest(g, k) \in DOMAIN mem'[X]["org"]
                                   /\ mem'[X]["org"][Dest(g, k)] = At(X, x[X], k)
<1>1. /\ FitInv /\ Loads /\ ArraysThere /\ AllFull /\ AllSound /\ build \in Builds /\ Plain
      /\ SecondRels = Rels /\ Other("tmp") = "org"
  BY SettingFacts DEF ContentInv, RoomInv
<1>2. pc[t] = "cluster"
  BY DEF Cluster
<1>3. x \in PlainTasks /\ x \in Standing /\ Sound(x)
  BY <1>1, <1>2 DEF Plain, PlainLocal, Standing, InHand, AllSound
<1>4. x[X] \in PlainRooms /\ x[X].arr = "tmp" /\ x[X].num \in Nat /\ Filled(X, x[X])
  BY <1>1, <1>3, RoomFacts DEF Sound, AllFull, Full
<1>5. X \in DOMAIN mem /\ "org" \in DOMAIN mem[X]
  BY <1>1 DEF ArraysThere
<1> PICK f : f = Fanout2
  OBVIOUS
<1>6. /\ IsJob(g, f) /\ g.n = x[X].num /\ g.base = x[X].base /\ g.pad = Pad /\ g.b = 0
      /\ g.e = g.n /\ g.from = x[X]
  BY <1>1, <1>4, ClusterJobFits
<1>7. PICK L \in SUBSET Span(g) : /\ L = {} \/ L = Lines(g)
                                  /\ Clustered(x, X) = Storing(X, g, "org", Span(g), L)[X]
  <2>1. X \in SecondRels
    BY <1>1
  <2>2. \E L \in SUBSET Span(g) : /\ L = {} \/ L = Lines(g)
                                  /\ Clustered(x, X) = Storing(X, g, Other(x[X].arr), Span(g), L)[X]
    <3>1. ClusterCopies(x, X, g)
      BY <1>1, <1>4, <2>1, ClusterIs
    <3> QED BY <3>1 DEF ClusterCopies
  <2> QED BY <1>1, <1>4, <2>2
<1> PICK out, a, K : out = Storing(X, g, a, K, L) /\ a = "org" /\ K = Span(g)
  OBVIOUS
<1>8. mem' = [Y \in Rels |-> IF Y \in SecondRels THEN Clustered(x, Y) ELSE mem[Y]]
  BY DEF Cluster
<1>9. mem'[X] = out[X] /\ X \in DOMAIN mem'
  BY <1>1, <1>7, <1>8
<1>10. K \in SUBSET Span(g) /\ L \in SUBSET K /\ a \in DOMAIN mem[X]
  BY <1>5
<1>11. /\ DOMAIN out[X] = DOMAIN mem[X]
       /\ \A b : b \in DOMAIN mem[X] /\ b # a => out[X][b] = mem[X][b]
       /\ \A k \in K : /\ Dest(g, k) \in DOMAIN out[X][a]
                       /\ out[X][a][Dest(g, k)] = At(X, g.from, k)
       /\ \A c \in DOMAIN mem[X][a] :
              /\ c \in DOMAIN out[X][a]
              /\ c \in Int /\ (c <= g.base - Pad \/ c >= g.base + g.n + f * g.pad) =>
                     out[X][a][c] = mem[X][a][c]
  <2>1. Copied(X, g, f, a, K, L, out)
    BY <1>5, <1>6, <1>7, <1>10, CopyFacts
  <2> QED BY <2>1 DEF Copied
<1>12. EndOf(x[X], Margin) = g.base + g.n + f * g.pad
  BY <1>6 DEF EndOf, Margin
<1>13. WritesAt(X, a, x[X].base, EndOf(x[X], Margin))
  BY <1>6, <1>9, <1>11, <1>12 DEF WritesAt
<1>14. Rows(g.n) = K
  BY <1>6 DEF Rows, Span
<1> QED BY <1>4, <1>6, <1>9, <1>11, <1>13, <1>14

(* Which steps of a build thread write at all.                             *)
LEMMA MemEffects ==
    ASSUME NEW t \in Builders, Buildpart(t)
    PROVE  \/ UNCHANGED mem
           \/ Memset(t)
           \/ \E X \in Rels : Scatters(t, X)
           \/ Cluster(t)
<1>1. Zero(t) \/ Look(t) \/ (\E X \in Rels : Count(t, X)) => UNCHANGED mem
  BY DEF Zero, Look, Count
<1>2. MakeTasks(t) \/ StartSecondPass(t) \/ PopPart(t) \/ Emit(t) \/ ShareMax(t) => UNCHANGED mem
  BY DEF MakeTasks, StartSecondPass, PopPart, Emit, ShareMax
<1>3. FetchSkew(t) \/ MakeSkewTasks(t) \/ DrainParts(t) \/ FindMax(t) => UNCHANGED mem
  BY DEF FetchSkew, MakeSkewTasks, DrainParts, FindMax
<1>4. Quiet(t) => Memset(t) \/ Zero(t) \/ Look(t)
                  \/ (\E X \in Rels : Count(t, X)) \/ (\E X \in Rels : Scatters(t, X))
  BY DEF Quiet, Partition, Scatters
<1> QED BY <1>1, <1>2, <1>3, <1>4, BuildpartCases

(* Before the first tasks are made there are none; a task is ready to be   *)
(* joined, or has been written by the first pass.                          *)
LEMMA NoneYet ==
    ASSUME Setting, NotYet PROVE Standing = {}
<1>1. FitInv /\ PhaseInv /\ 0 \in Builders /\ InOrder /\ Emptied
  BY SettingFacts DEF RoomInv, FitInv
<1>2. part_queue = <<>> /\ skew_queue = <<>> /\ join_queue = <<>> /\ skewtask = NULL
  BY <1>1 DEF Emptied, NotYet
<1>3. Unspawned
  BY <1>1 DEF InOrder, NotYet, Early
<1>4. JoinTasks = ToSet(join_queue)
  BY <1>3, JoinTasksUnspawned
<1>5. InHand = {}
  <2>1. pc[0] \notin SecondPhase
    BY DEF NotYet, Early, SecondPhase
  <2>2. \A t \in Builders : pc[t] \notin SecondPhase
    BY <1>1, <2>1, AllInSecond
  <2> QED BY <2>2 DEF InHand, SecondPhase
<1>6. ToSet(part_queue) = {} /\ ToSet(skew_queue) = {} /\ ToSet(join_queue) = {}
  BY <1>2 DEF ToSet
<1> QED BY <1>2, <1>4, <1>5, <1>6 DEF Standing

(* A task of those that stand has full rooms, in the arrays they belong    *)
(* to.                                                                     *)
LEMMA StandingFacts ==
    ASSUME Setting, NEW x \in Standing
    PROVE  /\ x \in PlainTasks /\ Full(x)
           /\ \/ x \in Final /\ \A X \in Rels : x[X].arr = Home
              \/ \A X \in Rels : x[X].arr = "tmp"
<1>1. Plain /\ AllFull /\ AllSound /\ FinalArr
  BY SettingFacts DEF ContentInv, RoomInv
<1>2. CASE x \in ToSet(part_queue)
  <2>1. x \in PlainTasks
    BY <1>1, <1>2 DEF Plain, PlainQueues, ToSet
  <2>2. x \in ToSet(Own) \/ x \in Final
    BY <1>2 DEF Own, Final
  <2> QED BY <1>1, <2>1, <2>2 DEF AllFull, AllSound, FinalArr, Sound
<1>3. CASE x \in ToSet(skew_queue)
  <2>1. x \in PlainTasks
    BY <1>1, <1>3 DEF Plain, PlainQueues, ToSet
  <2> QED BY <1>1, <1>3, <2>1 DEF AllFull, AllSound, Sound
<1>4. CASE x \in JoinTasks
  <2>1. x \in PlainTasks
    BY <1>1, <1>4 DEF Plain, PlainQueues, PlainProbers, ToSet, JoinTasks
  <2>2. x \in Final
    BY <1>4 DEF Final
  <2> QED BY <1>1, <2>1, <2>2 DEF AllFull, FinalArr
<1>5. CASE x \in {task[t] : t \in InHand}
  <2>1. x \in PlainTasks /\ Sound(x)
    BY <1>1, <1>5 DEF Plain, PlainLocal, InHand, AllSound
  <2> QED BY <1>1, <2>1 DEF AllFull, Sound
<1>6. CASE x \in {skewtask} \ {NULL}
  BY <1>1, <1>6 DEF Plain, PlainSkew, AllSound, Sound, AllFull
<1> QED BY <1>2, <1>3, <1>4, <1>5, <1>6 DEF Standing

(* A thread that partitions leaves all tasks alone: the rooms it writes to *)
(* are those of its own task in the other array.                           *)
LEMMA AwayFrom ==
    ASSUME Setting, NEW h \in Holders, NEW y, y = IF h = All THEN skewtask ELSE task[h],
           h # All => pc[h] = "cluster", build.passes = 2,
           NEW X \in Rels, WritesAt(X, "org", y[X].base, EndOf(y[X], Margin)),
           NEW x \in Standing
    PROVE  Kept(X, x[X])
<1>1. Plain /\ ArraysThere /\ Placed /\ FitInv /\ build \in Builds
  BY SettingFacts DEF ContentInv, RoomInv, Placed
<1>2. y = Held[h] /\ Held[h] \in PlainTasks
  <2>1. Held \in [Holders -> PlainTasks]
    BY <1>1, PlacedTypes
  <2> QED BY <2>1 DEF Held, Left
<1>3. y[X] \in PlainRooms /\ y[X].base \in Int /\ EndOf(y[X], Margin) \in Int
  <2>1. y[X] \in PlainRooms
    BY <1>2, RoomFacts
  <2> QED BY <1>1, <2>1, MarginFacts DEF PlainRooms, EndOf
<1>4. x[X] \in PlainRooms
  BY StandingFacts, RoomFacts
<1>5. CASE x[X].arr = "tmp"
  BY <1>1, <1>3, <1>4, <1>5, ClearKept
<1>6. CASE x \in Final /\ \A Y \in Rels : x[Y].arr = Home
  <2>1. Beside(x, y, Margin)
    <3>1. h \in DOMAIN Held
      BY DEF Held
    <3> QED BY <1>1, <1>2, <1>6, <3>1 DEF Placed, Separate, Beyond
  <2>2. Clear(x[X], Pad, y[X], Margin)
    BY <2>1 DEF Beside, Rels
  <2>3. EndOf(x[X], Pad) <= y[X].base \/ EndOf(y[X], Margin) <= x[X].base
    BY <2>2 DEF Clear
  <2>4. x[X].arr = "org"
    BY <1>6 DEF Home
  <2> QED BY <1>1, <1>3, <1>4, <2>3, <2>4, ClearKept
<1> QED BY <1>5, <1>6, StandingFacts

(* No step of a build thread changes what is in the room of a task.        *)
LEMMA StandingKept ==
    ASSUME Setting, NEW t \in Builders, Buildpart(t), NEW x \in Standing, NEW X \in Rels
    PROVE  Kept(X, x[X])
<1>1. CASE UNCHANGED mem
  BY <1>1 DEF Kept, Cells
<1>2. CASE Memset(t)
  <2>1. NotYet
    <3>1. pc[t] = "memset" /\ PhaseInv /\ 0 \in Builders
      BY <1>2, SettingFacts DEF Memset
    <3>2. PICK P \in Phases : \A u \in Builders : pc[u] \in P
      BY <3>1 DEF PhaseInv, SamePhase
    <3>3. pc[0] \in {"memset", "ready"}
      <4>1. P \notin ScatterPhases
        BY <3>1, <3>2 DEF ScatterPhases, AfterR, AfterS
      <4> QED BY <3>1, <3>2, <4>1 DEF Phases, SecondPhase, LookPhase
    <3> QED BY <3>1, <3>3 DEF NotYet, Early, PhaseInv, Turns
  <2> QED BY <2>1, NoneYet
<1>3. ASSUME NEW Y \in Rels, Scatters(t, Y) PROVE Kept(X, x[X])
  <2>1. Going(t) /\ Partitionable(t, Y)
    BY <1>3, ScatterCounted, GoingReady
  <2>2. part[t] # "first"
    BY <2>1, GoingFacts, NoneYet
  <2>3. part[t] = "skew"
    BY <2>1, <2>2 DEF Partitionable
  <2>4. InSkew /\ skewtask # NULL /\ build.passes = 2 /\ Target(t, Y) = "org"
        /\ Whole(t, Y) = skewtask[Y]
    BY <2>1, <2>3, GoingFacts, GoingReady
  <2> PICK g : g = Job(t, Y)
    OBVIOUS
  <2>5. g.base = skewtask[Y].base /\ g.n = skewtask[Y].num /\ Fanout(t) = Fanout2 /\ g.pad = Pad
    BY <2>2, <2>4 DEF Job, Begin, Fanout, Padding
  <2>6. WritesAt(Y, "org", g.base, g.base + g.n + Fanout(t) * g.pad)
        /\ \A Z \in Rels \ {Y} : mem'[Z] = mem[Z]
    BY <1>3, <2>4, ScatterWrites
  <2>7. CASE X = Y
    <3>1. WritesAt(X, "org", skewtask[X].base, EndOf(skewtask[X], Margin))
      BY <2>5, <2>6, <2>7 DEF EndOf, Margin
    <3>2. All \in Holders
      BY <2>4 DEF Holders
    <3> QED BY <2>4, <3>1, <3>2, AwayFrom
  <2>8. CASE X # Y
    BY <2>6, <2>8 DEF Kept, Cells
  <2> QED BY <2>7, <2>8
<1>4. CASE Cluster(t)
  <2>1. pc[t] = "cluster" /\ t \in Holders /\ build.passes = 2 /\ t # All
    <3>1. InOrder /\ pc[t] = "cluster"
      BY <1>4, SettingFacts DEF Cluster, FitInv
    <3>2. t # All
      BY PhjAssumption DEF Builders, All
    <3> QED BY <3>1, <3>2 DEF Holders, InOrder
  <2> PICK y : y = task[t]
    OBVIOUS
  <2>2. WritesAt(X, "org", y[X].base, EndOf(y[X], Margin))
    BY <1>4, ClusterWrites
  <2> QED BY <2>1, <2>2, AwayFrom
<1> QED BY <1>1, <1>2, <1>3, <1>4, MemEffects

(* So do they what is partitioned by all together: the job of a thread     *)
(* stays what it is.                                                       *)
LEMMA WholeKept ==
    ASSUME Setting, NEW u \in Builders, Buildpart(u), NEW t \in Builders, Going(t), NEW X \in Rels,
           NEW room, room = Whole(t, X)
    PROVE  Kept(X, room) /\ room \in PlainRooms
<1>0. room \in PlainRooms
  BY GoingReady, WholeFacts
<1>1. CASE part[t] = "skew"
  <2>1. skewtask # NULL /\ room = skewtask[X]
    BY <1>1, GoingFacts, GoingReady
  <2>2. skewtask \in Standing
    BY <2>1 DEF Standing
  <2> QED BY <1>0, <2>1, <2>2, StandingKept
<1>2. CASE part[t] = "first"
  <2>1. room = Room("org", 0, Size[X])
    BY <1>2, GoingReady
  <2>2. CASE UNCHANGED mem
    BY <1>0, <2>2 DEF Kept, Cells
  <2>3. CASE Memset(u)
    <3>1. mem'[X]["org"] = mem[X]["org"]
      <4>1. "org" \in DOMAIN mem[X]
        BY SettingFacts DEF ContentInv, ArraysThere
      <4> QED BY <2>3, <4>1 DEF Memset
    <3>2. room.arr = "org"
      BY <2>1 DEF Room
    <3> QED BY <1>0, <3>1, <3>2 DEF Kept, Cells
  <2>4. ASSUME NEW Y \in Rels, Scatters(u, Y) PROVE Kept(X, room)
    <3>1. Going(u) /\ part[u] = "first"
      <4>1. Going(u)
        BY <2>4, ScatterCounted
      <4> QED BY <1>2, <4>1, GoingFacts
    <3>2. Target(u, Y) = "tmp" /\ Partitionable(u, Y)
      BY <3>1, GoingReady
    <3> PICK g : g = Job(u, Y)
      OBVIOUS
    <3>3. /\ WritesAt(Y, "tmp", g.base, g.base + g.n + Fanout(u) * g.pad)
          /\ \A Z \in Rels \ {Y} : mem'[Z] = mem[Z]
      BY <2>4, <3>2, ScatterWrites
    <3>4. room.arr = "org"
      BY <2>1 DEF Room
    <3>5. "org" \in DOMAIN mem[Y]
      BY SettingFacts DEF ContentInv, ArraysThere
    <3>6. CASE X = Y
      <4>1. mem'[X]["org"] = mem[X]["org"]
        BY <3>3, <3>5, <3>6 DEF WritesAt
      <4> QED BY <3>4, <4>1 DEF Kept, Cells
    <3>7. CASE X # Y
      BY <3>3, <3>7 DEF Kept, Cells
    <3> QED BY <3>6, <3>7
  <2>5. ~Cluster(u)
    <3>1. pc[u] \notin SecondPhase
      BY GoingFacts
    <3> QED BY <3>1 DEF Cluster, SecondPhase
  <2> QED BY <1>0, <2>2, <2>3, <2>4, <2>5, MemEffects
<1>3. part[t] \in {"first", "skew"}
  BY SettingFacts
<1> QED BY <1>0, <1>1, <1>2, <1>3

(* No step of a build thread changes the job of a thread that partitions,  *)
(* nor what it reads.                                                      *)
LEMMA GoingKept ==
    ASSUME Setting, NEW u \in Builders, Buildpart(u), NEW t \in Builders, Going(t), NEW X \in Rels
    PROVE  /\ Job(t, X)' = Job(t, X) /\ Partitionable(t, X)'
           /\ Target(t, X)' = Target(t, X) /\ Fanout(t)' = Fanout(t)
           /\ \A k \in Rows(Job(t, X).n) : At(X, Job(t, X).from, k)' = At(X, Job(t, X).from, k)
           /\ UNCHANGED <<build, r, s, part>>
<1>1. pc[u] # "share" /\ (part[t] = "skew" => pc[0] # "fetch")
  BY GoingFacts DEF SecondPhase, InSkew
<1>2. Advance(u)
  BY StepAdvances
<1>3. UNCHANGED <<build, part>> /\ (part[t] = "skew" => skewtask' = skewtask)
  BY <1>1, <1>2 DEF Advance
<1>4. UNCHANGED <<r, s>>
  <2>1. Quiet(u) \/ FindMax(u) \/ DrainParts(u) => UNCHANGED inputs
    BY DEF Quiet, Memset, Zero, Partition, Look, Count, Scatter, StoreLines, StoreRests, FindMax,
           DrainParts
  <2>2. MakeTasks(u) \/ StartSecondPass(u) \/ PopPart(u) \/ Cluster(u) \/ Emit(u) => UNCHANGED inputs
    BY DEF MakeTasks, StartSecondPass, PopPart, Cluster, Emit
  <2>3. ShareMax(u) \/ FetchSkew(u) \/ MakeSkewTasks(u) => UNCHANGED inputs
    BY DEF ShareMax, FetchSkew, MakeSkewTasks
  <2> QED BY <2>1, <2>2, <2>3, BuildpartCases DEF inputs
<1> PICK room : room = Whole(t, X)
  OBVIOUS
<1>5. Partitionable(t, X) /\ Kept(X, room) /\ room \in PlainRooms
  BY GoingReady, WholeKept
<1>6. /\ Job(t, X)' = Job(t, X) /\ Partitionable(t, X)'
      /\ Target(t, X)' = Target(t, X) /\ Fanout(t)' = Fanout(t)
  BY <1>3, <1>4, <1>5, JobKept
<1>7. \A k \in Rows(room.num) : At(X, room, k)' = At(X, room, k)
  BY <1>5, KeptFacts DEF Partitionable
<1>8. Job(t, X).n = room.num /\ Job(t, X).from = room
  BY DEF Job
<1> QED BY <1>3, <1>4, <1>6, <1>7, <1>8 DEF At

-----------------------------------------------------------------------------
(***************************************************************************)
(* The histograms, and what a scatter leaves.                              *)
(***************************************************************************)

(* While thread 0 reads what all have written, nobody writes.              *)
LEMMA SharedFacts ==
    ASSUME PhaseInv, Shared, NEW t \in Builders
    PROVE  pc[t] \in {"tasks", "queued", "skewtasks", "fetch", "fetched"}
<1>1. PICK P \in Phases : \A u \in Builders : pc[u] \in P
  BY DEF PhaseInv, SamePhase
<1>2. pc[0] \in P
  BY <1>1, PhjAssumption DEF Builders
<1>3. P \notin ScatterPhases
  BY <1>2 DEF ScatterPhases, AfterR, AfterS, Shared
<1>4. P \subseteq {"tasks", "queued", "skewtasks", "fetch", "fetched"}
  BY <1>2, <1>3 DEF Phases, SecondPhase, LookPhase, Shared
<1> QED BY <1>1, <1>4

(* How a thread comes to where it is.                                      *)
LEMMA PlacesBefore ==
    ASSUME Setting, NEW u \in Builders, Buildpart(u), NEW t \in Builders, NEW X \in Rels
    PROVE  /\ t # u => pc'[t] = pc[t]
           /\ Shared' => Shared
           /\ pc'[t] = "parted" => pc[t] \in Counted(X) \cup {"parted"}
           /\ Through(t, X)' => \/ Through(t, X)
                                \/ t = u /\ (Scatter(t, X) \/ StoreRests(t, X))
           /\ LinesOut(t, X)' => \/ LinesOut(t, X)
                                 \/ t = u /\ StoreLines(t, X)
<1>0. pc \in [Builders -> BuildPC] /\ 0 \in Builders /\ SecondRels = Rels
  BY SettingFacts
<1>1. PICK c \in BuildPC : pc' = [pc EXCEPT ![u] = c] /\ PcStep(u, c)
  BY StepAdvances DEF Advance
<1>2. /\ pc'[u] = c /\ \A v \in Builders : v # u => pc'[v] = pc[v]
      /\ c \notin {"tasks", "skewtasks"}
  BY <1>0, <1>1 DEF PcStep
<1>3. Shared' => Shared
  BY <1>0, <1>2 DEF Shared
<1>4. c = "parted" => pc[u] \in {"restsS", "scatterS"}
  BY <1>1 DEF PcStep
<1>5. pc'[t] = "parted" => pc[t] \in Counted(X) \cup {"parted"}
  BY <1>2, <1>4 DEF Counted
<1>6. ASSUME NEW Y \in Rels,
             pc[u] \in IF Y = "R" THEN {"scatterR", "restsR"} ELSE {"scatterS", "restsS"}
      PROVE  Scatters(u, Y)
  <2>1. pc[u] \in {"scatterR", "scatterS", "restsR", "restsS"} =>
            \E Z \in Rels : Scatter(u, Z) \/ StoreRests(u, Z) \/ StoreLines(u, Z) \/ Count(u, Z)
    BY DEF Buildpart, FirstPass, SecondPass, SkewHandling, Partition, Memset, MakeTasks, Zero,
           StartSecondPass, PopPart, Cluster, Emit, ShareMax, FetchSkew, Look, MakeSkewTasks,
           DrainParts, FindMax
  <2>2. PICK Z \in Rels : Scatter(u, Z) \/ StoreRests(u, Z) \/ StoreLines(u, Z) \/ Count(u, Z)
    BY <1>6, <2>1 DEF Rels
  <2>3. pc[u] \in IF Z = "R" THEN {"scatterR", "restsR", "countR"} ELSE {"scatterS", "restsS", "countS"}
    BY <2>2 DEF Scatter, StoreRests, StoreLines, Count, Rels
  <2>4. Z = Y
    BY <1>6, <2>3 DEF Rels
  <2>5. ~Count(u, Y)
    BY <1>6 DEF Count, Rels
  <2> QED BY <2>2, <2>4, <2>5 DEF Scatters
<1>7. ASSUME NEW Y \in Rels
      PROVE  /\ StoreLines(u, Y) => c = IF Y = "R" THEN "linedR" ELSE "linedS"
             /\ Scatter(u, Y) \/ StoreRests(u, Y) => c \notin {"linedR", "linedS", "restsR", "restsS"}
  <2>1. StoreLines(u, Y) => pc' = [pc EXCEPT ![u] = [R |-> "linedR", S |-> "linedS"][Y]]
    BY DEF StoreLines, Goto
  <2>2. Scatter(u, Y) \/ StoreRests(u, Y) => Partitioned(u, Y)
    BY DEF Scatter, StoreRests
  <2>3. Partitioned(u, Y) =>
            \E d \in {"countS", "parted", "skewed"} : pc' = [pc EXCEPT ![u] = d]
    BY DEF Partitioned, Goto
  <2>4. StoreLines(u, Y) => pc'[u] = [R |-> "linedR", S |-> "linedS"][Y]
    BY <1>0, <2>1
  <2>5. Scatter(u, Y) \/ StoreRests(u, Y) => pc'[u] \in {"countS", "parted", "skewed"}
    BY <1>0, <2>2, <2>3
  <2> QED BY <1>2, <2>4, <2>5 DEF Rels
<1>8. Through(u, X)' => Through(u, X) \/ Scatter(u, X) \/ StoreRests(u, X)
  <2> SUFFICES ASSUME Through(u, X)', ~Through(u, X)
               PROVE  Scatter(u, X) \/ StoreRests(u, X)
    OBVIOUS
  <2>1. \/ c \in {"parted", "skewed"}
        \/ X = "R" /\ c \in {"countS", "countedS", "scatterS", "linedS", "restsS"}
    BY <1>2, <1>3 DEF Through
  <2>2. pc[u] \in IF X = "R" THEN {"scatterR", "restsR"} ELSE {"scatterS", "restsS"}
    <3>1. "S" \in SecondRels
      BY <1>0 DEF Rels
    <3>2. CASE X = "R"
      <4>1. ~Shared /\ pc[u] \notin {"parted", "skewed", "countS", "countedS", "scatterS", "linedS", "restsS"}
        BY <3>2 DEF Through
      <4> QED BY <1>1, <2>1, <3>1, <3>2, <4>1 DEF PcStep
    <3>3. CASE X = "S"
      <4>1. c \in {"parted", "skewed"}
        BY <2>1, <3>3
      <4> QED BY <1>1, <3>1, <3>3, <4>1 DEF PcStep
    <3> QED BY <3>2, <3>3 DEF Rels
  <2>3. Scatters(u, X)
    BY <1>6, <2>2
  <2>4. ~StoreLines(u, X)
    BY <1>7, <2>1 DEF Rels
  <2> QED BY <2>3, <2>4 DEF Scatters
<1>9. LinesOut(u, X)' => LinesOut(u, X) \/ StoreLines(u, X)
  <2> SUFFICES ASSUME LinesOut(u, X)', ~LinesOut(u, X)
               PROVE  StoreLines(u, X)
    OBVIOUS
  <2>1. c \in IF X = "R" THEN {"linedR", "restsR"} ELSE {"linedS", "restsS"}
    BY <1>2 DEF LinesOut
  <2>2. pc[u] \in IF X = "R" THEN {"scatterR", "restsR"} ELSE {"scatterS", "restsS"}
    BY <1>1, <2>1 DEF PcStep, Rels
  <2>3. Scatters(u, X)
    BY <1>6, <2>2
  <2>4. ~Scatter(u, X) /\ ~StoreRests(u, X)
    BY <1>7, <2>1 DEF Rels
  <2> QED BY <2>3, <2>4 DEF Scatters
<1>10. t # u => (Through(t, X)' => Through(t, X)) /\ (LinesOut(t, X)' => LinesOut(t, X))
  BY <1>2, <1>3 DEF Through, LinesOut
<1> QED BY <1>2, <1>3, <1>5, <1>8, <1>9, <1>10

(* Histograms stay right.                                                  *)
LEMMA HistStep ==
    ASSUME Setting, NEW u \in Builders, Buildpart(u)
    PROVE  HistRight'
<1>0. /\ HistRight /\ FitInv /\ Symmetric /\ PhaseInv /\ Plain
      /\ hist \in [Rels -> [Builders -> [0 .. 2^RadixBits - 1 -> Nat]]]
  BY SettingFacts DEF ContentInv, Plain, PlainHist
<1>1. HistEffects(u)
  BY <1>0, HistStepEffects
<1>2. ASSUME NEW t \in Builders, NEW X \in Rels, hist'[X][t] = hist[X][t],
             Going(t), Counts(t, X)
      PROVE  Counts(t, X)'
  <2>1. Job(t, X)' = Job(t, X) /\ Fanout(t)' = Fanout(t)
    BY <1>2, GoingKept
  <2> PICK g, f : g = Job(t, X) /\ f = Fanout(t)
    OBVIOUS
  <2>2. \A p \in 0 .. f - 1 : hist[X][t][p] = StartAt(g, p, g.e) - StartAt(g, p, g.b)
    BY <1>2 DEF Counts
  <2>3. \A p : (StartAt(Job(t, X), p, Job(t, X).e) - StartAt(Job(t, X), p, Job(t, X).b))'
                   = StartAt(g, p, g.e) - StartAt(g, p, g.b)
    BY <2>1 DEF StartAt
  <2> QED BY <1>2, <2>1, <2>2, <2>3 DEF Counts
<1>3. ASSUME NEW t \in Builders, NEW X \in Rels, t # u \/ ~Count(t, X)
      PROVE  /\ pc'[t] \in Uncounted(X) => hist'[X][t] = NoCounts
             /\ pc'[t] \in Counted(X) \cup {"parted"} \/ Shared' =>
                    /\ hist'[X][t] = hist[X][t]
                    /\ pc[t] \in Counted(X) \cup {"parted"} \/ Shared
  <2>0. /\ t # u => pc'[t] = pc[t]
        /\ Shared' => Shared
        /\ pc'[t] = "parted" => pc[t] \in Counted(X) \cup {"parted"}
    BY PlacesBefore
  <2>1. CASE t # u
    <3>1. hist'[X][t] = hist[X][t]
      BY <1>1, <2>1 DEF HistEffects
    <3> QED BY <1>0, <2>0, <2>1, <3>1 DEF HistRight
  <2>2. CASE t = u
    <3>1. CASE /\ UNCHANGED hist
               /\ \A Y \in Rels :
                      /\ pc'[u] \in Uncounted(Y) => pc[u] \in Uncounted(Y)
                      /\ pc'[u] \in Counted(Y) => pc[u] \in Counted(Y)
      BY <1>0, <2>0, <2>2, <3>1 DEF HistRight
    <3>2. CASE /\ pc[u] = "zero" /\ pc'[u] = "zeroed"
               /\ \A Y \in Rels : hist'[Y][u] = NoCounts
      <4>1. ~Shared
        BY <1>0, <3>2, SharedFacts
      <4> QED BY <2>0, <2>2, <3>2, <4>1 DEF Counted
    <3>3. ASSUME NEW Y \in Rels, Count(u, Y), pc'[u] = IF Y = "R" THEN "countedR" ELSE "countedS",
                 \A Z \in Rels : \A v \in Builders : <<Z, v>> # <<Y, u>> => hist'[Z][v] = hist[Z][v]
          PROVE  /\ pc'[t] \in Uncounted(X) => hist'[X][t] = NoCounts
                 /\ pc'[t] \in Counted(X) \cup {"parted"} \/ Shared' =>
                        /\ hist'[X][t] = hist[X][t]
                        /\ pc[t] \in Counted(X) \cup {"parted"} \/ Shared
      <4>1. X # Y
        BY <1>3, <2>2, <3>3
      <4>2. hist'[X][t] = hist[X][t]
        BY <2>2, <3>3, <4>1
      <4>3. pc[u] = IF Y = "R" THEN "countR" ELSE "countS"
        BY <3>3 DEF Count, Rels
      <4>4. /\ pc'[t] \in Uncounted(X) => pc[t] \in Uncounted(X)
            /\ pc'[t] \in Counted(X) => pc[t] \in Counted(X)
        BY <2>2, <3>3, <4>1, <4>3 DEF Uncounted, Counted, Rels
      <4> QED BY <1>0, <2>0, <4>2, <4>4 DEF HistRight
    <3> QED BY <1>1, <3>1, <3>2, <3>3 DEF HistEffects
  <2> QED BY <2>1, <2>2
<1>4. ASSUME NEW t \in Builders, NEW X \in Rels, pc[t] \in Counted(X) \cup {"parted"} \/ Shared
      PROVE  Going(t)
  BY <1>4 DEF Going, Counted, Partitioning
<1>5. ASSUME NEW X \in Rels, Count(u, X)
      PROVE  Counts(u, X)' /\ pc'[u] \notin Uncounted(X)
  <2>1. pc[u] = IF X = "R" THEN "countR" ELSE "countS"
    BY <1>5 DEF Count, Rels
  <2>2. Going(u) /\ pc[u] \in Uncounted(X)
    BY <2>1 DEF Going, Partitioning, Uncounted, Rels
  <2>3. Partitionable(u, X) /\ hist[X][u] = NoCounts
    BY <1>0, <2>2, GoingReady DEF HistRight
  <2>4. X \in DOMAIN hist /\ u \in DOMAIN hist[X]
    BY <1>0
  <2>5. pc' = [pc EXCEPT ![u] = [R |-> "countedR", S |-> "countedS"][X]]
    BY <1>5 DEF Count, Goto
  <2>6. pc'[u] = IF X = "R" THEN "countedR" ELSE "countedS"
    <3>1. pc'[u] = [R |-> "countedR", S |-> "countedS"][X]
      BY <2>5, SettingFacts
    <3> QED BY <3>1 DEF Rels
  <2> QED BY <1>5, <2>3, <2>4, <2>6, CountCounts DEF Uncounted
<1>6. ASSUME NEW t \in Builders, NEW X \in Rels
      PROVE  /\ pc'[t] \in Uncounted(X) => hist'[X][t] = NoCounts
             /\ pc'[t] \in Counted(X) \cup {"parted"} \/ Shared' => Counts(t, X)'
  <2>1. CASE t = u /\ Count(t, X)
    BY <1>5, <2>1
  <2>2. CASE t # u \/ ~Count(t, X)
    BY <1>0, <1>2, <1>3, <1>4, <2>2 DEF HistRight
  <2> QED BY <2>1, <2>2
<1>7. \A X : Uncounted(X)' = Uncounted(X) /\ Counted(X)' = Counted(X)
  BY DEF Uncounted, Counted
<1> QED BY <1>6, <1>7 DEF HistRight

-----------------------------------------------------------------------------
(***************************************************************************)
(* What has arrived stays.                                                 *)
(***************************************************************************)

(* The partitions of both passes are no more than 2^RadixBits.             *)
LEMMA PowerAdd ==
    ASSUME NEW a \in Nat, NEW b \in Nat
    PROVE  2^a * 2^b <= 2^(a + b)
<1> DEFINE A == SUBSET (1 .. a)
           B == SUBSET (1 .. b)
           C == SUBSET (1 .. a + b)
           f == [q \in A \X B |-> q[1] \cup {x + a : x \in q[2]}]
<1>1. /\ IsFiniteSet(A) /\ Cardinality(A) = 2^a
      /\ IsFiniteSet(B) /\ Cardinality(B) = 2^b
      /\ IsFiniteSet(C) /\ Cardinality(C) = 2^(a + b)
  <2> PICK c \in Nat : c = a + b
    OBVIOUS
  <2>1. /\ IsFiniteSet(1 .. a) /\ Cardinality(1 .. a) = a
        /\ IsFiniteSet(1 .. b) /\ Cardinality(1 .. b) = b
        /\ IsFiniteSet(1 .. c) /\ Cardinality(1 .. c) = c
    BY FS_Interval
  <2>2. IsFiniteSet(SUBSET (1 .. c)) /\ Cardinality(SUBSET (1 .. c)) = 2^c
    BY <2>1, FS_SUBSET
  <2> QED BY <2>1, <2>2, FS_SUBSET
<1>2. IsFiniteSet(A \X B) /\ Cardinality(A \X B) = 2^a * 2^b
  <2> HIDE DEF A, B
  <2> QED BY <1>1, FS_Product
<1>3. ASSUME NEW q \in A \X B
      PROVE  /\ f[q] \in C
             /\ q[1] = f[q] \cap (1 .. a)
             /\ q[2] = {x \in 1 .. b : x + a \in f[q]}
  <2>1. q[1] \in SUBSET (1 .. a) /\ q[2] \in SUBSET (1 .. b)
    OBVIOUS
  <2>2. f[q] = q[1] \cup {x + a : x \in q[2]}
    OBVIOUS
  <2> HIDE DEF f
  <2>3. f[q] \in C
    BY <2>1, <2>2
  <2>4. q[1] = f[q] \cap (1 .. a)
    BY <2>1, <2>2
  <2>5. q[2] = {x \in 1 .. b : x + a \in f[q]}
    <3>1. ASSUME NEW x \in 1 .. b PROVE x \in q[2] <=> x + a \in f[q]
      <4>1. x + a \notin q[1]
        BY <2>1
      <4>2. \A y \in q[2] : y + a = x + a => y = x
        BY <2>1
      <4> QED BY <2>2, <4>1, <4>2
    <3> QED BY <2>1, <3>1
  <2> QED BY <2>3, <2>4, <2>5
<1>4. \A q, z \in A \X B : f[q] = f[z] => q = z
  <2> SUFFICES ASSUME NEW q \in A \X B, NEW z \in A \X B, f[q] = f[z] PROVE q = z
    OBVIOUS
  <2>1. q[1] = f[q] \cap (1 .. a) /\ q[2] = {x \in 1 .. b : x + a \in f[q]}
    BY <1>3
  <2>2. z[1] = f[z] \cap (1 .. a) /\ z[2] = {x \in 1 .. b : x + a \in f[z]}
    BY <1>3
  <2>3. f[q] = f[z] /\ q = <<q[1], q[2]>> /\ z = <<z[1], z[2]>>
    OBVIOUS
  <2> HIDE DEF f
  <2> QED BY <2>1, <2>2, <2>3
<1>5. f \in Injection(A \X B, C)
  <2>1. f \in [A \X B -> C]
    <3>1. DOMAIN f = A \X B
      OBVIOUS
    <3> QED BY <1>3, <3>1
  <2> HIDE DEF f, A, B, C
  <2> QED BY <1>4, <2>1 DEF Injection, IsInjective
<1> HIDE DEF f, A, B, C
<1> QED BY <1>1, <1>2, <1>5, FS_Injection

(* So what the first pass copies goes to cells that have been allocated.   *)
LEMMA FirstPassFits ==
    ASSUME Setting, NEW t \in Builders, Going(t), part[t] = "first", NEW X \in Rels,
           NEW g, g = Job(t, X), NEW k \in Rows(g.n)
    PROVE  Dest(g, k) \in Allocated(X)
<1> PICK f1, f2, rb, sz, sk : f1 = Fanout1 /\ f2 = Fanout2 /\ rb = 2^RadixBits /\ sz = Size[X]
                              /\ sk = Skip
  OBVIOUS
<1>1. /\ f1 \in Nat \ {0} /\ f2 \in Nat \ {0} /\ rb \in Nat \ {0} /\ sz \in Nat /\ Pad \in Nat \ {0}
      /\ sk \in 0 .. RadixBits /\ RadixBits \in Nat
  BY SettingFacts, FanoutFacts, PhjAssumption DEF Size, Rels
<1>2. f1 * f2 <= rb
  <2> PICK a, b : a = sk /\ b = RadixBits - sk
    OBVIOUS
  <2>1. a \in Nat /\ b \in Nat /\ a + b = RadixBits
    BY <1>1
  <2>2. 2^a * 2^b <= 2^(a + b)
    BY <2>1, PowerAdd
  <2> QED BY <2>1, <2>2 DEF Fanout1, Fanout2
<1>3. Partitionable(t, X) /\ Whole(t, X) = Room("org", 0, sz)
  BY GoingReady
<1>4. IsJob(g, f1) /\ g.n = sz /\ g.base = 0 /\ g.pad = f2 * Pad
  <2>1. IsJob(g, Fanout(t)) /\ g.n = Whole(t, X).num /\ g.base = Begin(t, X) /\ g.pad = Padding(t)
    BY <1>3, JobFits
  <2> QED BY <1>3, <2>1 DEF Fanout, Padding, Begin, Room
<1>5. /\ g.n \in Nat /\ g.base \in Int /\ g.pad \in Nat /\ (f1 - 1) * g.pad \in Nat
      /\ \A p \in 0 .. f1 - 1 : \A i \in 0 .. g.n :
             /\ StartAt(g, p, i) \in Int /\ g.base <= StartAt(g, p, i)
             /\ StartAt(g, p, i) <= g.base + g.n + (f1 - 1) * g.pad
      /\ k \in 0 .. g.n /\ k + 1 \in 0 .. g.n
      /\ g.hash[k] \in 0 .. f1 - 1 /\ Dest(g, k) \in Int
      /\ Dest(g, k) + 1 = StartAt(g, g.hash[k], k + 1)
      /\ Dest(g, k) = StartAt(g, g.hash[k], k)
  BY <1>4, StartFacts
<1>6. 0 <= Dest(g, k) /\ Dest(g, k) + 1 <= sz + (f1 - 1) * g.pad
  BY <1>4, <1>5
<1>7. (f1 - 1) * g.pad <= rb * Pad /\ rb * Pad \in Nat
  <2> PICK z : z = f1 * f2
    OBVIOUS
  <2>1. z \in Nat /\ z <= rb
    BY <1>1, <1>2
  <2>2. z * Pad <= rb * Pad /\ rb * Pad \in Nat
    BY <1>1, <2>1, TimesMono
  <2>3. f1 * (f2 * Pad) = z * Pad
    BY <1>1
  <2> PICK y : y = f2 * Pad
    OBVIOUS
  <2>4. y \in Nat /\ f1 - 1 \in Nat /\ f1 - 1 <= f1
    BY <1>1
  <2>5. (f1 - 1) * y <= f1 * y
    BY <1>1, <2>4, TimesMono
  <2>6. f1 * y \in Int /\ (f1 - 1) * y \in Int /\ z * Pad \in Int
    BY <1>1, <2>1, <2>4
  <2> QED BY <1>4, <2>2, <2>3, <2>5, <2>6
<1>8. sz + rb * Pad - 1 >= Dest(g, k)
  BY <1>1, <1>5, <1>6, <1>7
<1> QED BY <1>5, <1>6, <1>8 DEF Allocated

(* The threads that partition together have the same job, but of shares of *)
(* their own.                                                              *)
SameJob(g, h) ==
    g.n = h.n /\ g.base = h.base /\ g.pad = h.pad /\ g.hash = h.hash /\ g.from = h.from

(* Threads with the same job send a tuple to the same place.               *)
LEMMA SameDest ==
    ASSUME NEW g, NEW h, SameJob(g, h)
    PROVE  /\ \A k : Dest(g, k) = Dest(h, k)
           /\ \A p, i : StartAt(g, p, i) = StartAt(h, p, i)
  BY DEF SameJob, Dest, StartAt

(* All threads that partition have the same job but for their shares.      *)
LEMMA SiblingJobs ==
    ASSUME Setting, NEW t \in Builders, NEW u \in Builders, Going(t), Going(u), NEW X \in Rels
    PROVE  /\ SameJob(Job(t, X), Job(u, X)) /\ Target(t, X) = Target(u, X)
           /\ Fanout(t) = Fanout(u)
<1>1. part[t] = part[u]
  <2>1. part[t] = part[0]
    BY GoingFacts
  <2>2. part[u] = part[0]
    BY GoingFacts
  <2> QED BY <2>1, <2>2
<1>2. /\ Whole(t, X) = Whole(u, X) /\ Fanout(t) = Fanout(u) /\ SkipOf(t) = SkipOf(u)
      /\ Padding(t) = Padding(u) /\ Begin(t, X) = Begin(u, X) /\ Target(t, X) = Target(u, X)
  BY <1>1 DEF Whole, Fanout, SkipOf, Padding, Begin, Target
<1> QED BY <1>2 DEF SameJob, Job

(* Nobody has gone on when a thread stores lines, and a thread that stores *)
(* the rest has stored its lines.                                          *)
LEMMA ScatterOrder ==
    ASSUME Setting, NEW u \in Builders, NEW X \in Rels, NEW t \in Builders
    PROVE  /\ StoreLines(u, X) => ~Through(t, X)
           /\ StoreRests(u, X) => LinesOut(u, X)
           /\ StoreLines(u, X) => ~LinesOut(u, X)
<1>1. StoreLines(u, X) => ~LinesOut(u, X)
  BY DEF StoreLines, LinesOut, Rels
<1>2. StoreRests(u, X) => LinesOut(u, X)
  BY DEF StoreRests, LinesOut, Rels
<1>3. ASSUME StoreLines(u, X), Through(t, X) PROVE FALSE
  <2>1. PhaseInv /\ 0 \in Builders
    BY SettingFacts
  <2>2. PICK P \in Phases : \A v \in Builders : pc[v] \in P
    BY <2>1 DEF PhaseInv, SamePhase
  <2>3. pc[u] = IF X = "R" THEN "scatterR" ELSE "scatterS"
    BY <1>3 DEF StoreLines, Rels
  <2>4. build.swwcb /\ pc[u] \in P /\ pc[t] \in P /\ pc[0] \in P
    BY <1>3, <2>1, <2>2 DEF StoreLines
  <2>5. P \in ScatterPhases
    BY <2>3, <2>4 DEF Phases, SecondPhase, LookPhase
  <2>6. P = IF X = "R" THEN {"scatterR", "linedR"} ELSE {"scatterS", "linedS"}
    BY <2>3, <2>4, <2>5 DEF ScatterPhases, AfterR, AfterS
  <2> QED BY <1>3, <2>4, <2>6 DEF Through, Shared, Rels
<1> QED BY <1>1, <1>2, <1>3

(* What a step that scatters leaves in the arrays.                         *)
LEMMA ScatterCopies ==
    ASSUME Setting, NEW u \in Builders, NEW X \in Rels, NEW g, g = Job(u, X),
           NEW a, a = Target(u, X), NEW f, f = Fanout(u)
    PROVE  /\ Scatter(u, X) => Copied(X, g, f, a, Span(g), {}, mem')
           /\ StoreLines(u, X) => Copied(X, g, f, a, Lines(g), Lines(g), mem')
           /\ StoreRests(u, X) => Copied(X, g, f, a, Span(g) \ Lines(g), {}, mem')
<1> SUFFICES ASSUME Scatters(u, X)
             PROVE  /\ Scatter(u, X) => Copied(X, g, f, a, Span(g), {}, mem')
                    /\ StoreLines(u, X) => Copied(X, g, f, a, Lines(g), Lines(g), mem')
                    /\ StoreRests(u, X) => Copied(X, g, f, a, Span(g) \ Lines(g), {}, mem')
  BY DEF Scatters
<1>1. Going(u) /\ Partitionable(u, X) /\ a \in {"org", "tmp"}
  BY ScatterCounted, GoingReady
<1>2. X \in DOMAIN mem /\ a \in DOMAIN mem[X]
  BY <1>1, SettingFacts DEF ContentInv, ArraysThere
<1>3. IsJob(g, f)
  <2>1. IsJob(g, Fanout(u))
    BY <1>1, JobFits
  <2> QED BY <2>1
<1>4. ASSUME NEW K \in SUBSET Span(g), NEW L \in SUBSET K, L = {} \/ L = Lines(g),
             mem' = Storing(X, g, a, K, L)
      PROVE  Copied(X, g, f, a, K, L, mem')
  <2> PICK out : out = mem'
    OBVIOUS
  <2>1. out = Storing(X, g, a, K, L)
    BY <1>4
  <2>2. Copied(X, g, f, a, K, L, out)
    BY <1>2, <1>3, <1>4, <2>1, CopyFacts
  <2> QED BY <2>2
<1>5. Lines(g) \in SUBSET Span(g) /\ Span(g) \ Lines(g) \in SUBSET Span(g)
  BY DEF Lines
<1>6. /\ Scatter(u, X) => mem' = Storing(X, g, a, Span(g), {})
      /\ StoreLines(u, X) => mem' = Storing(X, g, a, Lines(g), Lines(g))
      /\ StoreRests(u, X) => mem' = Storing(X, g, a, Span(g) \ Lines(g), {})
  BY ScatterIs
<1> QED BY <1>4, <1>5, <1>6

(* A tuple of a job is in its place after a step.                          *)
Lands(X, g, a, k) ==
    /\ Dest(g, k) \in Cells(X)' /\ Dest(g, k) \in DOMAIN mem'[X][a]
    /\ mem'[X][a][Dest(g, k)] = At(X, g.from, k)

(* No cell of a relation is lost.                                          *)
LEMMA CellsKept ==
    ASSUME Setting, NEW u \in Builders, NEW X \in Rels, Scatters(u, X)
    PROVE  Cells(X) \subseteq Cells(X)'
<1> PICK g, a, f : g = Job(u, X) /\ a = Target(u, X) /\ f = Fanout(u)
  OBVIOUS
<1>1. \E K, L : Copied(X, g, f, a, K, L, mem')
  <2>1. /\ Scatter(u, X) => Copied(X, g, f, a, Span(g), {}, mem')
        /\ StoreLines(u, X) => Copied(X, g, f, a, Lines(g), Lines(g), mem')
        /\ StoreRests(u, X) => Copied(X, g, f, a, Span(g) \ Lines(g), {}, mem')
    BY ScatterCopies
  <2> QED BY <2>1 DEF Scatters
<1>2. "org" \in DOMAIN mem[X]
  BY SettingFacts DEF ContentInv, ArraysThere
<1>3. \A c \in DOMAIN mem[X]["org"] : c \in DOMAIN mem'[X]["org"]
  BY <1>1, <1>2 DEF Copied
<1> QED BY <1>3 DEF Cells

(* What a thread scatters lands.                                           *)
LEMMA ScatterLands ==
    ASSUME Setting, NEW u \in Builders, NEW X \in Rels, Scatters(u, X), NEW g, g = Job(u, X),
           NEW a, a = Target(u, X), NEW K, NEW L, Copied(X, g, Fanout(u), a, K, L, mem'),
           NEW k \in K, k \in Rows(g.n)
    PROVE  Lands(X, g, a, k)
<1>1. Dest(g, k) \in DOMAIN mem'[X][a] /\ mem'[X][a][Dest(g, k)] = At(X, g.from, k)
  BY DEF Copied
<1>2. Dest(g, k) \in Cells(X)'
  <2>1. Going(u)
    BY ScatterCounted
  <2>2. CASE part[u] = "skew"
    <3>1. a = "org"
      BY <2>1, <2>2, GoingReady
    <3> QED BY <1>1, <3>1 DEF Cells
  <2>3. CASE part[u] = "first"
    <3>1. Dest(g, k) \in Allocated(X)
      BY <2>1, <2>3, FirstPassFits
    <3>2. Allocated(X) \subseteq Cells(X)
      BY SettingFacts DEF ContentInv, ArraysThere
    <3> QED BY <3>1, <3>2, CellsKept
  <2> QED BY <2>2, <2>3, SettingFacts
<1> QED BY <1>1, <1>2 DEF Lands

(* What has landed before is not overwritten by another thread.            *)
LEMMA ArrivalsKept ==
    ASSUME Setting, NEW u \in Builders, Buildpart(u), NEW t \in Builders, NEW X \in Rels,
           NEW g, g = Job(t, X), NEW a, a = Target(t, X), NEW k \in Rows(g.n), Arrived(X, g, a, k),
           Through(t, X) \/ (LinesOut(t, X) /\ k \in Lines(g))
    PROVE  Lands(X, g, a, k)
<1>0. PhaseInv /\ pc \in [Builders -> BuildPC] /\ 0 \in Builders
  BY SettingFacts
<1>1. /\ Going(t)
      /\ pc[0] \notin {"memset", "ready"} \/ pc[t] \notin {"memset", "ready"}
  <2>1. \/ Shared
        \/ pc[t] \in Partitioning \cup {"parted"} /\ pc[t] \notin {"memset", "ready"}
    BY DEF Through, LinesOut, Partitioning
  <2> QED BY <2>1 DEF Going, Shared
<1>2. CASE UNCHANGED mem
  BY <1>2 DEF Arrived, Lands, Cells
<1>3. ~Memset(u)
  <2>1. PICK P \in Phases : \A v \in Builders : pc[v] \in P
    BY <1>0 DEF PhaseInv, SamePhase
  <2>2. pc[u] \in P /\ pc[t] \in P /\ pc[0] \in P
    BY <1>0, <2>1
  <2>3. CASE P \in ScatterPhases
    BY <2>2, <2>3 DEF Memset, ScatterPhases, AfterR, AfterS
  <2>4. CASE P \notin ScatterPhases
    BY <1>1, <2>2, <2>4 DEF Memset, Phases, SecondPhase, LookPhase
  <2> QED BY <2>3, <2>4
<1>4. ~Cluster(u)
  <2>1. pc[u] \notin SecondPhase
    BY <1>1, GoingFacts
  <2> QED BY <2>1 DEF Cluster, SecondPhase
<1>5. ASSUME NEW Y \in Rels, Scatters(u, Y), Y # X PROVE Lands(X, g, a, k)
  <2>1. mem'[X] = mem[X]
    BY <1>5, ScatterWrites
  <2> QED BY <2>1 DEF Arrived, Lands, Cells
<1>6. CASE Scatters(u, X)
  <2> PICK h, f : h = Job(u, X) /\ f = Fanout(u)
    OBVIOUS
  <2>1. Going(u)
    BY <1>6, ScatterCounted
  <2>2. SameJob(g, h) /\ a = Target(u, X)
    BY <1>1, <2>1, SiblingJobs
  <2>3. Dest(g, k) = Dest(h, k) /\ h.n = g.n /\ h.from = g.from
    BY <2>2, SameDest DEF SameJob
  <2>4. /\ Scatter(u, X) => Copied(X, h, f, a, Span(h), {}, mem')
        /\ StoreLines(u, X) => Copied(X, h, f, a, Lines(h), Lines(h), mem')
        /\ StoreRests(u, X) => Copied(X, h, f, a, Span(h) \ Lines(h), {}, mem')
    BY <2>2, ScatterCopies
  <2>5. PICK K, L : /\ Copied(X, h, f, a, K, L, mem')
                    /\ L = {} \/ (L = Lines(h) /\ K = Lines(h) /\ StoreLines(u, X))
    BY <1>6, <2>4 DEF Scatters
  <2>6. CASE k \in K
    <3>1. Lands(X, h, a, k)
      BY <1>6, <2>2, <2>3, <2>5, <2>6, ScatterLands
    <3> QED BY <2>3, <3>1 DEF Lands
  <2>7. CASE k \notin K /\ (L = {} \/ Foreign(h, k))
    <3>1. Dest(h, k) \in DOMAIN mem[X][a] => mem'[X][a][Dest(h, k)] = mem[X][a][Dest(h, k)]
      BY <2>3, <2>5, <2>7 DEF Copied
    <3>2. Dest(h, k) \in DOMAIN mem[X][a] => Dest(h, k) \in DOMAIN mem'[X][a]
      BY <2>5 DEF Copied
    <3>3. Dest(h, k) \in Cells(X)'
      BY <1>6, <2>3, CellsKept DEF Arrived
    <3> QED BY <2>3, <3>1, <3>2, <3>3 DEF Arrived, Lands
  <2>8. CASE k \notin K /\ L # {}
    <3>1. StoreLines(u, X) /\ L = Lines(h) /\ K = Lines(h)
      BY <2>5, <2>8
    <3>2. LinesOut(t, X) /\ k \in Lines(g) /\ t # u
      <4>1. ~Through(t, X) /\ ~LinesOut(u, X)
        BY <3>1, ScatterOrder
      <4> QED BY <4>1
    <3>3. Foreign(h, k)
      <4> PICK n, m : n = g.n /\ m = BuildNum
        OBVIOUS
      <4>1. /\ g.b = ShareBegin(n, m, t) /\ g.e = ShareEnd(n, m, t)
            /\ h.b = ShareBegin(n, m, u) /\ h.e = ShareEnd(n, m, u)
        <5>1. Partitionable(t, X) /\ Partitionable(u, X)
          BY <1>1, <2>1, GoingReady
        <5>2. g.b = ShareBegin(g.n, BuildNum, t) /\ g.e = ShareEnd(g.n, BuildNum, t)
          BY <5>1, JobFits
        <5>3. h.b = ShareBegin(h.n, BuildNum, u) /\ h.e = ShareEnd(h.n, BuildNum, u)
          BY <5>1, JobFits
        <5> QED BY <2>3, <5>2, <5>3
      <4>2. n \in Nat /\ m \in Nat \ {0} /\ t \in 0 .. m - 1 /\ u \in 0 .. m - 1
        <5>1. Whole(t, X).num \in Nat /\ g.n = Whole(t, X).num
          BY <1>1, GoingReady DEF Partitionable, Job
        <5> QED BY <5>1, PhjAssumption DEF Builders
      <4>3. g.b \in 0 .. n /\ g.e \in 0 .. n /\ g.b <= k /\ k < g.e
        <5>1. g.b \in 0 .. n /\ g.e \in 0 .. n
          BY <4>1, <4>2, ShareBeginInRange, ShareInRange
        <5> QED BY <3>2, <5>1 DEF Lines, Span
      <4>4. g.e <= h.b \/ h.e <= g.b
        <5>1. t < u \/ u < t
          BY <3>2, <4>2
        <5>2. t < u => ShareEnd(n, m, t) <= ShareBegin(n, m, u)
          BY <4>2, ShareOrder
        <5>3. u < t => ShareEnd(n, m, u) <= ShareBegin(n, m, t)
          BY <4>2, ShareOrder
        <5> QED BY <4>1, <5>1, <5>2, <5>3
      <4>5. Max(LineOf(Dest(h, k))) < StartAt(h, h.hash[k], g.e)
        <5>1. Max(LineOf(Dest(g, k))) < StartAt(g, g.hash[k], g.e)
          BY <3>2 DEF Lines, InLine
        <5> QED BY <2>2, <2>3, <5>1, SameDest DEF SameJob
      <4> PICK i, j : i = g.b /\ j = g.e
        OBVIOUS
      <4>6. /\ i \in 0 .. h.n /\ j \in 0 .. h.n /\ i <= k /\ k < j /\ (j <= h.b \/ h.e <= i)
            /\ Max(LineOf(Dest(h, k))) < StartAt(h, h.hash[k], j)
        BY <2>3, <4>3, <4>4, <4>5
      <4> QED BY <4>6 DEF Foreign
    <3> QED BY <2>7, <2>8, <3>3
  <2> QED BY <2>6, <2>7, <2>8
<1> QED BY <1>2, <1>3, <1>4, <1>5, <1>6, MemEffects

(* So what a thread has scattered stays in its place until the tasks are   *)
(* made.                                                                   *)
LEMMA ScatteringStep ==
    ASSUME Setting, NEW u \in Builders, Buildpart(u)
    PROVE  Scattering'
<1>1. ASSUME NEW t \in Builders, NEW X \in Rels, NEW g, g = Job(t, X), NEW a, a = Target(t, X)
      PROVE  /\ Through(t, X)' \/ LinesOut(t, X)' => Going(t)
             /\ Through(t, X)' => \A k \in Span(g) : Lands(X, g, a, k)
             /\ LinesOut(t, X)' => \A k \in Lines(g) : Lands(X, g, a, k)
  <2>1. /\ Through(t, X)' => \/ Through(t, X)
                             \/ t = u /\ (Scatter(t, X) \/ StoreRests(t, X))
        /\ LinesOut(t, X)' => \/ LinesOut(t, X)
                              \/ t = u /\ StoreLines(t, X)
    BY PlacesBefore
  <2>2. Through(t, X) \/ LinesOut(t, X) => Going(t)
    BY DEF Through, LinesOut, Going, Partitioning
  <2>3. Scatters(t, X) => Going(t)
    BY ScatterCounted
  <2>4. Through(t, X)' \/ LinesOut(t, X)' => Going(t)
    BY <2>1, <2>2, <2>3 DEF Scatters
  <2>5. Going(t) => Span(g) \subseteq Rows(g.n) /\ Lines(g) \subseteq Span(g)
    <3> SUFFICES ASSUME Going(t) PROVE Span(g) \subseteq Rows(g.n) /\ Lines(g) \subseteq Span(g)
      OBVIOUS
    <3>1. Partitionable(t, X)
      BY GoingReady
    <3>2. IsJob(g, Fanout(t))
      BY <1>1, <3>1, JobFits
    <3>3. g.n \in Nat /\ g.b \in 0 .. g.n /\ g.e \in 0 .. g.n
      BY <3>2 DEF IsJob, Layout
    <3> QED BY <3>3 DEF Span, Rows, Lines
  <2>6. /\ Through(t, X) => \A k \in Span(g) : Arrived(X, g, a, k)
        /\ LinesOut(t, X) => \A k \in Lines(g) : Arrived(X, g, a, k)
    BY <1>1, SettingFacts DEF ContentInv, Scattering, HasArrived
  <2>7. /\ Through(t, X) => \A k \in Span(g) : Lands(X, g, a, k)
        /\ LinesOut(t, X) => \A k \in Lines(g) : Lands(X, g, a, k)
    BY <1>1, <2>2, <2>5, <2>6, ArrivalsKept
  <2>8. /\ Scatter(t, X) => Copied(X, g, Fanout(t), a, Span(g), {}, mem')
        /\ StoreLines(t, X) => Copied(X, g, Fanout(t), a, Lines(g), Lines(g), mem')
        /\ StoreRests(t, X) => Copied(X, g, Fanout(t), a, Span(g) \ Lines(g), {}, mem')
    <3> PICK f : f = Fanout(t)
      OBVIOUS
    <3>1. /\ Scatter(t, X) => Copied(X, g, f, a, Span(g), {}, mem')
          /\ StoreLines(t, X) => Copied(X, g, f, a, Lines(g), Lines(g), mem')
          /\ StoreRests(t, X) => Copied(X, g, f, a, Span(g) \ Lines(g), {}, mem')
      BY <1>1, ScatterCopies
    <3> QED BY <3>1
  <2>9. Scatter(t, X) => \A k \in Span(g) : Lands(X, g, a, k)
    <3> SUFFICES ASSUME Scatter(t, X), NEW k \in Span(g) PROVE Lands(X, g, a, k)
      OBVIOUS
    <3>1. Scatters(t, X) /\ k \in Rows(g.n)
      BY <2>3, <2>5 DEF Scatters
    <3>2. Copied(X, g, Fanout(t), a, Span(g), {}, mem')
      BY <2>8
    <3> QED BY <1>1, <3>1, <3>2, ScatterLands
  <2>10. StoreLines(t, X) => \A k \in Lines(g) : Lands(X, g, a, k)
    <3> SUFFICES ASSUME StoreLines(t, X), NEW k \in Lines(g) PROVE Lands(X, g, a, k)
      OBVIOUS
    <3>1. Scatters(t, X) /\ k \in Rows(g.n)
      BY <2>3, <2>5 DEF Scatters
    <3>2. Copied(X, g, Fanout(t), a, Lines(g), Lines(g), mem')
      BY <2>8
    <3> QED BY <1>1, <3>1, <3>2, ScatterLands
  <2>11. StoreRests(t, X) => \A k \in Span(g) : Lands(X, g, a, k)
    <3> SUFFICES ASSUME StoreRests(t, X), NEW k \in Span(g) PROVE Lands(X, g, a, k)
      OBVIOUS
    <3>1. Scatters(t, X) /\ k \in Rows(g.n)
      BY <2>3, <2>5 DEF Scatters
    <3>2. CASE k \in Lines(g)
      BY <2>7, <3>2, ScatterOrder
    <3>3. CASE k \in Span(g) \ Lines(g)
      <4>1. Copied(X, g, Fanout(t), a, Span(g) \ Lines(g), {}, mem')
        BY <2>8
      <4> QED BY <1>1, <3>1, <3>3, <4>1, ScatterLands
    <3> QED BY <3>2, <3>3
  <2> QED BY <2>1, <2>4, <2>7, <2>9, <2>10, <2>11
<1>2. ASSUME NEW t \in Builders, NEW X \in Rels, NEW g, g = Job(t, X), NEW a, a = Target(t, X),
             Going(t), NEW k \in Rows(g.n), Lands(X, g, a, k)
      PROVE  Arrived(X, Job(t, X), Target(t, X), k)'
  <2>1. Job(t, X)' = g /\ Target(t, X)' = a
    BY <1>2, GoingKept
  <2>2. At(X, g.from, k)' = At(X, g.from, k)
    BY <1>2, GoingKept
  <2>3. Arrived(X, g, a, k)'
    BY <1>2, <2>2 DEF Lands, Arrived
  <2> QED BY <2>1, <2>3 DEF Arrived
<1>3. ASSUME NEW t \in Builders, NEW X \in Rels
      PROVE  /\ Through(t, X)' => \A k \in Span(Job(t, X)') : Arrived(X, Job(t, X), Target(t, X), k)'
             /\ LinesOut(t, X)' => \A k \in Lines(Job(t, X)') : Arrived(X, Job(t, X), Target(t, X), k)'
  <2> PICK g, a : g = Job(t, X) /\ a = Target(t, X)
    OBVIOUS
  <2>1. /\ Through(t, X)' \/ LinesOut(t, X)' => Going(t)
        /\ Through(t, X)' => \A k \in Span(g) : Lands(X, g, a, k)
        /\ LinesOut(t, X)' => \A k \in Lines(g) : Lands(X, g, a, k)
    BY <1>1
  <2> SUFFICES ASSUME Going(t)
               PROVE  /\ Through(t, X)' => \A k \in Span(Job(t, X)') : Arrived(X, Job(t, X), Target(t, X), k)'
                      /\ LinesOut(t, X)' => \A k \in Lines(Job(t, X)') : Arrived(X, Job(t, X), Target(t, X), k)'
    BY <2>1
  <2>2. Job(t, X)' = g
    BY GoingKept
  <2>3. Span(g) \subseteq Rows(g.n) /\ Lines(g) \subseteq Span(g)
    <3>1. Partitionable(t, X)
      BY GoingReady
    <3>2. IsJob(g, Fanout(t))
      BY <3>1, JobFits
    <3>3. g.n \in Nat /\ g.b \in 0 .. g.n /\ g.e \in 0 .. g.n
      BY <3>2 DEF IsJob, Layout
    <3> QED BY <3>3 DEF Span, Rows, Lines
  <2>4. \A k \in Rows(g.n) : Lands(X, g, a, k) => Arrived(X, Job(t, X), Target(t, X), k)'
    BY <1>2
  <2> QED BY <2>1, <2>2, <2>3, <2>4
<1> QED BY <1>3 DEF Scattering, HasArrived, Span, Lines

-----------------------------------------------------------------------------
(***************************************************************************)
(* The arrays and the relations.                                           *)
(***************************************************************************)

(* Which build runs, and what it joins, never changes.                     *)
LEMMA InputsKept ==
    ASSUME [Next]_vars PROVE UNCHANGED <<build, r, s>>
<1>1. ASSUME NEW t \in Builders, Buildpart(t) PROVE UNCHANGED <<build, r, s>>
  BY <1>1 DEF Buildpart, FirstPass, SecondPass, SkewHandling, Partition, Memset, MakeTasks, Zero,
     Count, Scatter, StoreLines, StoreRests, StartSecondPass, PopPart, Cluster, Emit, ShareMax,
     FetchSkew, Look, MakeSkewTasks, DrainParts, FindMax, inputs
<1>2. ASSUME NEW p \in Probers, Probejoin(p) PROVE UNCHANGED <<build, r, s>>
  BY <1>2 DEF Probejoin, Wipe, PopJoin, BuildTable, Reorder, ProbeTable, inputs
<1>3. ASSUME Main PROVE UNCHANGED <<build, r, s>>
  BY <1>3 DEF Main, Release, Open, SpawnProbers, ReleaseProbe, Collect, inputs
<1>4. ASSUME Terminated \/ UNCHANGED vars PROVE UNCHANGED <<build, r, s>>
  BY <1>4 DEF Terminated, vars, inputs
<1> QED BY <1>1, <1>2, <1>3, <1>4 DEF Next

(* Writing to an array does not take cells away.                           *)
LEMMA WritesThere ==
    ASSUME ArraysThere, NEW X \in Rels, NEW a, NEW base, NEW end,
           WritesAt(X, a, base, end)
    PROVE  /\ X \in DOMAIN mem' /\ {"org", "tmp"} \subseteq DOMAIN mem'[X]
           /\ Allocated(X) \subseteq Cells(X)' /\ Allocated(X) \subseteq DOMAIN mem'[X]["tmp"]
<1>1. /\ X \in DOMAIN mem /\ {"org", "tmp"} \subseteq DOMAIN mem[X]
      /\ Allocated(X) \subseteq DOMAIN mem[X]["org"] /\ Allocated(X) \subseteq DOMAIN mem[X]["tmp"]
  BY DEF ArraysThere, Cells
<1>2. \A b \in {"org", "tmp"} : \A c \in DOMAIN mem[X][b] : c \in DOMAIN mem'[X][b]
  <2> TAKE b \in {"org", "tmp"}
  <2>1. CASE b = a
    BY <2>1 DEF WritesAt
  <2>2. CASE b # a
    BY <1>1, <2>2 DEF WritesAt
  <2> QED BY <2>1, <2>2
<1>3. X \in DOMAIN mem' /\ {"org", "tmp"} \subseteq DOMAIN mem'[X]
  BY <1>1 DEF WritesAt
<1> QED BY <1>1, <1>2, <1>3 DEF Cells

(* A build thread leaves the arrays as large as they are.                  *)
LEMMA ArraysStep ==
    ASSUME Setting, NEW u \in Builders, Buildpart(u)
    PROVE  ArraysThere'
<1>1. ArraysThere
  BY SettingFacts DEF ContentInv
<1>2. CASE UNCHANGED mem
  BY <1>1, <1>2 DEF ArraysThere, Cells, Allocated
<1>3. CASE Memset(u)
  <2>1. mem' = [X \in Rels |-> [mem[X] EXCEPT !.tmp = [c \in Cells(X) |->
                  IF c \in Share(Size[X], BuildNum, u) THEN Empty ELSE @[c]]]]
    BY <1>3 DEF Memset
  <2>2. ASSUME NEW X \in Rels
        PROVE  /\ X \in DOMAIN mem' /\ {"org", "tmp"} \subseteq DOMAIN mem'[X]
               /\ Allocated(X) \subseteq DOMAIN mem'[X]["org"]
               /\ Allocated(X) \subseteq DOMAIN mem'[X]["tmp"]
    <3>1. /\ DOMAIN mem'[X] = DOMAIN mem[X] /\ X \in DOMAIN mem'
      BY <2>1
    <3>2. {"org", "tmp"} \subseteq DOMAIN mem[X] /\ Allocated(X) \subseteq Cells(X)
      BY <1>1 DEF ArraysThere
    <3>3. mem'[X]["org"] = mem[X]["org"] /\ DOMAIN mem'[X]["tmp"] = Cells(X)
      BY <2>1, <3>2
    <3> QED BY <3>1, <3>2, <3>3 DEF Cells
  <2> QED BY <2>2 DEF ArraysThere, Cells, Allocated
<1>4. ASSUME NEW Y \in Rels, Scatters(u, Y) PROVE ArraysThere'
  <2> PICK g, a, f : g = Job(u, Y) /\ a = Target(u, Y) /\ f = Fanout(u)
    OBVIOUS
  <2>1. /\ WritesAt(Y, a, g.base, g.base + g.n + f * g.pad)
        /\ DOMAIN mem' = DOMAIN mem /\ \A Z \in Rels \ {Y} : mem'[Z] = mem[Z]
    <3>1. /\ WritesAt(Y, a, g.base, g.base + g.n + Fanout(u) * g.pad)
          /\ DOMAIN mem' = DOMAIN mem /\ \A Z \in Rels \ {Y} : mem'[Z] = mem[Z]
      BY <1>4, ScatterWrites
    <3> QED BY <3>1
  <2> PICK base, end : base = g.base /\ end = g.base + g.n + f * g.pad
    OBVIOUS
  <2>2. WritesAt(Y, a, base, end)
    BY <2>1
  <2>3. ASSUME NEW X \in Rels
        PROVE  /\ X \in DOMAIN mem' /\ {"org", "tmp"} \subseteq DOMAIN mem'[X]
               /\ Allocated(X) \subseteq Cells(X)' /\ Allocated(X) \subseteq DOMAIN mem'[X]["tmp"]
    <3>1. CASE X = Y
      BY <1>1, <2>2, <3>1, WritesThere
    <3>2. CASE X # Y
      BY <1>1, <2>1, <3>2 DEF ArraysThere, Cells
    <3> QED BY <3>1, <3>2
  <2> QED BY <2>3 DEF ArraysThere, Allocated
<1>5. CASE Cluster(u)
  <2>1. ASSUME NEW X \in Rels
        PROVE  /\ X \in DOMAIN mem' /\ {"org", "tmp"} \subseteq DOMAIN mem'[X]
               /\ Allocated(X) \subseteq Cells(X)' /\ Allocated(X) \subseteq DOMAIN mem'[X]["tmp"]
    <3> PICK x, g : x = task[u] /\ g = ClusterJob(X, x[X])
      OBVIOUS
    <3>1. WritesAt(X, "org", x[X].base, EndOf(x[X], Margin))
      BY <1>5, ClusterWrites
    <3> PICK base, end : base = x[X].base /\ end = EndOf(x[X], Margin)
      OBVIOUS
    <3>2. WritesAt(X, "org", base, end)
      BY <3>1
    <3> QED BY <1>1, <3>2, WritesThere
  <2> QED BY <2>1 DEF ArraysThere, Allocated
<1> QED BY <1>2, <1>3, <1>4, <1>5, MemEffects

(* Nothing writes to the relations before the first tasks are made.        *)
LEMMA LoadedStep ==
    ASSUME Setting, NEW u \in Builders, Buildpart(u)
    PROVE  Loaded'
<1> SUFFICES ASSUME NotYet', NEW X \in Rels, NEW c \in Rows(Size[X])
             PROVE  mem'[X]["org"][c] = c
  BY DEF Loaded, Rows
<1>0. /\ PhaseInv /\ Loaded /\ ArraysThere /\ 0 \in Builders /\ pc \in [Builders -> BuildPC]
      /\ part \in [Builders -> {"first", "skew"}]
  BY SettingFacts DEF ContentInv
<1>1. NotYet
  <2>1. PICK d \in BuildPC : pc' = [pc EXCEPT ![u] = d] /\ PcStep(u, d)
    BY StepAdvances DEF Advance
  <2>2. /\ part' = IF pc[u] = "share" /\ build.skew THEN [part EXCEPT ![u] = "skew"] ELSE part
    BY StepAdvances DEF Advance
  <2>3. part[0] = "first"
    BY <1>0, <2>2 DEF NotYet
  <2>4. pc[0] # "look"
    BY <1>0, <2>3 DEF PhaseInv, Turns
  <2>5. pc[0] \in Early
    <3>1. CASE u # 0
      BY <1>0, <2>1, <3>1 DEF NotYet
    <3>2. CASE u = 0
      <4>1. d \in Early
        BY <1>0, <2>1, <3>2 DEF NotYet, Early
      <4> QED BY <2>1, <2>4, <3>2, <4>1 DEF PcStep, Early
    <3> QED BY <3>1, <3>2
  <2> QED BY <2>3, <2>5 DEF NotYet
<1>2. mem[X]["org"][c] = c
  BY <1>0, <1>1 DEF Loaded
<1>3. {"org", "tmp"} \subseteq DOMAIN mem[X] /\ X \in DOMAIN mem
  BY <1>0 DEF ArraysThere
<1>4. CASE UNCHANGED mem
  BY <1>2, <1>4
<1>5. CASE Memset(u)
  <2>1. mem'[X]["org"] = mem[X]["org"]
    BY <1>3, <1>5 DEF Memset
  <2> QED BY <1>2, <2>1
<1>6. ASSUME NEW Y \in Rels, Scatters(u, Y) PROVE mem'[X]["org"] = mem[X]["org"]
  <2>1. Going(u)
    BY <1>6, ScatterCounted
  <2>2. part[u] = "first"
    BY <1>1, <2>1, GoingFacts DEF NotYet
  <2>3. Target(u, Y) = "tmp"
    BY <2>1, <2>2, GoingReady
  <2> PICK g, a : g = Job(u, Y) /\ a = Target(u, Y)
    OBVIOUS
  <2>4. /\ WritesAt(Y, a, g.base, g.base + g.n + Fanout(u) * g.pad)
        /\ DOMAIN mem' = DOMAIN mem /\ \A Z \in Rels \ {Y} : mem'[Z] = mem[Z]
    BY <1>6, ScatterWrites
  <2>5. CASE X = Y
    BY <1>3, <2>3, <2>4, <2>5 DEF WritesAt
  <2>6. CASE X # Y
    BY <2>4, <2>6
  <2> QED BY <2>5, <2>6
<1>7. ~Cluster(u)
  <2> SUFFICES ASSUME Cluster(u) PROVE FALSE
    OBVIOUS
  <2>1. pc[u] \in SecondPhase
    BY DEF Cluster, SecondPhase
  <2>2. pc[0] \in SecondPhase
    BY <1>0, <2>1, AllInSecond
  <2> QED BY <1>1, <2>2 DEF NotYet, Early, SecondPhase
<1> QED BY <1>2, <1>4, <1>5, <1>6, <1>7, MemEffects

(* When thread 0 makes tasks, every tuple is where the histograms have it. *)
LEMMA SharedArrived ==
    ASSUME Setting, Shared, NEW X \in Rels, NEW g, g = Job(0, X), NEW a, a = Target(0, X),
           NEW k \in Rows(g.n)
    PROVE  Arrived(X, g, a, k)
<1>0. 0 \in Builders /\ Going(0) /\ Scattering
  BY SettingFacts DEF Going, ContentInv
<1>1. Partitionable(0, X)
  BY <1>0, GoingReady
<1>2. g.n \in Nat /\ BuildNum \in Nat \ {0}
  BY <1>0, <1>1, JobFits, WholeFacts
<1>3. PICK t \in 0 .. BuildNum - 1 : k \in Share(g.n, BuildNum, t)
  BY <1>2, ShareCover DEF Rows
<1>4. t \in Builders /\ Going(t)
  BY <1>3 DEF Builders, Going
<1>5. SameJob(Job(t, X), Job(0, X)) /\ Target(t, X) = Target(0, X)
  BY <1>0, <1>4, SiblingJobs
<1> PICK h : h = Job(t, X)
  OBVIOUS
<1>6. SameJob(h, g) /\ Target(t, X) = a
  BY <1>5
<1>7. k \in Span(h)
  <2>1. Partitionable(t, X)
    BY <1>4, GoingReady
  <2>2. Share(h.n, BuildNum, t) = Span(h)
    BY <1>4, <2>1, JobFits
  <2>3. h.n = g.n
    BY <1>6 DEF SameJob
  <2> QED BY <1>3, <2>2, <2>3
<1>8. Arrived(X, h, a, k)
  <2>1. Through(t, X)
    BY DEF Through
  <2>2. HasArrived(t, X, Span(Job(t, X)))
    BY <1>0, <1>4, <2>1 DEF Scattering
  <2> QED BY <1>6, <1>7, <2>2 DEF HasArrived
<1>9. Dest(h, k) = Dest(g, k) /\ h.from = g.from
  BY <1>6, SameDest DEF SameJob
<1> QED BY <1>8, <1>9 DEF Arrived

(* What the room of partition p holds: the tuples of a room that have p.   *)
Holds(X, room, p, from, f, skip) ==
    /\ Filled(X, room)
    /\ RowsAt(X, room) = {i \in RowsAt(X, from) : Radix(KeyOf(X, i), f, skip) = p}

(* The tasks that thread 0 makes hold what has been partitioned.           *)
LEMMA PartTaskHolds ==
    ASSUME Setting, Shared, NEW X \in Rels, NEW total, total[X] = Whole(0, X).num,
           NEW p \in 0 .. Fanout(0) - 1, NEW y, y = PartTask(0, total, p), y[X] \in PlainRooms
    PROVE  Holds(X, y[X], p, Whole(0, X), Fanout(0), SkipOf(0)) /\ y[X].arr = Target(0, X)
<1>0. 0 \in Builders /\ Going(0) /\ Plain /\ PhaseInv /\ Symmetric /\ HistRight
  BY SettingFacts DEF Going, ContentInv
<1>1. Partitionable(0, X)
  BY <1>0, GoingReady
<1>2. AllCounted(0, X)
  <2> SUFFICES ASSUME NEW t \in Builders PROVE part[t] = part[0] /\ Counts(t, X)
    BY DEF AllCounted
  <2>1. Going(t)
    BY DEF Going
  <2> QED BY <1>0, <2>1, GoingFacts DEF HistRight
<1> PICK g, a, f, skip : g = Job(0, X) /\ a = Target(0, X) /\ f = Fanout(0) /\ skip = SkipOf(0)
  OBVIOUS
<1>3. y[X] = TargetRoom(g, a, p)
  BY <1>0, <1>1, <1>2, PartTaskIs
<1>4. JobFor(g, X, f, skip) /\ g.from = Whole(0, X)
  BY <1>0, <1>1, JobFits
<1>5. \A k \in Rows(g.n) : g.hash[k] = p => Arrived(X, g, a, k)
  BY SharedArrived
<1>6. /\ Filled(X, TargetRoom(g, a, p))
      /\ RowsAt(X, TargetRoom(g, a, p)) =
             {i \in RowsAt(X, g.from) : Radix(KeyOf(X, i), f, skip) = p}
  BY <1>4, <1>5, ArrivedFacts
<1>7. y[X].arr = a
  BY <1>3 DEF TargetRoom, Room
<1> QED BY <1>3, <1>4, <1>6, <1>7 DEF Holds

(* ... and so do those that a thread makes in the second pass.             *)
LEMMA ClusterTaskHolds ==
    ASSUME Setting, NEW t \in Builders, pc[t] = "emit", NEW X \in Rels,
           NEW x, x = task[t], NEW p, p = next[t], NEW y, y = ClusterTask(x, p)
    PROVE  Holds(X, y[X], p, x[X], Fanout2, Skip) /\ y[X].arr = "org" /\ p \in Bins
<1>0. /\ PhaseInv /\ Plain /\ RoomInv /\ Loads /\ Emitting /\ AllFull /\ build \in Builds
      /\ SecondRels = Rels /\ Other("tmp") = "org"
  BY SettingFacts DEF ContentInv
<1>1. x \in PlainTasks /\ Sound(x) /\ p \in Bins
  BY <1>0 DEF RoomInv, AllSound, Plain, PlainLocal, Bins
<1>2. x[X] \in PlainRooms /\ x[X].num \in Nat /\ x[X].arr = "tmp"
  BY <1>1, TaskNumbers DEF Sound, Rels
<1>3. x \in Standing
  BY DEF Standing, InHand
<1>4. Filled(X, x[X])
  BY <1>0, <1>3 DEF AllFull, Full
<1> PICK g : g = ClusterJob(X, x[X])
  OBVIOUS
<1>5. ClusterCopies(x, X, g) /\ ClusterMakes(x, X, g)
  BY <1>0, <1>2, <1>4, ClusterIs
<1>6. y[X] = TargetRoom(g, "org", p)
  BY <1>0, <1>1, <1>2, <1>5 DEF ClusterMakes, Bins
<1> PICK f, skip : f = Fanout2 /\ skip = Skip
  OBVIOUS
<1>7. JobFor(g, X, f, skip) /\ g.from = x[X] /\ g.n = x[X].num
  BY <1>0, <1>2, <1>4, ClusterJobFits
<1>8. \A k \in Rows(g.n) : g.hash[k] = p => Arrived(X, g, "org", k)
  <2>1. ToEmit(x, X, p)
    BY <1>0 DEF Emitting
  <2>2. p \in Int
    BY <1>0, <1>1, MarginFacts DEF Bins
  <2> QED BY <1>7, <2>1, <2>2 DEF ToEmit
<1>9. /\ Filled(X, TargetRoom(g, "org", p))
      /\ RowsAt(X, TargetRoom(g, "org", p)) =
             {i \in RowsAt(X, g.from) : Radix(KeyOf(X, i), f, skip) = p}
  <2>1. p \in 0 .. f - 1
    BY <1>1 DEF Bins
  <2> QED BY <1>7, <1>8, <2>1, ArrivedFacts
<1>10. y[X].arr = "org"
  BY <1>6 DEF TargetRoom, Room
<1> QED BY <1>1, <1>6, <1>7, <1>9, <1>10 DEF Holds

(* The pieces of a task have all its R tuples each and a share of its S    *)
(* tuples.                                                                 *)
LEMMA SplitHolds ==
    ASSUME NEW x \in PlainTasks, Joinable(x), Filled("S", x.S), NEW j \in 1 .. ProbeNum,
           NEW y, y = Split(x)[j]
    PROVE  /\ y \in PlainTasks /\ y.R = x.R /\ y.S.arr = x.S.arr /\ Filled("S", y.S)
           /\ RowsAt("S", y.S) = {At("S", x.S, k) : k \in Share(x.S.num, ProbeNum, j - 1)}
<1> PICK num, P, n : num = x.S.num /\ P = ProbeNum /\ n = num \div P
  OBVIOUS
<1> PICK i : i = j - 1
  OBVIOUS
<1>0. /\ x.R \in PlainRooms /\ x.S \in PlainRooms /\ x.S.base \in Int /\ num \in Nat
      /\ P \in Nat \ {0} /\ j \in Int /\ j \in 1 .. P /\ i \in 0 .. P - 1 /\ j = i + 1
  BY TaskNumbers, PhjAssumption DEF Joinable
<1>1. n \in Nat
  BY <1>0, DivFacts
<1>2. /\ ShareBegin(num, P, i) \in Nat /\ ShareEnd(num, P, i) \in 0 .. num
      /\ ShareBegin(num, P, i) <= ShareEnd(num, P, i)
  BY <1>0, ShareInRange
<1>3. /\ ShareBegin(num, P, i) = i * n
      /\ ShareEnd(num, P, i) = IF i = P - 1 THEN num ELSE (i + 1) * n
      /\ Share(num, P, i) = ShareBegin(num, P, i) .. ShareEnd(num, P, i) - 1
  BY DEF ShareBegin, ShareEnd, Share
<1> PICK b : b = ShareBegin(num, P, i)
  OBVIOUS
<1> PICK e : e = ShareEnd(num, P, i)
  OBVIOUS
<1>4. y = Task(x.R, Room(x.S.arr, x.S.base + b, e - b))
  <2>1. y = Task(x.R, Room(x.S.arr, x.S.base + i * n, IF j = P THEN num - i * n ELSE n))
    BY <1>0 DEF Split
  <2>2. (IF j = P THEN num - i * n ELSE n) = e - b
    <3>1. i * n \in Int
      BY <1>0, <1>1
    <3>2. (i + 1) * n = i * n + n
      BY <1>0, <1>1
    <3> QED BY <1>0, <1>1, <1>3, <3>1, <3>2
  <2> QED BY <1>3, <2>1, <2>2
<1>5. /\ y.R = x.R /\ y.S.arr = x.S.arr /\ y.S.base = x.S.base + b /\ y.S.num = e - b
      /\ y.S \in PlainRooms /\ y \in PlainTasks
  BY <1>0, <1>2, <1>4 DEF Task, Room, PlainRooms, PlainTasks
<1>6. ASSUME NEW k \in Rows(y.S.num)
      PROVE  b + k \in Rows(num) /\ At("S", y.S, k) = At("S", x.S, b + k)
             /\ y.S.base + k = x.S.base + (b + k)
  BY <1>0, <1>2, <1>5 DEF Rows, At
<1>7. Filled("S", y.S)
  <2>1. ASSUME NEW k \in Rows(y.S.num)
        PROVE  /\ y.S.base + k \in Cells("S") /\ y.S.base + k \in DOMAIN mem["S"][y.S.arr]
               /\ At("S", y.S, k) \in Rows(Size["S"])
    BY <1>5, <1>6 DEF Filled
  <2>2. ASSUME NEW k \in Rows(y.S.num), NEW l \in Rows(y.S.num), At("S", y.S, k) = At("S", y.S, l)
        PROVE  k = l
    <3>1. b + k = b + l
      BY <1>6, <2>2 DEF Filled
    <3> QED BY <1>2, <1>5, <3>1 DEF Rows
  <2> QED BY <2>1, <2>2 DEF Filled
<1>8. RowsAt("S", y.S) = {At("S", x.S, k) : k \in Share(num, P, i)}
  <2>1. RowsAt("S", y.S) = {At("S", y.S, k) : k \in Rows(y.S.num)}
    <3>1. "regions" \notin DOMAIN y.S
      BY <1>5, RoomFacts
    <3> QED BY <1>7, <3>1, FilledFacts
  <2>2. ASSUME NEW k \in Share(num, P, i) PROVE k - b \in Rows(y.S.num) /\ b + (k - b) = k
    BY <1>2, <1>3, <1>5 DEF Rows
  <2>3. ASSUME NEW k \in Rows(y.S.num) PROVE b + k \in Share(num, P, i)
    BY <1>2, <1>3, <1>5 DEF Rows
  <2>4. \A k \in Share(num, P, i) : At("S", x.S, k) = At("S", y.S, k - b)
    BY <1>6, <2>2
  <2> QED BY <1>6, <2>1, <2>2, <2>3, <2>4
<1> QED BY <1>5, <1>7, <1>8

(* What thread 0 and thread t make tasks of, and the tasks themselves.     *)
NewFirst(t, x)   == /\ MakeTasks(t) /\ t = 0 /\ Joinable(x)
                    /\ \E i \in 1 .. Fanout1 : x = PartTask(0, Size, i - 1)
NewEmitted(t, x) == Emit(t) /\ x = ClusterTask(task[t], next[t])
NewSkew(t, x)    == /\ MakeSkewTasks(t) /\ t = 0
                    /\ \E i \in 1 .. Fanout2 : Joinable(SkewTasks(0)[i]) /\ Derived(x, SkewTasks(0)[i])


(* Of each partition of the first pass at most one task is made,           *)
LEMMA MakeTasksSources ==
    ASSUME Setting, MakeTasks(0), NEW x
    PROVE  /\ x \in ToSet(part_queue') => x \in ToSet(part_queue) \/ NewFirst(0, x)
           /\ x \in ToSet(skew_queue') => x \in ToSet(skew_queue) \/ NewFirst(0, x)
<1> DEFINE tasks == FirstTasks(0)
<1>0. PhaseInv /\ Plain /\ Symmetric /\ 0 \in Builders
  BY SettingFacts
<1>1. part[0] = "first"
  BY <1>0 DEF MakeTasks, PhaseInv, Turns
<1>2. tasks \in Seq(PlainTasks)
  BY <1>0, <1>1, FirstTasksSpaced
<1>3. /\ skew_queue' = Pushed(skew_queue, Asides(tasks)) /\ part_queue' = Pushed(part_queue, Parts(tasks))
  BY DEF MakeTasks, AddTasks
<1>4. DOMAIN tasks = 1 .. Fanout1 /\ \A i \in 1 .. Fanout1 : tasks[i] = PartTask(0, Size, i - 1)
  BY DEF FirstTasks
<1> HIDE DEF tasks
<1>5. Parts(tasks) \in Seq(PlainTasks) /\ Asides(tasks) \in Seq(PlainTasks)
  BY <1>2, AmongPlain DEF Parts, Asides
<1>6. part_queue \in Seq(PlainTasks) /\ skew_queue \in Seq(PlainTasks)
  BY <1>0 DEF Plain, PlainQueues
<1>7. ToSet(Pushed(part_queue, Parts(tasks))) = ToSet(part_queue) \cup ToSet(Parts(tasks))
  BY <1>5, <1>6, PushedFacts, Zenon
<1>8. ToSet(Pushed(skew_queue, Asides(tasks))) = ToSet(skew_queue) \cup ToSet(Asides(tasks))
  BY <1>5, <1>6, PushedFacts, Zenon
<1>9. /\ ToSet(Parts(tasks)) = ToSet(tasks) \cap {y \in ToSet(tasks) : Joinable(y) /\ ~Aside(y)}
      /\ ToSet(Asides(tasks)) = ToSet(tasks) \cap {y \in ToSet(tasks) : Joinable(y) /\ Aside(y)}
  BY <1>2, AmongFacts DEF Parts, Asides
<1>10. x \in ToSet(tasks) /\ Joinable(x) => NewFirst(0, x)
  BY <1>4 DEF NewFirst, ToSet
<1> QED BY <1>3, <1>7, <1>8, <1>9, <1>10

(* and of each partition of a skew task one, or its pieces.                *)
LEMMA MakeSkewTasksSources ==
    ASSUME Setting, MakeSkewTasks(0), NEW x
    PROVE  /\ x \in ToSet(part_queue') => x \in ToSet(part_queue) \/ NewSkew(0, x)
           /\ x \in ToSet(join_queue') => x \in ToSet(join_queue) \/ NewSkew(0, x)
<1> DEFINE tasks == SkewTasks(0)
           joins  == Among(tasks, {y \in ToSet(tasks) : Joinable(y) /\ ~Large(y)})
           splits == Among(tasks, {y \in ToSet(tasks) : Joinable(y) /\ Large(y)})
           pieces == [i \in DOMAIN splits |-> Split(splits[i])]
<1>0. Plain /\ PhaseInv /\ Symmetric /\ HistBounded /\ AllSound
  BY SettingFacts DEF RoomInv
<1>1. pc[0] = "skewtasks"
  BY DEF MakeSkewTasks
<1>2. /\ tasks \in Seq(PlainTasks) /\ DOMAIN tasks = 1 .. Fanout2
  BY <1>0, <1>1, SkewTasksApart
<1>3. part_queue' = Pushed(part_queue, FlattenSeq(pieces)) /\ join_queue' = Pushed(join_queue, joins)
  BY DEF MakeSkewTasks, AddSkewTasks
<1>11. \A y : (\E i \in 1 .. Fanout2 : Joinable(tasks[i]) /\ Derived(y, tasks[i])) => NewSkew(0, y)
  BY DEF NewSkew
<1> HIDE DEF tasks
<1>4. /\ joins \in Seq(PlainTasks) /\ splits \in Seq(PlainTasks)
      /\ ToSet(joins) = ToSet(tasks) \cap {y \in ToSet(tasks) : Joinable(y) /\ ~Large(y)}
      /\ ToSet(splits) = ToSet(tasks) \cap {y \in ToSet(tasks) : Joinable(y) /\ Large(y)}
  BY <1>2, AmongPlain, AmongFacts
<1> HIDE DEF joins, splits
<1>5. DOMAIN splits = 1 .. Len(splits) /\ Len(splits) \in Nat
  BY <1>4
<1>6. ASSUME NEW i \in 1 .. Len(splits)
      PROVE  /\ pieces[i] \in Seq(PlainTasks)
             /\ \A y \in ToSet(pieces[i]) : \E z \in ToSet(tasks) : Joinable(z) /\ Derived(y, z)
  <2>1. splits[i] \in PlainTasks /\ splits[i] \in ToSet(tasks) /\ Joinable(splits[i]) /\ Large(splits[i])
    <3>1. splits[i] \in ToSet(splits)
      BY <1>5 DEF ToSet
    <3> QED BY <1>4, <1>5, <3>1
  <2>2. pieces[i] = Split(splits[i])
    BY <1>5
  <2>3. Split(splits[i]) \in Seq(PlainTasks)
    BY <2>1, SplitPlain
  <2> HIDE DEF pieces
  <2> QED BY <2>1, <2>2, <2>3 DEF Derived
<1>7. pieces \in Seq(Seq(PlainTasks)) /\ Len(pieces) = Len(splits)
  <2>1. pieces = [i \in 1 .. Len(splits) |-> pieces[i]]
    BY <1>5
  <2> HIDE DEF pieces
  <2>2. pieces \in [1 .. Len(splits) -> Seq(PlainTasks)]
    BY <1>6, <2>1
  <2> QED BY <1>5, <2>2
<1> HIDE DEF pieces
<1>8. /\ FlattenSeq(pieces) \in Seq(PlainTasks)
      /\ ToSet(FlattenSeq(pieces)) = UNION {ToSet(pieces[i]) : i \in 1 .. Len(splits)}
  BY <1>7, FlattenLists, FlattenToSet
<1>9. /\ ToSet(part_queue') = ToSet(part_queue) \cup ToSet(FlattenSeq(pieces))
      /\ ToSet(join_queue') = ToSet(join_queue) \cup ToSet(joins)
  BY <1>0, <1>3, <1>4, <1>8, PushedFacts DEF Plain, PlainQueues
<1>10. ASSUME x \in ToSet(joins) \/ x \in ToSet(FlattenSeq(pieces)) PROVE NewSkew(0, x)
  <2>1. \E z \in ToSet(tasks) : Joinable(z) /\ Derived(x, z)
    <3>1. CASE x \in ToSet(joins)
      BY <1>4, <3>1 DEF Derived
    <3>2. CASE x \in ToSet(FlattenSeq(pieces))
      <4>1. PICK i \in 1 .. Len(splits) : x \in ToSet(pieces[i])
        BY <1>8, <3>2
      <4> QED BY <1>6, <4>1
    <3> QED BY <1>10, <3>1, <3>2
  <2>2. PICK z \in ToSet(tasks) : Joinable(z) /\ Derived(x, z)
    BY <2>1
  <2>3. PICK i \in 1 .. Fanout2 : z = tasks[i]
    BY <1>2 DEF ToSet
  <2> QED BY <1>11, <2>2, <2>3
<1> QED BY <1>9, <1>10

(* Where a task comes from that a build thread holds or has queued.        *)
LEMMA TaskSources ==
    ASSUME Setting, NEW t \in Builders, Buildpart(t), NEW x \in Standing'
    PROVE  \/ x \in Standing
           \/ NewFirst(t, x) \/ NewEmitted(t, x) \/ NewSkew(t, x)
<1>0. /\ Plain /\ PhaseInv /\ pc \in [Builders -> BuildPC]
      /\ part_queue \in Seq(PlainTasks) /\ skew_queue \in Seq(PlainTasks)
      /\ join_queue \in Seq(PlainTasks) /\ task \in [Builders -> PlainTasks \cup {NULL}]
  BY SettingFacts DEF Plain, PlainQueues, PlainLocal
<1>1. UNCHANGED <<ppc, ptask>>
  BY <1>0, StepEffects DEF prober
<1>2. \/ x \in ToSet(part_queue') \/ x \in ToSet(skew_queue') \/ x \in ToSet(join_queue')
      \/ x \in {ptask[p] : p \in {q \in Probers : Joining(q)}}
      \/ (\E u \in Builders : pc'[u] \in {"cluster", "emit"} /\ x = task'[u])
      \/ (x = skewtask' /\ skewtask' # NULL)
  BY <1>1 DEF Standing, JoinTasks, InHand, Joining
<1>3. /\ \A y \in ToSet(part_queue) \cup ToSet(skew_queue) \cup ToSet(join_queue) : y \in Standing
      /\ \A y \in {ptask[p] : p \in {q \in Probers : Joining(q)}} : y \in Standing
      /\ \A u \in Builders : pc[u] \in {"cluster", "emit"} => task[u] \in Standing
      /\ skewtask # NULL => skewtask \in Standing
  BY DEF Standing, JoinTasks, InHand
<1>4. ASSUME UNCHANGED queues, UNCHANGED <<skewtask, task>>,
             \A u \in Builders : pc'[u] \in {"cluster", "emit"} => pc[u] \in {"cluster", "emit"}
      PROVE  x \in Standing
  BY <1>2, <1>3, <1>4 DEF queues
<1>5. CASE Quiet(t)
  <2>1. QuietStep(t)
    BY <1>5, QuietSteps
  <2> QED BY <1>0, <1>4, <2>1 DEF QuietStep, QuietPlaces, local
<1>6. CASE MakeTasks(t)
  <2>1. /\ UNCHANGED <<join_queue, skewtask, task>> /\ pc' = [pc EXCEPT ![t] = "queued"]
        /\ t # 0 => UNCHANGED <<part_queue, skew_queue>>
    BY <1>6 DEF MakeTasks, Goto
  <2>2. CASE t # 0
    BY <1>0, <1>2, <1>3, <2>1, <2>2
  <2>3. CASE t = 0
    <3>1. /\ x \in ToSet(part_queue') => x \in ToSet(part_queue) \/ NewFirst(0, x)
          /\ x \in ToSet(skew_queue') => x \in ToSet(skew_queue) \/ NewFirst(0, x)
      BY <1>6, <2>3, MakeTasksSources
    <3> QED BY <1>0, <1>2, <1>3, <2>1, <2>3, <3>1
  <2> QED BY <2>2, <2>3
<1>7. CASE StartSecondPass(t)
  BY <1>0, <1>4, <1>7 DEF StartSecondPass, Goto
<1>8. CASE PopPart(t)
  <2>1. UNCHANGED <<join_queue, skew_queue, skewtask>>
    BY <1>8 DEF PopPart
  <2>2. CASE part_queue = <<>>
    BY <1>0, <1>4, <1>8, <2>2 DEF PopPart, Goto, queues
  <2>3. CASE part_queue # <<>>
    <3>1. /\ task' = [task EXCEPT ![t] = Head(part_queue)] /\ part_queue' = Tail(part_queue)
          /\ pc' = [pc EXCEPT ![t] = "cluster"]
      BY <1>8, <2>3 DEF PopPart, Goto
    <3>2. /\ Head(part_queue) \in ToSet(part_queue) /\ ToSet(Tail(part_queue)) \subseteq ToSet(part_queue)
      BY <1>0, <2>3, PoppedFacts
    <3>3. \A u \in Builders : pc'[u] \in {"cluster", "emit"} =>
              task'[u] = Head(part_queue) \/ (pc[u] \in {"cluster", "emit"} /\ task'[u] = task[u])
      BY <1>0, <3>1
    <3> QED BY <1>2, <1>3, <2>1, <3>1, <3>2, <3>3
  <2> QED BY <2>2, <2>3
<1>9. CASE Cluster(t)
  BY <1>0, <1>4, <1>9 DEF Cluster, Goto
<1>10. CASE Emit(t)
  <2> DEFINE y == ClusterTask(task[t], next[t])
  <2>1. /\ UNCHANGED <<part_queue, skew_queue, skewtask, task>> /\ pc[t] = "emit"
        /\ \E c : pc' = [pc EXCEPT ![t] = c]
    BY <1>10 DEF Emit, Goto
  <2>2. ToSet(join_queue') \subseteq ToSet(join_queue) \cup {y}
    <3>1. CASE Joinable(y)
      <4> PICK one : one = <<y>>
        OBVIOUS
      <4>1. join_queue' = Pushed(join_queue, one)
        BY <1>10, <3>1 DEF Emit
      <4>2. y \in PlainTasks
        <5>1. build \in Builds /\ task[t] \in PlainTasks /\ next[t] \in Nat
          BY <1>0, <2>1 DEF PhaseInv, Plain, PlainLocal
        <5> QED BY <5>1, ClusterTaskPlain
      <4>3. one \in Seq(PlainTasks) /\ ToSet(one) = {y}
        BY <4>2 DEF ToSet
      <4> HIDE DEF y
      <4>4. /\ Pushed(join_queue, one) \in Seq(PlainTasks)
            /\ ToSet(Pushed(join_queue, one)) = ToSet(join_queue) \cup ToSet(one)
        BY <1>0, <4>3, PushedFacts
      <4> QED BY <4>1, <4>3, <4>4
    <3>2. CASE ~Joinable(y)
      <4>1. join_queue' = join_queue
        BY <1>10, <3>2 DEF Emit
      <4> QED BY <4>1
    <3> QED BY <3>1, <3>2
  <2>3. x = y => NewEmitted(t, x)
    BY <1>10 DEF NewEmitted
  <2> HIDE DEF y
  <2> QED BY <1>0, <1>2, <1>3, <2>1, <2>2, <2>3
<1>11. CASE ShareMax(t)
  BY <1>0, <1>4, <1>11 DEF ShareMax, Goto
<1>12. CASE FetchSkew(t)
  <2>1. /\ UNCHANGED <<join_queue, part_queue, task>> /\ pc' = [pc EXCEPT ![t] = "fetched"]
    BY <1>12 DEF FetchSkew, Goto, local
  <2>2. CASE t # 0 \/ skew_queue = <<>>
    <3>1. skew_queue' = skew_queue /\ skewtask' \in {skewtask, NULL}
      BY <1>12, <2>2 DEF FetchSkew
    <3> QED BY <1>0, <1>2, <1>3, <2>1, <3>1
  <2>3. CASE t = 0 /\ skew_queue # <<>>
    <3>1. skewtask' = Head(skew_queue) /\ skew_queue' = Tail(skew_queue)
      BY <1>12, <2>3 DEF FetchSkew
    <3>2. Head(skew_queue) \in ToSet(skew_queue) /\ ToSet(Tail(skew_queue)) \subseteq ToSet(skew_queue)
      BY <1>0, <2>3, PoppedFacts
    <3> QED BY <1>0, <1>2, <1>3, <2>1, <3>1, <3>2
  <2> QED BY <2>2, <2>3
<1>13. CASE MakeSkewTasks(t)
  <2>1. /\ UNCHANGED <<skew_queue, skewtask, task>> /\ pc' = [pc EXCEPT ![t] = "fetch"]
        /\ t # 0 => UNCHANGED <<part_queue, join_queue>>
    BY <1>13 DEF MakeSkewTasks, Goto
  <2>2. CASE t # 0
    BY <1>0, <1>2, <1>3, <2>1, <2>2
  <2>3. CASE t = 0
    <3>1. /\ x \in ToSet(part_queue') => x \in ToSet(part_queue) \/ NewSkew(0, x)
          /\ x \in ToSet(join_queue') => x \in ToSet(join_queue) \/ NewSkew(0, x)
      BY <1>13, <2>3, MakeSkewTasksSources
    <3> QED BY <1>0, <1>2, <1>3, <2>1, <2>3, <3>1
  <2> QED BY <2>2, <2>3
<1>14. CASE DrainParts(t)
  <2>1. /\ UNCHANGED <<skew_queue, skewtask, task>> /\ pc' = [pc EXCEPT ![t] = "drained"]
        /\ t # 0 => UNCHANGED <<part_queue, join_queue>>
    BY <1>14 DEF DrainParts, Goto, local
  <2>2. CASE t # 0
    BY <1>0, <1>2, <1>3, <2>1, <2>2
  <2>3. CASE t = 0
    <3>1. part_queue' = <<>> /\ ToSet(join_queue') = ToSet(join_queue) \cup ToSet(part_queue)
      BY <1>0, <1>14, <2>3, DrainFacts
    <3>2. ToSet(part_queue') = {}
      BY <3>1 DEF ToSet
    <3> QED BY <1>0, <1>2, <1>3, <2>1, <3>1, <3>2
  <2> QED BY <2>2, <2>3
<1>15. CASE FindMax(t)
  BY <1>0, <1>4, <1>15 DEF FindMax, Goto
<1> QED BY <1>5, <1>6, <1>7, <1>8, <1>9, <1>10, <1>11, <1>12, <1>13, <1>14, <1>15, BuildpartCases

(* Thread 0 makes a task of partition i - 1 of what has been partitioned.  *)
LEMMA FirstTaskHolds ==
    ASSUME Setting, pc[0] = "tasks", NEW i \in 1 .. Fanout1, NEW x, x = PartTask(0, Size, i - 1)
    PROVE  /\ x \in PlainTasks /\ i - 1 \in 0 .. Fanout1 - 1
           /\ \A X \in Rels : /\ Holds(X, x[X], i - 1, Room("org", 0, Size[X]), Fanout1, 0)
                              /\ x[X].arr = "tmp"
<1>0. PhaseInv /\ Plain /\ Symmetric /\ 0 \in Builders /\ Shared /\ Going(0) /\ build \in Builds
  BY SettingFacts DEF Shared, Going
<1>1. part[0] = "first"
  BY <1>0 DEF PhaseInv, Turns
<1>2. Fanout(0) = Fanout1 /\ SkipOf(0) = 0 /\ Fanout1 \in Nat \ {0}
  BY <1>0, <1>1, FanoutFacts DEF Fanout, SkipOf
<1>3. x \in PlainTasks
  <2> PICK tasks : tasks = FirstTasks(0)
    OBVIOUS
  <2>1. tasks \in Seq(PlainTasks)
    BY <1>0, <1>1, FirstTasksSpaced
  <2>2. DOMAIN tasks = 1 .. Fanout1 /\ tasks[i] = x
    BY DEF FirstTasks
  <2>3. \A j \in DOMAIN tasks : tasks[j] \in PlainTasks
    BY <2>1
  <2> QED BY <2>2, <2>3
<1> PICK p : p = i - 1
  OBVIOUS
<1>4. p \in 0 .. Fanout(0) - 1 /\ x = PartTask(0, Size, p)
  BY <1>2
<1>5. ASSUME NEW X \in Rels
      PROVE  Holds(X, x[X], p, Room("org", 0, Size[X]), Fanout1, 0) /\ x[X].arr = "tmp"
  <2>1. Whole(0, X) = Room("org", 0, Size[X]) /\ Target(0, X) = "tmp"
    BY <1>0, <1>1, GoingReady
  <2>2. Size[X] = Whole(0, X).num
    BY <2>1 DEF Room
  <2>3. x[X] \in PlainRooms
    BY <1>3, TaskNumbers DEF Rels
  <2> PICK total : total = Size
    OBVIOUS
  <2>4. Holds(X, x[X], p, Whole(0, X), Fanout(0), SkipOf(0)) /\ x[X].arr = Target(0, X)
    <3>1. x = PartTask(0, total, p) /\ total[X] = Whole(0, X).num
      BY <1>4, <2>2
    <3> QED BY <1>0, <1>4, <2>3, <3>1, PartTaskHolds
  <2> QED BY <1>2, <2>1, <2>4
<1> QED BY <1>2, <1>3, <1>4, <1>5

(* ... or of the skew task.                                                *)
LEMMA SkewTaskHolds ==
    ASSUME Setting, pc[0] = "skewtasks", NEW i \in 1 .. Fanout2, NEW x, x = SkewTasks(0)[i]
    PROVE  /\ x \in PlainTasks /\ i - 1 \in 0 .. Fanout2 - 1
           /\ \A X \in Rels : /\ Holds(X, x[X], i - 1, skewtask[X], Fanout2, Skip)
                              /\ x[X].arr = "org"
<1>0. /\ PhaseInv /\ Plain /\ Symmetric /\ 0 \in Builders /\ Shared /\ Going(0) /\ build \in Builds
      /\ HistBounded /\ AllSound
  BY SettingFacts DEF Shared, Going, RoomInv
<1>1. part[0] = "skew"
  BY <1>0 DEF PhaseInv, Turns
<1>2. Fanout(0) = Fanout2 /\ SkipOf(0) = Skip /\ Fanout2 \in Nat \ {0}
  BY <1>0, <1>1, FanoutFacts DEF Fanout, SkipOf
<1> PICK total : total = [X \in Rels |-> skewtask[X].num]
  OBVIOUS
<1>3. x \in PlainTasks
  <2> PICK tasks : tasks = SkewTasks(0)
    OBVIOUS
  <2>1. tasks \in Seq(PlainTasks)
    BY <1>0, SkewTasksApart
  <2>2. DOMAIN tasks = 1 .. Fanout2 /\ tasks[i] = x
    BY DEF SkewTasks
  <2>3. \A j \in DOMAIN tasks : tasks[j] \in PlainTasks
    BY <2>1
  <2> QED BY <2>2, <2>3
<1> PICK p : p = i - 1
  OBVIOUS
<1>4. p \in 0 .. Fanout(0) - 1 /\ x = PartTask(0, total, p)
  BY <1>2 DEF SkewTasks
<1>5. ASSUME NEW X \in Rels
      PROVE  Holds(X, x[X], p, skewtask[X], Fanout2, Skip) /\ x[X].arr = "org"
  <2>1. Whole(0, X) = skewtask[X] /\ Target(0, X) = "org"
    BY <1>0, <1>1, GoingReady
  <2>2. total[X] = Whole(0, X).num
    BY <2>1
  <2>3. x[X] \in PlainRooms
    BY <1>3, TaskNumbers DEF Rels
  <2>4. Holds(X, x[X], p, Whole(0, X), Fanout(0), SkipOf(0)) /\ x[X].arr = Target(0, X)
    BY <1>0, <1>4, <2>2, <2>3, PartTaskHolds
  <2> QED BY <1>2, <2>1, <2>4
<1> QED BY <1>2, <1>3, <1>4, <1>5

(* All new tasks are filled.                                               *)
LEMMA NewFull ==
    ASSUME Setting, NEW t \in Builders, NEW x, NewFirst(t, x) \/ NewEmitted(t, x) \/ NewSkew(t, x)
    PROVE  /\ Full(x) /\ UNCHANGED mem
           /\ \A X \in Rels : x[X].arr = IF MakeTasks(t) THEN "tmp" ELSE "org"
<1>1. CASE NewFirst(t, x)
  <2>1. pc[0] = "tasks" /\ UNCHANGED mem
    BY <1>1 DEF NewFirst, MakeTasks
  <2>2. PICK i \in 1 .. Fanout1 : x = PartTask(0, Size, i - 1)
    BY <1>1 DEF NewFirst
  <2>3. \A X \in Rels : /\ Holds(X, x[X], i - 1, Room("org", 0, Size[X]), Fanout1, 0)
                        /\ x[X].arr = "tmp"
    BY <2>1, <2>2, FirstTaskHolds
  <2>4. x.R.num \in Nat
    <3>1. x \in PlainTasks /\ Joinable(x)
      BY <1>1, <2>1, <2>2, FirstTaskHolds DEF NewFirst
    <3> QED BY <3>1, TaskNumbers DEF Joinable
  <2> QED BY <1>1, <2>1, <2>3, <2>4 DEF Full, Holds, NewFirst
<1>2. CASE NewEmitted(t, x)
  <2>1. pc[t] = "emit" /\ UNCHANGED mem /\ ~MakeTasks(t)
    BY <1>2 DEF NewEmitted, Emit, MakeTasks
  <2> PICK y, p : y = task[t] /\ p = next[t]
    OBVIOUS
  <2>2. \A X \in Rels : Holds(X, x[X], p, y[X], Fanout2, Skip) /\ x[X].arr = "org"
    <3> TAKE X \in Rels
    <3> QED BY <1>2, <2>1, ClusterTaskHolds DEF NewEmitted
  <2>3. x.R.num \in Nat
    <3>1. Plain /\ Symmetric /\ build \in Builds
      BY SettingFacts
    <3>2. y \in PlainTasks
      BY <2>1, <3>1 DEF Plain, PlainLocal
    <3>3. x.R.num = CountIn("R", y["R"], Fanout2, Skip, p)
      BY <1>2, <3>1, SymmetricFacts DEF NewEmitted, ClusterTask, Task, Room, Rels
    <3>4. y["R"] \in PlainRooms /\ y["R"].num \in Int /\ "regions" \notin DOMAIN y["R"]
      BY <3>2, TaskNumbers, RoomFacts
    <3> QED BY <3>3, <3>4, CountInNat
  <2> QED BY <2>1, <2>2, <2>3 DEF Full, Holds
<1>3. CASE NewSkew(t, x)
  <2>1. pc[0] = "skewtasks" /\ t = 0 /\ UNCHANGED mem /\ ~MakeTasks(t)
    BY <1>3 DEF NewSkew, MakeSkewTasks, MakeTasks
  <2>2. PICK i \in 1 .. Fanout2 : Joinable(SkewTasks(0)[i]) /\ Derived(x, SkewTasks(0)[i])
    BY <1>3 DEF NewSkew
  <2> PICK y : y = SkewTasks(0)[i]
    OBVIOUS
  <2>3. /\ y \in PlainTasks
        /\ \A X \in Rels : Holds(X, y[X], i - 1, skewtask[X], Fanout2, Skip) /\ y[X].arr = "org"
    BY <2>1, SkewTaskHolds
  <2>4. Joinable(y) /\ Derived(x, y) /\ y["R"] = y.R /\ y["S"] = y.S
    BY <2>2, <2>3, TaskNumbers
  <2>5. Filled("R", y.R) /\ Filled("S", y.S) /\ y.R.arr = "org" /\ y.S.arr = "org"
    BY <2>3, <2>4 DEF Holds, Rels
  <2>8. y.R.num \in Nat
    BY <2>3, <2>4, TaskNumbers DEF Joinable
  <2>6. CASE ~Large(y)
    BY <2>1, <2>3, <2>4, <2>6, <2>8 DEF Derived, Full, Holds
  <2>7. CASE Large(y)
    <3>1. x \in ToSet(Split(y))
      BY <2>4, <2>7 DEF Derived
    <3>2. DOMAIN Split(y) = 1 .. ProbeNum
      BY DEF Split
    <3>3. PICK j \in 1 .. ProbeNum : x = Split(y)[j]
      BY <3>1, <3>2 DEF ToSet
    <3>4. x \in PlainTasks /\ x.R = y.R /\ x.S.arr = y.S.arr /\ Filled("S", x.S)
      BY <2>3, <2>4, <2>5, <3>3, SplitHolds
    <3>5. x["R"] = x.R /\ x["S"] = x.S
      BY <3>4, TaskNumbers
    <3> QED BY <2>1, <2>5, <2>8, <3>4, <3>5 DEF Full, Rels
  <2> QED BY <2>6, <2>7
<1> QED BY <1>1, <1>2, <1>3

(* So every task keeps what it holds.                                      *)
LEMMA AllFullStep ==
    ASSUME Setting, NEW t \in Builders, Buildpart(t)
    PROVE  AllFull' /\ \A x \in Standing, X \in Rels : RowsAt(X, x[X])' = RowsAt(X, x[X])
<1>1. ASSUME NEW x \in Standing, NEW X \in Rels
      PROVE  Filled(X, x[X])' /\ RowsAt(X, x[X])' = RowsAt(X, x[X])
  <2>1. x \in PlainTasks /\ Full(x)
    BY StandingFacts
  <2> PICK room : room = x[X]
    OBVIOUS
  <2>2. room \in PlainRooms /\ Filled(X, room)
    BY <2>1, TaskNumbers DEF Full, Rels
  <2>3. Kept(X, room)
    BY StandingKept
  <2> QED BY <2>2, <2>3, KeptFacts
<1>2. ASSUME NEW x \in Standing' PROVE Full(x)'
  <2>1. CASE x \in Standing
    BY <1>1, <2>1, StandingFacts DEF Full
  <2>2. CASE NewFirst(t, x) \/ NewEmitted(t, x) \/ NewSkew(t, x)
    <3>1. Full(x) /\ UNCHANGED mem
      BY <2>2, NewFull
    <3>2. \A X \in Rels : Filled(X, x[X])' = Filled(X, x[X])
      BY <3>1 DEF Filled, Cells, At
    <3> QED BY <3>1, <3>2 DEF Full
  <2> QED BY <2>1, <2>2, TaskSources
<1> QED BY <1>1, <1>2 DEF AllFull

(* Join tasks of two passes are in the array that the second one or skew   *)
(* handling copies to.                                                     *)
LEMMA FinalSources ==
    ASSUME Setting, NEW t \in Builders, Buildpart(t), build.passes = 2, NEW x \in Final'
    PROVE  x \in Final \/ NewEmitted(t, x) \/ NewSkew(t, x)
<1>0. /\ FitInv /\ Plain /\ PhaseInv /\ pc \in [Builders -> BuildPC] /\ 0 \in Builders
      /\ part \in [Builders -> {"first", "skew"}] /\ join_queue \in Seq(PlainTasks) /\ Emptied
  BY SettingFacts DEF Plain, PlainQueues, RoomInv
<1>1. UNCHANGED <<build, ppc, ptask>>
  BY <1>0, StepEffects DEF prober
<1>2. part' = IF pc[t] = "share" /\ build.skew THEN [part EXCEPT ![t] = "skew"] ELSE part
  BY StepAdvances DEF Advance
<1>3. \A y : y \in JoinTasks => y \in Final
  BY DEF Final
<1>4. part[0] = "skew" => \A y \in ToSet(part_queue) : y \in Final
  BY DEF Final, Parting
<1>5. ASSUME x \in ToSet(join_queue') PROVE x \in Final \/ NewEmitted(t, x) \/ NewSkew(t, x)
  <2>1. \A y \in ToSet(join_queue) : y \in Final
    BY <1>3 DEF JoinTasks
  <2>2. CASE pc[t] \notin {"emit", "skewtasks", "drain"}
    BY <1>0, <1>5, <2>1, <2>2, StepEffects DEF QueueEffects
  <2>3. CASE Emit(t)
    <3> DEFINE y == ClusterTask(task[t], next[t])
    <3>1. CASE Joinable(y)
      <4> PICK one : one = <<y>>
        OBVIOUS
      <4>1. join_queue' = Pushed(join_queue, one)
        BY <2>3, <3>1 DEF Emit
      <4>2. y \in PlainTasks
        <5>1. build \in Builds /\ task[t] \in PlainTasks /\ next[t] \in Nat
          BY <1>0, <2>3 DEF Emit, PhaseInv, Plain, PlainLocal
        <5> QED BY <5>1, ClusterTaskPlain
      <4>3. one \in Seq(PlainTasks) /\ ToSet(one) = {y}
        BY <4>2 DEF ToSet
      <4>4. x = y => NewEmitted(t, x)
        BY <2>3 DEF NewEmitted
      <4> HIDE DEF y
      <4>5. /\ Pushed(join_queue, one) \in Seq(PlainTasks)
            /\ ToSet(Pushed(join_queue, one)) = ToSet(join_queue) \cup ToSet(one)
        BY <1>0, <4>3, PushedFacts
      <4> QED BY <1>5, <2>1, <4>1, <4>3, <4>4, <4>5
    <3>2. CASE ~Joinable(y)
      <4>1. join_queue' = join_queue
        BY <2>3, <3>2 DEF Emit
      <4> QED BY <1>5, <2>1, <4>1
    <3> QED BY <3>1, <3>2
  <2>4. CASE MakeSkewTasks(t)
    <3>1. CASE t # 0
      BY <1>5, <2>1, <2>4, <3>1 DEF MakeSkewTasks
    <3>2. CASE t = 0
      BY <1>5, <2>1, <2>4, <3>2, MakeSkewTasksSources
    <3> QED BY <3>1, <3>2
  <2>5. CASE DrainParts(t)
    <3>1. CASE t # 0
      BY <1>5, <2>1, <2>5, <3>1 DEF DrainParts
    <3>2. CASE t = 0
      <4>1. ToSet(join_queue') = ToSet(join_queue) \cup ToSet(part_queue)
        BY <1>0, <2>5, <3>2, DrainFacts
      <4>2. part[0] = "skew"
        BY <1>0, <2>5, <3>2 DEF DrainParts, PhaseInv, Turns
      <4> QED BY <1>4, <1>5, <2>1, <4>1, <4>2
    <3> QED BY <3>1, <3>2
  <2>6. Quiet(t) \/ MakeTasks(t) \/ StartSecondPass(t) \/ PopPart(t) \/ Cluster(t) \/ ShareMax(t)
            \/ FetchSkew(t) \/ FindMax(t) => pc[t] \notin {"emit", "skewtasks", "drain"}
    <3>1. Quiet(t) => pc[t] \notin {"emit", "skewtasks", "drain"}
      <4> SUFFICES ASSUME Quiet(t) PROVE pc[t] \notin {"emit", "skewtasks", "drain"}
        OBVIOUS
      <4> QED BY DEF Quiet, Memset, Zero, Partition, Look, Count, Scatter, StoreLines, StoreRests, Rels
    <3> QED BY <3>1 DEF MakeTasks, StartSecondPass, PopPart, Cluster, ShareMax, FetchSkew, FindMax
  <2> QED BY <2>2, <2>3, <2>4, <2>5, <2>6, BuildpartCases
<1>6. ASSUME x \in ToSet(part_queue'), ~Parting' PROVE x \in Final \/ NewSkew(t, x)
  <2>1. part'[0] = "skew"
    BY <1>0, <1>1, <1>2, <1>6 DEF Parting
  <2>2. CASE part[0] = "skew"
    <3>1. ~MakeTasks(t)
      <4> SUFFICES ASSUME MakeTasks(t) PROVE FALSE
        OBVIOUS
      <4>1. pc[t] = "tasks" /\ part[t] = "first"
        BY <1>0 DEF MakeTasks, PhaseInv, Turns
      <4>2. part[t] = part[0]
        BY <1>0, <4>1 DEF PhaseInv, Turns, SecondPhase
      <4> QED BY <2>2, <4>1, <4>2
    <3>2. CASE MakeSkewTasks(t)
      <4>1. CASE t # 0
        BY <1>4, <1>6, <2>2, <3>2, <4>1 DEF MakeSkewTasks
      <4>2. CASE t = 0
        BY <1>4, <1>6, <2>2, <3>2, <4>2, MakeSkewTasksSources
      <4> QED BY <4>1, <4>2
    <3>3. CASE PopPart(t)
      <4>1. ToSet(part_queue') \subseteq ToSet(part_queue)
        <5>1. CASE part_queue = <<>>
          BY <3>3, <5>1 DEF PopPart
        <5>2. CASE part_queue # <<>>
          <6>1. part_queue' = Tail(part_queue)
            BY <3>3, <5>2 DEF PopPart
          <6> QED BY <1>0, <5>2, <6>1, PoppedFacts DEF Plain, PlainQueues
        <5> QED BY <5>1, <5>2
      <4> QED BY <1>4, <1>6, <2>2, <4>1
    <3>4. CASE DrainParts(t)
      <4>1. part_queue' = part_queue \/ part_queue' = <<>>
        BY <3>4 DEF DrainParts
      <4>2. ToSet(<<>>) = {}
        BY DEF ToSet
      <4> QED BY <1>4, <1>6, <2>2, <4>1, <4>2
    <3>5. CASE \/ Quiet(t) \/ StartSecondPass(t) \/ Cluster(t) \/ Emit(t) \/ ShareMax(t)
               \/ FetchSkew(t) \/ FindMax(t)
      <4>1. part_queue' = part_queue
        <5>1. Quiet(t) => part_queue' = part_queue
          BY QuietSteps DEF QuietStep, queues
        <5> QED BY <3>5, <5>1 DEF StartSecondPass, Cluster, Emit, ShareMax, FetchSkew, FindMax, queues
      <4> QED BY <1>4, <1>6, <2>2, <4>1
    <3> QED BY <3>1, <3>2, <3>3, <3>4, <3>5, BuildpartCases
  <2>3. CASE part[0] = "first"
    <3>1. pc[t] = "share" /\ t = 0
      BY <1>0, <1>2, <2>1, <2>3
    <3>2. part_queue = <<>>
      BY <1>0, <3>1 DEF Emptied
    <3>3. UNCHANGED queues
      BY <3>1, QueuesKept
    <3>4. ToSet(part_queue') = {}
      BY <3>2, <3>3 DEF queues, ToSet
    <3> QED BY <1>6, <3>4
  <2> QED BY <1>0, <2>2, <2>3
<1>7. x \in JoinTasks' \/ (~Parting' /\ x \in ToSet(part_queue'))
  BY DEF Final
<1>8. x \in JoinTasks' => x \in ToSet(join_queue') \/ x \in JoinTasks
  BY <1>1 DEF JoinTasks, Joining
<1> QED BY <1>3, <1>5, <1>6, <1>7, <1>8

(* The array of a join task.                                               *)
LEMMA FinalArrStep ==
    ASSUME Setting, NEW t \in Builders, Buildpart(t) PROVE FinalArr'
<1>0. /\ FitInv /\ PhaseInv /\ InOrder /\ build.passes \in {1, 2} /\ FinalArr /\ 0 \in Builders
      /\ part \in [Builders -> {"first", "skew"}]
  BY SettingFacts DEF FitInv, ContentInv
<1>1. build' = build
  BY StepAdvances DEF Advance
<1>2. Home' = Home
  BY <1>1 DEF Home
<1>3. ASSUME NEW x \in Final', NEW X \in Rels PROVE x[X].arr = Home
  <2>1. CASE build.passes = 2
    <3>1. Home = "org"
      BY <2>1 DEF Home
    <3>2. x \in Final \/ NewEmitted(t, x) \/ NewSkew(t, x)
      BY <1>3, <2>1, FinalSources
    <3>3. ~MakeTasks(t) \/ ~(NewEmitted(t, x) \/ NewSkew(t, x))
      BY DEF MakeTasks, NewEmitted, NewSkew, Emit, MakeSkewTasks
    <3>4. NewEmitted(t, x) \/ NewSkew(t, x) => x[X].arr = "org"
      BY <3>3, NewFull
    <3>5. x \in Final => x[X].arr = Home
      BY <1>0 DEF FinalArr
    <3> QED BY <3>1, <3>2, <3>4, <3>5
  <2>2. CASE build.passes = 1
    <3>1. Home = "tmp"
      BY <2>2 DEF Home
    <3>2. x \in Standing'
      BY <1>3 DEF Final, Standing
    <3>3. x \in Standing => x[X].arr = "tmp"
      BY <3>1, StandingFacts
    <3>4. NewFirst(t, x) => x[X].arr = "tmp"
      <4>1. NewFirst(t, x) => MakeTasks(t)
        BY DEF NewFirst
      <4> QED BY <4>1, NewFull
    <3>5. ~NewEmitted(t, x)
      BY <1>0, <2>2 DEF NewEmitted, Emit, InOrder
    <3>6. ~NewSkew(t, x)
      <4> SUFFICES ASSUME NewSkew(t, x) PROVE FALSE
        OBVIOUS
      <4>1. pc[0] = "skewtasks"
        BY DEF NewSkew, MakeSkewTasks
      <4>2. part[0] = "skew"
        BY <1>0, <4>1 DEF PhaseInv, Turns
      <4> QED BY <1>0, <2>2, <4>2 DEF InOrder
    <3> QED BY <3>1, <3>2, <3>3, <3>4, <3>5, <3>6, TaskSources
  <2> QED BY <1>0, <2>1, <2>2
<1> QED BY <1>2, <1>3 DEF FinalArr

(* A build thread changes what it holds itself.                            *)
LEMMA OthersKeep ==
    ASSUME Plain, pc \in [Builders -> BuildPC], NEW u \in Builders, Buildpart(u), NEW t \in Builders,
           t # u
    PROVE  pc'[t] = pc[t] /\ task'[t] = task[t] /\ next'[t] = next[t]
<1>0. task \in [Builders -> PlainTasks \cup {NULL}] /\ next \in [Builders -> Nat]
  BY DEF Plain, PlainLocal
<1>1. pc'[t] = pc[t]
  BY StepAdvances DEF Advance
<1>2. task'[t] = task[t]
  <2>1. Quiet(u) => task'[t] = task[t]
    BY QuietSteps DEF QuietStep, local
  <2>2. PopPart(u) => task'[t] = task[t]
    BY <1>0 DEF PopPart
  <2>3. (MakeTasks(u) \/ StartSecondPass(u) \/ Cluster(u) \/ Emit(u) \/ ShareMax(u)
            \/ FetchSkew(u) \/ MakeSkewTasks(u) \/ DrainParts(u) \/ FindMax(u)) => task'[t] = task[t]
    BY DEF MakeTasks, StartSecondPass, Cluster, Emit, ShareMax, FetchSkew, MakeSkewTasks,
           DrainParts, FindMax, local
  <2> QED BY <2>1, <2>2, <2>3, BuildpartCases
<1>3. next'[t] = next[t]
  <2>1. Quiet(u) => next'[t] = next[t]
    BY QuietSteps DEF QuietStep, local
  <2>2. Cluster(u) => next'[t] = next[t]
    BY <1>0 DEF Cluster
  <2>3. Emit(u) => next'[t] = next[t]
    BY <1>0 DEF Emit
  <2>4. (MakeTasks(u) \/ StartSecondPass(u) \/ PopPart(u) \/ ShareMax(u)
            \/ FetchSkew(u) \/ MakeSkewTasks(u) \/ DrainParts(u) \/ FindMax(u)) => next'[t] = next[t]
    BY DEF MakeTasks, StartSecondPass, PopPart, ShareMax, FetchSkew, MakeSkewTasks,
           DrainParts, FindMax, local
  <2> QED BY <2>1, <2>2, <2>3, <2>4, BuildpartCases
<1> QED BY <1>1, <1>2, <1>3

(* The task a thread holds, and the job that clusters it.                  *)
LEMMA InHandFacts ==
    ASSUME Setting, NEW t \in InHand, NEW X \in Rels, NEW x, x = task[t],
           NEW g, g = ClusterJob(X, x[X])
    PROVE  /\ x \in PlainTasks /\ x \in Standing /\ Sound(x) /\ t \in Builders
           /\ x[X] \in PlainRooms /\ x[X].num \in Nat /\ x[X].arr = "tmp" /\ x[X].base \in Int
           /\ Filled(X, x[X])
           /\ JobFor(g, X, Fanout2, Skip) /\ IsJob(g, Fanout2)
           /\ g.n = x[X].num /\ g.base = x[X].base /\ g.pad = Pad /\ g.from = x[X]
           /\ pc[t] = "emit" => next[t] \in Bins
<1>0. /\ PhaseInv /\ Plain /\ RoomInv /\ Loads /\ AllFull /\ build \in Builds
  BY SettingFacts DEF ContentInv
<1>1. x \in PlainTasks /\ Sound(x) /\ (pc[t] = "emit" => next[t] \in Bins) /\ t \in Builders
  BY <1>0 DEF RoomInv, AllSound, Plain, PlainLocal, Bins, InHand
<1>2. x[X] \in PlainRooms /\ x[X].num \in Nat /\ x[X].arr = "tmp" /\ x[X].base \in Int
  BY <1>1, TaskNumbers DEF Sound, Rels
<1>3. x \in Standing
  BY DEF Standing
<1>4. Filled(X, x[X])
  BY <1>0, <1>3 DEF AllFull, Full
<1>5. /\ JobFor(g, X, Fanout2, Skip) /\ IsJob(g, Fanout2)
      /\ g.n = x[X].num /\ g.base = x[X].base /\ g.pad = Pad /\ g.from = x[X]
  BY <1>0, <1>2, <1>4, ClusterJobFits
<1> QED BY <1>1, <1>2, <1>3, <1>4, <1>5

(* That job does not change while the thread holds the task.               *)
LEMMA ClusterJobKept ==
    ASSUME Setting, NEW u \in Builders, Buildpart(u), NEW t \in InHand, NEW X \in Rels,
           NEW x, x = task[t], NEW g, g = ClusterJob(X, x[X])
    PROVE  /\ ClusterJob(X, x[X])' = g
           /\ \A k \in Rows(g.n) : At(X, x[X], k)' = At(X, x[X], k)
<1> PICK room : room = x[X]
  OBVIOUS
<1>1. x \in Standing /\ room \in PlainRooms /\ Filled(X, room) /\ g.n = room.num
  BY InHandFacts
<1>2. Kept(X, room)
  BY <1>1, StandingKept
<1>3. \A k \in Rows(room.num) : At(X, room, k)' = At(X, room, k)
  BY <1>1, <1>2, KeptFacts
<1>4. UNCHANGED <<build, r, s>>
  <2>1. [Next]_vars
    BY DEF Next
  <2> QED BY <2>1, InputsKept
<1> PICK f : f = Fanout2
  OBVIOUS
<1> PICK skip : skip = Skip
  OBVIOUS
<1>5. Fanout2' = f /\ Skip' = skip
  BY <1>4 DEF Fanout2, Skip
<1>6. Hashes(X, room, f, skip)' = Hashes(X, room, f, skip)
  BY <1>3, <1>4, HashesKept
<1>7. ClusterJob(X, room)' = ClusterJob(X, room)
  BY <1>5, <1>6 DEF ClusterJob
<1> QED BY <1>1, <1>3, <1>7

(* A thread that clusters does not write over what another still has to    *)
(* make tasks of.                                                          *)
LEMMA EmittedKept ==
    ASSUME Setting, NEW u \in Builders, Cluster(u), NEW t \in Builders, t # u, pc[t] = "emit",
           NEW X \in Rels, NEW g, g = ClusterJob(X, task[t][X]), NEW k \in Rows(g.n),
           g.hash[k] >= next[t], Arrived(X, g, "org", k)
    PROVE  Lands(X, g, "org", k)
<1> PICK x, y, p : x = task[t] /\ y = task[u] /\ p = next[t]
  OBVIOUS
<1>0. /\ Plain /\ Placed /\ build \in Builds /\ u \in InHand /\ t \in InHand /\ Loads /\ ArraysThere
      /\ pc[u] = "cluster" /\ SecondRels = Rels
  BY SettingFacts DEF RoomInv, Placed, InHand, Cluster, ContentInv
<1>1. /\ x \in PlainTasks /\ x[X] \in PlainRooms /\ x[X].num \in Nat /\ x[X].base \in Int
      /\ Filled(X, x[X]) /\ IsJob(g, Fanout2) /\ g.n = x[X].num /\ g.base = x[X].base /\ g.pad = Pad
      /\ g.from = x[X] /\ p \in Bins
  BY <1>0, InHandFacts
<1>2. y \in PlainTasks /\ y[X] \in PlainRooms /\ y[X].num \in Nat /\ y[X].base \in Int
  BY <1>0, InHandFacts
<1>3. /\ Margin \in Nat /\ Pad \in Nat \ {0} /\ Fanout2 \in Nat \ {0} /\ Margin = Fanout2 * Pad
  BY <1>0, MarginFacts, PhjAssumption
<1>4. WritesAt(X, "org", y[X].base, EndOf(y[X], Margin))
  BY ClusterWrites
<1> PICK left : left = ToCome(x, X, p)
  OBVIOUS
<1>5. EndOf(left, Margin) <= y[X].base \/ EndOf(y[X], Margin) <= left.base
  <2>1. u \in Holders /\ t \in Holders /\ Held[u] = y /\ Held[t] = LeftOf(x, p) /\ DOMAIN Held = Holders
    <3>1. u \in Holders /\ t \in Holders /\ u # All /\ t # All
      <4>1. All \notin Builders
        BY <1>0, PlacedTypes, PhjAssumption DEF All, Builders
      <4> QED BY <1>0, <4>1 DEF Holders, InHand
    <3> QED BY <1>0, <3>1 DEF Held, Left
  <2>2. Far(Held[t], Held[u], Margin)
    BY <1>0, <2>1 DEF Placed, Separate, Apart
  <2>3. Clear(LeftOf(x, p).R, Margin, y.R, Margin) /\ Clear(LeftOf(x, p).S, Margin, y.S, Margin)
    BY <2>1, <2>2 DEF Far
  <2>4. LeftOf(x, p).R = ToCome(x, "R", p) /\ LeftOf(x, p).S = ToCome(x, "S", p)
    BY DEF LeftOf, Task
  <2>5. Clear(left, Margin, y[X], Margin)
    BY <1>2, <2>3, <2>4, TaskNumbers DEF Rels
  <2> QED BY <2>5 DEF Clear
<1> PICK s0 : s0 = StartAt(g, p, 0)
  OBVIOUS
<1> PICK d : d = Dest(g, k)
  OBVIOUS
<1> PICK q : q = g.hash[k]
  OBVIOUS
<1>6. left.base = s0 /\ s0 \in Int /\ EndOf(left, Margin) = g.base + g.n + Margin
  <2>1. x[X].base + ClusterOffset(x, X, p) = s0
    BY <1>0, <1>1, ClusterPlaces DEF Bins
  <2>2. /\ left.base = x[X].base + ClusterOffset(x, X, p)
        /\ left.num = x[X].num - ClusterOffset(x, X, p)
    BY DEF ToCome, Room
  <2>3. s0 \in Int
    <3>1. p \in 0 .. Fanout2 - 1 /\ 0 \in 0 .. g.n
      BY <1>1 DEF Bins
    <3> QED BY <1>1, <3>1, StartFacts
  <2>4. ClusterOffset(x, X, p) = s0 - x[X].base
    <3>1. ClusterOffset(x, X, p) \in Int
      BY <1>0, <1>1, ClusterOffsets DEF Bins
    <3> QED BY <1>1, <2>1, <2>3, <3>1
  <2> QED BY <1>1, <1>3, <2>2, <2>3, <2>4 DEF EndOf
<1>7. d \in Int /\ s0 <= d /\ d < g.base + g.n + Margin - Pad + 1 /\ k \in 0 .. g.n
  <2> PICK f : f = Fanout2
    OBVIOUS
  <2>1. IsJob(g, f) /\ f \in Nat \ {0} /\ p \in 0 .. f - 1 /\ Margin = f * Pad
    BY <1>1, <1>3 DEF Bins
  <2>2. /\ q \in 0 .. f - 1 /\ d \in Int /\ d + 1 = StartAt(g, q, k + 1) /\ d = StartAt(g, q, k)
        /\ k \in 0 .. g.n /\ k + 1 \in 0 .. g.n
    BY <2>1, StartFacts
  <2>3. StartAt(g, q, k + 1) <= g.base + g.n + (f - 1) * g.pad
    BY <2>1, <2>2, StartFacts
  <2>4. g.n \in Nat /\ g.base \in Int /\ 0 \in 0 .. g.n
    BY <1>1
  <2>5. s0 <= StartAt(g, q, k)
    <3>1. CASE p = q
      <4>1. 0 <= k
        BY <2>2
      <4> QED BY <2>1, <2>2, <2>4, <3>1, <4>1, StartFacts
    <3>2. CASE p < q
      <4>1. StartAt(g, p, 0) + g.pad <= StartAt(g, q, k)
        BY <2>1, <2>2, <2>4, <3>2, StartFacts
      <4> QED BY <1>1, <1>3, <1>6, <2>2, <4>1
    <3>3. p <= q
      <4>1. q >= p
        OBVIOUS
      <4> QED BY <2>1, <2>2, <4>1
    <3> QED BY <2>1, <2>2, <3>1, <3>2, <3>3
  <2>6. (f - 1) * g.pad = Margin - Pad
    BY <1>1, <1>3, <2>1
  <2> QED BY <1>3, <2>2, <2>3, <2>4, <2>5, <2>6
<1>8. d <= y[X].base - Pad \/ d >= EndOf(y[X], Margin)
  <2>1. EndOf(y[X], Margin) \in Int /\ g.n \in Nat /\ g.base \in Int
    BY <1>1, <1>2, <1>3 DEF EndOf
  <2> QED BY <1>2, <1>3, <1>5, <1>6, <1>7, <2>1
<1>9. d \in DOMAIN mem[X]["org"] /\ mem[X]["org"][d] = At(X, g.from, k)
  BY DEF Arrived
<1>10. d \in DOMAIN mem'[X]["org"] /\ mem'[X]["org"][d] = mem[X]["org"][d]
  BY <1>4, <1>7, <1>8, <1>9 DEF WritesAt
<1> QED BY <1>9, <1>10 DEF Lands, Cells

(* What has been clustered stays until tasks are made of it.               *)
LEMMA EmittingStep ==
    ASSUME Setting, NEW u \in Builders, Buildpart(u) PROVE Emitting'
<1> SUFFICES ASSUME NEW t \in Builders, pc'[t] = "emit", NEW X \in Rels
             PROVE  ToEmit(task[t], X, next[t])'
  BY DEF Emitting
<1>0. /\ Plain /\ PhaseInv /\ pc \in [Builders -> BuildPC] /\ Emitting /\ build \in Builds
      /\ next \in [Builders -> Nat]
  BY SettingFacts DEF ContentInv, Plain, PlainLocal
<1> PICK x, q : x = task'[t] /\ q = next'[t]
  OBVIOUS
<1> SUFFICES ToEmit(x, X, q)'
  BY DEF ToEmit, Arrived, ClusterJob, Hashes, HashAt, At, KeyOf, Cells
<1> PICK g : g = ClusterJob(X, x[X])
  OBVIOUS
<1>1. ASSUME t \in InHand, task[t] = x,
             \A k \in Rows(g.n) : g.hash[k] >= q => Lands(X, g, "org", k)
      PROVE  ToEmit(x, X, q)'
  <2>1. /\ ClusterJob(X, x[X])' = g /\ g.from = x[X] /\ g.n = x[X].num
        /\ \A j \in Rows(g.n) : At(X, x[X], j)' = At(X, x[X], j)
    BY <1>1, ClusterJobKept, InHandFacts
  <2>2. ASSUME NEW k \in Rows(x[X].num), g.hash[k] >= q
        PROVE  Arrived(X, ClusterJob(X, x[X]), "org", k)'
    <3>1. k \in Rows(g.n) /\ Lands(X, g, "org", k)
      BY <1>1, <2>1, <2>2
    <3>2. Dest(g, k) \in Cells(X)' /\ Dest(g, k) \in DOMAIN mem'[X]["org"]
          /\ mem'[X]["org"][Dest(g, k)] = At(X, g.from, k)'
      BY <2>1, <3>1 DEF Lands
    <3>3. Arrived(X, g, "org", k)'
      BY <3>2 DEF Arrived
    <3> QED BY <2>1, <3>3 DEF Arrived
  <2> QED BY <2>1, <2>2 DEF ToEmit
<1>2. ASSUME t \in InHand, task[t] = x, pc[t] = "emit", q >= next[t], UNCHANGED mem
      PROVE  ToEmit(x, X, q)'
  <2>1. ToEmit(x, X, next[t])
    BY <1>0, <1>2 DEF Emitting
  <2>2. g.n = x[X].num /\ next[t] \in Nat /\ IsJob(g, Fanout2)
    BY <1>0, <1>2, InHandFacts
  <2>3. q \in Int
    BY <1>0, StepAdvances, PlainStep DEF Plain, PlainLocal
  <2>4. ASSUME NEW k \in Rows(g.n), g.hash[k] >= q PROVE Lands(X, g, "org", k)
    <3>1. g.hash[k] \in Int
      BY <1>0, <2>2, FanoutFacts, StartFacts
    <3>2. g.hash[k] >= next[t]
      BY <1>2, <2>2, <2>3, <2>4, <3>1
    <3>3. Arrived(X, g, "org", k)
      BY <2>1, <2>2, <2>4, <3>2 DEF ToEmit
    <3> QED BY <1>2, <3>3 DEF Arrived, Lands, Cells
  <2> QED BY <1>1, <1>2, <2>4
<1>3. CASE Cluster(u) /\ t = u
  <2>1. t \in InHand /\ task[t] = x
    BY <1>3 DEF InHand, Cluster
  <2>2. g.n = x[X].num /\ g.from = x[X]
    BY <2>1, InHandFacts
  <2>3. \A k \in Rows(g.n) : /\ Dest(g, k) \in DOMAIN mem'[X]["org"]
                             /\ mem'[X]["org"][Dest(g, k)] = At(X, x[X], k)
    BY <1>3, <2>1, ClusterWrites
  <2> QED BY <1>1, <2>1, <2>2, <2>3 DEF Lands, Cells
<1>4. CASE Emit(u) /\ t = u
  <2>1. t \in InHand /\ task[t] = x /\ pc[t] = "emit" /\ UNCHANGED mem
    BY <1>4 DEF InHand, Emit
  <2>2. q = next[t] + 1 /\ next[t] \in Nat
    BY <1>0, <1>4 DEF Emit
  <2> QED BY <1>2, <2>1, <2>2
<1>5. CASE t = u
  <2>1. Cluster(u) \/ Emit(u)
    <3>1. Quiet(u) => pc'[u] # "emit"
      BY <1>0, QuietSteps DEF QuietStep, QuietPlaces
    <3>2. (MakeTasks(u) \/ StartSecondPass(u) \/ PopPart(u) \/ ShareMax(u) \/ FetchSkew(u)
              \/ MakeSkewTasks(u) \/ DrainParts(u) \/ FindMax(u)) => pc'[u] # "emit"
      BY <1>0 DEF MakeTasks, StartSecondPass, PopPart, ShareMax, FetchSkew, MakeSkewTasks,
                  DrainParts, FindMax, Goto
    <3> QED BY <1>5, <3>1, <3>2, BuildpartCases
  <2> QED BY <1>3, <1>4, <1>5, <2>1
<1>6. CASE t # u
  <2>1. pc[t] = "emit" /\ task[t] = x /\ next[t] = q /\ t \in InHand
    BY <1>0, <1>6, OthersKeep DEF InHand
  <2>2. \A v \in Builders : pc[v] \in SecondPhase
    BY <1>0, <2>1, AllInSecond DEF SecondPhase
  <2>3. CASE UNCHANGED mem
    <3>1. q >= next[t]
      BY <1>0, <2>1
    <3> QED BY <1>2, <2>1, <2>3, <3>1
  <2>4. ~Memset(u)
    BY <2>2 DEF Memset, SecondPhase
  <2>5. ASSUME NEW Y \in Rels, Scatters(u, Y) PROVE FALSE
    <3>1. Going(u)
      BY <2>5, ScatterCounted
    <3> QED BY <2>2, <3>1, GoingFacts
  <2>6. CASE Cluster(u)
    <3>1. ToEmit(x, X, q) /\ g.n = x[X].num
      BY <1>0, <2>1, InHandFacts DEF Emitting
    <3>2. \A k \in Rows(g.n) : g.hash[k] >= q => Lands(X, g, "org", k)
      BY <1>6, <2>1, <2>6, <3>1, EmittedKept DEF ToEmit
    <3> QED BY <1>1, <2>1, <3>2
  <2> QED BY <2>3, <2>4, <2>5, <2>6, MemEffects
<1> QED BY <1>5, <1>6


(* A queue in which there is nothing is empty.                             *)
LEMMA NothingQueued ==
    ASSUME NEW T, NEW queue \in Seq(T), ToSet(queue) = {}
    PROVE  queue = <<>>
<1>1. DOMAIN queue = 1 .. Len(queue) /\ Len(queue) \in Nat
  OBVIOUS
<1>2. Len(queue) = 0
  <2> SUFFICES ASSUME Len(queue) # 0 PROVE FALSE
    OBVIOUS
  <2>1. 1 \in DOMAIN queue
    BY <1>1
  <2> QED BY <2>1 DEF ToSet
<1> QED BY <1>2

(* NULL is none of the tasks in a queue.                                   *)
LEMMA NoNull ==
    /\ NULL \notin PlainTasks
    /\ \A queue \in Seq(PlainTasks) : queue # <<>> => Head(queue) # NULL
<1>1. NULL \notin PlainTasks
  BY NullAssumption DEF PlainTasks, PlainRooms
<1> QED BY <1>1, PoppedFacts

(* What has been emptied stays empty.                                      *)
LEMMA FinishedStep ==
    ASSUME Setting, NEW u \in Builders, Buildpart(u) PROVE Finished'
<1>0. /\ FitInv /\ PhaseInv /\ Plain /\ pc \in [Builders -> BuildPC] /\ 0 \in Builders /\ Finished
      /\ part \in [Builders -> {"first", "skew"}] /\ skew_queue \in Seq(PlainTasks)
      /\ part_queue \in Seq(PlainTasks)
  BY SettingFacts DEF ContentInv, Plain, PlainQueues
<1>1. UNCHANGED build /\ Unspawned /\ Unspawned'
  BY <1>0, InOrderStep, StepAdvances DEF Advance
<1>2. PICK d \in BuildPC : pc' = [pc EXCEPT ![u] = d] /\ PcStep(u, d)
  BY StepAdvances DEF Advance
<1>3. part' = IF pc[u] = "share" /\ build.skew THEN [part EXCEPT ![u] = "skew"] ELSE part
  BY StepAdvances DEF Advance
<1>4. /\ pc'[0] = IF u = 0 THEN d ELSE pc[0]
      /\ u = 0 => PcStep(0, d)
  BY <1>0, <1>2
<1>5. ~(MakeTasks(u) \/ FetchSkew(u)) => UNCHANGED <<skew_queue, skewtask>>
  <2>1. Quiet(u) => UNCHANGED <<skew_queue, skewtask>>
    BY QuietSteps DEF QuietStep, queues
  <2>2. (StartSecondPass(u) \/ PopPart(u) \/ Cluster(u) \/ Emit(u) \/ ShareMax(u)
            \/ MakeSkewTasks(u) \/ DrainParts(u) \/ FindMax(u)) => UNCHANGED <<skew_queue, skewtask>>
    BY DEF StartSecondPass, PopPart, Cluster, Emit, ShareMax, MakeSkewTasks, DrainParts, FindMax,
           queues
  <2> QED BY <2>1, <2>2, BuildpartCases
<1>6. /\ MakeTasks(u) => pc[u] = "tasks" /\ d = "queued" /\ UNCHANGED skewtask
      /\ MakeTasks(u) /\ u # 0 => UNCHANGED skew_queue
      /\ FetchSkew(u) => pc[u] = "fetch" /\ d = "fetched"
      /\ FetchSkew(u) /\ u # 0 => UNCHANGED <<skew_queue, skewtask>>
  BY <1>0, <1>2 DEF MakeTasks, FetchSkew, Goto
<1>7. ASSUME ~build.skew PROVE skew_queue' = <<>>
  <2>1. skew_queue = <<>>
    BY <1>0, <1>7 DEF Finished
  <2>2. CASE MakeTasks(u) /\ u = 0
    <3> DEFINE tasks == FirstTasks(0)
    <3>1. skew_queue' = Pushed(skew_queue, Asides(tasks))
      BY <2>2 DEF MakeTasks, AddTasks
    <3>2. tasks \in Seq(PlainTasks)
      <4>1. part[0] = "first" /\ Symmetric
        BY <1>0, <2>2, SettingFacts DEF MakeTasks, PhaseInv, Turns
      <4> QED BY <1>0, <4>1, FirstTasksSpaced
    <3> HIDE DEF tasks
    <3>3. Asides(tasks) \in Seq(PlainTasks) /\ skew_queue \in Seq(PlainTasks)
      BY <1>0, <3>2, AmongPlain DEF Asides
    <3>4. /\ Pushed(skew_queue, Asides(tasks)) \in Seq(PlainTasks)
          /\ ToSet(Pushed(skew_queue, Asides(tasks))) = ToSet(skew_queue) \cup ToSet(Asides(tasks))
      BY <3>3, PushedFacts
    <3>5. ToSet(Asides(tasks)) = {}
      <4>1. \A x : ~Aside(x)
        BY <1>7 DEF Aside
      <4>2. ToSet(Asides(tasks)) = ToSet(tasks) \cap {x \in ToSet(tasks) : Joinable(x) /\ Aside(x)}
        BY <3>2, AmongFacts DEF Asides
      <4> QED BY <4>1, <4>2
    <3>6. ToSet(skew_queue) = {}
      BY <2>1 DEF ToSet
    <3>7. /\ skew_queue' \in Seq(PlainTasks)
          /\ ToSet(skew_queue') = {}
      BY <3>1, <3>4, <3>6, <3>5
    <3> QED BY <3>7, NothingQueued
  <2>3. CASE FetchSkew(u) /\ u = 0
    BY <2>1, <2>3 DEF FetchSkew
  <2> QED BY <1>5, <1>6, <2>1, <2>2, <2>3
<1>8. ASSUME pc'[0] \in {"drain", "drained", "max", "maxed", "exit"}
      PROVE  skew_queue' = <<>> /\ skewtask' = NULL
  <2>1. ~(u = 0 /\ (MakeTasks(u) \/ FetchSkew(u)))
    BY <1>4, <1>6, <1>8
  <2>2. UNCHANGED <<skew_queue, skewtask>>
    BY <1>5, <1>6, <2>1
  <2>3. CASE pc[0] \in {"drain", "drained", "max", "maxed", "exit"}
    BY <1>0, <2>2, <2>3 DEF Finished
  <2>4. CASE pc[0] \notin {"drain", "drained", "max", "maxed", "exit"}
    <3>1. u = 0 /\ pc[0] = "look" /\ skewtask = NULL
      BY <1>4, <1>8, <2>4 DEF PcStep
    <3>2. part[0] = "skew"
      BY <1>0, <3>1 DEF PhaseInv, Turns
    <3> QED BY <1>0, <2>2, <3>1, <3>2 DEF Finished
  <2> QED BY <2>3, <2>4
<1>9. ASSUME part'[0] = "skew", pc'[0] \in {"fetched", "look"}, skewtask' = NULL
      PROVE  skew_queue' = <<>>
  <2>1. CASE u = 0 /\ FetchSkew(u)
    BY <1>0, <1>9, <2>1, NoNull DEF FetchSkew
  <2>2. CASE ~(u = 0 /\ FetchSkew(u))
    <3>1. UNCHANGED <<skew_queue, skewtask>>
      BY <1>4, <1>5, <1>6, <1>9, <2>2
    <3>2. pc[0] \in {"fetched", "look"}
      <4>1. ~(u = 0 /\ pc[u] = "fetch")
        <5>1. u = 0 /\ pc[u] = "fetch" => FetchSkew(u)
          <6>1. Quiet(u) => pc[u] # "fetch"
            BY QuietSteps DEF QuietStep, QuietPlaces
          <6>2. (MakeTasks(u) \/ StartSecondPass(u) \/ PopPart(u) \/ Cluster(u) \/ Emit(u) \/ ShareMax(u)
                    \/ MakeSkewTasks(u) \/ DrainParts(u) \/ FindMax(u)) => pc[u] # "fetch"
            BY DEF MakeTasks, StartSecondPass, PopPart, Cluster, Emit, ShareMax, MakeSkewTasks,
                   DrainParts, FindMax
          <6> QED BY <6>1, <6>2, BuildpartCases
        <5> QED BY <2>2, <5>1
      <4> QED BY <1>4, <1>9, <4>1 DEF PcStep
    <3>3. part[0] = "skew"
      BY <1>0, <3>2, <1>3, <1>9, <1>4 DEF PhaseInv, Turns
    <3> QED BY <1>0, <1>9, <3>1, <3>2, <3>3 DEF Finished
  <2> QED BY <2>1, <2>2
<1>10. ASSUME build.passes = 2, pc'[0] \in {"drained", "max", "maxed", "exit"}
       PROVE  part_queue' = <<>>
  <2>1. CASE pc[0] \in {"drained", "max", "maxed", "exit"}
    <3>1. part_queue = <<>>
      BY <1>0, <1>10, <2>1 DEF Finished
    <3>2. CASE u # 0
      BY <1>0, <3>1, <3>2, StepEffects DEF QueueEffects
    <3>3. CASE u = 0
      <4>1. UNCHANGED queues
        BY <1>0, <2>1, <3>3, QueuesKept
      <4> QED BY <3>1, <4>1 DEF queues
    <3> QED BY <3>2, <3>3
  <2>2. CASE pc[0] \notin {"drained", "max", "maxed", "exit"}
    <3>1. u = 0 /\ pc[0] = "drain"
      BY <1>4, <1>10, <2>2 DEF PcStep
    <3>2. DrainParts(0)
      <4>1. Quiet(u) => Look(u) \/ pc[u] # "drain"
        BY DEF Quiet, Memset, Zero, Partition, Count, Scatter, StoreLines, StoreRests, Rels
      <4>2. Look(u) => pc[u] # "drain"
        BY DEF Look
      <4>3. (MakeTasks(u) \/ StartSecondPass(u) \/ PopPart(u) \/ Cluster(u) \/ Emit(u) \/ ShareMax(u)
                \/ MakeSkewTasks(u) \/ FetchSkew(u) \/ FindMax(u)) => pc[u] # "drain"
        BY DEF MakeTasks, StartSecondPass, PopPart, Cluster, Emit, ShareMax, MakeSkewTasks,
               FetchSkew, FindMax
      <4> QED BY <3>1, <4>1, <4>2, <4>3, BuildpartCases
    <3> QED BY <1>0, <3>2, DrainFacts
  <2> QED BY <2>1, <2>2
<1>11. \A p \in Probers : ppc'[p] \notin {"joined", "exit"}
  BY <1>1 DEF Unspawned
<1> QED BY <1>1, <1>7, <1>8, <1>9, <1>10, <1>11 DEF Finished

(* A step of a build thread keeps what the rooms hold.                     *)
LEMMA ContentStep ==
    ASSUME Setting, NEW u \in Builders, Buildpart(u) PROVE ContentInv'
<1>1. Loads'
  <2>1. [Next]_vars
    BY DEF Next
  <2>2. UNCHANGED <<build, r, s>>
    BY <2>1, InputsKept
  <2> QED BY <2>2, SettingFacts DEF ContentInv, Loads
<1>2. Unspawned /\ Unspawned'
  BY SettingFacts, InOrderStep
<1>3. ProbersAlike' /\ ProbeRight'
  <2>1. UNCHANGED prober /\ ProbersAlike
    BY SettingFacts, StepEffects DEF ContentInv
  <2> QED BY <1>2, <2>1 DEF Unspawned, ProbersAlike, ProbeRight, prober
<1>4. ArraysThere' /\ Loaded'
  BY ArraysStep, LoadedStep
<1>5. AllFull' /\ FinalArr'
  BY AllFullStep, FinalArrStep
<1>6. HistRight' /\ Scattering'
  BY HistStep, ScatteringStep
<1>7. Emitting' /\ Finished'
  BY EmittingStep, FinishedStep
<1> QED BY <1>1, <1>3, <1>4, <1>5, <1>6, <1>7 DEF ContentInv

(* Where nothing is written, and the threads stay where they are or go on  *)
(* from a barrier together, what the rooms hold is the same.               *)
LEMMA SameContent ==
    ASSUME Setting, UNCHANGED <<build, r, s, mem, hist, skewtask, part, task, next>>,
           Standing' \subseteq Standing, Final' \subseteq Final,
           NotYet' => NotYet,
           \A t \in Builders, X \in Rels :
               /\ pc'[t] \in Uncounted(X) => pc[t] \in Uncounted(X)
               /\ (pc'[t] \in Counted(X) \cup {"parted"} \/ Shared') =>
                      (pc[t] \in Counted(X) \cup {"parted"} \/ Shared)
               /\ Through(t, X)' => Through(t, X)
               /\ LinesOut(t, X)' => LinesOut(t, X)
               /\ pc'[t] = "emit" => pc[t] = "emit",
           ProbersAlike', ProbeRight', Finished'
    PROVE  ContentInv'
<1>0. ContentInv
  BY SettingFacts
<1>1. Loads' /\ ArraysThere' /\ Loaded'
  BY <1>0 DEF ContentInv, Loads, ArraysThere, Loaded, Allocated, Cells
<1>2. AllFull'
  <2>1. \A X \in Rels : \A room : Filled(X, room)' = Filled(X, room)
    BY DEF Filled, Cells, At
  <2>2. \A x : Full(x)' = Full(x)
    BY <2>1 DEF Full
  <2> QED BY <1>0, <2>2 DEF ContentInv, AllFull
<1>3. FinalArr'
  <2>1. Home' = Home
    BY DEF Home
  <2> QED BY <1>0, <2>1 DEF ContentInv, FinalArr
<1>4. ASSUME NEW t \in Builders, NEW X \in Rels
      PROVE  /\ Job(t, X)' = Job(t, X) /\ Target(t, X)' = Target(t, X)
             /\ Counts(t, X)' = Counts(t, X)
             /\ \A K : HasArrived(t, X, K)' = HasArrived(t, X, K)
             /\ ToEmit(task[t], X, next[t])' = ToEmit(task[t], X, next[t])
  <2>1. Job(t, X)' = Job(t, X)
    BY DEF Job, Whole, Padding, Begin, Fanout, SkipOf, Fanout1, Fanout2, Skip, Hashes, HashAt, At, KeyOf
  <2>2. Target(t, X)' = Target(t, X) /\ Fanout(t)' = Fanout(t)
    BY DEF Target, Other, Back, Fanout, Fanout1, Fanout2, Skip
  <2>3. Counts(t, X)' = Counts(t, X)
    BY <2>1, <2>2 DEF Counts
  <2>4. \A K : HasArrived(t, X, K)' = HasArrived(t, X, K)
    BY <2>1, <2>2 DEF HasArrived, Arrived, Cells, At
  <2>5. ToEmit(task[t], X, next[t])' = ToEmit(task[t], X, next[t])
    BY DEF ToEmit, Arrived, ClusterJob, Hashes, HashAt, At, KeyOf, Cells, Fanout2, Skip
  <2> QED BY <2>1, <2>2, <2>3, <2>4, <2>5
<1>5. HistRight'
  BY <1>0, <1>4 DEF ContentInv, HistRight
<1>6. Scattering'
  <2> SUFFICES ASSUME NEW t \in Builders, NEW X \in Rels
               PROVE  /\ Through(t, X)' => HasArrived(t, X, Span(Job(t, X)))'
                      /\ LinesOut(t, X)' => HasArrived(t, X, Lines(Job(t, X)))'
    BY DEF Scattering
  <2>1. /\ Through(t, X) => HasArrived(t, X, Span(Job(t, X)))
        /\ LinesOut(t, X) => HasArrived(t, X, Lines(Job(t, X)))
    BY <1>0 DEF ContentInv, Scattering
  <2>2. Span(Job(t, X))' = Span(Job(t, X)) /\ Lines(Job(t, X))' = Lines(Job(t, X))
    BY <1>4 DEF Span, Lines
  <2>3. /\ HasArrived(t, X, Span(Job(t, X)))' = HasArrived(t, X, Span(Job(t, X)))
        /\ HasArrived(t, X, Lines(Job(t, X)))' = HasArrived(t, X, Lines(Job(t, X)))
    BY <1>4, <2>2 DEF HasArrived, Arrived, Cells, At
  <2> QED BY <2>1, <2>3
<1>7. Emitting'
  <2> SUFFICES ASSUME NEW t \in Builders, pc'[t] = "emit", NEW X \in Rels
               PROVE  ToEmit(task[t], X, next[t])'
    BY DEF Emitting
  <2> QED BY <1>0, <1>4 DEF ContentInv, Emitting
<1> QED BY <1>1, <1>2, <1>3, <1>5, <1>6, <1>7 DEF ContentInv

(* A step that writes nothing leaves the rows of each room.                *)
LEMMA SameRows ==
    ASSUME UNCHANGED mem
    PROVE  \A X, room : RowsAt(X, room)' = RowsAt(X, room)
<1>1. \A X, room, k : At(X, room, k)' = At(X, room, k)
  BY DEF At
<1>2. \A X, room : Places(X, room)' = Places(X, room)
  BY <1>1 DEF Places, Spread, Run, Cells, At
<1> QED BY <1>1, <1>2 DEF RowsAt

(* ... and what the kernels find.                                          *)
LEMMA SameProbe ==
    ASSUME UNCHANGED <<mem, build>>, ProbeRight,
           \A p \in Probers : ppc'[p] = "probe" =>
               ppc[p] = "probe" /\ ptask'[p] = ptask[p] /\ table'[p] = table[p]
    PROVE  ProbeRight'
<1>1. \A X, room : RowsAt(X, room)' = RowsAt(X, room)
  BY SameRows
<1> SUFFICES ASSUME NEW p \in Probers, ppc'[p] = "probe"
             PROVE  TableRows(p)' = RowsAt("R", ptask[p].R)'
  BY DEF ProbeRight
<1>2. TableRows(p) = RowsAt("R", ptask[p].R) /\ ptask'[p] = ptask[p] /\ table'[p] = table[p]
  BY DEF ProbeRight
<1>3. TableRows(p)' = TableRows(p)
  BY <1>1, <1>2 DEF TableRows, Other, Back
<1>4. RowsAt("R", ptask[p].R)' = RowsAt("R", ptask[p].R)
  BY <1>1, <1>2
<1> QED BY <1>2, <1>3, <1>4

(* A barrier.                                                              *)
LEMMA ContentRelease ==
    ASSUME Setting, Release PROVE ContentInv'
<1>0. /\ ContentInv /\ RoomInv /\ 0 \in Builders /\ part \in [Builders -> {"first", "skew"}]
      /\ PhaseInv
  BY SettingFacts
<1>1. /\ UNCHANGED <<inputs, mem, queues, hist, skewtask, maxBuild, local, prober>>
      /\ pc[0] \in DOMAIN AfterBarrier /\ \A t \in Builders : pc[t] = pc[0]
      /\ pc' = [t \in Builders |-> AfterBarrier[pc[0]]]
  BY DEF Release, Open
<1> PICK b, c : b = pc[0] /\ c = AfterBarrier[b]
  OBVIOUS
<1>2. \A t \in Builders : pc[t] = b /\ pc'[t] = c
  BY <1>1
<1>3. \/ b = "ready" /\ c = "zero"
      \/ b = "zeroed" /\ c = "countR"
      \/ b = "countedR" /\ c = "scatterR"
      \/ b = "countedS" /\ c = "scatterS"
      \/ b = "linedR" /\ c = "restsR"
      \/ b = "linedS" /\ c = "restsS"
      \/ b = "parted" /\ c = "tasks"
      \/ b = "queued" /\ c \in {"second", "share"}
      \/ b = "shared" /\ build.skew /\ c = "fetch"
      \/ b = "shared" /\ ~build.skew /\ c = "max"
      \/ b = "fetched" /\ c = "look"
      \/ b = "skewed" /\ c = "skewtasks"
      \/ b = "drained" /\ c = "max"
      \/ b = "maxed" /\ c = "exit"
  BY <1>1, BarrierFacts
<1>4. UNCHANGED <<build, r, s, mem, hist, skewtask, part, task, next, part_queue, skew_queue,
                  join_queue, ppc, ptask, table>>
  BY <1>1 DEF inputs, queues, local, prober
<1>5. Standing' \subseteq Standing
  <2>1. InHand' = {}
    BY <1>2, <1>3 DEF InHand
  <2>2. JoinTasks' = JoinTasks
    BY <1>4 DEF JoinTasks, Joining
  <2> QED BY <1>4, <2>1, <2>2 DEF Standing
<1>6. Final' \subseteq Final
  BY <1>4 DEF Final, JoinTasks, Joining, Parting
<1>7. NotYet' => NotYet
  BY <1>0, <1>2, <1>3, <1>4 DEF NotYet, Early
<1>8. ASSUME NEW t \in Builders, NEW X \in Rels
      PROVE  /\ pc'[t] \in Uncounted(X) => pc[t] \in Uncounted(X)
             /\ (pc'[t] \in Counted(X) \cup {"parted"} \/ Shared') =>
                    (pc[t] \in Counted(X) \cup {"parted"} \/ Shared)
             /\ Through(t, X)' => Through(t, X)
             /\ LinesOut(t, X)' => LinesOut(t, X)
             /\ pc'[t] = "emit" => pc[t] = "emit"
  <2>1. X = "R" \/ X = "S"
    BY DEF Rels
  <2>2. pc[t] = b /\ pc'[t] = c /\ pc[0] = b /\ pc'[0] = c
    BY <1>0, <1>2
  <2>3. pc'[t] \in Uncounted(X) => pc[t] \in Uncounted(X)
    BY <1>3, <2>1, <2>2 DEF Uncounted
  <2>4. (pc'[t] \in Counted(X) \cup {"parted"} \/ Shared') =>
             (pc[t] \in Counted(X) \cup {"parted"} \/ Shared)
    BY <1>3, <2>1, <2>2 DEF Counted, Shared
  <2>5. Through(t, X)' => Through(t, X)
    BY <1>3, <2>1, <2>2 DEF Through, Shared
  <2>6. LinesOut(t, X)' => LinesOut(t, X)
    BY <1>3, <2>1, <2>2 DEF LinesOut
  <2> QED BY <1>3, <2>2, <2>3, <2>4, <2>5, <2>6
<1>9. ProbersAlike' /\ ProbeRight'
  <2>1. ProbersAlike'
    BY <1>0, <1>4 DEF ContentInv, ProbersAlike
  <2>2. ProbeRight'
    BY <1>0, <1>4, SameProbe DEF ContentInv
  <2> QED BY <2>1, <2>2
<1>10. Finished'
  <2>1. Finished /\ Emptied
    BY <1>0 DEF ContentInv, RoomInv
  <2>2. pc[0] = b /\ pc'[0] = c
    BY <1>0, <1>2
  <2>3. ASSUME c \in {"drain", "drained", "max", "maxed", "exit"}
        PROVE  skew_queue' = <<>> /\ skewtask' = NULL
    BY <1>3, <1>4, <2>1, <2>2, <2>3 DEF Finished, Emptied, SecondPhase
  <2>4. ASSUME part[0] = "skew", c \in {"fetched", "look"}, skewtask = NULL
        PROVE  skew_queue = <<>>
    BY <1>3, <2>1, <2>2, <2>4 DEF Finished
  <2>5. ASSUME build.passes = 2, c \in {"drained", "max", "maxed", "exit"}
        PROVE  part_queue = <<>>
    BY <1>3, <2>1, <2>2, <2>5 DEF Finished, Emptied
  <2> QED BY <1>4, <2>1, <2>2, <2>3, <2>4, <2>5 DEF Finished, Unspawned
<1> QED BY <1>4, <1>5, <1>6, <1>7, <1>8, <1>9, <1>10, SameContent

(* A step of a probe thread or of the main thread that writes nothing.     *)
LEMMA SameThreads ==
    ASSUME Setting,
           UNCHANGED <<build, r, s, mem, hist, part_queue, skew_queue, skewtask, pc, local>>,
           JoinTasks' \subseteq JoinTasks, ProbersAlike', ProbeRight', Finished'
    PROVE  ContentInv'
<1>1. Standing' \subseteq Standing
  BY DEF Standing, InHand, local
<1>2. Final' \subseteq Final
  BY DEF Final, Parting, local
<1>3. NotYet' => NotYet
  BY DEF NotYet, local
<1>4. ASSUME NEW t \in Builders, NEW X \in Rels
      PROVE  /\ pc'[t] \in Uncounted(X) => pc[t] \in Uncounted(X)
             /\ (pc'[t] \in Counted(X) \cup {"parted"} \/ Shared') =>
                    (pc[t] \in Counted(X) \cup {"parted"} \/ Shared)
             /\ Through(t, X)' => Through(t, X)
             /\ LinesOut(t, X)' => LinesOut(t, X)
             /\ pc'[t] = "emit" => pc[t] = "emit"
  BY DEF Shared, Through, LinesOut
<1>5. UNCHANGED <<part, task, next>>
  BY DEF local
<1> QED BY <1>1, <1>2, <1>3, <1>4, <1>5, SameContent

(* A step of a probe thread but Reorder.                                   *)
LEMMA ContentProbe ==
    ASSUME Setting, NEW p \in Probers, Probejoin(p), ~Reorder(p) PROVE ContentInv'
<1>0. ContentInv /\ RoomInv /\ FitInv /\ Plain
  BY SettingFacts
<1>1. /\ UNCHANGED <<build, r, s, mem, hist, part_queue, skew_queue, skewtask, pc, local>>
      /\ ppc[p] # "idle"
  BY DEF Probejoin, Wipe, PopJoin, BuildTable, ProbeTable, inputs, queues, builder
<1>2. JoinTasks' \subseteq JoinTasks /\ PlainProbers /\ join_queue' \in Seq(PlainTasks)
  BY <1>0, ProbejoinTakes DEF Takes, Plain
<1>3. ppc \in [Probers -> ProbePC] /\ DOMAIN table = Probers /\ ~Unspawned
  BY <1>0, <1>1, <1>2 DEF PlainProbers, ContentInv, ProbersAlike, Unspawned
<1>4. ASSUME UNCHANGED <<join_queue, ptask>>,
             \A q \in Probers : ppc'[q] \in {"joined", "exit"} => ppc[q] \in {"joined", "exit"},
             ProbersAlike', ProbeRight'
      PROVE  ContentInv'
  <2>1. Finished'
    <3>1. Finished /\ part' = part
      BY <1>0, <1>1 DEF ContentInv, local
    <3> QED BY <1>1, <1>3, <1>4, <3>1 DEF Finished
  <2> QED BY <1>1, <1>2, <1>4, <2>1, SameThreads
<1>5. CASE Wipe(p)
  <2>1. /\ ppc[p] = "wipe" /\ ppc' = [ppc EXCEPT ![p] = "wiped"] /\ UNCHANGED <<join_queue, ptask>>
        /\ DOMAIN table' = Probers
    BY <1>5 DEF Wipe, queues
  <2>2. \A q \in Probers : ppc[q] \in {"wipe", "wiped"}
    BY <1>0, <1>3, <2>1 DEF ContentInv, ProbersAlike
  <2>3. \A q \in Probers : ppc'[q] \in {"wipe", "wiped"}
    BY <1>3, <2>1, <2>2
  <2>4. ProbersAlike' /\ ProbeRight'
    BY <2>1, <2>3 DEF ProbersAlike, ProbeRight
  <2> QED BY <1>4, <2>1, <2>3, <2>4
<1>6. CASE PopJoin(p)
  <2>1. /\ ppc[p] = "pop" /\ UNCHANGED table
        /\ ptask' = IF join_queue = <<>> THEN ptask ELSE [ptask EXCEPT ![p] = Head(join_queue)]
        /\ join_queue' = IF join_queue = <<>> THEN join_queue ELSE Tail(join_queue)
        /\ ppc' = [ppc EXCEPT ![p] = IF join_queue = <<>> THEN "joined" ELSE "build"]
    BY <1>6 DEF PopJoin
  <2>2. \A q \in Probers : ppc'[q] = "probe" => q # p /\ ppc[q] = "probe"
    BY <1>3, <2>1
  <2>3. ProbeRight'
    <3>1. \A q \in Probers : ppc'[q] = "probe" =>
              ppc[q] = "probe" /\ ptask'[q] = ptask[q] /\ table'[q] = table[q]
      BY <2>1, <2>2
    <3> QED BY <1>0, <1>1, <3>1, SameProbe DEF ContentInv
  <2>4. ProbersAlike'
    BY <1>0, <1>3, <2>1 DEF ContentInv, ProbersAlike
  <2>5. Finished'
    <3>1. Finished /\ part' = part
      BY <1>0, <1>1 DEF ContentInv, local
    <3>2. ASSUME NEW q \in Probers, ppc'[q] \in {"joined", "exit"} PROVE join_queue' = <<>>
      BY <1>3, <2>1, <3>1, <3>2 DEF Finished
    <3> QED BY <1>1, <1>3, <3>1, <3>2 DEF Finished
  <2> QED BY <1>1, <1>2, <2>3, <2>4, <2>5, SameThreads
<1>7. CASE BuildTable(p)
  <2>1. /\ ppc[p] = "build" /\ UNCHANGED <<join_queue, ptask>>
        /\ build.kernel \in {"bc", "lp", "sc"}
        /\ table' = [table EXCEPT ![p] = RowsAt("R", ptask[p].R)]
        /\ ppc' = [ppc EXCEPT ![p] = "probe"]
    BY <1>7 DEF BuildTable, queues
  <2>2. ProbersAlike'
    BY <1>0, <1>3, <2>1 DEF ContentInv, ProbersAlike
  <2>3. ProbeRight'
    <3>1. \A X, room : RowsAt(X, room)' = RowsAt(X, room)
      BY <1>1, SameRows
    <3> SUFFICES ASSUME NEW q \in Probers, ppc'[q] = "probe"
                 PROVE  TableRows(q)' = RowsAt("R", ptask[q].R)'
      BY DEF ProbeRight
    <3>2. RowsAt("R", ptask[q].R)' = RowsAt("R", ptask[q].R)
      BY <2>1, <3>1
    <3>3. CASE q = p
      <4>1. table'[q] = RowsAt("R", ptask[q].R)
        BY <1>3, <2>1, <3>3
      <4> QED BY <1>1, <2>1, <3>1, <3>2, <4>1 DEF TableRows
    <3>4. CASE q # p
      <4>1. ppc[q] = "probe" /\ table'[q] = table[q]
        BY <1>3, <2>1, <3>4
      <4>2. TableRows(q) = RowsAt("R", ptask[q].R)
        BY <1>0, <4>1 DEF ContentInv, ProbeRight
      <4> QED BY <1>1, <2>1, <3>1, <3>2, <4>1, <4>2 DEF TableRows
    <3> QED BY <3>3, <3>4
  <2> QED BY <1>3, <1>4, <2>1, <2>2, <2>3
<1>8. CASE ProbeTable(p)
  <2>1. /\ ppc[p] = "probe" /\ UNCHANGED <<join_queue, ptask, table>>
        /\ ppc' = [ppc EXCEPT ![p] = "pop"]
    BY <1>8 DEF ProbeTable, queues
  <2>2. ProbersAlike'
    BY <1>0, <1>3, <2>1 DEF ContentInv, ProbersAlike
  <2>3. ProbeRight'
    <3>1. \A q \in Probers : ppc'[q] = "probe" =>
              ppc[q] = "probe" /\ ptask'[q] = ptask[q] /\ table'[q] = table[q]
      BY <1>3, <2>1
    <3> QED BY <1>0, <1>1, <3>1, SameProbe DEF ContentInv
  <2> QED BY <1>3, <1>4, <2>1, <2>2, <2>3
<1> QED BY <1>5, <1>6, <1>7, <1>8 DEF Probejoin

(* A step of the main thread, or none.                                     *)
LEMMA ContentMain ==
    ASSUME Setting, SpawnProbers \/ ReleaseProbe \/ Collect \/ Terminated \/ UNCHANGED vars
    PROVE  ContentInv'
<1>0. ContentInv /\ RoomInv /\ FitInv /\ Plain /\ InOrder /\ 0 \in Builders /\ part[0] \in {"first", "skew"}
      /\ build.passes \in {1, 2}
  BY SettingFacts DEF FitInv
<1>1. /\ UNCHANGED <<build, r, s, mem, hist, skew_queue, skewtask, pc, local>>
      /\ UNCHANGED <<table, ptask>>
  BY DEF SpawnProbers, ReleaseProbe, Collect, Terminated, vars, inputs, queues, builder, prober
<1>2. Finished /\ part' = part /\ ProbersAlike /\ ppc \in [Probers -> ProbePC]
      /\ JoinTasks \in SUBSET PlainTasks
  <2>1. JoinTasks \in SUBSET PlainTasks
    <3>1. ToSet(join_queue) \subseteq PlainTasks
      BY <1>0 DEF Plain, PlainQueues, ToSet
    <3> QED BY <1>0, <3>1 DEF Plain, PlainProbers, JoinTasks
  <2> QED BY <1>0, <1>1, <2>1 DEF ContentInv, local, Plain, PlainProbers
<1>3. CASE SpawnProbers
  <2>1. /\ \A t \in Builders : pc[t] = "exit"
        /\ Unspawned /\ ppc' = [p \in Probers |-> "wipe"]
        /\ build.passes = 1 => join_queue' = part_queue /\ part_queue' = join_queue
        /\ build.passes # 1 => join_queue' = join_queue /\ part_queue' = part_queue
    BY <1>3 DEF SpawnProbers, Unspawned
  <2>2. ProbersAlike' /\ ProbeRight'
    BY <1>1, <1>2, <2>1 DEF ProbersAlike, ProbeRight
  <2>3. part_queue' = <<>>
    <3>1. CASE build.passes = 1
      BY <1>0, <2>1, <3>1 DEF InOrder
    <3>2. CASE build.passes = 2
      <4>1. pc[0] = "exit"
        BY <1>0, <2>1
      <4>2. part_queue = <<>>
        BY <1>2, <3>2, <4>1 DEF Finished
      <4> QED BY <2>1, <3>2, <4>2
    <3> QED BY <1>0, <3>1, <3>2
  <2>4. Finished'
    BY <1>1, <1>2, <2>1, <2>3 DEF Finished
  <2>5. JoinTasks = ToSet(join_queue) /\ JoinTasks' = ToSet(join_queue')
    BY <2>1 DEF JoinTasks, Joining, Unspawned
  <2>6. ToSet(part_queue) \cup ToSet(join_queue) = ToSet(part_queue') \cup ToSet(join_queue')
    BY <1>0, <2>1
  <2>7. Standing' \subseteq Standing
    <3>1. InHand' = InHand /\ task' = task
      BY <1>1 DEF InHand, local
    <3> QED BY <1>1, <2>5, <2>6, <3>1 DEF Standing
  <2>8. Final' \subseteq Final
    <3>1. CASE build.passes = 1
      <4>1. ~Parting /\ ~Parting'
        BY <1>1, <3>1 DEF Parting
      <4> QED BY <2>5, <2>6, <4>1 DEF Final
    <3>2. CASE build.passes = 2
      <4>1. Parting' = Parting /\ join_queue' = join_queue /\ part_queue' = part_queue
        BY <1>1, <1>2, <2>1, <3>2 DEF Parting
      <4> QED BY <2>5, <4>1 DEF Final
    <3> QED BY <1>0, <3>1, <3>2
  <2>9. NotYet' => NotYet
    BY <1>1, <1>2 DEF NotYet
  <2>10. ASSUME NEW t \in Builders, NEW X \in Rels
         PROVE  /\ pc'[t] \in Uncounted(X) => pc[t] \in Uncounted(X)
                /\ (pc'[t] \in Counted(X) \cup {"parted"} \/ Shared') =>
                       (pc[t] \in Counted(X) \cup {"parted"} \/ Shared)
                /\ Through(t, X)' => Through(t, X)
                /\ LinesOut(t, X)' => LinesOut(t, X)
                /\ pc'[t] = "emit" => pc[t] = "emit"
    BY <1>1 DEF Shared, Through, LinesOut
  <2>11. UNCHANGED <<part, task, next>>
    BY <1>1 DEF local
  <2> QED BY <1>1, <2>2, <2>4, <2>7, <2>8, <2>9, <2>10, <2>11, SameContent
<1>4. ASSUME UNCHANGED <<part_queue, join_queue>>, JoinTasks' \subseteq JoinTasks,
             ppc' \in [Probers -> ProbePC],
             \A q \in Probers : /\ ppc'[q] = "probe" => ppc[q] = "probe"
                                /\ ppc'[q] \in {"joined", "exit"} => ppc[q] \in {"joined", "exit"},
             ProbersAlike', ~Unspawned' => ~Unspawned
      PROVE  ContentInv'
  <2>1. ProbeRight'
    <3>1. \A q \in Probers : ppc'[q] = "probe" =>
              ppc[q] = "probe" /\ ptask'[q] = ptask[q] /\ table'[q] = table[q]
      BY <1>1, <1>4
    <3> QED BY <1>0, <1>1, <3>1, SameProbe DEF ContentInv
  <2>2. Finished'
    BY <1>1, <1>2, <1>4 DEF Finished
  <2> QED BY <1>1, <1>4, <2>1, <2>2, SameThreads
<1>5. CASE ReleaseProbe
  <2>1. /\ UNCHANGED <<part_queue, join_queue, ptask>>
        /\ \/ \A p \in Probers : ppc[p] = "wiped" /\ ppc'[p] = "pop"
           \/ \A p \in Probers : ppc[p] = "joined" /\ ppc'[p] = "exit"
        /\ ppc' \in [Probers -> {"pop", "exit"}]
    BY <1>5 DEF ReleaseProbe, queues
  <2>2. JoinTasks' \subseteq JoinTasks
    BY <2>1 DEF JoinTasks, Joining
  <2>3. ProbersAlike'
    BY <1>1, <1>2, <2>1 DEF ProbersAlike
  <2>4. ~Unspawned' => ~Unspawned
    BY <2>1 DEF Unspawned
  <2> QED BY <1>4, <2>1, <2>2, <2>3, <2>4 DEF ProbePC
<1>6. CASE Collect \/ Terminated \/ UNCHANGED vars
  <2>1. UNCHANGED <<part_queue, join_queue, ptask, ppc>>
    BY <1>6 DEF Collect, Terminated, vars, queues, prober
  <2>2. JoinTasks' = JoinTasks /\ Unspawned' = Unspawned
    BY <2>1 DEF JoinTasks, Joining, Unspawned
  <2>3. ProbersAlike'
    BY <1>1, <1>2, <2>1 DEF ProbersAlike
  <2> QED BY <1>2, <1>4, <2>1, <2>2, <2>3
<1> QED BY <1>3, <1>5, <1>6

(* The probe threads run when all else is over.                            *)
LEMMA OnlyJoins ==
    ASSUME Setting, ~Unspawned
    PROVE  /\ \A t \in Builders : pc[t] = "exit"
           /\ Standing = JoinTasks /\ Final = JoinTasks /\ JoinTasks \in SUBSET PlainTasks
           /\ part_queue = <<>> /\ skew_queue = <<>> /\ skewtask = NULL
<1>0. ContentInv /\ RoomInv /\ FitInv /\ Plain /\ InOrder /\ 0 \in Builders
  BY SettingFacts DEF FitInv
<1>1. \A t \in Builders : pc[t] = "exit"
  BY <1>0 DEF InOrder
<1>2. part_queue = <<>> /\ skew_queue = <<>> /\ skewtask = NULL
  BY <1>0, <1>1 DEF ContentInv, Finished
<1>3. InHand = {}
  BY <1>1 DEF InHand
<1>4. ToSet(part_queue) = {} /\ ToSet(skew_queue) = {}
  BY <1>2 DEF ToSet
<1>5. Standing = JoinTasks /\ Final = JoinTasks
  BY <1>2, <1>3, <1>4 DEF Standing, Final
<1>6. JoinTasks \in SUBSET PlainTasks
  <2>1. ToSet(join_queue) \subseteq PlainTasks
    BY <1>0 DEF Plain, PlainQueues, ToSet
  <2> QED BY <1>0, <2>1 DEF Plain, PlainProbers, JoinTasks
<1> QED BY <1>1, <1>2, <1>5, <1>6

(* What Reorder writes.                                                    *)
LEMMA ReorderFacts ==
    ASSUME Setting, NEW p \in Probers, Reorder(p), NEW x, x = ptask[p].R, NEW a, a = Other(Home)
    PROVE  /\ ptask[p] \in JoinTasks /\ x \in PlainRooms /\ x.arr = Home /\ a # Home
           /\ a \in {"org", "tmp"} /\ Home \in {"org", "tmp"} /\ Other(x.arr) = a
           /\ x.num \in Int /\ x.base \in Int /\ Filled("R", x)
           /\ Standing = JoinTasks /\ Final = JoinTasks /\ ~Unspawned
           /\ DOMAIN mem' = DOMAIN mem /\ mem'["S"] = mem["S"] /\ Cells("R")' = Cells("R")
           /\ DOMAIN mem'["R"] = DOMAIN mem["R"] /\ mem'["R"][Home] = mem["R"][Home]
           /\ DOMAIN mem'["R"][a] = Cells("R")
           /\ \A c \in Cells("R") :
                  /\ c - x.base \in Rows(x.num) => mem'["R"][a][c] = mem["R"][Home][c]
                  /\ c - x.base \notin 0 .. x.num + Pad - 1 => mem'["R"][a][c] = mem["R"][a][c]
<1>0. /\ ContentInv /\ RoomInv /\ FitInv /\ Plain /\ Other("tmp") = "org" /\ Other("org") = "tmp"
      /\ Pad \in Nat \ {0}
  BY SettingFacts, PhjAssumption
<1>1. ppc[p] = "build" /\ ~Unspawned /\ ptask[p] \in JoinTasks
  <2>1. ppc[p] = "build"
    BY DEF Reorder
  <2> QED BY <2>1 DEF Unspawned, JoinTasks, Joining
<1>2. Standing = JoinTasks /\ Final = JoinTasks /\ JoinTasks \in SUBSET PlainTasks
  BY <1>1, OnlyJoins
<1>3. /\ x \in PlainRooms /\ x.arr = Home /\ Filled("R", x) /\ x.num \in Nat
  <2>1. Full(ptask[p])
    BY <1>0, <1>1, <1>2 DEF ContentInv, AllFull
  <2>2. ptask[p]["R"].arr = Home
    BY <1>0, <1>1, <1>2 DEF ContentInv, FinalArr, Rels
  <2>3. x \in PlainRooms /\ ptask[p]["R"] = x
    BY <1>1, <1>2, TaskNumbers
  <2> QED BY <2>1, <2>2, <2>3 DEF Full, Rels
<1>4. x.num \in Int /\ x.base \in Int
  BY <1>3 DEF PlainRooms
<1>5. a # Home /\ a \in {"org", "tmp"} /\ Home \in {"org", "tmp"} /\ Other(x.arr) = a
  BY <1>0, <1>3 DEF Home
<1> DEFINE over == IF build.kernel = "hro" THEN x.num .. x.num + Pad - 1 ELSE {}
           laid == [c \in Cells("R") |->
                         CASE c - x.base \in Rows(x.num) -> mem.R[Home][c]
                           [] c - x.base \in over        -> Empty
                           [] OTHER                      -> mem.R[a][c]]
<1>11. mem' = [mem EXCEPT !.R[a] = laid]
  BY <1>3, <1>5 DEF Reorder
<1> PICK behind : behind = over
  OBVIOUS
<1>12. behind \in SUBSET (x.num .. x.num + Pad - 1)
  OBVIOUS
<1>13. \A c \in Cells("R") : laid[c] =
           IF c - x.base \in Rows(x.num) THEN mem["R"][Home][c]
           ELSE IF c - x.base \in behind THEN Empty ELSE mem["R"][a][c]
  <2> TAKE c \in Cells("R")
  <2>1. c - x.base \in Rows(x.num) => c - x.base \notin behind
    BY <1>0, <1>3, <1>12 DEF Rows
  <2>2. laid[c] = CASE c - x.base \in Rows(x.num) -> mem.R[Home][c]
                    [] c - x.base \in behind      -> Empty
                    [] OTHER                      -> mem.R[a][c]
    OBVIOUS
  <2> QED BY <2>1, <2>2
<1>14. DOMAIN laid = Cells("R")
  OBVIOUS
<1> HIDE DEF over, laid
<1>7. "R" \in DOMAIN mem /\ a \in DOMAIN mem["R"] /\ Home \in DOMAIN mem["R"]
  BY <1>0, <1>5 DEF ContentInv, ArraysThere, Rels
<1>8. /\ DOMAIN mem' = DOMAIN mem /\ mem'["S"] = mem["S"]
      /\ DOMAIN mem'["R"] = DOMAIN mem["R"] /\ mem'["R"][Home] = mem["R"][Home]
      /\ mem'["R"][a] = laid
  BY <1>3, <1>5, <1>7, <1>11
<1>9. ASSUME NEW c \in Cells("R")
      PROVE  /\ c - x.base \in Rows(x.num) => mem'["R"][a][c] = mem["R"][Home][c]
             /\ c - x.base \notin 0 .. x.num + Pad - 1 => mem'["R"][a][c] = mem["R"][a][c]
  <2>1. c - x.base \in Rows(x.num) => mem'["R"][a][c] = mem["R"][Home][c]
    BY <1>8, <1>9, <1>13
  <2>2. c - x.base \notin 0 .. x.num + Pad - 1 => /\ c - x.base \notin Rows(x.num)
                                                  /\ c - x.base \notin behind
    <3>1. Rows(x.num) \subseteq 0 .. x.num + Pad - 1
      BY <1>0, <1>4 DEF Rows
    <3>2. behind \subseteq 0 .. x.num + Pad - 1
      BY <1>0, <1>3, <1>12
    <3> QED BY <3>1, <3>2
  <2> QED BY <1>8, <1>9, <1>13, <2>1, <2>2
<1>10. Cells("R")' = Cells("R") /\ DOMAIN mem'["R"][a] = Cells("R")
  BY <1>5, <1>8, <1>14 DEF Cells
<1> QED BY <1>1, <1>2, <1>3, <1>4, <1>5, <1>8, <1>9, <1>10

(* A kernel that orders the rows of its room disturbs no other task.       *)
LEMMA ContentReorder ==
    ASSUME Setting, NEW p \in Probers, Reorder(p) PROVE ContentInv'
<1>0. ContentInv /\ RoomInv /\ FitInv /\ Plain /\ InOrder /\ 0 \in Builders /\ Back = "org"
  BY SettingFacts DEF FitInv
<1>1. /\ UNCHANGED <<build, r, s, hist, part_queue, skew_queue, join_queue, skewtask, pc, part, task, next, ptask>>
      /\ ppc[p] = "build" /\ ppc' = [ppc EXCEPT ![p] = "probe"]
      /\ table' = [table EXCEPT ![p] = RowsAt("R", ptask[p].R)]
      /\ build.kernel \in {"hr", "hro"}
  BY DEF Reorder, inputs, queues, builder, local
<1> PICK x, a : x = ptask[p].R /\ a = Other(Home)
  OBVIOUS
<1>2. /\ ptask[p] \in JoinTasks /\ x \in PlainRooms /\ x.arr = Home /\ a # Home
      /\ a \in {"org", "tmp"} /\ Home \in {"org", "tmp"} /\ Other(x.arr) = a
      /\ x.num \in Int /\ x.base \in Int /\ Filled("R", x)
      /\ Standing = JoinTasks /\ Final = JoinTasks /\ ~Unspawned
      /\ DOMAIN mem' = DOMAIN mem /\ mem'["S"] = mem["S"] /\ Cells("R")' = Cells("R")
      /\ DOMAIN mem'["R"] = DOMAIN mem["R"] /\ mem'["R"][Home] = mem["R"][Home]
      /\ DOMAIN mem'["R"][a] = Cells("R")
      /\ \A c \in Cells("R") :
             /\ c - x.base \in Rows(x.num) => mem'["R"][a][c] = mem["R"][Home][c]
             /\ c - x.base \notin 0 .. x.num + Pad - 1 => mem'["R"][a][c] = mem["R"][a][c]
  BY ReorderFacts
<1>3. /\ \A t \in Builders : pc[t] = "exit" /\ pc'[t] = "exit"
      /\ JoinTasks \in SUBSET PlainTasks
  BY <1>1, <1>2, OnlyJoins
<1>4. /\ ppc \in [Probers -> ProbePC] /\ DOMAIN table = Probers /\ Pad \in Nat \ {0}
  BY <1>0, PhjAssumption DEF Plain, PlainProbers, ContentInv, ProbersAlike
<1>5. JoinTasks' = JoinTasks
  BY <1>1, <1>4 DEF JoinTasks, Joining
<1>6. Standing' \subseteq Standing /\ Final' \subseteq Final
  <2>1. InHand' = InHand /\ Parting' = Parting
    BY <1>1 DEF InHand, Parting
  <2> QED BY <1>1, <1>5, <2>1 DEF Standing, Final
<1>7. ASSUME NEW y \in JoinTasks, NEW X \in Rels
      PROVE  /\ y[X] \in PlainRooms /\ y[X].arr = Home /\ Filled(X, y[X])
             /\ Filled(X, y[X])' /\ RowsAt(X, y[X])' = RowsAt(X, y[X])
  <2>1. y[X].arr = Home /\ Filled(X, y[X])
    BY <1>0, <1>2 DEF ContentInv, AllFull, Full, FinalArr
  <2>2. y[X] \in PlainRooms
    BY <1>3, TaskNumbers DEF Rels
  <2> PICK room : room = y[X]
    OBVIOUS
  <2>3. Kept(X, room)
    <3>1. CASE X = "R"
      BY <1>2, <2>1, <3>1 DEF Kept
    <3>2. CASE X = "S"
      BY <1>2, <2>1, <3>2 DEF Kept, Cells
    <3> QED BY <3>1, <3>2 DEF Rels
  <2>4. Filled(X, room)' /\ RowsAt(X, room)' = RowsAt(X, room)
    BY <2>1, <2>2, <2>3, KeptFacts
  <2> QED BY <2>1, <2>2, <2>4
<1>8. AllFull'
  <2> SUFFICES ASSUME NEW y \in Standing' PROVE Full(y)'
    BY DEF AllFull
  <2>1. y \in JoinTasks /\ y \in Standing
    BY <1>2, <1>6
  <2>2. y.R.num \in Nat
    BY <1>0, <2>1 DEF ContentInv, AllFull, Full
  <2> QED BY <1>7, <2>1, <2>2 DEF Full
<1>9. FinalArr'
  <2>1. Home' = Home
    BY <1>1 DEF Home
  <2> QED BY <1>0, <1>6, <2>1 DEF ContentInv, FinalArr
<1>10. Loads' /\ ArraysThere' /\ Loaded'
  <2>1. Loads'
    BY <1>0, <1>1 DEF ContentInv, Loads
  <2>2. Loaded'
    BY <1>0, <1>3 DEF Loaded, NotYet, Early
  <2>3. ArraysThere
    BY <1>0 DEF ContentInv
  <2>4. \A X \in Rels : Cells(X)' = Cells(X) /\ DOMAIN mem'[X] = DOMAIN mem[X]
    BY <1>2 DEF Rels, Cells
  <2>5. \A X \in Rels : Allocated(X) \subseteq DOMAIN mem'[X]["tmp"]
    <3>1. Allocated("R") \subseteq DOMAIN mem'["R"]["tmp"]
      BY <1>2, <2>3 DEF ArraysThere, Rels
    <3> QED BY <1>2, <2>3, <3>1 DEF ArraysThere, Rels
  <2>6. ArraysThere'
    BY <1>2, <2>3, <2>4, <2>5 DEF ArraysThere, Allocated
  <2> QED BY <2>1, <2>2, <2>6
<1>11. HistRight' /\ Scattering' /\ Emitting'
  <2>1. ~Shared' /\ \A t \in Builders : pc'[t] = "exit"
    BY <1>0, <1>3 DEF Shared
  <2>2. HistRight'
    BY <2>1 DEF HistRight, Uncounted, Counted
  <2>3. Scattering'
    BY <2>1 DEF Scattering, Through, LinesOut
  <2> QED BY <2>1, <2>2, <2>3 DEF Emitting
<1>12. ProbersAlike' /\ Finished'
  <2>1. ProbersAlike /\ Finished
    BY <1>0 DEF ContentInv
  <2>2. ProbersAlike'
    BY <1>1, <1>4, <2>1 DEF ProbersAlike
  <2>3. Finished'
    BY <1>1, <1>2, <1>4, <2>1 DEF Finished
  <2> QED BY <2>2, <2>3
<1>13. ProbeRight'
  <2> SUFFICES ASSUME NEW q \in Probers, ppc'[q] = "probe"
               PROVE  TableRows(q)' = RowsAt("R", ptask[q].R)'
    BY DEF ProbeRight
  <2> PICK y, z : y = ptask[q].R /\ z = Room(a, y.base, y.num)
    OBVIOUS
  <2>1. ptask[q] \in JoinTasks
    <3>1. ppc[q] \in {"build", "probe"}
      BY <1>1, <1>4
    <3> QED BY <3>1 DEF JoinTasks, Joining
  <2>2. /\ y \in PlainRooms /\ y.arr = Home /\ Filled("R", y)
        /\ Filled("R", y)' /\ RowsAt("R", y)' = RowsAt("R", y)
    <3>1. ptask[q]["R"] = y
      BY <1>3, <2>1, TaskNumbers
    <3> QED BY <1>7, <2>1, <3>1 DEF Rels
  <2>3. y.num \in Int /\ y.base \in Int /\ "regions" \notin DOMAIN y
    BY <2>2 DEF PlainRooms
  <2>4. z \in PlainRooms /\ z.arr = a /\ z.base = y.base /\ z.num = y.num /\ "regions" \notin DOMAIN z
    BY <1>2, <2>3 DEF Room, PlainRooms
  <2>5. TableRows(q) = table[q] \cap RowsAt("R", z)
    BY <1>1, <1>2, <2>2, <2>4 DEF TableRows
  <2>6. TableRows(q)' = table'[q] \cap RowsAt("R", z)'
    <3>1. Other(y.arr)' = a
      BY <1>0, <1>1, <1>2, <2>2 DEF Other, Back
    <3>2. TableRows(q)' = table'[q] \cap RowsAt("R", Room(a, y.base, y.num))'
      BY <1>1, <3>1 DEF TableRows
    <3> QED BY <3>2
  <2>7. \A k \in Rows(y.num) : y.base + k \in Cells("R") /\ y.base + k \in Int
    BY <2>2, <2>3 DEF Filled, Rows
  <2>8. ASSUME y = x PROVE RowsAt("R", z)' = RowsAt("R", y)
    <3>1. \A k \in Rows(y.num) : At("R", z, k)' = At("R", y, k)
      <4> TAKE k \in Rows(y.num)
      <4>1. (y.base + k) - x.base = k
        BY <2>3, <2>8 DEF Rows
      <4> QED BY <1>2, <2>2, <2>4, <2>7, <2>8, <4>1 DEF At
    <3>2. Places("R", z)' = Rows(y.num)
      <4>1. \A k \in Rows(y.num) : At("R", y, k) \in Rows(Size["R"])
        BY <2>2 DEF Filled
      <4>2. Spread("R", z)' = Rows(y.num)
        BY <2>4 DEF Spread
      <4> QED BY <3>1, <4>1, <4>2 DEF Places
    <3>3. RowsAt("R", y) = {At("R", y, k) : k \in Rows(y.num)}
      BY <2>2, <2>3, FilledFacts
    <3> QED BY <3>1, <3>2, <3>3 DEF RowsAt
  <2>9. CASE q = p
    <3>1. table'[q] = RowsAt("R", y) /\ y = x
      BY <1>1, <1>4, <2>9
    <3> QED BY <1>1, <2>2, <2>6, <2>8, <3>1
  <2>10. CASE q # p
    <3>1. ppc[q] = "probe" /\ table'[q] = table[q]
      BY <1>1, <1>4, <2>10
    <3>2. TableRows(q) = RowsAt("R", y)
      BY <1>0, <3>1 DEF ContentInv, ProbeRight
    <3>3. CASE y = x
      BY <1>1, <2>2, <2>5, <2>6, <2>8, <3>1, <3>2, <3>3
    <3>4. CASE y # x
      <4>1. Clear(x, Pad, y, Pad)
        <5>1. Fit(ptask[p], ptask[q])
          BY <1>0, <1>2, <2>1 DEF RoomInv, Separate, Fitting
        <5> QED BY <3>4, <5>1 DEF Fit
      <4>2. \A k \in Rows(y.num) : At("R", z, k)' = At("R", z, k)
        <5> TAKE k \in Rows(y.num)
        <5>1. (y.base + k) - x.base \notin 0 .. x.num + Pad - 1
          BY <1>2, <1>4, <2>3, <4>1 DEF Clear, EndOf, Rows
        <5> QED BY <1>2, <2>4, <2>7, <5>1 DEF At
      <4>3. Places("R", z)' = Places("R", z) /\ Places("R", z) \subseteq Rows(y.num)
        BY <2>4, <4>2 DEF Places, Spread
      <4>4. RowsAt("R", z)' = RowsAt("R", z)
        BY <4>2, <4>3 DEF RowsAt
      <4> QED BY <1>1, <2>2, <2>5, <2>6, <3>1, <3>2, <4>4
    <3> QED BY <3>3, <3>4
  <2> QED BY <2>9, <2>10
<1> QED BY <1>8, <1>9, <1>10, <1>11, <1>12, <1>13 DEF ContentInv

(* When the program starts nothing is queued.                              *)
LEMMA ContentInit == Init => ContentInv
<1> SUFFICES ASSUME Init PROVE ContentInv
  OBVIOUS
<1>1. /\ build \in Builds /\ r \in RInputs /\ s \in SInputs
      /\ mem = [X \in Rels |->
                [org |-> [c \in Allocated(X) |-> IF c < Size[X] THEN c ELSE Empty],
                 tmp |-> [c \in Allocated(X) |-> IF c < Size[X] THEN Garbage ELSE Empty]]]
      /\ part_queue = <<>> /\ skew_queue = <<>> /\ join_queue = <<>> /\ skewtask = NULL
      /\ pc = [t \in Builders |-> "memset"] /\ part = [t \in Builders |-> "first"]
      /\ table = [p \in Probers |-> {}] /\ ppc = [p \in Probers |-> "idle"]
  BY DEF Init, Load, LoadInto, Pool
<1>2. Loads
  BY <1>1 DEF Loads
<1>3. \A X \in Rels : /\ X \in DOMAIN mem /\ {"org", "tmp"} \subseteq DOMAIN mem[X]
                      /\ Cells(X) = Allocated(X) /\ DOMAIN mem[X]["tmp"] = Allocated(X)
                      /\ \A c \in Allocated(X) : mem[X]["org"][c] = IF c < Size[X] THEN c ELSE Empty
  BY <1>1 DEF Cells
<1>4. ArraysThere
  BY <1>3 DEF ArraysThere
<1>5. Loaded
  <2> SUFFICES ASSUME NEW X \in Rels, NEW c \in Rows(Size[X]) PROVE mem[X]["org"][c] = c
    BY DEF Loaded
  <2>1. Size[X] \in Nat \ {0} /\ c \in Int /\ 0 <= c /\ c < Size[X] /\ RadixBits \in Nat /\ Pad \in Nat
    BY PhjAssumption DEF Rels, Size, Rows
  <2>2. 2^RadixBits \in Nat
    BY <2>1, PowerOfTwo
  <2>3. 2^RadixBits * Pad \in Nat
    BY <2>1, <2>2
  <2>4. c \in Allocated(X)
    BY <2>1, <2>3 DEF Allocated
  <2> QED BY <1>3, <2>1, <2>4
<1>6. 0 \in Builders
  BY PhjAssumption DEF Builders
<1>7. Standing = {} /\ Final = {}
  <2>1. JoinTasks = {}
    BY <1>1 DEF JoinTasks, Joining, ToSet
  <2>2. InHand = {}
    BY <1>1 DEF InHand
  <2>3. ToSet(<<>>) = {}
    BY DEF ToSet
  <2> QED BY <1>1, <2>1, <2>2, <2>3 DEF Standing, Final
<1>8. AllFull /\ FinalArr
  BY <1>7 DEF AllFull, FinalArr
<1>9. ~Shared /\ \A t \in Builders : pc[t] = "memset"
  BY <1>1, <1>6 DEF Shared
<1>10. HistRight /\ Scattering /\ Emitting
  <2>1. HistRight
    BY <1>9 DEF HistRight, Uncounted, Counted
  <2>2. Scattering
    BY <1>9 DEF Scattering, Through, LinesOut
  <2> QED BY <1>9, <2>1, <2>2 DEF Emitting
<1>11. ProbersAlike /\ ProbeRight
  BY <1>1 DEF ProbersAlike, ProbeRight
<1>12. Finished
  BY <1>1, <1>9, <1>6 DEF Finished, Unspawned
<1> QED BY <1>2, <1>4, <1>5, <1>8, <1>10, <1>11, <1>12 DEF ContentInv

(* Every step keeps what the rooms hold.                                   *)
LEMMA ContentNext ==
    ASSUME Setting, [Next]_vars PROVE ContentInv'
<1>1. ASSUME NEW t \in Builders, Buildpart(t) PROVE ContentInv'
  BY <1>1, ContentStep
<1>2. ASSUME NEW p \in Probers, Probejoin(p) PROVE ContentInv'
  BY <1>2, ContentProbe, ContentReorder
<1>3. ASSUME Release PROVE ContentInv'
  BY <1>3, ContentRelease
<1>4. ASSUME SpawnProbers \/ ReleaseProbe \/ Collect \/ Terminated \/ UNCHANGED vars PROVE ContentInv'
  BY <1>4, ContentMain
<1> QED BY <1>1, <1>2, <1>3, <1>4 DEF Next, Main

(* All that is known of the phases, the rooms and what they hold stays.    *)
THEOREM ContentsInvariant ==
    ASSUME Symmetric, TwoArrays PROVE Spec => []Setting
<1>1. Init => Setting
  BY FitInit, RoomInit, ContentInit DEF Setting
<1>2. Setting /\ [Next]_vars => Setting'
  <2> SUFFICES ASSUME Setting, [Next]_vars PROVE Setting'
    OBVIOUS
  <2>1. FitInv /\ RoomInv
    BY DEF Setting
  <2>2. FitInv'
    BY <2>1, FitNext
  <2>3. RoomInv'
    BY <2>1, <2>2, RoomNext
  <2>4. ContentInv'
    BY ContentNext
  <2> QED BY <2>2, <2>3, <2>4 DEF Setting, Symmetric, TwoArrays
<1> QED BY <1>1, <1>2, PTL DEF Spec

(***************************************************************************)
(* The pairs of tasks, and of tasks made of them.                          *)
(***************************************************************************)

(* The pairs of some tasks, and a queue without a pair in two places.      *)
PairsIn(T) == UNION {TaskPairs(x) : x \in T}
Clean(q)   == \A i, j \in DOMAIN q : i # j => TaskPairs(q[i]) \cap TaskPairs(q[j]) = {}

(* Pairs of more tasks.                                                    *)
LEMMA PairsInFacts ==
    /\ PairsIn({}) = {} /\ PairsIn(ToSet(<<>>)) = {} /\ Clean(<<>>)
    /\ \A x : PairsIn({x}) = TaskPairs(x)
    /\ \A A, B : PairsIn(A \cup B) = PairsIn(A) \cup PairsIn(B)
    /\ \A A : \A x \in A : TaskPairs(x) \subseteq PairsIn(A)
BY DEF PairsIn, ToSet, Clean

(* Two tasks of a clean queue have no pair in common.                      *)
LEMMA CleanTasks ==
    ASSUME NEW queue, Clean(queue), NEW x \in ToSet(queue), NEW y \in ToSet(queue), x # y
    PROVE  TaskPairs(x) \cap TaskPairs(y) = {}
BY DEF Clean, ToSet

(* Picking some tasks of a clean sequence.                                 *)
LEMMA CleanAmong ==
    ASSUME NEW T, NEW tasks \in Seq(T), Clean(tasks), NEW set
    PROVE  Clean(Among(tasks, set))
<1> DEFINE out == Among(tasks, set)
<1>1. out = Among(tasks, set) /\ DOMAIN tasks = 1 .. Len(tasks)
  OBVIOUS
<1> HIDE DEF out
<1>2. /\ out \in Seq(T)
      /\ \E h \in [1 .. Len(out) -> 1 .. Len(tasks)] :
                  /\ \A a, b \in 1 .. Len(out) : h[a] = h[b] => a = b
                  /\ \A a \in 1 .. Len(out) : out[a] = tasks[h[a]]
  BY <1>1, AmongPicks
<1>3. PICK h \in [1 .. Len(out) -> 1 .. Len(tasks)] :
                  /\ \A a, b \in 1 .. Len(out) : h[a] = h[b] => a = b
                  /\ \A a \in 1 .. Len(out) : out[a] = tasks[h[a]]
  BY <1>2
<1>4. DOMAIN out = 1 .. Len(out)
  BY <1>2
<1>5. Clean(out)
  BY <1>1, <1>3, <1>4 DEF Clean
<1> QED BY <1>1, <1>5

(* Pushing other tasks on a clean queue.                                   *)
LEMMA CleanPushed ==
    ASSUME NEW T, NEW queue \in Seq(T), NEW tasks \in Seq(T), Clean(queue), Clean(tasks),
           PairsIn(ToSet(queue)) \cap PairsIn(ToSet(tasks)) = {}
    PROVE  Clean(Pushed(queue, tasks))
<1> DEFINE back == Reverse(tasks)
           l == Len(tasks)
           n == Len(queue)
           out == back \o queue
<1>1. l \in Nat /\ DOMAIN tasks = 1 .. l /\ n \in Nat /\ DOMAIN queue = 1 .. n
  OBVIOUS
<1>2. back = [i \in 1 .. l |-> tasks[(l - i) + 1]]
  BY DEF Reverse
<1> HIDE DEF back
<1>3. \A i \in 1 .. l : (l - i) + 1 \in 1 .. l
  BY <1>1
<1>4. back \in Seq(T) /\ l = Len(back) /\ n = Len(queue) /\ queue \in Seq(T)
  BY <1>1, <1>2, <1>3
<1> HIDE DEF l, n
<1>5. /\ DOMAIN out = 1 .. l + n
      /\ \A i \in 1 .. l + n : out[i] = IF i <= l THEN back[i] ELSE queue[i - l]
  BY <1>4, ConcatFacts
<1> HIDE DEF out
<1>6. \A i \in 1 .. l + n : i <= l => (l - i) + 1 \in 1 .. l /\ out[i] = tasks[(l - i) + 1]
  BY <1>1, <1>2, <1>5
<1>7. \A i \in 1 .. l + n : ~(i <= l) => i - l \in 1 .. n /\ out[i] = queue[i - l]
  BY <1>1, <1>5
<1>8. \A i \in 1 .. l, j \in 1 .. n : TaskPairs(tasks[i]) \cap TaskPairs(queue[j]) = {}
  <2> TAKE i \in 1 .. l, j \in 1 .. n
  <2>1. tasks[i] \in ToSet(tasks) /\ queue[j] \in ToSet(queue)
    BY <1>1 DEF ToSet
  <2> QED BY <2>1, PairsInFacts
<1>9. ASSUME NEW i \in 1 .. l + n, NEW j \in 1 .. l + n, i # j
      PROVE  TaskPairs(out[i]) \cap TaskPairs(out[j]) = {}
  <2>1. CASE i <= l /\ j <= l
    <3>1. (l - i) + 1 # (l - j) + 1
      BY <1>1, <1>9
    <3> QED BY <1>1, <1>6, <2>1, <3>1 DEF Clean
  <2>2. CASE i <= l /\ ~(j <= l)
    BY <1>6, <1>7, <1>8, <2>2
  <2>3. CASE ~(i <= l) /\ j <= l
    <3>1. TaskPairs(out[j]) \cap TaskPairs(out[i]) = {}
      BY <1>6, <1>7, <1>8, <2>3
    <3> QED BY <3>1
  <2>4. CASE ~(i <= l) /\ ~(j <= l)
    <3>1. i - l # j - l
      BY <1>1, <1>9
    <3> QED BY <1>1, <1>7, <2>4, <3>1 DEF Clean
  <2> QED BY <2>1, <2>2, <2>3, <2>4
<1>10. Clean(out)
  BY <1>5, <1>9 DEF Clean
<1> QED BY <1>10 DEF Pushed, out, back

(* Popping the first task of a clean queue.                                *)
LEMMA CleanPopped ==
    ASSUME NEW T, NEW queue \in Seq(T), queue # <<>>, Clean(queue)
    PROVE  /\ Clean(Tail(queue))
           /\ TaskPairs(Head(queue)) \cap PairsIn(ToSet(Tail(queue))) = {}
           /\ PairsIn(ToSet(queue)) = TaskPairs(Head(queue)) \cup PairsIn(ToSet(Tail(queue)))
<1> DEFINE n == Len(queue)
           rest == Tail(queue)
<1>1. n \in Nat \ {0} /\ DOMAIN queue = 1 .. n /\ Head(queue) = queue[1]
      /\ Len(rest) = n - 1 /\ DOMAIN rest = 1 .. n - 1 /\ \A i \in 1 .. n - 1 : rest[i] = queue[i + 1]
  OBVIOUS
<1>2. ToSet(queue) = {Head(queue)} \cup ToSet(rest)
  BY PoppedFacts
<1> HIDE DEF n, rest
<1>3. \A i \in 1 .. n - 1 : i + 1 \in 1 .. n /\ i + 1 # 1
  BY <1>1
<1>4. Clean(rest)
  <2>1. \A i, j \in 1 .. n - 1 : i # j => i + 1 # j + 1
    BY <1>1
  <2> QED BY <1>1, <1>3, <2>1 DEF Clean
<1>5. \A x \in ToSet(rest) : TaskPairs(Head(queue)) \cap TaskPairs(x) = {}
  <2>1. \A i \in 1 .. n - 1 : TaskPairs(queue[1]) \cap TaskPairs(queue[i + 1]) = {}
    <3>1. 1 \in 1 .. n
      BY <1>1
    <3> QED BY <1>1, <1>3, <3>1 DEF Clean
  <2> QED BY <1>1, <2>1 DEF ToSet
<1>6. TaskPairs(Head(queue)) \cap PairsIn(ToSet(rest)) = {}
  BY <1>5 DEF PairsIn
<1>7. PairsIn(ToSet(queue)) = TaskPairs(Head(queue)) \cup PairsIn(ToSet(rest))
  BY <1>2 DEF PairsIn
<1> QED BY <1>4, <1>6, <1>7 DEF rest

(* Clean sequences that have no pair in common, one behind the other.      *)
LEMMA CleanFlat ==
    ASSUME NEW T, NEW seqs \in Seq(Seq(T)), \A i \in DOMAIN seqs : Clean(seqs[i]),
           \A i, j \in DOMAIN seqs :
               i # j => PairsIn(ToSet(seqs[i])) \cap PairsIn(ToSet(seqs[j])) = {}
    PROVE  Clean(FlattenSeq(seqs))
<1> DEFINE out == FlattenSeq(seqs)
           n == Len(seqs)
<1>1. out \in Seq(T) /\ \E g : Lists(out, seqs, n, g)
  BY FlattenLists
<1>2. DOMAIN seqs = 1 .. n /\ DOMAIN out = 1 .. Len(out)
  BY <1>1
<1>3. \A i \in 1 .. n : seqs[i] \in Seq(T)
  OBVIOUS
<1> HIDE DEF out, n
<1>4. PICK g : Lists(out, seqs, n, g)
  BY <1>1
<1>5. ASSUME NEW a \in 1 .. Len(out)
      PROVE  /\ g[a] = <<g[a][1], g[a][2]>> /\ g[a][1] \in 1 .. n
             /\ g[a][2] \in DOMAIN seqs[g[a][1]] /\ out[a] = seqs[g[a][1]][g[a][2]]
  <2>1. g[a] \in Spots(seqs, n) /\ out[a] = seqs[g[a][1]][g[a][2]]
    BY <1>4 DEF Lists
  <2>2. g[a] \in (1 .. n) \X Nat /\ g[a][2] \in 1 .. Len(seqs[g[a][1]])
    BY <2>1 DEF Spots
  <2> QED BY <1>3, <2>1, <2>2
<1>6. ASSUME NEW a \in 1 .. Len(out), NEW b \in 1 .. Len(out), a # b
      PROVE  TaskPairs(out[a]) \cap TaskPairs(out[b]) = {}
  <2>1. g[a] # g[b]
    BY <1>4, <1>6 DEF Lists
  <2> PICK i, k, j, l : i = g[a][1] /\ k = g[a][2] /\ j = g[b][1] /\ l = g[b][2]
    OBVIOUS
  <2>2. /\ g[a] = <<i, k>> /\ g[b] = <<j, l>> /\ i \in 1 .. n /\ j \in 1 .. n
        /\ k \in DOMAIN seqs[i] /\ l \in DOMAIN seqs[j] /\ out[a] = seqs[i][k] /\ out[b] = seqs[j][l]
    BY <1>5
  <2>3. CASE i = j
    <3>1. k # l
      BY <2>1, <2>2, <2>3
    <3>2. Clean(seqs[i])
      BY <1>2, <2>2
    <3> QED BY <2>2, <2>3, <3>1, <3>2 DEF Clean
  <2>4. CASE i # j
    <3>1. PairsIn(ToSet(seqs[i])) \cap PairsIn(ToSet(seqs[j])) = {}
      BY <1>2, <2>2, <2>4
    <3>2. seqs[i][k] \in ToSet(seqs[i]) /\ seqs[j][l] \in ToSet(seqs[j])
      BY <2>2 DEF ToSet
    <3> QED BY <2>2, <3>1, <3>2, PairsInFacts
  <2> QED BY <2>3, <2>4
<1> QED BY <1>2, <1>6 DEF Clean, out

(* The pairs of a task are matches of the relations.                       *)
LEMMA TaskMatches ==
    ASSUME Loads, NEW x \in PlainTasks, Full(x)
    PROVE  /\ TaskPairs(x) \subseteq Matches(r, s)
           /\ TaskPairs(x) = {m \in RowsAt("R", x.R) \X RowsAt("S", x.S) : r[m[1]] = s[m[2]]}
           /\ \A m \in TaskPairs(x) : /\ m[1] \in RowsAt("R", x.R) /\ m[2] \in RowsAt("S", x.S)
                                      /\ r[m[1]] \in Nat /\ m = <<m[1], m[2]>>
<1>1. /\ x.R \in PlainRooms /\ x.S \in PlainRooms /\ x["R"] = x.R /\ x["S"] = x.S
  BY TaskNumbers
<1>2. Filled("R", x.R) /\ Filled("S", x.S)
  BY <1>1 DEF Full, Rels
<1>3. RowsAt("R", x.R) \subseteq Rows(Size["R"]) /\ RowsAt("S", x.S) \subseteq Rows(Size["S"])
  <2>1. "regions" \notin DOMAIN x.R /\ "regions" \notin DOMAIN x.S
    BY <1>1, RoomFacts
  <2> QED BY <1>2, <2>1, FilledFacts
<1>4. /\ DOMAIN r = Rows(NR) /\ DOMAIN s = Rows(NS) /\ \A i \in Rows(NR) : r[i] \in Nat
  BY PhjAssumption DEF Loads
<1>5. TaskPairs(x) = {m \in RowsAt("R", x.R) \X RowsAt("S", x.S) : r[m[1]] = s[m[2]]}
  BY DEF TaskPairs, PairsOf
<1> QED BY <1>3, <1>4, <1>5 DEF Size, Matches

(* A task without tuples of one relation has none.                         *)
LEMMA NoPairs ==
    ASSUME NEW x \in PlainTasks, ~Joinable(x) PROVE TaskPairs(x) = {}
<1>1. /\ x.R \in PlainRooms /\ x.S \in PlainRooms /\ x.R.num \in Int /\ x.S.num \in Int
      /\ "regions" \notin DOMAIN x.R /\ "regions" \notin DOMAIN x.S
  BY TaskNumbers, RoomFacts
<1>2. \A X : x.R.num <= 0 => RowsAt(X, x.R) = {}
  BY <1>1 DEF RowsAt, Places, Spread, Rows
<1>3. \A X : x.S.num <= 0 => RowsAt(X, x.S) = {}
  BY <1>1 DEF RowsAt, Places, Spread, Rows
<1>4. x.R.num <= 0 \/ x.S.num <= 0
  BY <1>1 DEF Joinable
<1> QED BY <1>2, <1>3, <1>4 DEF TaskPairs, PairsOf

(* The pairs P are dealt to tasks by radix.                                *)
Dealt(tasks, P, f, skip) ==
    /\ f \in Nat \ {0} /\ DOMAIN tasks = 1 .. f
    /\ \A m \in P : Radix(r[m[1]], f, skip) \in 0 .. f - 1
    /\ \A i \in 1 .. f : TaskPairs(tasks[i]) = {m \in P : Radix(r[m[1]], f, skip) = i - 1}

(* The tasks then have them all, and each one once.                        *)
LEMMA DealtFacts ==
    ASSUME NEW tasks, NEW P, NEW f, NEW skip, Dealt(tasks, P, f, skip)
    PROVE  Clean(tasks) /\ PairsIn(ToSet(tasks)) = P
<1> USE DEF Dealt
<1>1. Clean(tasks)
  BY DEF Clean
<1>2. PairsIn(ToSet(tasks)) \subseteq P
  BY DEF PairsIn, ToSet
<1>3. ASSUME NEW m \in P PROVE m \in PairsIn(ToSet(tasks))
  <2> PICK c : c = Radix(r[m[1]], f, skip)
    OBVIOUS
  <2>1. c \in 0 .. f - 1 /\ c + 1 \in 1 .. f /\ (c + 1) - 1 = c
    OBVIOUS
  <2>2. m \in TaskPairs(tasks[c + 1])
    BY <2>1
  <2>3. tasks[c + 1] \in ToSet(tasks)
    BY <2>1 DEF ToSet
  <2> QED BY <2>2, <2>3, PairsInFacts
<1> QED BY <1>1, <1>2, <1>3

(* The pairs of a task with one partition of each room of another one.     *)
LEMMA TaskHolds ==
    ASSUME Loads, NEW x \in PlainTasks, Full(x), NEW y \in PlainTasks, NEW p, NEW f, NEW skip,
           \A X \in Rels : Holds(X, y[X], p, x[X], f, skip)
    PROVE  TaskPairs(y) = {m \in TaskPairs(x) : Radix(r[m[1]], f, skip) = p}
<1>1. /\ x["R"] = x.R /\ x["S"] = x.S /\ y["R"] = y.R /\ y["S"] = y.S
  BY TaskNumbers
<1>2. RowsAt("R", y.R) = {i \in RowsAt("R", x.R) : Radix(r[i], f, skip) = p}
  BY <1>1 DEF Holds, KeyOf, Rels
<1>3. RowsAt("S", y.S) = {i \in RowsAt("S", x.S) : Radix(s[i], f, skip) = p}
  BY <1>1 DEF Holds, KeyOf, Rels
<1>4. TaskPairs(x) = {m \in RowsAt("R", x.R) \X RowsAt("S", x.S) : r[m[1]] = s[m[2]]}
  BY DEF TaskPairs, PairsOf
<1>5. TaskPairs(y) = {m \in RowsAt("R", y.R) \X RowsAt("S", y.S) : r[m[1]] = s[m[2]]}
  BY DEF TaskPairs, PairsOf
<1> QED BY <1>2, <1>3, <1>4, <1>5

(* The radix of a pair of a task.                                          *)
LEMMA PairRadix ==
    ASSUME Loads, NEW m \in Matches(r, s), NEW f \in Nat \ {0}, NEW skip \in Nat
    PROVE  Radix(r[m[1]], f, skip) \in 0 .. f - 1
<1>1. m[1] \in Rows(NR)
  BY PhjAssumption DEF Loads, Matches
<1>2. r[m[1]] \in Nat
  BY <1>1, PhjAssumption DEF Loads
<1> QED BY <1>2, RadixRange

(* The pieces of a task have its pairs, each one once.                     *)
LEMMA SplitPairs ==
    ASSUME NEW x \in PlainTasks, Joinable(x), Full(x)
    PROVE  /\ Split(x) \in Seq(PlainTasks) /\ Clean(Split(x))
           /\ PairsIn(ToSet(Split(x))) = TaskPairs(x)
<1> DEFINE tasks == Split(x)
           n == x.S.num
           At_(k) == At("S", x.S, k)
<1>1. /\ tasks \in Seq(PlainTasks) /\ DOMAIN tasks = 1 .. ProbeNum
  BY SplitPlain DEF Split
<1>2. /\ x.S \in PlainRooms /\ x["S"] = x.S /\ n \in Nat /\ Filled("S", x.S) /\ "regions" \notin DOMAIN x.S
  BY TaskNumbers, RoomFacts DEF Full, Rels, Joinable
<1>3. /\ RowsAt("S", x.S) = {At_(k) : k \in Rows(n)}
      /\ \A j, k \in Rows(n) : At_(j) = At_(k) => j = k
  BY <1>2, FilledFacts DEF Filled
<1>4. ASSUME NEW j \in 1 .. ProbeNum
      PROVE  /\ tasks[j].R = x.R
             /\ RowsAt("S", tasks[j].S) = {At_(k) : k \in Share(n, ProbeNum, j - 1)}
  <2> PICK y : y = Split(x)[j]
    OBVIOUS
  <2> QED BY <1>2, SplitHolds
<1>5. TaskPairs(x) = {m \in RowsAt("R", x.R) \X RowsAt("S", x.S) : r[m[1]] = s[m[2]]}
  BY DEF TaskPairs, PairsOf
<1>6. \A j \in 1 .. ProbeNum : TaskPairs(tasks[j]) =
          {m \in RowsAt("R", x.R) \X {At_(k) : k \in Share(n, ProbeNum, j - 1)} : r[m[1]] = s[m[2]]}
  BY <1>4 DEF TaskPairs, PairsOf
<1>7. ProbeNum \in Nat \ {0} /\ Rows(n) = 0 .. n - 1
  BY PhjAssumption DEF Rows
<1>8. \A j \in 1 .. ProbeNum : j - 1 \in 0 .. ProbeNum - 1
  BY <1>7
<1>9. \A j \in 1 .. ProbeNum : Share(n, ProbeNum, j - 1) \subseteq Rows(n)
  BY <1>2, <1>7, <1>8, ShareWithin
<1> HIDE DEF tasks, At_, n
<1>10. ASSUME NEW i \in 1 .. ProbeNum, NEW j \in 1 .. ProbeNum, i # j
       PROVE  TaskPairs(tasks[i]) \cap TaskPairs(tasks[j]) = {}
  <2>1. ASSUME NEW k \in Share(n, ProbeNum, i - 1), k \in Share(n, ProbeNum, j - 1) PROVE FALSE
    <3>1. i - 1 = j - 1
      BY <1>2, <1>7, <1>8, <2>1, ShareDisjoint
    <3> QED BY <3>1, <1>10, <1>7
  <2>2. ASSUME NEW m, m \in TaskPairs(tasks[i]), m \in TaskPairs(tasks[j]) PROVE FALSE
    <3>1. /\ \E k \in Share(n, ProbeNum, i - 1) : m[2] = At_(k)
          /\ \E k \in Share(n, ProbeNum, j - 1) : m[2] = At_(k)
      BY <1>6, <2>2
    <3> QED BY <1>3, <1>9, <2>1, <3>1
  <2> QED BY <2>2
<1>11. Clean(tasks)
  BY <1>1, <1>10 DEF Clean
<1>12. \A j \in 1 .. ProbeNum : TaskPairs(tasks[j]) \subseteq TaskPairs(x)
  BY <1>3, <1>5, <1>6, <1>9
<1>13. ASSUME NEW m \in TaskPairs(x) PROVE \E j \in 1 .. ProbeNum : m \in TaskPairs(tasks[j])
  <2>1. PICK k \in Rows(n) : m[2] = At_(k)
    BY <1>3, <1>5
  <2>2. PICK u \in 0 .. ProbeNum - 1 : k \in Share(n, ProbeNum, u)
    BY <1>2, <1>7, ShareCover
  <2>3. u + 1 \in 1 .. ProbeNum /\ (u + 1) - 1 = u
    BY <1>7
  <2>4. m \in TaskPairs(tasks[u + 1])
    BY <1>5, <1>6, <2>1, <2>2, <2>3
  <2> QED BY <2>3, <2>4
<1>14. PairsIn(ToSet(tasks)) = TaskPairs(x)
  BY <1>1, <1>12, <1>13 DEF PairsIn, ToSet
<1> QED BY <1>1, <1>11, <1>14 DEF tasks

(* Two kinds of tasks among those of a clean sequence, which leave out     *)
(* only tasks without pairs.                                               *)
LEMMA AmongPairs ==
    ASSUME NEW T, NEW tasks \in Seq(T), Clean(tasks), NEW A, NEW B, A \cap B = {},
           \A x \in ToSet(tasks) : x \notin A \cup B => TaskPairs(x) = {}
    PROVE  /\ Clean(Among(tasks, A)) /\ Clean(Among(tasks, B))
           /\ PairsIn(ToSet(Among(tasks, A))) \cap PairsIn(ToSet(Among(tasks, B))) = {}
           /\ PairsIn(ToSet(Among(tasks, A))) \cup PairsIn(ToSet(Among(tasks, B)))
                  = PairsIn(ToSet(tasks))
<1>1. /\ ToSet(Among(tasks, A)) = ToSet(tasks) \cap A
      /\ ToSet(Among(tasks, B)) = ToSet(tasks) \cap B
  BY AmongFacts
<1>2. Clean(Among(tasks, A)) /\ Clean(Among(tasks, B))
  BY CleanAmong
<1>3. \A x \in ToSet(tasks) \cap A, y \in ToSet(tasks) \cap B : TaskPairs(x) \cap TaskPairs(y) = {}
  BY CleanTasks
<1>4. PairsIn(ToSet(tasks) \cap A) \cap PairsIn(ToSet(tasks) \cap B) = {}
  BY <1>3 DEF PairsIn
<1>5. PairsIn(ToSet(tasks) \cap A) \cup PairsIn(ToSet(tasks) \cap B) = PairsIn(ToSet(tasks))
  BY DEF PairsIn
<1> QED BY <1>1, <1>2, <1>4, <1>5

(* ... of which those of one kind are split.                               *)
LEMMA SplitsPairs ==
    ASSUME NEW tasks \in Seq(PlainTasks), Clean(tasks),
           \A x \in ToSet(tasks) : Joinable(x) /\ Full(x),
           NEW flat, flat = FlattenSeq([i \in DOMAIN tasks |-> Split(tasks[i])])
    PROVE  flat \in Seq(PlainTasks) /\ Clean(flat) /\ PairsIn(ToSet(flat)) = PairsIn(ToSet(tasks))
<1> DEFINE seqs == [i \in DOMAIN tasks |-> Split(tasks[i])]
<1>1. DOMAIN tasks = 1 .. Len(tasks) /\ Len(tasks) \in Nat /\ \A i \in DOMAIN tasks : tasks[i] \in PlainTasks
  OBVIOUS
<1>2. \A i \in DOMAIN tasks : tasks[i] \in ToSet(tasks)
  BY DEF ToSet
<1>3. \A i \in DOMAIN tasks : /\ seqs[i] \in Seq(PlainTasks) /\ Clean(seqs[i])
                              /\ PairsIn(ToSet(seqs[i])) = TaskPairs(tasks[i])
  BY <1>1, <1>2, SplitPairs
<1>4. /\ DOMAIN seqs = 1 .. Len(tasks) /\ flat = FlattenSeq(seqs)
      /\ seqs = [i \in 1 .. Len(tasks) |-> seqs[i]]
  BY <1>1
<1> HIDE DEF seqs
<1>5. seqs \in Seq(Seq(PlainTasks)) /\ Len(seqs) = Len(tasks)
  <2> PICK n : n = Len(tasks)
    OBVIOUS
  <2>1. n \in Nat /\ seqs \in [1 .. n -> Seq(PlainTasks)]
    BY <1>1, <1>3, <1>4
  <2>2. seqs \in Seq(Seq(PlainTasks))
    BY <2>1
  <2> QED BY <2>1, <2>2
<1>6. \A i, j \in DOMAIN seqs : i # j => PairsIn(ToSet(seqs[i])) \cap PairsIn(ToSet(seqs[j])) = {}
  BY <1>1, <1>3, <1>4 DEF Clean
<1>7. flat \in Seq(PlainTasks) /\ ToSet(flat) = UNION {ToSet(seqs[i]) : i \in 1 .. Len(seqs)}
  BY <1>4, <1>5, FlattenToSet, FlattenLists
<1>8. Clean(flat)
  BY <1>1, <1>3, <1>4, <1>5, <1>6, CleanFlat
<1>9. PairsIn(ToSet(flat)) = UNION {PairsIn(ToSet(seqs[i])) : i \in 1 .. Len(seqs)}
  BY <1>7 DEF PairsIn
<1>10. PairsIn(ToSet(tasks)) = UNION {TaskPairs(tasks[i]) : i \in DOMAIN tasks}
  BY DEF PairsIn, ToSet
<1> QED BY <1>1, <1>3, <1>5, <1>7, <1>8, <1>9, <1>10

(* A queue has the pairs of what is pushed on it too.                      *)
LEMMA PushedPairs ==
    ASSUME NEW T, NEW queue \in Seq(T), NEW tasks \in Seq(T), Clean(queue), Clean(tasks),
           PairsIn(ToSet(queue)) \cap PairsIn(ToSet(tasks)) = {}
    PROVE  /\ Clean(Pushed(queue, tasks))
           /\ PairsIn(ToSet(Pushed(queue, tasks))) = PairsIn(ToSet(queue)) \cup PairsIn(ToSet(tasks))
<1>1. Clean(Pushed(queue, tasks))
  BY CleanPushed
<1>2. ToSet(Pushed(queue, tasks)) = ToSet(queue) \cup ToSet(tasks)
  BY PushedFacts
<1> QED BY <1>1, <1>2 DEF PairsIn

(* ... of a single task.                                                   *)
LEMMA PushedOne ==
    ASSUME NEW T, NEW queue \in Seq(T), NEW y \in T, Clean(queue),
           PairsIn(ToSet(queue)) \cap TaskPairs(y) = {}
    PROVE  /\ Clean(Pushed(queue, <<y>>))
           /\ PairsIn(ToSet(Pushed(queue, <<y>>))) = PairsIn(ToSet(queue)) \cup TaskPairs(y)
<1>1. ASSUME NEW one \in Seq(T), Clean(one), ToSet(one) = {y}
      PROVE  /\ Clean(Pushed(queue, one))
             /\ PairsIn(ToSet(Pushed(queue, one))) = PairsIn(ToSet(queue)) \cup TaskPairs(y)
  <2>1. PairsIn(ToSet(one)) = TaskPairs(y)
    BY <1>1, PairsInFacts
  <2>2. PairsIn(ToSet(queue)) \cap PairsIn(ToSet(one)) = {}
    BY <2>1
  <2>3. /\ Clean(Pushed(queue, one))
        /\ PairsIn(ToSet(Pushed(queue, one))) = PairsIn(ToSet(queue)) \cup PairsIn(ToSet(one))
    <3>1. one \in Seq(T) /\ Clean(one)
      BY <1>1
    <3> QED BY <2>2, <3>1, PushedPairs
  <2> QED BY <2>1, <2>3
<1>2. <<y>> \in Seq(T) /\ Clean(<<y>>) /\ ToSet(<<y>>) = {y}
  BY DEF Clean, ToSet
<1> QED BY <1>1, <1>2

(***************************************************************************)
(* Layer 5: the pairs still to be joined.                                  *)
(***************************************************************************)

(* Where pairs still to be joined are, and those of each.                  *)
Groups == ({"part", "skew", "join", "all"} \X {0})
              \cup ({"builder"} \X Builders) \cup ({"prober"} \X Probers)

RestOf(c, x, n) ==
    IF c = "cluster" THEN TaskPairs(x)
    ELSE IF c = "emit" THEN {m \in TaskPairs(x) : Radix(r[m[1]], Fanout2, Skip) >= n}
    ELSE {}

JoinedBy(c, x) == IF c \in {"build", "probe"} THEN TaskPairs(x) ELSE {}

HeldByAll(made, skewed, x) ==
    IF ~made THEN Matches(r, s) ELSE IF skewed THEN TaskPairs(x) ELSE {}

Claims ==
    [g \in Groups |->
        IF g[1] = "part" THEN PairsIn(ToSet(part_queue))
        ELSE IF g[1] = "skew" THEN PairsIn(ToSet(skew_queue))
        ELSE IF g[1] = "join" THEN PairsIn(ToSet(join_queue))
        ELSE IF g[1] = "builder" THEN RestOf(pc[g[2]], task[g[2]], next[g[2]])
        ELSE IF g[1] = "prober" THEN JoinedBy(ppc[g[2]], ptask[g[2]])
        ELSE HeldByAll(Made, InSkew, skewtask)]

(* The groups are six kinds.                                               *)
LEMMA GroupFacts ==
    /\ <<"part", 0>> \in Groups /\ <<"skew", 0>> \in Groups
    /\ <<"join", 0>> \in Groups /\ <<"all", 0>> \in Groups
    /\ \A t \in Builders : <<"builder", t>> \in Groups
    /\ \A p \in Probers : <<"prober", p>> \in Groups
    /\ \A g \in Groups : \/ g \in {<<"part", 0>>, <<"skew", 0>>, <<"join", 0>>, <<"all", 0>>}
                         \/ \E t \in Builders : g = <<"builder", t>>
                         \/ \E p \in Probers : g = <<"prober", p>>
BY DEF Groups

(* The claims of each.                                                     *)
LEMMA ClaimsAre ==
    /\ DOMAIN Claims = Groups
    /\ Claims[<<"part", 0>>] = PairsIn(ToSet(part_queue))
    /\ Claims[<<"skew", 0>>] = PairsIn(ToSet(skew_queue))
    /\ Claims[<<"join", 0>>] = PairsIn(ToSet(join_queue))
    /\ \A t \in Builders : Claims[<<"builder", t>>] = RestOf(pc[t], task[t], next[t])
    /\ \A p \in Probers : Claims[<<"prober", p>>] = JoinedBy(ppc[p], ptask[p])
    /\ Claims[<<"all", 0>>] = HeldByAll(Made, InSkew, skewtask)
BY GroupFacts DEF Claims

(* A step that leaves the arrays alone keeps the pairs of each task.       *)
LEMMA SamePairs ==
    ASSUME UNCHANGED <<build, r, s, mem>>
    PROVE  /\ \A x : TaskPairs(x)' = TaskPairs(x)
           /\ \A c, x, n : RestOf(c, x, n)' = RestOf(c, x, n)
           /\ \A c, x : JoinedBy(c, x)' = JoinedBy(c, x)
           /\ \A a, b, x : HeldByAll(a, b, x)' = HeldByAll(a, b, x)
           /\ \A T : PairsIn(T)' = PairsIn(T)
           /\ \A q : Clean(q)' = Clean(q)
<1>1. \A x : TaskPairs(x)' = TaskPairs(x)
  BY SameRows DEF TaskPairs, PairsOf
<1>2. UNCHANGED <<r, s, Fanout2, Skip>>
  BY DEF Fanout2, Skip
<1>3. \A c, x, n : RestOf(c, x, n)' = RestOf(c, x, n)
  <2> TAKE c, x, n
  <2>1. TaskPairs(x)' = TaskPairs(x)
    BY <1>1
  <2>2. \A m : Radix(r[m[1]], Fanout2, Skip)' = Radix(r[m[1]], Fanout2, Skip)
    BY <1>2 DEF Radix
  <2> QED BY <2>1, <2>2 DEF RestOf
<1>4. \A c, x : JoinedBy(c, x)' = JoinedBy(c, x)
  BY <1>1 DEF JoinedBy
<1>5. \A a, b, x : HeldByAll(a, b, x)' = HeldByAll(a, b, x)
  BY <1>1, <1>2 DEF HeldByAll, Matches
<1>6. (\A T : PairsIn(T)' = PairsIn(T)) /\ (\A q : Clean(q)' = Clean(q))
  BY <1>1 DEF PairsIn, Clean
<1> QED BY <1>1, <1>3, <1>4, <1>5, <1>6

(* ... so that the claims after it are those of the new tasks.             *)
LEMMA NextClaims ==
    ASSUME UNCHANGED <<build, r, s, mem>>
    PROVE  /\ Claims'[<<"part", 0>>] = PairsIn(ToSet(part_queue'))
           /\ Claims'[<<"skew", 0>>] = PairsIn(ToSet(skew_queue'))
           /\ Claims'[<<"join", 0>>] = PairsIn(ToSet(join_queue'))
           /\ \A t \in Builders : Claims'[<<"builder", t>>] = RestOf(pc'[t], task'[t], next'[t])
           /\ \A p \in Probers : Claims'[<<"prober", p>>] = JoinedBy(ppc'[p], ptask'[p])
           /\ Claims'[<<"all", 0>>] = HeldByAll(Made', InSkew', skewtask')
<1>1. /\ Claims'[<<"part", 0>>] = PairsIn(ToSet(part_queue))'
      /\ Claims'[<<"skew", 0>>] = PairsIn(ToSet(skew_queue))'
      /\ Claims'[<<"join", 0>>] = PairsIn(ToSet(join_queue))'
      /\ \A t \in Builders : Claims'[<<"builder", t>>] = RestOf(pc[t], task[t], next[t])'
      /\ \A p \in Probers : Claims'[<<"prober", p>>] = JoinedBy(ppc[p], ptask[p])'
      /\ Claims'[<<"all", 0>>] = HeldByAll(Made, InSkew, skewtask)'
  BY GroupFacts DEF Claims
<1>2. PairsIn(ToSet(part_queue))' = PairsIn(ToSet(part_queue'))
  BY SamePairs DEF PairsIn, ToSet
<1>3. PairsIn(ToSet(skew_queue))' = PairsIn(ToSet(skew_queue'))
  BY SamePairs DEF PairsIn, ToSet
<1>4. PairsIn(ToSet(join_queue))' = PairsIn(ToSet(join_queue'))
  BY SamePairs DEF PairsIn, ToSet
<1>5. ASSUME NEW t \in Builders
      PROVE  RestOf(pc[t], task[t], next[t])' = RestOf(pc'[t], task'[t], next'[t])
  <2> PICK c, x, n : c = pc'[t] /\ x = task'[t] /\ n = next'[t]
    OBVIOUS
  <2>1. RestOf(c, x, n)' = RestOf(c, x, n)
    BY SamePairs
  <2>2. RestOf(pc[t], task[t], next[t])' = RestOf(c, x, n)'
    OBVIOUS
  <2> QED BY <2>1, <2>2
<1>6. ASSUME NEW p \in Probers
      PROVE  JoinedBy(ppc[p], ptask[p])' = JoinedBy(ppc'[p], ptask'[p])
  <2> PICK c, x : c = ppc'[p] /\ x = ptask'[p]
    OBVIOUS
  <2>1. JoinedBy(c, x)' = JoinedBy(c, x)
    BY SamePairs
  <2>2. JoinedBy(ppc[p], ptask[p])' = JoinedBy(c, x)'
    OBVIOUS
  <2> QED BY <2>1, <2>2
<1>7. HeldByAll(Made, InSkew, skewtask)' = HeldByAll(Made', InSkew', skewtask')
  <2> PICK a, b, x : a = Made' /\ b = InSkew' /\ x = skewtask'
    OBVIOUS
  <2>1. HeldByAll(a, b, x)' = HeldByAll(a, b, x)
    BY SamePairs
  <2>2. HeldByAll(Made, InSkew, skewtask)' = HeldByAll(a, b, x)'
    OBVIOUS
  <2> QED BY <2>1, <2>2
<1> QED BY <1>1, <1>2, <1>3, <1>4, <1>5, <1>6, <1>7

(* Sets of which no two have an element in common.                         *)
Unshared(C, G) == \A g, h \in G : g # h => C[g] \cap C[h] = {}

(* Some of them, H, take over the elements of each other, or lose some.    *)
Shifting(C, D, G, H, Out) ==
    /\ H \subseteq G /\ Unshared(C, G) /\ Unshared(D, H)
    /\ \A g \in G \ H : D[g] = C[g]
    /\ Together(D, H) = Together(C, H) \ Out /\ Out \subseteq Together(C, H)

(* Together they then only lose those.                                     *)
LEMMA ShiftClaims ==
    ASSUME NEW G, NEW H, NEW C, NEW D, NEW Out, Shifting(C, D, G, H, Out)
    PROVE  Unshared(D, G) /\ Together(D, G) = Together(C, G) \ Out
<1> USE DEF Shifting
<1>1. \A g \in H : D[g] \subseteq Together(C, H)
  BY DEF Together
<1>2. ASSUME NEW g \in G \ H PROVE Together(C, H) \cap C[g] = {}
  BY <1>2 DEF Together, Unshared
<1>3. Unshared(D, G)
  <2> SUFFICES ASSUME NEW g \in G, NEW h \in G, g # h PROVE D[g] \cap D[h] = {}
    BY DEF Unshared
  <2>1. CASE g \in H /\ h \in H
    BY <2>1 DEF Unshared
  <2>2. CASE g \in H /\ h \notin H
    BY <1>1, <1>2, <2>2
  <2>3. CASE g \notin H /\ h \in H
    BY <1>1, <1>2, <2>3
  <2>4. CASE g \notin H /\ h \notin H
    BY <2>4 DEF Unshared
  <2> QED BY <2>1, <2>2, <2>3, <2>4
<1>4. Together(C, G) = Together(C, H) \cup Together(C, G \ H)
  BY DEF Together
<1>5. Together(D, G) = Together(D, H) \cup Together(D, G \ H)
  BY DEF Together
<1>6. Together(D, G \ H) = Together(C, G \ H)
  BY DEF Together
<1>7. Together(C, G \ H) \cap Out = {}
  BY <1>2 DEF Together
<1> QED BY <1>3, <1>4, <1>5, <1>6, <1>7

(* The pairs that are found, and the portions the probe threads counted.   *)
FoundPairs == Matches(r, s) \ Together(Claims, Groups)

Portions(F, A, found) ==
    /\ F \in [Probers -> SUBSET found] /\ Unshared(F, Probers) /\ Together(F, Probers) = found
    /\ \A p \in Probers : A[p] = Tally(RowidBits, F[p])

PairInv ==
    /\ Clean(part_queue) /\ Clean(skew_queue) /\ Clean(join_queue)
    /\ Unshared(Claims, Groups) /\ Together(Claims, Groups) \subseteq Matches(r, s)
    /\ DOMAIN acc = Probers /\ \E F : Portions(F, acc, FoundPairs)

(* Claims that move from one to another leave what is found as it is.      *)
LEMMA MoveClaims ==
    ASSUME PairInv, UNCHANGED <<r, s, acc>>,
           Clean(part_queue)', Clean(skew_queue)', Clean(join_queue)',
           NEW H \in SUBSET Groups, \A g \in Groups \ H : Claims'[g] = Claims[g],
           Unshared(Claims', H), Together(Claims', H) = Together(Claims, H)
    PROVE  PairInv' /\ UNCHANGED FoundPairs
<1> PICK C, D : C = Claims /\ D = Claims'
  OBVIOUS
<1>1. Unshared(C, Groups) /\ Together(C, Groups) \subseteq Matches(r, s)
  BY DEF PairInv
<1>2. Unshared(D, Groups) /\ Together(D, Groups) = Together(C, Groups)
  <2> PICK G, Out : G = Groups /\ Out = {}
    OBVIOUS
  <2>1. Shifting(C, D, G, H, Out)
    BY <1>1 DEF Shifting
  <2>2. Unshared(D, G) /\ Together(D, G) = Together(C, G) \ Out
    BY <2>1, ShiftClaims
  <2> QED BY <2>2
<1>3. Matches(r, s)' = Matches(r, s) /\ Groups' = Groups
  BY DEF Matches, Groups, Builders, Probers
<1>4. Unshared(Claims, Groups)' /\ Together(Claims, Groups)' = Together(D, Groups)
  BY <1>2, <1>3 DEF Unshared, Together
<1>5. UNCHANGED FoundPairs
  BY <1>2, <1>3, <1>4 DEF FoundPairs
<1>6. PICK F : Portions(F, acc, FoundPairs)
  BY DEF PairInv
<1>7. Portions(F, acc, FoundPairs)'
  BY <1>5, <1>6 DEF Portions, Tally, Unshared, Together, Probers
<1> QED BY <1>1, <1>2, <1>3, <1>4, <1>5, <1>7 DEF PairInv, Probers

(* Steps that keep all claims.                                             *)
LEMMA SameClaims ==
    ASSUME Setting, PairInv, UNCHANGED <<build, r, s, acc, queues>>,
           \A x \in Standing : TaskPairs(x)' = TaskPairs(x),
           \A u \in Builders : pc[u] \in {"cluster", "emit"} \/ pc'[u] \in {"cluster", "emit"} =>
               /\ task'[u] = task[u]
               /\ \/ pc'[u] = pc[u] /\ next'[u] = next[u]
                  \/ pc[u] = "cluster" /\ pc'[u] = "emit" /\ next'[u] = 0,
           \A p \in Probers : Joining(p) \/ Joining(p)' =>
               Joining(p) /\ Joining(p)' /\ ptask'[p] = ptask[p],
           Made' <=> Made, InSkew' <=> InSkew, InSkew => skewtask' = skewtask
    PROVE  PairInv' /\ UNCHANGED FoundPairs
<1>1. /\ \A x \in ToSet(part_queue) \cup ToSet(skew_queue) \cup ToSet(join_queue) : x \in Standing
      /\ \A t \in Builders : pc[t] \in {"cluster", "emit"} => task[t] \in Standing
      /\ \A p \in Probers : Joining(p) => ptask[p] \in Standing
      /\ InSkew => skewtask \in Standing
  BY DEF Standing, JoinTasks, InHand, InSkew
<1>2. /\ ToSet(part_queue)' = ToSet(part_queue) /\ ToSet(skew_queue)' = ToSet(skew_queue)
      /\ ToSet(join_queue)' = ToSet(join_queue)
      /\ part_queue' = part_queue /\ skew_queue' = skew_queue /\ join_queue' = join_queue
  BY DEF ToSet, queues
<1>3. /\ PairsIn(ToSet(part_queue))' = PairsIn(ToSet(part_queue))
      /\ PairsIn(ToSet(skew_queue))' = PairsIn(ToSet(skew_queue))
      /\ PairsIn(ToSet(join_queue))' = PairsIn(ToSet(join_queue))
  BY <1>1, <1>2 DEF PairsIn
<1>4. ASSUME NEW q, \A i \in DOMAIN q : q[i] \in Standing PROVE Clean(q)' <=> Clean(q)
  BY <1>4 DEF Clean
<1>5. Clean(part_queue)' /\ Clean(skew_queue)' /\ Clean(join_queue)'
  <2> PICK a, b, c : a = part_queue /\ b = skew_queue /\ c = join_queue
    OBVIOUS
  <2>1. /\ \A i \in DOMAIN a : a[i] \in Standing
        /\ \A i \in DOMAIN b : b[i] \in Standing
        /\ \A i \in DOMAIN c : c[i] \in Standing
    BY <1>1 DEF ToSet
  <2>2. Clean(a) /\ Clean(b) /\ Clean(c)
    BY DEF PairInv
  <2>3. Clean(a)' /\ Clean(b)' /\ Clean(c)'
    BY <1>4, <2>1, <2>2
  <2> QED BY <1>2, <2>3
<1>6. UNCHANGED <<Fanout2, Skip, Matches(r, s)>>
  BY DEF Fanout2, Skip, Matches
<1>7. ASSUME NEW t \in Builders
      PROVE  RestOf(pc[t], task[t], next[t])' = RestOf(pc[t], task[t], next[t])
  <2>1. CASE pc[t] \notin {"cluster", "emit"} /\ pc'[t] \notin {"cluster", "emit"}
    BY <2>1 DEF RestOf
  <2>2. CASE pc[t] \in {"cluster", "emit"} \/ pc'[t] \in {"cluster", "emit"}
    <3> PICK x : x = task[t]
      OBVIOUS
    <3>1. x \in Standing /\ task'[t] = x /\ pc[t] \in {"cluster", "emit"}
      BY <1>1, <2>2
    <3>2. TaskPairs(x)' = TaskPairs(x)
      BY <3>1
    <3>3. TaskPairs(task[t])' = TaskPairs(x)
      BY <3>1, <3>2
    <3>4. \A m : Radix(r[m[1]], Fanout2, Skip)' = Radix(r[m[1]], Fanout2, Skip)
      BY <1>6 DEF Radix
    <3>5. CASE pc'[t] = pc[t] /\ next'[t] = next[t]
      BY <3>1, <3>3, <3>4, <3>5 DEF RestOf
    <3>6. CASE pc[t] = "cluster" /\ pc'[t] = "emit" /\ next'[t] = 0
      <4>1. x \in PlainTasks /\ Full(x) /\ Loads /\ build \in Builds
        BY <3>1, StandingFacts, SettingFacts DEF ContentInv
      <4>2. \A m \in TaskPairs(x) : m \in Matches(r, s)
        BY <4>1, TaskMatches
      <4>3. \A m \in TaskPairs(x) : Radix(r[m[1]], Fanout2, Skip) >= 0
        <5> PICK f, k : f = Fanout2 /\ k = Skip
          OBVIOUS
        <5>1. f \in Nat \ {0} /\ k \in Nat
          BY <4>1, FanoutFacts, PhjAssumption
        <5>2. \A m \in TaskPairs(x) : Radix(r[m[1]], f, k) \in 0 .. f - 1
          BY <4>1, <4>2, <5>1, PairRadix
        <5> QED BY <5>1, <5>2
      <4> QED BY <3>1, <3>3, <3>4, <3>6, <4>3 DEF RestOf
    <3> QED BY <2>2, <3>5, <3>6
  <2> QED BY <2>1, <2>2
<1>8. ASSUME NEW p \in Probers
      PROVE  JoinedBy(ppc[p], ptask[p])' = JoinedBy(ppc[p], ptask[p])
  <2>1. CASE ~Joining(p) /\ ~Joining(p)'
    BY <2>1 DEF JoinedBy, Joining
  <2>2. CASE Joining(p) \/ Joining(p)'
    <3> PICK x : x = ptask[p]
      OBVIOUS
    <3>1. x \in Standing /\ ptask'[p] = x /\ Joining(p) /\ Joining(p)'
      BY <1>1, <2>2
    <3>2. TaskPairs(x)' = TaskPairs(x)
      BY <3>1
    <3>3. TaskPairs(ptask[p])' = TaskPairs(x)
      BY <3>1, <3>2
    <3> QED BY <3>1, <3>3 DEF JoinedBy, Joining
  <2> QED BY <2>1, <2>2
<1>9. HeldByAll(Made, InSkew, skewtask)' = HeldByAll(Made, InSkew, skewtask)
  <2>1. CASE ~Made
    BY <1>6, <2>1 DEF HeldByAll
  <2>2. CASE Made /\ ~InSkew
    BY <2>2 DEF HeldByAll
  <2>3. CASE Made /\ InSkew
    <3> PICK x : x = skewtask
      OBVIOUS
    <3>1. x \in Standing /\ skewtask' = x
      BY <1>1, <2>3
    <3>2. TaskPairs(x)' = TaskPairs(x)
      BY <3>1
    <3>3. TaskPairs(skewtask)' = TaskPairs(x)
      BY <3>1, <3>2
    <3> QED BY <2>3, <3>1, <3>3 DEF HeldByAll
  <2> QED BY <2>1, <2>2, <2>3
<1>10. \A g \in Groups : Claims'[g] = Claims[g]
  <2>1. /\ Claims'[<<"part", 0>>] = PairsIn(ToSet(part_queue))'
        /\ Claims'[<<"skew", 0>>] = PairsIn(ToSet(skew_queue))'
        /\ Claims'[<<"join", 0>>] = PairsIn(ToSet(join_queue))'
        /\ \A t \in Builders : Claims'[<<"builder", t>>] = RestOf(pc[t], task[t], next[t])'
        /\ \A p \in Probers : Claims'[<<"prober", p>>] = JoinedBy(ppc[p], ptask[p])'
        /\ Claims'[<<"all", 0>>] = HeldByAll(Made, InSkew, skewtask)'
    BY GroupFacts DEF Claims
  <2> QED BY <1>3, <1>7, <1>8, <1>9, <2>1, GroupFacts, ClaimsAre
<1>11. {} \in SUBSET Groups /\ Unshared(Claims', {}) /\ Together(Claims', {}) = Together(Claims, {})
  BY DEF Unshared, Together
<1>12. r' = r /\ s' = s /\ acc' = acc
  OBVIOUS
<1> QED BY <1>5, <1>10, <1>11, <1>12, MoveClaims

(* Steps of the build threads keep the pairs of the tasks there are.       *)
LEMMA KeptPairs ==
    ASSUME Setting, NEW t \in Builders, Buildpart(t)
    PROVE  \A x \in Standing : TaskPairs(x)' = TaskPairs(x)
<1>1. UNCHANGED <<build, r, s>>
  <2>1. [Next]_vars
    BY DEF Next
  <2> QED BY <2>1, InputsKept
<1>2. ASSUME NEW x \in Standing PROVE TaskPairs(x)' = TaskPairs(x)
  <2>1. x["R"] = x.R /\ x["S"] = x.S
    BY StandingFacts, TaskNumbers
  <2>2. RowsAt("R", x["R"])' = RowsAt("R", x["R"]) /\ RowsAt("S", x["S"])' = RowsAt("S", x["S"])
    BY AllFullStep DEF Rels
  <2>3. RowsAt("R", x.R)' = RowsAt("R", x.R) /\ RowsAt("S", x.S)' = RowsAt("S", x.S)
    BY <2>1, <2>2
  <2> QED BY <1>1, <2>3 DEF TaskPairs, PairsOf
<1> QED BY <1>2

(* The first tasks are made once.                                          *)
LEMMA MadeStep ==
    ASSUME Setting, NEW t \in Builders, Buildpart(t)
    PROVE  /\ Made <=> ~NotYet
           /\ ~(t = 0 /\ pc[0] = "tasks") => (Made' <=> Made)
           /\ ~(t = 0 /\ pc[0] \in {"fetch", "skewtasks"}) =>
                  (InSkew' <=> InSkew) /\ skewtask' = skewtask
<1>1. /\ PhaseInv /\ 0 \in Builders /\ Advance(t) /\ pc \in [Builders -> BuildPC]
      /\ part \in [Builders -> {"first", "skew"}]
  BY StepAdvances, SettingFacts
<1>2. pc[0] \in BuildPC /\ part[0] \in {"first", "skew"}
  BY <1>1
<1>3. /\ part[0] = "first" => pc[0] \notin {"fetch", "fetched", "look", "drain", "drained", "skewed", "skewtasks"}
      /\ part[0] = "skew" => pc[0] \notin {"memset", "ready", "tasks", "queued", "parted", "second",
                                           "pop", "cluster", "emit", "share"}
  BY <1>1, <1>2 DEF PhaseInv, Turns
<1>4. Made <=> ~NotYet
  BY <1>2, <1>3, BarrierFacts DEF Made, NotYet, Early, BuildPC
<1>5. CASE t # 0
  <2>1. pc'[0] = pc[0] /\ part'[0] = part[0] /\ skewtask' = skewtask
    BY <1>1, <1>5 DEF Advance
  <2> QED BY <1>4, <1>5, <2>1 DEF Made, InSkew
<1>6. CASE t = 0
  <2>1. PICK c \in BuildPC : pc' = [pc EXCEPT ![0] = c] /\ PcStep(0, c)
    BY <1>1, <1>6 DEF Advance
  <2>2. /\ pc'[0] = c
        /\ part' = IF pc[0] = "share" /\ build.skew THEN [part EXCEPT ![0] = "skew"] ELSE part
        /\ pc[0] # "fetch" => skewtask' = skewtask
    BY <1>1, <1>6, <2>1 DEF Advance
  <2>3. part[0] = "skew" => part'[0] = "skew"
    BY <1>1, <2>2
  <2>4. pc[0] # "share" => part'[0] = part[0]
    BY <1>1, <2>2
  <2>5. pc[0] # "tasks" => (Made' <=> Made)
    BY <1>2, <1>3, <2>1, <2>2, <2>3, <2>4 DEF Made, PcStep
  <2>6. pc[0] \notin {"fetch", "skewtasks"} => c # "fetch"
    BY <2>1 DEF PcStep
  <2> QED BY <1>4, <1>6, <2>2, <2>5, <2>6 DEF InSkew
<1> QED BY <1>5, <1>6

(* Steps of the build threads that make and take no task.                  *)
Still(t) ==
    \/ Quiet(t) \/ StartSecondPass(t) \/ Cluster(t) \/ ShareMax(t) \/ FindMax(t)
    \/ t # 0 /\ (MakeTasks(t) \/ FetchSkew(t) \/ MakeSkewTasks(t) \/ DrainParts(t))
    \/ PopPart(t) /\ part_queue = <<>>

(* They leave every claim as it is.                                        *)
LEMMA PairStill ==
    ASSUME Setting, PairInv, NEW t \in Builders, Buildpart(t), Still(t)
    PROVE  PairInv' /\ UNCHANGED FoundPairs
<1>1. UNCHANGED <<build, r, s>>
  <2>1. [Next]_vars
    BY DEF Next
  <2> QED BY <2>1, InputsKept
<1>2. UNCHANGED prober
  BY StepEffects, SettingFacts
<1>3. \A u \in Builders : u # t => pc'[u] = pc[u] /\ task'[u] = task[u] /\ next'[u] = next[u]
  BY OthersKeep, SettingFacts
<1>4. /\ pc \in [Builders -> BuildPC] /\ task \in [Builders -> PlainTasks \cup {NULL}]
      /\ next \in [Builders -> Nat]
  BY SettingFacts DEF Plain, PlainLocal
<1>5. /\ UNCHANGED queues
      /\ \/ pc[t] \notin {"cluster", "emit"} /\ pc'[t] \notin {"cluster", "emit"}
         \/ pc[t] = "cluster" /\ pc'[t] = "emit" /\ next'[t] = 0 /\ task'[t] = task[t]
      /\ ~(t = 0 /\ pc[0] \in {"tasks", "fetch", "skewtasks"})
  <2>1. CASE Quiet(t)
    <3>1. QuietStep(t)
      BY <2>1, QuietSteps
    <3> QED BY <1>4, <3>1 DEF QuietStep, QuietPlaces
  <2>2. CASE Cluster(t)
    BY <1>4, <2>2 DEF Cluster, Goto
  <2>3. CASE StartSecondPass(t)
    BY <1>4, <2>3 DEF StartSecondPass, Goto
  <2>4. CASE ShareMax(t)
    BY <1>4, <2>4 DEF ShareMax, Goto, queues
  <2>5. CASE FindMax(t)
    BY <1>4, <2>5 DEF FindMax, Goto
  <2>6. CASE t # 0 /\ MakeTasks(t)
    BY <1>4, <2>6 DEF MakeTasks, Goto, queues
  <2>7. CASE t # 0 /\ FetchSkew(t)
    BY <1>4, <2>7 DEF FetchSkew, Goto, queues
  <2>8. CASE t # 0 /\ MakeSkewTasks(t)
    BY <1>4, <2>8 DEF MakeSkewTasks, Goto, queues
  <2>9. CASE t # 0 /\ DrainParts(t)
    BY <1>4, <2>9 DEF DrainParts, Goto, queues
  <2>10. CASE PopPart(t) /\ part_queue = <<>>
    BY <1>4, <2>10 DEF PopPart, Goto, queues
  <2> QED BY <2>1, <2>2, <2>3, <2>4, <2>5, <2>6, <2>7, <2>8, <2>9, <2>10 DEF Still
<1>6. (Made' <=> Made) /\ (InSkew' <=> InSkew) /\ skewtask' = skewtask
  BY <1>5, MadeStep
<1>7. \A x \in Standing : TaskPairs(x)' = TaskPairs(x)
  BY KeptPairs
<1>8. \A u \in Builders : pc[u] \in {"cluster", "emit"} \/ pc'[u] \in {"cluster", "emit"} =>
          /\ task'[u] = task[u]
          /\ \/ pc'[u] = pc[u] /\ next'[u] = next[u]
             \/ pc[u] = "cluster" /\ pc'[u] = "emit" /\ next'[u] = 0
  BY <1>3, <1>5
<1>9. \A p \in Probers : (Joining(p)' <=> Joining(p)) /\ ptask'[p] = ptask[p]
  BY <1>2 DEF Joining, prober
<1>10. UNCHANGED <<build, r, s, acc, queues>>
  BY <1>1, <1>2, <1>5 DEF prober
<1> QED BY <1>6, <1>7, <1>8, <1>9, <1>10, SameClaims

(* A barrier that opens leaves every claim as it is.                       *)
LEMMA PairRelease ==
    ASSUME Setting, PairInv, Release
    PROVE  PairInv' /\ UNCHANGED FoundPairs
<1>1. /\ PhaseInv /\ 0 \in Builders /\ pc \in [Builders -> BuildPC] /\ build.passes \in {1, 2}
      /\ part \in [Builders -> {"first", "skew"}] /\ Emptied
  BY SettingFacts DEF RoomInv
<1>2. /\ pc[0] \in DOMAIN AfterBarrier /\ \A t \in Builders : pc[t] = pc[0]
      /\ pc' = [t \in Builders |-> AfterBarrier[pc[0]]]
      /\ UNCHANGED <<build, r, s, acc, queues, mem, skewtask, part, task, next, ppc, ptask>>
  BY DEF Release, Open, inputs, local, prober
<1>3. \A t \in Builders : pc[t] = pc[0] /\ pc'[t] = AfterBarrier[pc[0]]
  BY <1>2
<1>4. pc[0] \notin {"cluster", "emit"} /\ AfterBarrier[pc[0]] \notin {"cluster", "emit"}
  BY <1>2, BarrierFacts
<1>5. \A x : TaskPairs(x)' = TaskPairs(x)
  BY <1>2, SamePairs
<1>6. Made' <=> Made
  <2>1. /\ part[0] = "first" => pc[0] \notin {"fetched", "look", "drained", "skewed"}
        /\ part[0] = "skew" => pc[0] \notin {"ready", "queued", "parted"}
    BY <1>1 DEF PhaseInv, Turns
  <2>2. part[0] \in {"first", "skew"} /\ part'[0] = part[0] /\ pc'[0] = AfterBarrier[pc[0]]
    BY <1>1, <1>2, <1>3
  <2>3. pc[0] = "shared" => part[0] = IF build.skew THEN "skew" ELSE "first"
    BY <1>1 DEF PhaseInv, Turns
  <2> QED BY <1>2, <2>1, <2>2, <2>3, BarrierFacts DEF Made
<1>7. InSkew' <=> InSkew
  <2>1. pc[0] # "fetch"
    BY <1>2, BarrierFacts
  <2>2. AfterBarrier[pc[0]] = "fetch" => skewtask = NULL
    BY <1>1, <1>2, BarrierFacts DEF Emptied, SecondPhase
  <2> QED BY <1>1, <1>2, <1>3, <2>1, <2>2 DEF InSkew
<1>8. \A u \in Builders : pc[u] \notin {"cluster", "emit"} /\ pc'[u] \notin {"cluster", "emit"}
  BY <1>3, <1>4
<1>9. \A p \in Probers : (Joining(p)' <=> Joining(p)) /\ ptask'[p] = ptask[p]
  BY <1>2 DEF Joining
<1> QED BY <1>2, <1>5, <1>6, <1>7, <1>8, <1>9, SameClaims

(* Neither do the steps of the main and the probe threads that take no     *)
(* task and finish none.                                                   *)
LEMMA PairIdle ==
    ASSUME Setting, PairInv,
           \/ \E p \in Probers : \/ Wipe(p) \/ BuildTable(p) \/ Reorder(p)
                                 \/ PopJoin(p) /\ join_queue = <<>>
           \/ ReleaseProbe \/ Collect \/ Terminated \/ UNCHANGED vars
           \/ SpawnProbers /\ build.passes # 1
    PROVE  PairInv' /\ UNCHANGED FoundPairs
<1>1. UNCHANGED <<build, r, s, acc, queues, skewtask, part, task, next, pc>>
  BY DEF Wipe, BuildTable, Reorder, PopJoin, ReleaseProbe, Collect, Terminated, vars, SpawnProbers,
         inputs, queues, builder, local, prober
<1>2. ppc \in [Probers -> ProbePC]
  BY SettingFacts DEF Plain, PlainProbers
<1>3. ASSUME NEW p \in Probers
      PROVE  (Joining(p)' <=> Joining(p)) /\ (Joining(p) => ptask'[p] = ptask[p])
  BY <1>2 DEF Wipe, BuildTable, Reorder, PopJoin, ReleaseProbe, Collect, Terminated, vars,
         SpawnProbers, prober, Joining
<1>4. ASSUME NEW x \in Standing PROVE TaskPairs(x)' = TaskPairs(x)
  <2>1. CASE \E p \in Probers : Reorder(p)
    <3> PICK p \in Probers : Reorder(p)
      BY <2>1
    <3> PICK xr, a : xr = ptask[p].R /\ a = Other(Home)
      OBVIOUS
    <3>1. /\ Standing = JoinTasks /\ mem'["S"] = mem["S"] /\ Cells("R")' = Cells("R")
          /\ DOMAIN mem'["R"] = DOMAIN mem["R"] /\ mem'["R"][Home] = mem["R"][Home]
      BY ReorderFacts
    <3>2. x \in PlainTasks /\ Full(x) /\ x.R.arr = Home
      <4>1. x["R"] = x.R /\ x["S"] = x.S
        BY StandingFacts, TaskNumbers
      <4> QED BY <3>1, <4>1, ReorderFacts, StandingFacts, SettingFacts DEF ContentInv, FinalArr, Rels
    <3>3. /\ x["R"] = x.R /\ x["S"] = x.S /\ x.R \in PlainRooms /\ x.S \in PlainRooms
          /\ Filled("R", x.R) /\ Filled("S", x.S)
      BY <3>2, TaskNumbers DEF Full, Rels
    <3>4. Kept("R", x.R) /\ Kept("S", x.S)
      BY <3>1, <3>2 DEF Kept, Cells
    <3>5. RowsAt("R", x.R)' = RowsAt("R", x.R) /\ RowsAt("S", x.S)' = RowsAt("S", x.S)
      BY <3>3, <3>4, KeptFacts
    <3> QED BY <1>1, <3>5 DEF TaskPairs, PairsOf
  <2>2. CASE ~\E p \in Probers : Reorder(p)
    <3>1. UNCHANGED mem
      BY <2>2 DEF Wipe, BuildTable, PopJoin, ReleaseProbe, Collect, Terminated, vars, SpawnProbers
    <3> QED BY <1>1, <3>1, SamePairs
  <2> QED BY <2>1, <2>2
<1>5. (Made' <=> Made) /\ (InSkew' <=> InSkew)
  BY <1>1 DEF Made, InSkew
<1> QED BY <1>1, <1>3, <1>4, <1>5, SameClaims

(* Pairs move between two of the groups, or three.                         *)
Moving(C, D, g, h, k) ==
    /\ {g, h, k} \subseteq Groups /\ g # h /\ g # k
    /\ \A j \in Groups \ {g, h, k} : D[j] = C[j]
    /\ D[g] \cap D[h] = {} /\ D[g] \cap D[k] = {} /\ (h = k \/ D[h] \cap D[k] = {})
    /\ D[g] \cup D[h] \cup D[k] = C[g] \cup C[h] \cup C[k]

(* They are found no more than before.                                     *)
LEMMA MoveAmong ==
    ASSUME PairInv, UNCHANGED <<build, r, s, mem, acc>>,
           Clean(part_queue') /\ Clean(skew_queue') /\ Clean(join_queue'),
           NEW g, NEW h, NEW k, Moving(Claims, Claims', g, h, k)
    PROVE  PairInv' /\ UNCHANGED FoundPairs
<1>1. Clean(part_queue)' /\ Clean(skew_queue)' /\ Clean(join_queue)'
  <2> PICK a, b, c : a = part_queue' /\ b = skew_queue' /\ c = join_queue'
    OBVIOUS
  <2>1. Clean(a)' /\ Clean(b)' /\ Clean(c)'
    BY SamePairs
  <2> QED BY <2>1
<1> PICK C, D : C = Claims /\ D = Claims'
  OBVIOUS
<1>2. Unshared(D, {g, h, k}) /\ Together(D, {g, h, k}) = Together(C, {g, h, k})
  BY DEF Unshared, Together, Moving
<1> PICK H : H = {g, h, k}
  OBVIOUS
<1>3. H \in SUBSET Groups /\ \A j \in Groups \ H : Claims'[j] = Claims[j]
  BY DEF Moving
<1>4. Unshared(Claims', H) /\ Together(Claims', H) = Together(Claims, H) /\ UNCHANGED <<r, s, acc>>
  BY <1>2
<1> QED BY <1>1, <1>3, <1>4, MoveClaims

(* The others keep theirs.                                                 *)
LEMMA OtherClaims ==
    ASSUME UNCHANGED <<build, r, s, mem>>, NEW H,
           <<"part", 0>> \in H \/ part_queue' = part_queue,
           <<"skew", 0>> \in H \/ skew_queue' = skew_queue,
           <<"join", 0>> \in H \/ join_queue' = join_queue,
           \A u \in Builders :
               \/ <<"builder", u>> \in H
               \/ pc[u] \notin {"cluster", "emit"} /\ pc'[u] \notin {"cluster", "emit"}
               \/ pc'[u] = pc[u] /\ task'[u] = task[u] /\ next'[u] = next[u],
           \A p \in Probers :
               \/ <<"prober", p>> \in H
               \/ ~Joining(p) /\ ~Joining(p)'
               \/ ppc'[p] = ppc[p] /\ ptask'[p] = ptask[p],
           \/ <<"all", 0>> \in H
           \/ (Made' <=> Made) /\ (InSkew' <=> InSkew) /\ skewtask' = skewtask
    PROVE  \A k \in Groups \ H : Claims'[k] = Claims[k]
<1>1. \A u \in Builders : <<"builder", u>> \notin H =>
          RestOf(pc'[u], task'[u], next'[u]) = RestOf(pc[u], task[u], next[u])
  BY DEF RestOf
<1>2. \A p \in Probers : <<"prober", p>> \notin H =>
          JoinedBy(ppc'[p], ptask'[p]) = JoinedBy(ppc[p], ptask[p])
  BY DEF JoinedBy, Joining
<1>3. <<"all", 0>> \notin H =>
          HeldByAll(Made', InSkew', skewtask') = HeldByAll(Made, InSkew, skewtask)
  BY DEF HeldByAll
<1>4. ASSUME NEW k \in Groups \ H PROVE Claims'[k] = Claims[k]
  BY <1>1, <1>2, <1>3, GroupFacts, ClaimsAre, NextClaims
<1> QED BY <1>4

(* ... in a step of a build thread that makes or takes tasks.              *)
LEMMA BuildpartClaims ==
    ASSUME Setting, NEW t \in Builders, Buildpart(t), UNCHANGED mem, NEW H,
           <<"part", 0>> \in H \/ part_queue' = part_queue,
           <<"skew", 0>> \in H \/ skew_queue' = skew_queue,
           <<"join", 0>> \in H \/ join_queue' = join_queue,
           \/ <<"builder", t>> \in H
           \/ pc[t] \notin {"cluster", "emit"} /\ pc'[t] \notin {"cluster", "emit"},
           <<"all", 0>> \in H \/ ~(t = 0 /\ pc[0] \in {"tasks", "fetch", "skewtasks"})
    PROVE  /\ UNCHANGED <<build, r, s, mem, acc>>
           /\ \A k \in Groups \ H : Claims'[k] = Claims[k]
<1>1. UNCHANGED <<build, r, s>>
  <2>1. [Next]_vars
    BY DEF Next
  <2> QED BY <2>1, InputsKept
<1>2. UNCHANGED <<acc, ppc, ptask>>
  <2>1. UNCHANGED prober
    BY StepEffects, SettingFacts
  <2> QED BY <2>1 DEF prober
<1>3. \A u \in Builders : u # t => pc'[u] = pc[u] /\ task'[u] = task[u] /\ next'[u] = next[u]
  BY OthersKeep, SettingFacts
<1>4. <<"all", 0>> \in H \/ ((Made' <=> Made) /\ (InSkew' <=> InSkew) /\ skewtask' = skewtask)
  BY MadeStep
<1>5. \A k \in Groups \ H : Claims'[k] = Claims[k]
  BY <1>1, <1>2, <1>3, <1>4, OtherClaims
<1> QED BY <1>1, <1>2, <1>5

(* The queues, and what is in them.                                        *)
LEMMA QueueFacts ==
    ASSUME Setting
    PROVE  /\ part_queue \in Seq(PlainTasks) /\ skew_queue \in Seq(PlainTasks)
           /\ join_queue \in Seq(PlainTasks)
           /\ pc \in [Builders -> BuildPC] /\ task \in [Builders -> PlainTasks \cup {NULL}]
           /\ next \in [Builders -> Nat] /\ lmax \in [Builders -> Nat]
           /\ ppc \in [Probers -> ProbePC] /\ ptask \in [Probers -> PlainTasks \cup {NULL}]
BY SettingFacts DEF Plain, PlainQueues, PlainLocal, PlainProbers

(* The second pass takes a task.                                           *)
LEMMA PairPop ==
    ASSUME Setting, PairInv, NEW t \in Builders, Buildpart(t), PopPart(t), part_queue # <<>>
    PROVE  PairInv' /\ UNCHANGED FoundPairs
<1> PICK q, x, H, g, h : /\ q = part_queue /\ x = Head(q) /\ H = {g, h}
                         /\ g = <<"part", 0>> /\ h = <<"builder", t>>
  OBVIOUS
<1>1. /\ pc[t] = "pop" /\ pc'[t] = "cluster" /\ task'[t] = x /\ part_queue' = Tail(q)
      /\ UNCHANGED <<skew_queue, join_queue, mem>>
  BY QueueFacts DEF PopPart, Goto
<1>2. /\ q \in Seq(PlainTasks) /\ q # <<>> /\ Clean(q) /\ Clean(skew_queue) /\ Clean(join_queue)
  BY QueueFacts DEF PairInv
<1>3. /\ Clean(Tail(q)) /\ TaskPairs(x) \cap PairsIn(ToSet(Tail(q))) = {}
      /\ PairsIn(ToSet(q)) = TaskPairs(x) \cup PairsIn(ToSet(Tail(q)))
  BY <1>2, CleanPopped
<1>4. /\ UNCHANGED <<build, r, s, mem, acc>>
      /\ \A k \in Groups \ H : Claims'[k] = Claims[k]
  <2>1. ~(t = 0 /\ pc[0] \in {"tasks", "fetch", "skewtasks"})
    BY <1>1
  <2>2. g \in H /\ h \in H
    OBVIOUS
  <2> QED BY <1>1, <2>1, <2>2, BuildpartClaims
<1>5. g \in Groups /\ h \in Groups /\ g # h
  BY GroupFacts
<1>6. Claims[g] = PairsIn(ToSet(q)) /\ Claims[h] = {}
  BY <1>1, ClaimsAre DEF RestOf
<1>7. Claims'[g] = PairsIn(ToSet(Tail(q))) /\ Claims'[h] = TaskPairs(x)
  BY <1>1, <1>4, NextClaims DEF RestOf
<1>8. Clean(part_queue') /\ Clean(skew_queue') /\ Clean(join_queue')
  BY <1>1, <1>2, <1>3
<1>9. Moving(Claims, Claims', g, h, h)
  BY <1>3, <1>4, <1>5, <1>6, <1>7, <1>8 DEF Moving
<1> QED BY <1>3, <1>4, <1>5, <1>6, <1>7, <1>8, <1>9, MoveAmong

(* A probe thread takes a task.                                            *)
LEMMA PairPopJoin ==
    ASSUME Setting, PairInv, NEW p \in Probers, PopJoin(p), join_queue # <<>>
    PROVE  PairInv' /\ UNCHANGED FoundPairs
<1> PICK q, x, H, g, h : /\ q = join_queue /\ x = Head(q) /\ H = {g, h}
                         /\ g = <<"join", 0>> /\ h = <<"prober", p>>
  OBVIOUS
<1>1. /\ ppc[p] = "pop" /\ ppc'[p] = "build" /\ ptask'[p] = x /\ join_queue' = Tail(q)
      /\ \A o \in Probers : o # p => ppc'[o] = ppc[o] /\ ptask'[o] = ptask[o]
      /\ UNCHANGED <<build, r, s, mem, acc, skew_queue, part_queue, pc, task, next, part, skewtask>>
  BY QueueFacts DEF PopJoin, inputs, builder, local
<1>2. /\ q \in Seq(PlainTasks) /\ q # <<>> /\ Clean(q) /\ Clean(skew_queue) /\ Clean(part_queue)
  BY QueueFacts DEF PairInv
<1>3. /\ Clean(Tail(q)) /\ TaskPairs(x) \cap PairsIn(ToSet(Tail(q))) = {}
      /\ PairsIn(ToSet(q)) = TaskPairs(x) \cup PairsIn(ToSet(Tail(q)))
  BY <1>2, CleanPopped
<1>4. \A k \in Groups \ H : Claims'[k] = Claims[k]
  <2>1. g \in H /\ h \in H
    OBVIOUS
  <2>2. (Made' <=> Made) /\ (InSkew' <=> InSkew)
    BY <1>1 DEF Made, InSkew
  <2> QED BY <1>1, <2>1, <2>2, OtherClaims
<1>5. g \in Groups /\ h \in Groups /\ g # h
  BY GroupFacts
<1>6. Claims[g] = PairsIn(ToSet(q)) /\ Claims[h] = {}
  BY <1>1, ClaimsAre DEF JoinedBy
<1>7. Claims'[g] = PairsIn(ToSet(Tail(q))) /\ Claims'[h] = TaskPairs(x)
  BY <1>1, NextClaims DEF JoinedBy
<1>8. /\ Clean(part_queue') /\ Clean(skew_queue') /\ Clean(join_queue')
      /\ UNCHANGED <<build, r, s, mem, acc>>
  BY <1>1, <1>2, <1>3
<1>9. Moving(Claims, Claims', g, h, h)
  BY <1>3, <1>4, <1>5, <1>6, <1>7, <1>8 DEF Moving
<1> QED BY <1>3, <1>4, <1>5, <1>6, <1>7, <1>8, <1>9, MoveAmong

(* With one pass, join_queue and part_queue change places.                 *)
LEMMA PairSpawn ==
    ASSUME Setting, PairInv, SpawnProbers, build.passes = 1
    PROVE  PairInv' /\ UNCHANGED FoundPairs
<1> PICK H, g, h : H = {g, h} /\ g = <<"join", 0>> /\ h = <<"part", 0>>
  OBVIOUS
<1>1. /\ join_queue' = part_queue /\ part_queue' = join_queue
      /\ UNCHANGED <<build, r, s, mem, acc, skew_queue, pc, task, next, part, skewtask>>
      /\ \A p \in Probers : ppc[p] = "idle" /\ ppc'[p] = "wipe"
  BY DEF SpawnProbers, inputs, builder, local
<1>2. \A k \in Groups \ H : Claims'[k] = Claims[k]
  <2>1. g \in H /\ h \in H
    OBVIOUS
  <2>2. (Made' <=> Made) /\ (InSkew' <=> InSkew)
    BY <1>1 DEF Made, InSkew
  <2>3. \A p \in Probers : ~Joining(p) /\ ~Joining(p)'
    BY <1>1 DEF Joining
  <2> QED BY <1>1, <2>1, <2>2, <2>3, OtherClaims
<1>3. g \in Groups /\ h \in Groups /\ g # h
  BY GroupFacts
<1>4. Claims'[g] = Claims[h] /\ Claims'[h] = Claims[g]
  BY <1>1, ClaimsAre, NextClaims
<1>5. Claims[g] \cap Claims[h] = {}
  BY <1>3 DEF PairInv, Unshared
<1>6. /\ Clean(part_queue') /\ Clean(skew_queue') /\ Clean(join_queue')
      /\ UNCHANGED <<build, r, s, mem, acc>>
  BY <1>1 DEF PairInv
<1>7. Moving(Claims, Claims', g, h, h)
  BY <1>2, <1>3, <1>4, <1>5, <1>6 DEF Moving
<1> QED BY <1>2, <1>3, <1>4, <1>5, <1>6, <1>7, MoveAmong

(* Thread 0 moves the pieces of the large tasks.                           *)
LEMMA PairDrain ==
    ASSUME Setting, PairInv, Buildpart(0), DrainParts(0)
    PROVE  PairInv' /\ UNCHANGED FoundPairs
<1> PICK a, b, H, g, h : /\ H = {g, h} /\ g = <<"join", 0>> /\ h = <<"part", 0>>
                         /\ a = part_queue /\ b = join_queue
  OBVIOUS
<1>1. /\ join_queue' = Pushed(b, a) /\ part_queue' = <<>> /\ UNCHANGED <<mem, skew_queue>>
      /\ pc[0] = "drain" /\ pc'[0] = "drained" /\ 0 \in Builders
  BY QueueFacts, SettingFacts DEF DrainParts, Goto
<1>2. /\ UNCHANGED <<build, r, s, mem, acc>>
      /\ \A k \in Groups \ H : Claims'[k] = Claims[k]
  <2>1. g \in H /\ h \in H
    OBVIOUS
  <2> QED BY <1>1, <2>1, BuildpartClaims
<1>3. g \in Groups /\ h \in Groups /\ g # h
  BY GroupFacts
<1>4. a \in Seq(PlainTasks) /\ b \in Seq(PlainTasks) /\ Clean(a) /\ Clean(b) /\ Clean(skew_queue)
  BY QueueFacts DEF PairInv
<1>5. Claims[g] = PairsIn(ToSet(b)) /\ Claims[h] = PairsIn(ToSet(a))
  BY ClaimsAre
<1>6. PairsIn(ToSet(b)) \cap PairsIn(ToSet(a)) = {}
  BY <1>3, <1>5 DEF PairInv, Unshared
<1>7. Clean(Pushed(b, a)) /\ ToSet(Pushed(b, a)) = ToSet(b) \cup ToSet(a)
  BY <1>4, <1>6, CleanPushed, PushedFacts
<1>8. PairsIn(ToSet(Pushed(b, a))) = PairsIn(ToSet(b)) \cup PairsIn(ToSet(a))
  BY <1>7 DEF PairsIn
<1>9. Claims'[g] = PairsIn(ToSet(b)) \cup PairsIn(ToSet(a)) /\ Claims'[h] = {}
  BY <1>1, <1>2, <1>8, NextClaims, PairsInFacts
<1>10. Clean(part_queue') /\ Clean(skew_queue') /\ Clean(join_queue')
  BY <1>1, <1>4, <1>7, PairsInFacts
<1>11. Moving(Claims, Claims', g, h, h)
  BY <1>2, <1>3, <1>5, <1>9, <1>10 DEF Moving
<1> QED BY <1>2, <1>3, <1>5, <1>9, <1>10, <1>11, MoveAmong

(* Thread 0 takes the next task for all.                                   *)
LEMMA PairFetch ==
    ASSUME Setting, PairInv, Buildpart(0), FetchSkew(0)
    PROVE  PairInv' /\ UNCHANGED FoundPairs
<1> PICK q, H, g, h : H = {g, h} /\ g = <<"skew", 0>> /\ h = <<"all", 0>> /\ q = skew_queue
  OBVIOUS
<1>1. /\ UNCHANGED <<mem, part_queue, join_queue, part>>
      /\ pc[0] = "fetch" /\ pc'[0] = "fetched" /\ 0 \in Builders /\ part[0] = "skew"
  BY QueueFacts, SettingFacts DEF FetchSkew, Goto, local, PhaseInv, Turns
<1>2. /\ UNCHANGED <<build, r, s, mem, acc>>
      /\ \A k \in Groups \ H : Claims'[k] = Claims[k]
  <2>1. g \in H /\ h \in H
    OBVIOUS
  <2> QED BY <1>1, <2>1, BuildpartClaims
<1>3. g \in Groups /\ h \in Groups /\ g # h
  BY GroupFacts
<1>4. q \in Seq(PlainTasks) /\ Clean(q) /\ Clean(part_queue) /\ Clean(join_queue)
  BY QueueFacts DEF PairInv
<1>5. Made /\ Made' /\ ~InSkew
  BY <1>1 DEF Made, InSkew
<1>6. Claims[g] = PairsIn(ToSet(q)) /\ Claims[h] = {}
  BY <1>5, ClaimsAre DEF HeldByAll
<1>7. CASE q # <<>>
  <2> PICK x : x = Head(q)
    OBVIOUS
  <2>1. skewtask' = x /\ skew_queue' = Tail(q) /\ x # NULL
    BY <1>4, <1>7, NoNull DEF FetchSkew
  <2>2. InSkew'
    BY <1>1, <2>1 DEF InSkew
  <2>3. /\ Clean(Tail(q)) /\ TaskPairs(x) \cap PairsIn(ToSet(Tail(q))) = {}
        /\ PairsIn(ToSet(q)) = TaskPairs(x) \cup PairsIn(ToSet(Tail(q)))
    BY <1>4, <1>7, CleanPopped
  <2>4. Claims'[g] = PairsIn(ToSet(Tail(q))) /\ Claims'[h] = TaskPairs(x)
    BY <1>2, <1>5, <2>1, <2>2, NextClaims DEF HeldByAll
  <2>5. Clean(part_queue') /\ Clean(skew_queue') /\ Clean(join_queue')
    BY <1>1, <1>4, <2>1, <2>3
  <2>6. Moving(Claims, Claims', g, h, h)
    BY <1>2, <1>3, <1>6, <2>3, <2>4, <2>5 DEF Moving
  <2> QED BY <1>2, <1>3, <1>6, <2>3, <2>4, <2>5, <2>6, MoveAmong
<1>8. CASE q = <<>>
  <2>1. skewtask' = NULL /\ skew_queue' = q
    BY <1>8 DEF FetchSkew
  <2>2. ~InSkew'
    BY <2>1 DEF InSkew
  <2>3. Claims'[g] = PairsIn(ToSet(q)) /\ Claims'[h] = {}
    BY <1>2, <1>5, <2>1, <2>2, NextClaims DEF HeldByAll
  <2>4. Clean(part_queue') /\ Clean(skew_queue') /\ Clean(join_queue')
    BY <1>1, <1>4, <2>1
  <2>5. Moving(Claims, Claims', g, h, h)
    BY <1>2, <1>3, <1>6, <2>3, <2>4 DEF Moving
  <2> QED BY <1>2, <1>3, <1>6, <2>3, <2>4, <2>5, MoveAmong
<1> QED BY <1>7, <1>8

(* The second pass makes a task of one partition.                          *)
LEMMA PairEmit ==
    ASSUME Setting, PairInv, NEW t \in Builders, Buildpart(t), Emit(t)
    PROVE  PairInv' /\ UNCHANGED FoundPairs
<1> PICK q, x, n, y, H, g, h : /\ q = join_queue /\ x = task[t] /\ n = next[t] /\ y = ClusterTask(x, n)
                               /\ H = {g, h} /\ g = <<"join", 0>> /\ h = <<"builder", t>>
  OBVIOUS
<1>1. /\ pc[t] = "emit" /\ pc'[t] = (IF n = Fanout2 - 1 THEN "pop" ELSE "emit") /\ task'[t] = x
      /\ next'[t] = n + 1 /\ UNCHANGED <<part_queue, skew_queue, mem>>
      /\ join_queue' = IF Joinable(y) THEN Pushed(q, <<y>>) ELSE q
  BY QueueFacts DEF Emit, Goto
<1>2. /\ t \in InHand /\ x \in PlainTasks /\ x \in Standing /\ n \in Bins /\ build \in Builds /\ Loads
  BY <1>1, InHandFacts, SettingFacts DEF InHand, Rels, ContentInv
<1>3. Full(x) /\ TaskPairs(x) \subseteq Matches(r, s)
  BY <1>2, StandingFacts, TaskMatches
<1> PICK f, k : f = Fanout2 /\ k = Skip
  OBVIOUS
<1>4. f \in Nat \ {0} /\ k \in Nat /\ n \in 0 .. f - 1
  BY <1>2, FanoutFacts, PhjAssumption DEF Bins
<1>5. y \in PlainTasks
  BY <1>2, <1>4, ClusterTaskPlain
<1>6. \A X \in Rels : Holds(X, y[X], n, x[X], f, k)
  BY <1>1, ClusterTaskHolds
<1>7. TaskPairs(y) = {m \in TaskPairs(x) : Radix(r[m[1]], f, k) = n}
  BY <1>2, <1>3, <1>5, <1>6, TaskHolds
<1>8. \A m \in TaskPairs(x) : Radix(r[m[1]], f, k) \in 0 .. f - 1
  BY <1>2, <1>3, <1>4, PairRadix
<1>9. Claims[g] = PairsIn(ToSet(q))
  BY ClaimsAre
<1>10. Claims[h] = {m \in TaskPairs(x) : Radix(r[m[1]], f, k) >= n}
  BY <1>1, ClaimsAre DEF RestOf
<1>11. g \in Groups /\ h \in Groups /\ g # h
  BY GroupFacts
<1>12. Claims[g] \cap Claims[h] = {}
  BY <1>11 DEF PairInv, Unshared
<1>13. /\ UNCHANGED <<build, r, s, mem, acc>>
       /\ \A j \in Groups \ H : Claims'[j] = Claims[j]
  <2>1. g \in H /\ h \in H /\ ~(t = 0 /\ pc[0] \in {"tasks", "fetch", "skewtasks"})
    BY <1>1
  <2> QED BY <1>1, <2>1, BuildpartClaims
<1>14. Claims'[h] = {m \in TaskPairs(x) : Radix(r[m[1]], f, k) >= n + 1}
  <2>1. Claims'[h] = RestOf(pc'[t], x, n + 1)
    BY <1>1, <1>13, NextClaims
  <2>2. CASE n = f - 1
    <3>1. \A m \in TaskPairs(x) : ~(Radix(r[m[1]], f, k) >= n + 1)
      BY <1>4, <1>8, <2>2
    <3> QED BY <1>1, <2>1, <2>2, <3>1 DEF RestOf
  <2>3. CASE n # f - 1
    BY <1>1, <2>1, <2>3 DEF RestOf
  <2> QED BY <2>2, <2>3
<1>15. q \in Seq(PlainTasks) /\ Clean(q) /\ Clean(part_queue) /\ Clean(skew_queue)
  BY QueueFacts DEF PairInv
<1>16. /\ Claims'[g] = Claims[g] \cup TaskPairs(y) /\ Clean(join_queue')
  <2>1. CASE Joinable(y)
    <3>1. TaskPairs(y) \subseteq Claims[h]
      BY <1>4, <1>7, <1>8, <1>10
    <3>2. PairsIn(ToSet(q)) \cap TaskPairs(y) = {}
      BY <1>9, <1>12, <3>1
    <3>3. /\ Clean(Pushed(q, <<y>>))
          /\ PairsIn(ToSet(Pushed(q, <<y>>))) = PairsIn(ToSet(q)) \cup TaskPairs(y)
      BY <1>5, <1>15, <3>2, PushedOne
    <3> QED BY <1>1, <1>9, <1>13, <2>1, <3>3, NextClaims
  <2>2. CASE ~Joinable(y)
    BY <1>1, <1>5, <1>9, <1>13, <1>15, <2>2, NoPairs, NextClaims
  <2> QED BY <2>1, <2>2
<1>17. /\ Claims'[g] \cap Claims'[h] = {}
       /\ Claims'[g] \cup Claims'[h] = Claims[g] \cup Claims[h]
  <2>1. \A m \in TaskPairs(x) : /\ Radix(r[m[1]], f, k) >= n + 1 => Radix(r[m[1]], f, k) # n
                                /\ Radix(r[m[1]], f, k) >= n <=>
                                       (Radix(r[m[1]], f, k) >= n + 1 \/ Radix(r[m[1]], f, k) = n)
    BY <1>4, <1>8
  <2>2. Claims'[h] \subseteq Claims[h] /\ Claims[h] = Claims'[h] \cup TaskPairs(y)
    BY <1>7, <1>10, <1>14, <2>1
  <2>3. Claims'[h] \cap TaskPairs(y) = {}
    BY <1>7, <1>14, <2>1
  <2> QED BY <1>12, <1>16, <2>2, <2>3
<1>18. Clean(part_queue') /\ Clean(skew_queue') /\ Clean(join_queue')
  BY <1>1, <1>15, <1>16
<1>19. Moving(Claims, Claims', g, h, h)
  BY <1>11, <1>13, <1>17 DEF Moving
<1> QED BY <1>13, <1>18, <1>19, MoveAmong

(* All tuples of the relations are a task to begin with.                   *)
LEMMA WholeTask ==
    ASSUME Setting, pc[0] = "tasks", NEW x, x = Task(Room("org", 0, NR), Room("org", 0, NS))
    PROVE  /\ x \in PlainTasks /\ Full(x) /\ TaskPairs(x) = Matches(r, s)
           /\ \A X \in Rels : x[X] = Room("org", 0, Size[X])
<1>1. /\ x.R = Room("org", 0, NR) /\ x.S = Room("org", 0, NS) /\ x["R"] = x.R /\ x["S"] = x.S
      /\ x.R \in PlainRooms /\ x.S \in PlainRooms /\ x \in PlainTasks
      /\ x.R.num = NR /\ x.S.num = NS /\ x.R.base = 0 /\ x.S.base = 0
      /\ x.R.arr = "org" /\ x.S.arr = "org"
  BY PhjAssumption DEF Task, Room, PlainRooms, PlainTasks
<1>2. /\ Going(0) /\ part[0] = "first" /\ NotYet /\ 0 \in Builders /\ Loaded /\ Loads
  BY SettingFacts DEF Going, Shared, PhaseInv, Turns, NotYet, Early, ContentInv
<1>3. \A X \in Rels : x[X] = Room("org", 0, Size[X])
  BY <1>1 DEF Rels, Size
<1>4. \A X \in Rels : Filled(X, x[X])
  <2> TAKE X \in Rels
  <2>1. Partitionable(0, X) /\ Whole(0, X) = Room("org", 0, Size[X])
    BY <1>2, GoingReady
  <2> QED BY <1>3, <2>1 DEF Partitionable
<1>5. Full(x)
  BY <1>1, <1>4, PhjAssumption DEF Full
<1>6. \A X \in Rels : RowsAt(X, x[X]) = Rows(Size[X])
  <2> TAKE X \in Rels
  <2>1. x[X].num = Size[X] /\ x[X].base = 0 /\ x[X].arr = "org" /\ x[X] \in PlainRooms
    BY <1>1 DEF Rels, Size
  <2>4. "regions" \notin DOMAIN x[X] /\ Filled(X, x[X])
    BY <1>4, <2>1, RoomFacts
  <2>2. RowsAt(X, x[X]) = {At(X, x[X], k) : k \in Rows(Size[X])}
    BY <2>1, <2>4, FilledFacts
  <2>3. \A k \in Rows(Size[X]) : At(X, x[X], k) = k
    <3>1. \A k \in Rows(Size[X]) : 0 + k = k
      BY PhjAssumption DEF Rows, Size
    <3> QED BY <1>2, <2>1, <3>1 DEF At, Loaded
  <2> QED BY <2>2, <2>3
<1>7. RowsAt("R", x.R) = Rows(NR) /\ RowsAt("S", x.S) = Rows(NS)
  BY <1>1, <1>6 DEF Rels, Size
<1>8. DOMAIN r = Rows(NR) /\ DOMAIN s = Rows(NS)
  BY <1>2, PhjAssumption DEF Loads
<1>9. TaskPairs(x) = Matches(r, s)
  BY <1>7, <1>8 DEF TaskPairs, PairsOf, Matches
<1> QED BY <1>1, <1>3, <1>5, <1>9

(* The tasks of the first pass have all pairs.                             *)
LEMMA FirstTasksPairs ==
    ASSUME Setting, pc[0] = "tasks", NEW tasks, tasks = FirstTasks(0)
    PROVE  /\ tasks \in Seq(PlainTasks) /\ Clean(tasks)
           /\ PairsIn(ToSet(tasks)) = Matches(r, s)
<1> PICK x, f : x = Task(Room("org", 0, NR), Room("org", 0, NS)) /\ f = Fanout1
  OBVIOUS
<1>1. /\ x \in PlainTasks /\ Full(x) /\ TaskPairs(x) = Matches(r, s)
      /\ \A X \in Rels : x[X] = Room("org", 0, Size[X])
  BY WholeTask
<1>2. f \in Nat \ {0} /\ Loads
  BY FanoutFacts, SettingFacts DEF ContentInv
<1>3. DOMAIN tasks = 1 .. f /\ \A i \in 1 .. f : tasks[i] = PartTask(0, Size, i - 1)
  BY DEF FirstTasks
<1>4. ASSUME NEW i \in 1 .. f
      PROVE  /\ tasks[i] \in PlainTasks
             /\ TaskPairs(tasks[i]) = {m \in TaskPairs(x) : Radix(r[m[1]], f, 0) = i - 1}
  <2> PICK y, p : y = PartTask(0, Size, i - 1) /\ p = i - 1
    OBVIOUS
  <2>1. y \in PlainTasks /\ \A X \in Rels : Holds(X, y[X], i - 1, Room("org", 0, Size[X]), Fanout1, 0)
    BY FirstTaskHolds
  <2>2. \A X \in Rels : Holds(X, y[X], p, x[X], f, 0)
    BY <1>1, <2>1
  <2>3. TaskPairs(y) = {m \in TaskPairs(x) : Radix(r[m[1]], f, 0) = p}
    BY <1>1, <1>2, <2>1, <2>2, TaskHolds
  <2> QED BY <1>3, <2>1, <2>3
<1>5. tasks \in Seq(PlainTasks)
  BY <1>2, <1>3, <1>4 DEF FirstTasks
<1>6. \A m \in TaskPairs(x) : Radix(r[m[1]], f, 0) \in 0 .. f - 1
  <2>1. 0 \in Nat
    OBVIOUS
  <2> QED BY <1>1, <1>2, <2>1, PairRadix
<1>7. Clean(tasks) /\ PairsIn(ToSet(tasks)) = TaskPairs(x)
  <2>1. Dealt(tasks, TaskPairs(x), f, 0)
    BY <1>2, <1>3, <1>4, <1>6 DEF Dealt
  <2> QED BY <2>1, DealtFacts
<1> QED BY <1>1, <1>5, <1>7

(* The tasks of skew handling have the pairs of the task that is handled.  *)
LEMMA SkewTasksPairs ==
    ASSUME Setting, pc[0] = "skewtasks", NEW tasks, tasks = SkewTasks(0)
    PROVE  /\ tasks \in Seq(PlainTasks) /\ Clean(tasks)
           /\ PairsIn(ToSet(tasks)) = TaskPairs(skewtask)
           /\ \A x \in ToSet(tasks) : Joinable(x) => Full(x)
<1> PICK x, f, k : x = skewtask /\ f = Fanout2 /\ k = Skip
  OBVIOUS
<1>1. /\ x \in Standing /\ x \in PlainTasks /\ Full(x)
  BY StandingFacts, SettingFacts DEF Standing, PhaseInv, SkewKnown
<1>2. f \in Nat \ {0} /\ k \in Nat /\ Loads
  BY FanoutFacts, SettingFacts, PhjAssumption DEF ContentInv
<1>3. DOMAIN tasks = 1 .. f
  BY DEF SkewTasks
<1>4. ASSUME NEW i \in 1 .. f
      PROVE  /\ tasks[i] \in PlainTasks
             /\ TaskPairs(tasks[i]) = {m \in TaskPairs(x) : Radix(r[m[1]], f, k) = i - 1}
             /\ Joinable(tasks[i]) => Full(tasks[i])
  <2> PICK y, p : y = SkewTasks(0)[i] /\ p = i - 1
    OBVIOUS
  <2>1. y \in PlainTasks /\ \A X \in Rels : Holds(X, y[X], i - 1, skewtask[X], Fanout2, Skip)
    BY SkewTaskHolds
  <2>2. \A X \in Rels : Holds(X, y[X], p, x[X], f, k)
    BY <2>1
  <2>3. TaskPairs(y) = {m \in TaskPairs(x) : Radix(r[m[1]], f, k) = p}
    BY <1>1, <1>2, <2>1, <2>2, TaskHolds
  <2>4. Joinable(y) => Full(y)
    <3>1. y.R.num \in Int
      BY <2>1, TaskNumbers
    <3> QED BY <2>2, <3>1 DEF Full, Joinable, Holds
  <2> QED BY <2>1, <2>3, <2>4
<1>5. tasks \in Seq(PlainTasks)
  BY <1>2, <1>3, <1>4 DEF SkewTasks
<1>6. \A m \in TaskPairs(x) : Radix(r[m[1]], f, k) \in 0 .. f - 1
  BY <1>1, <1>2, PairRadix, TaskMatches
<1>7. Clean(tasks) /\ PairsIn(ToSet(tasks)) = TaskPairs(x)
  <2>1. Dealt(tasks, TaskPairs(x), f, k)
    BY <1>2, <1>3, <1>4, <1>6 DEF Dealt
  <2> QED BY <2>1, DealtFacts
<1>8. \A y \in ToSet(tasks) : Joinable(y) => Full(y)
  BY <1>3, <1>4 DEF ToSet
<1> QED BY <1>5, <1>7, <1>8

(* Tasks that are added to a queue with other pairs, or with none.        *)
LEMMA PushedPlain ==
    ASSUME NEW queue \in Seq(PlainTasks), NEW tasks \in Seq(PlainTasks), Clean(queue), Clean(tasks),
           PairsIn(ToSet(queue)) \cap PairsIn(ToSet(tasks)) = {}
    PROVE  /\ Clean(Pushed(queue, tasks))
           /\ PairsIn(ToSet(Pushed(queue, tasks))) = PairsIn(ToSet(queue)) \cup PairsIn(ToSet(tasks))
<1>1. Clean(Pushed(queue, tasks))
  BY CleanPushed
<1>2. ToSet(Pushed(queue, tasks)) = ToSet(queue) \cup ToSet(tasks)
  BY PushedFacts
<1>3. PairsIn(ToSet(Pushed(queue, tasks))) = PairsIn(ToSet(queue)) \cup PairsIn(ToSet(tasks))
  BY <1>2 DEF PairsIn
<1> QED BY <1>1, <1>3

(* Tasks that are added to a queue without pairs.                          *)
LEMMA PushedFirst ==
    ASSUME NEW queue \in Seq(PlainTasks), NEW tasks \in Seq(PlainTasks), Clean(queue), Clean(tasks),
           PairsIn(ToSet(queue)) \subseteq {}
    PROVE  Clean(Pushed(queue, tasks)) /\ PairsIn(ToSet(Pushed(queue, tasks))) = PairsIn(ToSet(tasks))
<1>1. PairsIn(ToSet(queue)) \cap PairsIn(ToSet(tasks)) = {}
  OBVIOUS
<1> QED BY <1>1, PushedPlain

(* The first tasks have all pairs, in the queue of the second pass or      *)
(* aside for skew handling.                                                *)
LEMMA PairMake ==
    ASSUME Setting, PairInv, Buildpart(0), MakeTasks(0)
    PROVE  PairInv' /\ UNCHANGED FoundPairs
<1> PICK tasks, A, B, H, g, h, k :
        /\ tasks = FirstTasks(0) /\ H = {g, h, k}
        /\ A = {x \in ToSet(tasks) : Joinable(x) /\ ~Aside(x)}
        /\ B = {x \in ToSet(tasks) : Joinable(x) /\ Aside(x)}
        /\ g = <<"part", 0>> /\ h = <<"skew", 0>> /\ k = <<"all", 0>>
  OBVIOUS
<1>1. /\ pc[0] = "tasks" /\ pc'[0] = "queued" /\ 0 \in Builders /\ part[0] = "first"
      /\ UNCHANGED <<mem, join_queue, skewtask>>
      /\ part_queue' = Pushed(part_queue, Among(tasks, A))
      /\ skew_queue' = Pushed(skew_queue, Among(tasks, B))
  BY QueueFacts, SettingFacts DEF MakeTasks, AddTasks, Parts, Asides, Goto, PhaseInv, Turns
<1>2. part_queue = <<>> /\ skew_queue = <<>> /\ join_queue = <<>> /\ skewtask = NULL
  BY <1>1, SettingFacts DEF RoomInv, Emptied, Early
<1>3. /\ UNCHANGED <<build, r, s, mem, acc>>
      /\ \A j \in Groups \ H : Claims'[j] = Claims[j]
  <2>1. g \in H /\ h \in H /\ k \in H
    OBVIOUS
  <2> QED BY <1>1, <2>1, BuildpartClaims
<1>4. g \in Groups /\ h \in Groups /\ k \in Groups /\ g # h /\ g # k /\ h # k
  BY GroupFacts
<1>5. tasks \in Seq(PlainTasks) /\ Clean(tasks) /\ PairsIn(ToSet(tasks)) = Matches(r, s)
  BY <1>1, FirstTasksPairs
<1>6. A \cap B = {} /\ \A x \in ToSet(tasks) : x \notin A \cup B => TaskPairs(x) = {}
  <2>1. \A x \in ToSet(tasks) : x \in PlainTasks
    BY <1>5 DEF ToSet
  <2> QED BY <2>1, NoPairs
<1> PICK a, b : a = Among(tasks, A) /\ b = Among(tasks, B)
  OBVIOUS
<1>7. /\ Clean(a) /\ Clean(b) /\ PairsIn(ToSet(a)) \cap PairsIn(ToSet(b)) = {}
      /\ PairsIn(ToSet(a)) \cup PairsIn(ToSet(b)) = Matches(r, s)
  BY <1>5, <1>6, AmongPairs
<1>8. a \in Seq(PlainTasks) /\ b \in Seq(PlainTasks)
  BY <1>5, AmongPlain
<1> PICK e : e = part_queue
  OBVIOUS
<1>9. e \in Seq(PlainTasks) /\ Clean(e) /\ PairsIn(ToSet(e)) \subseteq {}
  BY <1>2, PairsInFacts, QueueFacts
<1>10. /\ Clean(Pushed(e, a)) /\ PairsIn(ToSet(Pushed(e, a))) = PairsIn(ToSet(a))
       /\ Clean(Pushed(e, b)) /\ PairsIn(ToSet(Pushed(e, b))) = PairsIn(ToSet(b))
  BY <1>7, <1>8, <1>9, PushedFirst
<1>11. part_queue' = Pushed(e, a) /\ skew_queue' = Pushed(e, b)
  BY <1>1, <1>2
<1>12. Claims[g] = {} /\ Claims[h] = {} /\ Claims[k] = Matches(r, s)
  <2>1. ~Made
    BY <1>1 DEF Made
  <2> QED BY <1>2, <2>1, ClaimsAre, PairsInFacts DEF HeldByAll
<1>13. Claims'[g] = PairsIn(ToSet(a)) /\ Claims'[h] = PairsIn(ToSet(b)) /\ Claims'[k] = {}
  <2>1. Made' /\ ~InSkew'
    BY <1>1, <1>2 DEF Made, InSkew
  <2> QED BY <1>3, <1>10, <1>11, <2>1, NextClaims DEF HeldByAll
<1>14. Clean(part_queue') /\ Clean(skew_queue') /\ Clean(join_queue')
  BY <1>1, <1>10, <1>11 DEF PairInv
<1>15. Moving(Claims, Claims', g, h, k)
  BY <1>3, <1>4, <1>7, <1>12, <1>13 DEF Moving
<1> QED BY <1>3, <1>14, <1>15, MoveAmong

(* What is among the tasks of a set is in the set.                         *)
LEMMA AmongSet ==
    ASSUME NEW tasks \in Seq(PlainTasks), NEW set
    PROVE  \A x \in ToSet(Among(tasks, set)) : x \in set /\ x \in ToSet(tasks)
<1>1. /\ Among(tasks, set) \in Seq(PlainTasks \cap set)
      /\ ToSet(Among(tasks, set)) = ToSet(tasks) \cap set
  BY AmongFacts
<1> QED BY <1>1

(* The tasks made of a skew task have its pairs, if the pieces are no      *)
(* less than the room they are made of.                                    *)
LEMMA PairMakeSkew ==
    ASSUME Setting, PairInv, Buildpart(0), MakeSkewTasks(0)
    PROVE  PairInv' /\ UNCHANGED FoundPairs
<1> PICK tasks, A, B, H, g, h, k :
        /\ tasks = SkewTasks(0) /\ H = {g, h, k}
        /\ A = {x \in ToSet(tasks) : Joinable(x) /\ Large(x)}
        /\ B = {x \in ToSet(tasks) : Joinable(x) /\ ~Large(x)}
        /\ g = <<"part", 0>> /\ h = <<"join", 0>> /\ k = <<"all", 0>>
  OBVIOUS
<1>21. PICK a, b : a = Among(tasks, A) /\ b = Among(tasks, B)
  OBVIOUS
<1>0. PICK flat : flat = FlattenSeq([i \in DOMAIN a |-> Split(a[i])])
  OBVIOUS
<1>1. /\ pc[0] = "skewtasks" /\ pc'[0] = "fetch" /\ 0 \in Builders /\ part[0] = "skew"
      /\ UNCHANGED <<mem, skew_queue, skewtask, part>> /\ skewtask # NULL
      /\ part_queue' = Pushed(part_queue, flat)
      /\ join_queue' = Pushed(join_queue, b)
  BY <1>0, <1>21, QueueFacts, SettingFacts DEF MakeSkewTasks, AddSkewTasks, Goto, PhaseInv, Turns, SkewKnown
<1>2. /\ UNCHANGED <<build, r, s, mem, acc>>
      /\ \A j \in Groups \ H : Claims'[j] = Claims[j]
  <2>1. g \in H /\ h \in H /\ k \in H
    OBVIOUS
  <2> QED BY <1>1, <2>1, BuildpartClaims
<1>3. g \in Groups /\ h \in Groups /\ k \in Groups /\ g # h /\ g # k /\ h # k
  BY GroupFacts
<1>4. /\ tasks \in Seq(PlainTasks) /\ Clean(tasks) /\ PairsIn(ToSet(tasks)) = TaskPairs(skewtask)
      /\ \A x \in ToSet(tasks) : Joinable(x) => Full(x)
  BY <1>1, SkewTasksPairs
<1>5. A \cap B = {} /\ \A x \in ToSet(tasks) : x \notin A \cup B => TaskPairs(x) = {}
  <2>1. \A x \in ToSet(tasks) : x \in PlainTasks
    BY <1>4 DEF ToSet
  <2> QED BY <2>1, NoPairs
<1>6. /\ Clean(a) /\ Clean(b) /\ PairsIn(ToSet(a)) \cap PairsIn(ToSet(b)) = {}
      /\ PairsIn(ToSet(a)) \cup PairsIn(ToSet(b)) = TaskPairs(skewtask)
  BY <1>4, <1>5, <1>21, AmongPairs
<1>7. a \in Seq(PlainTasks) /\ b \in Seq(PlainTasks)
  BY <1>4, <1>21, AmongPlain
<1>8. flat \in Seq(PlainTasks) /\ Clean(flat) /\ PairsIn(ToSet(flat)) = PairsIn(ToSet(a))
  <2>1. \A x \in ToSet(a) : Joinable(x) /\ Full(x)
    <3>1. \A x \in ToSet(a) : x \in A /\ x \in ToSet(tasks)
      BY <1>4, <1>21, AmongSet
    <3> QED BY <1>4, <3>1
  <2> QED BY <1>0, <1>6, <1>7, <2>1, SplitsPairs
<1> PICK p, q : p = part_queue /\ q = join_queue
  OBVIOUS
<1>9. p \in Seq(PlainTasks) /\ q \in Seq(PlainTasks) /\ Clean(p) /\ Clean(q) /\ Clean(skew_queue)
  BY QueueFacts DEF PairInv
<1>10. /\ Claims[g] = PairsIn(ToSet(p)) /\ Claims[h] = PairsIn(ToSet(q))
       /\ Claims[k] = TaskPairs(skewtask)
  <2>1. Made /\ InSkew
    BY <1>1 DEF Made, InSkew
  <2> QED BY <2>1, ClaimsAre DEF HeldByAll
<1>11. Claims[g] \cap Claims[h] = {} /\ Claims[g] \cap Claims[k] = {} /\ Claims[h] \cap Claims[k] = {}
  BY <1>3 DEF PairInv, Unshared
<1>12. /\ PairsIn(ToSet(p)) \cap PairsIn(ToSet(flat)) = {}
       /\ PairsIn(ToSet(q)) \cap PairsIn(ToSet(b)) = {}
  <2> PICK P, Q, S, T : /\ P = PairsIn(ToSet(p)) /\ Q = PairsIn(ToSet(q)) /\ S = PairsIn(ToSet(a))
                        /\ T = PairsIn(ToSet(b))
    OBVIOUS
  <2>1. Claims[g] = P /\ Claims[h] = Q /\ Claims[k] = S \cup T
    BY <1>6, <1>10
  <2>2. P \cap S = {} /\ Q \cap T = {}
    BY <1>11, <2>1
  <2> QED BY <1>8, <2>2
<1>13. /\ Clean(Pushed(p, flat))
       /\ PairsIn(ToSet(Pushed(p, flat))) = PairsIn(ToSet(p)) \cup PairsIn(ToSet(flat))
  BY <1>8, <1>9, <1>12, PushedPlain
<1>14. /\ Clean(Pushed(q, b))
       /\ PairsIn(ToSet(Pushed(q, b))) = PairsIn(ToSet(q)) \cup PairsIn(ToSet(b))
  BY <1>6, <1>7, <1>9, <1>12, PushedPlain
<1>15. part_queue' = Pushed(p, flat) /\ join_queue' = Pushed(q, b)
  BY <1>1
<1>16. Claims'[g] = PairsIn(ToSet(Pushed(p, flat))) /\ Claims'[h] = PairsIn(ToSet(Pushed(q, b)))
  BY <1>2, <1>15, NextClaims
<1>17. Claims'[k] = {}
  <2>1. Made' /\ ~InSkew'
    BY <1>1 DEF Made, InSkew
  <2> QED BY <1>2, <2>1, NextClaims DEF HeldByAll
<1>18. Clean(part_queue') /\ Clean(skew_queue') /\ Clean(join_queue')
  BY <1>1, <1>9, <1>13, <1>14, <1>15
<1>19. /\ Claims'[g] \cap Claims'[h] = {} /\ Claims'[g] \cap Claims'[k] = {}
       /\ Claims'[h] \cap Claims'[k] = {}
       /\ Claims'[g] \cup Claims'[h] \cup Claims'[k] = Claims[g] \cup Claims[h] \cup Claims[k]
  <2> PICK P, Q, S, T : /\ P = PairsIn(ToSet(p)) /\ Q = PairsIn(ToSet(q)) /\ S = PairsIn(ToSet(a))
                        /\ T = PairsIn(ToSet(b))
    OBVIOUS
  <2>1. Claims[g] = P /\ Claims[h] = Q /\ Claims[k] = S \cup T
    BY <1>6, <1>10
  <2>2. Claims'[g] = P \cup S /\ Claims'[h] = Q \cup T
    BY <1>8, <1>13, <1>14, <1>16
  <2>3. S \cap T = {} /\ P \cap Q = {} /\ P \cap (S \cup T) = {} /\ Q \cap (S \cup T) = {}
    BY <1>6, <1>11, <2>1
  <2> QED BY <1>17, <2>1, <2>2, <2>3
<1>20. Moving(Claims, Claims', g, h, k)
  BY <1>2, <1>3, <1>19 DEF Moving
<1> QED BY <1>2, <1>18, <1>20, MoveAmong

(* Pairs that are new add their number and their checksum.                 *)
LEMMA TallyPortion ==
    ASSUME NEW bits \in Nat, NEW Q \in SUBSET (Int \X Int), NEW D \in SUBSET (Int \X Int),
           IsFiniteSet(Q), IsFiniteSet(D), Q \cap D = {}
    PROVE  Tally(bits, Q \cup D) =
             [matched  |-> Tally(bits, Q).matched + Cardinality(D),
              checksum |-> (Tally(bits, Q).checksum + RowidSum(bits, D)) % 2^bits]
<1> DEFINE m == 2^bits
           a == SumFunctionOnSet(PairSums(Q), Q)
           b == SumFunctionOnSet(PairSums(D), D)
           c == Tally(bits, Q).checksum
<1>1. m \in Nat \ {0}
  BY PowerOfTwo
<1>2. a \in Int /\ b \in Int
  BY SumType DEF PairSums, RowId
<1>3. c = a % m /\ RowidSum(bits, D) = b % m
  BY RowidSumIs DEF Tally
<1>4. Tally(bits, Q \cup D) = [matched  |-> Tally(bits, Q).matched + Cardinality(D),
                               checksum |-> (c + b) % m]
  BY TallyAdd
<1> HIDE DEF m, a, b, c
<1>5. c \in Int /\ b % m \in Int
  BY <1>1, <1>2, <1>3, ModFacts
<1>6. (c + (b % m)) % m = (c + b) % m
  <2>1. ((b % m) + c) % m = (b + c) % m
    BY <1>1, <1>2, <1>5, ModAdd
  <2>2. c + (b % m) = (b % m) + c /\ c + b = b + c
    BY <1>2, <1>5
  <2> QED BY <2>1, <2>2
<1> QED BY <1>3, <1>4, <1>6 DEF m, c

(* A portion that thread p takes from what is outstanding.                 *)
LEMMA TakePortion ==
    ASSUME Setting, NEW F, NEW found, found \subseteq Matches(r, s), Portions(F, acc, found),
           NEW p \in Probers, NEW Out, Out \subseteq Matches(r, s), Out \cap found = {},
           DOMAIN acc = Probers, NEW A,
           A = [acc EXCEPT ![p] = [matched  |-> @.matched + Cardinality(Out),
                                   checksum |-> (@.checksum + RowidSum(RowidBits, Out)) % 2^RowidBits]],
           NEW G, G = [F EXCEPT ![p] = @ \cup Out]
    PROVE  Portions(G, A, found \cup Out)
<1>1. /\ F \in [Probers -> SUBSET found] /\ Unshared(F, Probers) /\ Together(F, Probers) = found
      /\ \A q \in Probers : acc[q] = Tally(RowidBits, F[q])
  BY DEF Portions
<1>2. /\ G[p] = F[p] \cup Out /\ \A q \in Probers : q # p => G[q] = F[q]
      /\ DOMAIN G = Probers /\ G = [q \in Probers |-> G[q]]
  BY <1>1
<1>3. \A q \in Probers : F[q] \subseteq found /\ F[q] \cap Out = {}
  BY <1>1
<1>4. G \in [Probers -> SUBSET (found \cup Out)]
  BY <1>2, <1>3
<1>5. Unshared(G, Probers)
  <2> SUFFICES ASSUME NEW g \in Probers, NEW h \in Probers, g # h PROVE G[g] \cap G[h] = {}
    BY DEF Unshared
  <2>1. F[g] \cap F[h] = {}
    BY <1>1 DEF Unshared
  <2> QED BY <1>2, <1>3, <2>1
<1>6. Together(G, Probers) = found \cup Out
  BY <1>1, <1>2 DEF Together
<1>7. \A q \in Probers : A[q] = Tally(RowidBits, G[q])
  <2>1. /\ Out \in SUBSET (Int \X Int) /\ IsFiniteSet(Out)
        /\ F[p] \in SUBSET (Int \X Int) /\ IsFiniteSet(F[p])
    <3>1. DOMAIN r = Rows(NR) /\ DOMAIN s = Rows(NS) /\ NR \in Nat /\ NS \in Nat
      BY SettingFacts, PhjAssumption DEF ContentInv, Loads
    <3>2. \A Q \in SUBSET Matches(r, s) : IsFiniteSet(Q) /\ Q \in SUBSET (Int \X Int)
      BY <3>1, MatchesFinite
    <3> QED BY <1>3, <3>2
  <2>2. RowidBits \in Nat
    BY PhjAssumption
  <2>3. Tally(RowidBits, F[p] \cup Out) =
             [matched  |-> Tally(RowidBits, F[p]).matched + Cardinality(Out),
              checksum |-> (Tally(RowidBits, F[p]).checksum + RowidSum(RowidBits, Out)) % 2^RowidBits]
    BY <1>3, <2>1, <2>2, TallyPortion
  <2>4. A[p] = Tally(RowidBits, G[p])
    BY <1>1, <1>2, <2>3
  <2>5. \A q \in Probers : q # p => A[q] = acc[q]
    OBVIOUS
  <2> QED BY <1>1, <1>2, <2>4, <2>5
<1> QED BY <1>4, <1>5, <1>6, <1>7 DEF Portions

(* A thread that joins its task finds the pairs of the task.               *)
LEMMA PairProbe ==
    ASSUME Setting, PairInv, NEW p \in Probers, ProbeTable(p)
    PROVE  PairInv' /\ FoundPairs \subseteq FoundPairs' /\ FoundPairs' \subseteq Matches(r, s)
<1> PICK x, H, h : x = ptask[p] /\ H = {h} /\ h = <<"prober", p>>
  OBVIOUS
<1> PICK Out : Out = TaskPairs(x)
  OBVIOUS
<1>1. /\ ppc[p] = "probe" /\ ppc'[p] = "pop"
      /\ \A o \in Probers : o # p => ppc'[o] = ppc[o] /\ ptask'[o] = ptask[o]
      /\ UNCHANGED <<build, r, s, mem, part_queue, skew_queue, join_queue, pc, task, next, part,
                     skewtask>>
  BY QueueFacts DEF ProbeTable, inputs, builder, local, queues
<1>2. acc' = [acc EXCEPT ![p] = [matched  |-> @.matched + Cardinality(Out),
                     checksum |-> (@.checksum + RowidSum(RowidBits, Out)) % 2^RowidBits]]
  <2>1. TableRows(p) = RowsAt("R", x.R)
    BY <1>1, SettingFacts DEF ContentInv, ProbeRight
  <2>2. PairsOf(TableRows(p), ptask[p].S) = Out
    BY <2>1 DEF TaskPairs
  <2> QED BY <2>2 DEF ProbeTable
<1>3. \A k \in Groups \ H : Claims'[k] = Claims[k]
  <2>1. h \in H
    OBVIOUS
  <2>2. (Made' <=> Made) /\ (InSkew' <=> InSkew)
    BY <1>1 DEF Made, InSkew
  <2> QED BY <1>1, <2>1, <2>2, OtherClaims
<1>4. h \in Groups
  BY GroupFacts
<1>5. Claims[h] = Out /\ Claims'[h] = {}
  BY <1>1, ClaimsAre, NextClaims DEF JoinedBy
<1>6. Unshared(Claims, Groups) /\ Together(Claims, Groups) \subseteq Matches(r, s)
  BY DEF PairInv
<1>7. Out \subseteq Together(Claims, Groups)
  BY <1>4, <1>5 DEF Together
<1>8. Shifting(Claims, Claims', Groups, H, Out)
  <2>1. Unshared(Claims', H) /\ H \subseteq Groups
    BY <1>4 DEF Unshared
  <2>2. Together(Claims', H) = {} /\ Together(Claims, H) = Out
    BY <1>5 DEF Together
  <2> QED BY <1>3, <1>6, <2>1, <2>2 DEF Shifting
<1>9. Unshared(Claims', Groups) /\ Together(Claims', Groups) = Together(Claims, Groups) \ Out
  BY <1>8, ShiftClaims
<1>10. FoundPairs' = FoundPairs \cup Out
  <2>1. FoundPairs' = Matches(r, s) \ Together(Claims', Groups)
    BY <1>1 DEF FoundPairs, Groups, Builders, Probers, Together
  <2> QED BY <1>6, <1>7, <1>9, <2>1 DEF FoundPairs
<1>11. PICK F : Portions(F, acc, FoundPairs)
  BY DEF PairInv
<1> PICK G : G = [F EXCEPT ![p] = @ \cup Out]
  OBVIOUS
<1>12. Portions(G, acc', FoundPairs \cup Out)
  <2>1. FoundPairs \subseteq Matches(r, s) /\ Out \subseteq Matches(r, s) /\ Out \cap FoundPairs = {}
    BY <1>6, <1>7 DEF FoundPairs
  <2>2. DOMAIN acc = Probers
    BY DEF PairInv
  <2> QED BY <1>2, <1>11, <2>1, <2>2, TakePortion
<1>13. \E K : Portions(K, acc, FoundPairs)'
  <2>1. Portions(G, acc, FoundPairs)'
    BY <1>10, <1>12 DEF Portions, Probers, Together, Unshared
  <2> QED BY <2>1
<1>14. Together(Claims, Groups)' \subseteq Matches(r, s)' /\ Unshared(Claims, Groups)'
  <2>1. Together(Claims', Groups) \subseteq Matches(r, s)
    BY <1>6, <1>9
  <2> QED BY <1>1, <1>9, <2>1 DEF Together, Unshared, Groups, Builders, Probers, Matches
<1>15. (Clean(part_queue) /\ Clean(skew_queue) /\ Clean(join_queue))' /\ DOMAIN acc' = Probers
  BY <1>1, <1>2, SamePairs DEF PairInv
<1>16. PairInv'
  BY <1>13, <1>14, <1>15 DEF PairInv, Probers
<1>17. FoundPairs \cup Out \subseteq Matches(r, s)
  BY <1>6, <1>7 DEF FoundPairs
<1> QED BY <1>10, <1>16, <1>17

(* Nothing is found at first.                                              *)
LEMMA PairInit ==
    ASSUME Init, Setting PROVE PairInv
<1> PICK a, M : a = <<"all", 0>> /\ M = Matches(r, s)
  OBVIOUS
<1>1. /\ part_queue = <<>> /\ skew_queue = <<>> /\ join_queue = <<>> /\ skewtask = NULL
      /\ \A t \in Builders : pc[t] = "memset" /\ part[t] = "first"
      /\ \A p \in Probers : ppc[p] = "idle" /\ acc[p] = [matched |-> 0, checksum |-> 0]
      /\ DOMAIN acc = Probers /\ 0 \in Builders
  BY SettingFacts DEF Init, Load, LoadInto, Pool
<1>2. Clean(part_queue) /\ Clean(skew_queue) /\ Clean(join_queue)
  BY <1>1, PairsInFacts
<1>3. Claims[a] = M
  <2>1. ~Made
    BY <1>1 DEF Made
  <2> QED BY <2>1, ClaimsAre DEF HeldByAll
<1>4. \A g \in Groups : g # a => Claims[g] = {}
  <2>1. /\ Claims[<<"part", 0>>] = {} /\ Claims[<<"skew", 0>>] = {} /\ Claims[<<"join", 0>>] = {}
    BY <1>1, ClaimsAre, PairsInFacts
  <2>2. \A t \in Builders : Claims[<<"builder", t>>] = {}
    BY <1>1, ClaimsAre DEF RestOf
  <2>3. \A p \in Probers : Claims[<<"prober", p>>] = {}
    BY <1>1, ClaimsAre DEF JoinedBy
  <2> QED BY <2>1, <2>2, <2>3, GroupFacts
<1>5. Unshared(Claims, Groups) /\ Together(Claims, Groups) = M
  <2>1. a \in Groups
    BY GroupFacts
  <2> QED BY <1>3, <1>4, <2>1 DEF Unshared, Together
<1>6. FoundPairs = {}
  BY <1>5 DEF FoundPairs
<1>7. Portions([p \in Probers |-> {}], acc, {})
  <2> PICK F : F = [p \in Probers |-> {}]
    OBVIOUS
  <2>1. Tally(RowidBits, {}) = [matched |-> 0, checksum |-> 0]
    BY PhjAssumption, TallyEmpty
  <2>2. F \in [Probers -> SUBSET {}] /\ Unshared(F, Probers) /\ Together(F, Probers) = {}
    BY DEF Unshared, Together
  <2>3. \A p \in Probers : acc[p] = Tally(RowidBits, F[p])
    BY <1>1, <2>1
  <2> QED BY <2>2, <2>3 DEF Portions
<1>8. \E F : Portions(F, acc, FoundPairs)
  BY <1>6, <1>7
<1>9. Together(Claims, Groups) \subseteq Matches(r, s)
  BY <1>5
<1> QED BY <1>1, <1>2, <1>5, <1>8, <1>9 DEF PairInv

(* No step loses a pair or makes two of it, and none is forgotten.         *)
LEMMA PairNext ==
    ASSUME Setting, PairInv, [Next]_vars
    PROVE  PairInv' /\ FoundPairs \subseteq FoundPairs' /\ FoundPairs' \subseteq Matches(r, s)
<1>0. FoundPairs \subseteq Matches(r, s)
  BY DEF FoundPairs
<1>1. ASSUME NEW t \in Builders, Buildpart(t) PROVE PairInv' /\ UNCHANGED FoundPairs
  <2>1. CASE Still(t)
    BY <1>1, <2>1, PairStill
  <2>2. CASE t = 0 /\ MakeTasks(0)
    BY <1>1, <2>2, PairMake
  <2>3. CASE PopPart(t) /\ part_queue # <<>>
    BY <1>1, <2>3, PairPop
  <2>4. CASE Emit(t)
    BY <1>1, <2>4, PairEmit
  <2>5. CASE t = 0 /\ FetchSkew(0)
    BY <1>1, <2>5, PairFetch
  <2>6. CASE t = 0 /\ MakeSkewTasks(0)
    BY <1>1, <2>6, PairMakeSkew
  <2>7. CASE t = 0 /\ DrainParts(0)
    BY <1>1, <2>7, PairDrain
  <2> QED BY <1>1, <2>1, <2>2, <2>3, <2>4, <2>5, <2>6, <2>7, BuildpartCases DEF Still
<1>2. ASSUME NEW p \in Probers, ProbeTable(p)
      PROVE  PairInv' /\ FoundPairs \subseteq FoundPairs' /\ FoundPairs' \subseteq Matches(r, s)
  BY <1>2, PairProbe
<1>3. ASSUME NEW p \in Probers, Wipe(p) \/ PopJoin(p) \/ BuildTable(p) \/ Reorder(p)
      PROVE  PairInv' /\ UNCHANGED FoundPairs
  <2>1. CASE PopJoin(p) /\ join_queue # <<>>
    BY <2>1, PairPopJoin
  <2>2. CASE Wipe(p) \/ BuildTable(p) \/ Reorder(p) \/ (PopJoin(p) /\ join_queue = <<>>)
    BY <2>2, PairIdle
  <2> QED BY <1>3, <2>1, <2>2
<1>4. ASSUME Main PROVE PairInv' /\ UNCHANGED FoundPairs
  BY <1>4, PairRelease, PairSpawn, PairIdle DEF Main
<1>5. ASSUME Terminated \/ UNCHANGED vars PROVE PairInv' /\ UNCHANGED FoundPairs
  BY <1>5, PairIdle
<1> QED BY <1>0, <1>1, <1>2, <1>3, <1>4, <1>5 DEF Next, Probejoin

(* Each matching pair is in one task or counted, always.                   *)
THEOREM PairInvariant ==
    ASSUME Symmetric, TwoArrays PROVE Spec => [](Setting /\ PairInv)
<1>1. Init /\ Setting => PairInv
  BY PairInit
<1>2. Setting /\ PairInv /\ [Next]_vars => PairInv'
  BY PairNext
<1>3. Spec => []Setting
  BY ContentsInvariant
<1> QED BY <1>1, <1>2, <1>3, PTL DEF Spec

(***************************************************************************)
(* PairsConserved, and the abstract join.                                  *)
(***************************************************************************)

(* The kinds of places where tasks are.                                    *)
LEMMA HoldingIs ==
    /\ \A i \in DOMAIN part_queue : <<"part", i>> \in Holding
    /\ \A i \in DOMAIN skew_queue : <<"skew", i>> \in Holding
    /\ \A i \in DOMAIN join_queue : <<"join", i>> \in Holding
    /\ \A t \in Builders : pc[t] \in {"cluster", "emit"} => <<"builder", t>> \in Holding
    /\ \A p \in Probers : Joining(p) => <<"prober", p>> \in Holding
    /\ InSkew => <<"all", 0>> \in Holding
    /\ \A h \in Holding :
           \/ \E i \in DOMAIN part_queue : h = <<"part", i>>
           \/ \E i \in DOMAIN skew_queue : h = <<"skew", i>>
           \/ \E i \in DOMAIN join_queue : h = <<"join", i>>
           \/ \E t \in Builders : h = <<"builder", t>> /\ pc[t] \in {"cluster", "emit"}
           \/ \E p \in Probers : h = <<"prober", p>> /\ Joining(p)
           \/ h = <<"all", 0>> /\ InSkew
<1>1. \A k, S, i : i \in S => <<k, i>> \in {k} \X S
  OBVIOUS
<1>2. \A k, S : \A h \in {k} \X S : \E i \in S : h = <<k, i>>
  OBVIOUS
<1> QED BY <1>1, <1>2 DEF Holding

(* ... and the pairs they have.                                            *)
LEMMA OutstandingIs ==
    /\ DOMAIN Outstanding = Holding
    /\ \A i \in DOMAIN part_queue : Outstanding[<<"part", i>>] = TaskPairs(part_queue[i])
    /\ \A i \in DOMAIN skew_queue : Outstanding[<<"skew", i>>] = TaskPairs(skew_queue[i])
    /\ \A i \in DOMAIN join_queue : Outstanding[<<"join", i>>] = TaskPairs(join_queue[i])
    /\ \A t \in Builders : pc[t] \in {"cluster", "emit"} =>
           Outstanding[<<"builder", t>>] = RestOf(pc[t], task[t], next[t])
    /\ \A p \in Probers : Joining(p) => Outstanding[<<"prober", p>>] = JoinedBy(ppc[p], ptask[p])
    /\ InSkew => Outstanding[<<"all", 0>>] = TaskPairs(skewtask)
<1>1. \A h \in Holding :
          /\ h[1] = "part" => Outstanding[h] = TaskPairs(part_queue[h[2]])
          /\ h[1] = "skew" => Outstanding[h] = TaskPairs(skew_queue[h[2]])
          /\ h[1] = "join" => Outstanding[h] = TaskPairs(join_queue[h[2]])
          /\ h[1] = "builder" => Outstanding[h] = Rest(h[2])
          /\ h[1] = "prober" => Outstanding[h] = TaskPairs(ptask[h[2]])
          /\ h[1] = "all" => Outstanding[h] = TaskPairs(skewtask)
  BY DEF Outstanding
<1>2. \A t \in Builders : pc[t] \in {"cluster", "emit"} => Rest(t) = RestOf(pc[t], task[t], next[t])
  BY DEF Rest, RestOf
<1>3. \A p \in Probers : Joining(p) => TaskPairs(ptask[p]) = JoinedBy(ppc[p], ptask[p])
  BY DEF Joining, JoinedBy
<1>4. DOMAIN Outstanding = Holding
  BY DEF Outstanding
<1>5. \A k, i : <<k, i>>[1] = k /\ <<k, i>>[2] = i
  OBVIOUS
<1>6. /\ \A i \in DOMAIN part_queue : Outstanding[<<"part", i>>] = TaskPairs(part_queue[i])
      /\ \A i \in DOMAIN skew_queue : Outstanding[<<"skew", i>>] = TaskPairs(skew_queue[i])
      /\ \A i \in DOMAIN join_queue : Outstanding[<<"join", i>>] = TaskPairs(join_queue[i])
  BY <1>1, <1>5, HoldingIs
<1>7. \A t \in Builders : pc[t] \in {"cluster", "emit"} =>
          Outstanding[<<"builder", t>>] = RestOf(pc[t], task[t], next[t])
  BY <1>1, <1>2, <1>5, HoldingIs
<1>8. \A p \in Probers : Joining(p) => Outstanding[<<"prober", p>>] = JoinedBy(ppc[p], ptask[p])
  BY <1>1, <1>3, <1>5, HoldingIs
<1>9. InSkew => Outstanding[<<"all", 0>>] = TaskPairs(skewtask)
  BY <1>1, <1>5, HoldingIs
<1> QED BY <1>4, <1>6, <1>7, <1>8, <1>9

(* The group of a place where a task is.                                   *)
GroupOf(h) == IF h[1] \in {"part", "skew", "join"} THEN <<h[1], 0>> ELSE h

(* The pairs of a place are among those of its group; no two places have   *)
(* pairs in common.                                                        *)
LEMMA HeldPairs ==
    ASSUME Setting, PairInv, Made
    PROVE  /\ \A h \in Holding : GroupOf(h) \in Groups /\ Outstanding[h] \subseteq Claims[GroupOf(h)]
           /\ \A g \in Groups : \A m \in Claims[g] : \E h \in Holding : m \in Outstanding[h]
           /\ \A h, k \in Holding : h # k => Outstanding[h] \cap Outstanding[k] = {}
<1> PICK a, b, c : a = part_queue /\ b = skew_queue /\ c = join_queue
  OBVIOUS
<1>1. /\ \A i : GroupOf(<<"part", i>>) = <<"part", 0>>
      /\ \A i : GroupOf(<<"skew", i>>) = <<"skew", 0>>
      /\ \A i : GroupOf(<<"join", i>>) = <<"join", 0>>
      /\ \A i : GroupOf(<<"builder", i>>) = <<"builder", i>>
      /\ \A i : GroupOf(<<"prober", i>>) = <<"prober", i>>
      /\ GroupOf(<<"all", 0>>) = <<"all", 0>>
  BY DEF GroupOf
<1>2. \A q : \A i \in DOMAIN q : TaskPairs(q[i]) \subseteq PairsIn(ToSet(q))
  BY DEF PairsIn, ToSet
<1>3. \A q : \A m \in PairsIn(ToSet(q)) : \E i \in DOMAIN q : m \in TaskPairs(q[i])
  BY DEF PairsIn, ToSet
<1>4. ASSUME NEW h \in Holding
      PROVE  GroupOf(h) \in Groups /\ Outstanding[h] \subseteq Claims[GroupOf(h)]
  <2>1. CASE \E i \in DOMAIN a : h = <<"part", i>>
    BY <1>1, <1>2, <2>1, OutstandingIs, ClaimsAre, GroupFacts
  <2>2. CASE \E i \in DOMAIN b : h = <<"skew", i>>
    BY <1>1, <1>2, <2>2, OutstandingIs, ClaimsAre, GroupFacts
  <2>3. CASE \E i \in DOMAIN c : h = <<"join", i>>
    BY <1>1, <1>2, <2>3, OutstandingIs, ClaimsAre, GroupFacts
  <2>4. CASE \E t \in Builders : h = <<"builder", t>> /\ pc[t] \in {"cluster", "emit"}
    BY <1>1, <2>4, OutstandingIs, ClaimsAre, GroupFacts
  <2>5. CASE \E p \in Probers : h = <<"prober", p>> /\ Joining(p)
    BY <1>1, <2>5, OutstandingIs, ClaimsAre, GroupFacts
  <2>6. CASE h = <<"all", 0>> /\ InSkew
    BY <1>1, <2>6, OutstandingIs, ClaimsAre, GroupFacts DEF HeldByAll
  <2> QED BY <2>1, <2>2, <2>3, <2>4, <2>5, <2>6, HoldingIs
<1>5. ASSUME NEW g \in Groups, NEW m \in Claims[g]
      PROVE  \E h \in Holding : m \in Outstanding[h]
  <2>1. CASE g = <<"part", 0>>
    <3>1. PICK i \in DOMAIN a : m \in TaskPairs(a[i])
      BY <1>3, <1>5, <2>1, ClaimsAre
    <3> QED BY <3>1, HoldingIs, OutstandingIs
  <2>2. CASE g = <<"skew", 0>>
    <3>1. PICK i \in DOMAIN b : m \in TaskPairs(b[i])
      BY <1>3, <1>5, <2>2, ClaimsAre
    <3> QED BY <3>1, HoldingIs, OutstandingIs
  <2>3. CASE g = <<"join", 0>>
    <3>1. PICK i \in DOMAIN c : m \in TaskPairs(c[i])
      BY <1>3, <1>5, <2>3, ClaimsAre
    <3> QED BY <3>1, HoldingIs, OutstandingIs
  <2>4. CASE g = <<"all", 0>>
    <3>1. InSkew /\ m \in TaskPairs(skewtask)
      BY <1>5, <2>4, ClaimsAre DEF HeldByAll
    <3> QED BY <3>1, HoldingIs, OutstandingIs
  <2>5. ASSUME NEW t \in Builders, g = <<"builder", t>> PROVE \E h \in Holding : m \in Outstanding[h]
    <3>1. m \in RestOf(pc[t], task[t], next[t]) /\ pc[t] \in {"cluster", "emit"}
      BY <1>5, <2>5, ClaimsAre DEF RestOf
    <3> QED BY <3>1, HoldingIs, OutstandingIs
  <2>6. ASSUME NEW p \in Probers, g = <<"prober", p>> PROVE \E h \in Holding : m \in Outstanding[h]
    <3>1. m \in JoinedBy(ppc[p], ptask[p]) /\ Joining(p)
      BY <1>5, <2>6, ClaimsAre DEF JoinedBy, Joining
    <3> QED BY <3>1, HoldingIs, OutstandingIs
  <2> QED BY <2>1, <2>2, <2>3, <2>4, <2>5, <2>6, GroupFacts
<1>6. ASSUME NEW h \in Holding, NEW k \in Holding, h # k
      PROVE  Outstanding[h] \cap Outstanding[k] = {}
  <2>1. CASE GroupOf(h) # GroupOf(k)
    <3>1. Claims[GroupOf(h)] \cap Claims[GroupOf(k)] = {}
      BY <1>4, <2>1 DEF PairInv, Unshared
    <3> QED BY <1>4, <3>1
  <2>2. CASE GroupOf(h) = GroupOf(k)
    <3>1. \/ \E i, j \in DOMAIN a : i # j /\ h = <<"part", i>> /\ k = <<"part", j>>
          \/ \E i, j \in DOMAIN b : i # j /\ h = <<"skew", i>> /\ k = <<"skew", j>>
          \/ \E i, j \in DOMAIN c : i # j /\ h = <<"join", i>> /\ k = <<"join", j>>
      <4>1. h[1] = k[1] /\ (h = <<"all", 0>> \/ h[1] \in {"part", "skew", "join", "builder", "prober"})
        BY <1>1, <2>2, HoldingIs DEF GroupOf
      <4>2. h[1] \in {"part", "skew", "join"}
        BY <1>6, <2>2 , <4>1, HoldingIs DEF GroupOf
      <4> QED BY <1>6, <4>1, <4>2, HoldingIs
    <3>2. Clean(a) /\ Clean(b) /\ Clean(c)
      BY DEF PairInv
    <3>3. CASE \E i, j \in DOMAIN a : i # j /\ h = <<"part", i>> /\ k = <<"part", j>>
      BY <3>2, <3>3, OutstandingIs DEF Clean
    <3>4. CASE \E i, j \in DOMAIN b : i # j /\ h = <<"skew", i>> /\ k = <<"skew", j>>
      BY <3>2, <3>4, OutstandingIs DEF Clean
    <3>5. CASE \E i, j \in DOMAIN c : i # j /\ h = <<"join", i>> /\ k = <<"join", j>>
      BY <3>2, <3>5, OutstandingIs DEF Clean
    <3> QED BY <3>1, <3>3, <3>4, <3>5
  <2> QED BY <2>1, <2>2
<1> QED BY <1>4, <1>5, <1>6

(* All that is outstanding is what the groups claim.                       *)
LEMMA HeldTogether ==
    ASSUME Setting, PairInv, Made
    PROVE  UNION Range(Outstanding) = Together(Claims, Groups)
<1>1. UNION Range(Outstanding) = Together(Outstanding, Holding)
  BY OutstandingIs DEF Range, Together
<1>2. /\ \A h \in Holding : GroupOf(h) \in Groups /\ Outstanding[h] \subseteq Claims[GroupOf(h)]
      /\ \A g \in Groups : \A m \in Claims[g] : \E h \in Holding : m \in Outstanding[h]
  BY HeldPairs
<1>3. Together(Outstanding, Holding) = Together(Claims, Groups)
  BY <1>2 DEF Together
<1> QED BY <1>1, <1>3

(* There are finitely many places where tasks are.                         *)
LEMMA HoldingFinite ==
    ASSUME Setting PROVE IsFiniteSet(Holding)
<1>1. \A k, S : IsFiniteSet(S) => IsFiniteSet({k} \X S)
  BY FS_Product, FS_Singleton
<1>2. \A queue \in Seq(PlainTasks) : IsFiniteSet(DOMAIN queue)
  <2> TAKE queue \in Seq(PlainTasks)
  <2> PICK n : n = Len(queue)
    OBVIOUS
  <2>1. DOMAIN queue = 1 .. n /\ n \in Int /\ 1 \in Int
    OBVIOUS
  <2> QED BY <2>1, FS_Interval
<1>3. IsFiniteSet(Builders) /\ IsFiniteSet(Probers)
  <2> PICK m, n : m = BuildNum - 1 /\ n = ProbeNum - 1
    OBVIOUS
  <2>1. m \in Int /\ n \in Int /\ 0 \in Int /\ Builders = 0 .. m /\ Probers = 0 .. n
    BY PhjAssumption DEF Builders, Probers
  <2> QED BY <2>1, FS_Interval
<1>4. /\ IsFiniteSet({t \in Builders : pc[t] \in {"cluster", "emit"}})
      /\ IsFiniteSet({p \in Probers : Joining(p)})
  BY <1>3, FS_Subset
<1>5. IsFiniteSet(IF InSkew THEN {<<"all", 0>>} ELSE {})
  BY FS_Singleton, FS_EmptySet
<1>6. /\ IsFiniteSet({"part"} \X DOMAIN part_queue) /\ IsFiniteSet({"skew"} \X DOMAIN skew_queue)
      /\ IsFiniteSet({"join"} \X DOMAIN join_queue)
  BY <1>1, <1>2, QueueFacts
<1>7. /\ IsFiniteSet({"builder"} \X {t \in Builders : pc[t] \in {"cluster", "emit"}})
      /\ IsFiniteSet({"prober"} \X {p \in Probers : Joining(p)})
  BY <1>1, <1>4
<1>8. \A S, T : IsFiniteSet(S) /\ IsFiniteSet(T) => IsFiniteSet(S \cup T)
  BY FS_Union
<1> QED BY <1>5, <1>6, <1>7, <1>8 DEF Holding

(* A subset and the rest of a finite set.                                  *)
LEMMA CardinalityApart ==
    ASSUME NEW M, IsFiniteSet(M), NEW T, T \subseteq M
    PROVE  Cardinality(T) + Cardinality(M \ T) = Cardinality(M)
<1>1. M \cap T = T /\ IsFiniteSet(T)
  BY FS_Subset
<1>2. Cardinality(M \ T) = Cardinality(M) - Cardinality(M \cap T)
  BY FS_Difference
<1>3. Cardinality(M \cap T) = Cardinality(T)
  BY <1>1
<1>4. Cardinality(T) \in Nat /\ Cardinality(M) \in Nat
  BY <1>1, FS_CardinalityType
<1> QED BY <1>2, <1>3, <1>4

(* The pairs still to be joined are in one place each, and those that are  *)
(* counted are the others.                                                 *)
LEMMA PairsCounted ==
    ASSUME Setting, PairInv PROVE PairsConserved
<1> SUFFICES ASSUME Made
             PROVE  LET sum == SumFunction([h \in Holding |-> Cardinality(Outstanding[h])])
                    IN  /\ sum = Cardinality(UNION Range(Outstanding))
                        /\ sum + SumFunction([p \in Probers |-> acc[p].matched])
                               = Cardinality(Matches(r, s))
  BY DEF PairsConserved
<1> PICK M, T, size1, seen :
        /\ M = Matches(r, s) /\ T = Together(Claims, Groups)
        /\ size1 = [h \in Holding |-> Cardinality(Outstanding[h])]
        /\ seen = [p \in Probers |-> acc[p].matched]
  OBVIOUS
<1>1. IsFiniteSet(M) /\ T \subseteq M /\ IsFiniteSet(T) /\ FoundPairs = M \ T /\ IsFiniteSet(M \ T)
  <2>1. DOMAIN r = Rows(NR) /\ DOMAIN s = Rows(NS) /\ NR \in Nat /\ NS \in Nat
    BY SettingFacts, PhjAssumption DEF ContentInv, Loads
  <2>2. IsFiniteSet(M)
    BY <2>1, MatchesFinite
  <2>3. T \subseteq M /\ M \ T \subseteq M /\ FoundPairs = M \ T
    BY DEF PairInv, FoundPairs
  <2> QED BY <2>2, <2>3, FS_Subset
<1>2. UNION Range(Outstanding) = T /\ Together(Outstanding, Holding) = T
  <2>1. UNION Range(Outstanding) = Together(Outstanding, Holding)
    BY OutstandingIs DEF Range, Together
  <2> QED BY <2>1, HeldTogether
<1>3. SumFunction(size1) = Cardinality(T)
  <2>1. IsFiniteSet(Holding) /\ \A h, k \in Holding : h # k => Outstanding[h] \cap Outstanding[k] = {}
    BY HoldingFinite, HeldPairs
  <2>2. \A h \in Holding : IsFiniteSet(Outstanding[h]) /\ size1[h] = Cardinality(Outstanding[h])
    <3>1. \A h \in Holding : Outstanding[h] \subseteq T
      BY <1>2 DEF Together
    <3> QED BY <1>1, <3>1, FS_Subset
  <2> PICK part1, P, f : part1 = Outstanding /\ P = Holding /\ f = size1
    OBVIOUS
  <2>3. SumFunctionOnSet(f, P) = Cardinality(Together(part1, P))
    BY <2>1, <2>2, CardinalitySum
  <2>4. SumFunction(f) = SumFunctionOnSet(f, P)
    BY DEF SumFunction
  <2> QED BY <1>2, <2>3, <2>4
<1>4. SumFunction(seen) = Cardinality(M \ T)
  <2>1. PICK F : Portions(F, acc, FoundPairs)
    BY DEF PairInv
  <2>2. /\ \A p \in Probers : F[p] \subseteq M \ T
        /\ \A p, q \in Probers : p # q => F[p] \cap F[q] = {}
        /\ Together(F, Probers) = M \ T /\ \A p \in Probers : acc[p] = Tally(RowidBits, F[p])
    BY <1>1, <2>1 DEF Portions, Unshared
  <2>3. \A p \in Probers : IsFiniteSet(F[p]) /\ seen[p] = Cardinality(F[p])
    <3> TAKE p \in Probers
    <3>1. IsFiniteSet(F[p])
      BY <1>1, <2>2, FS_Subset
    <3>2. Tally(RowidBits, F[p]).matched = Cardinality(F[p])
      BY DEF Tally
    <3>3. acc[p].matched = Cardinality(F[p])
      BY <2>2, <3>2
    <3> QED BY <3>1, <3>3
  <2> PICK P, f : P = Probers /\ f = seen
    OBVIOUS
  <2>4. IsFiniteSet(P)
    <3>1. BuildNum - 1 \in Int /\ ProbeNum - 1 \in Int /\ 0 \in Int
      BY PhjAssumption
    <3> QED BY <3>1, FS_Interval DEF Probers
  <2>5. SumFunctionOnSet(f, P) = Cardinality(Together(F, P))
    BY <2>2, <2>3, <2>4, CardinalitySum
  <2>6. SumFunction(f) = SumFunctionOnSet(f, P)
    BY DEF SumFunction
  <2> QED BY <2>2, <2>5, <2>6
<1>5. Cardinality(T) + Cardinality(M \ T) = Cardinality(M)
  BY <1>1, CardinalityApart
<1> QED BY <1>2, <1>3, <1>4, <1>5

(* No pass loses a pair of matching tuples or leaves it in two tasks, and  *)
(* each is counted once.                                                   *)
THEOREM PairsAreConserved ==
    ASSUME Symmetric, TwoArrays PROVE Spec => []PairsConserved
<1>1. Setting /\ PairInv => PairsConserved
  BY PairsCounted
<1>2. Spec => [](Setting /\ PairInv)
  BY PairInvariant
<1> QED BY <1>1, <1>2, PTL

(* What the abstract join takes for found.                                 *)
Joined == IF Made THEN Matches(r, s) \ UNION Range(Outstanding) ELSE {}

(* These are the pairs that are in no group.                               *)
LEMMA JoinedIs ==
    ASSUME Setting, PairInv PROVE Joined = FoundPairs
<1>1. CASE Made
  BY <1>1, HeldTogether DEF Joined, FoundPairs
<1>2. CASE ~Made
  <2>1. Claims[<<"all", 0>>] = Matches(r, s) /\ <<"all", 0>> \in Groups
    BY <1>2, ClaimsAre, GroupFacts DEF HeldByAll
  <2>2. Matches(r, s) \subseteq Together(Claims, Groups)
    BY <2>1 DEF Together
  <2> QED BY <1>2, <2>2 DEF Joined, FoundPairs
<1> QED BY <1>1, <1>2

(* When all probe threads are through, nothing is left to join.            *)
LEMMA AllJoined ==
    ASSUME Setting, PairInv, \A p \in Probers : ppc[p] = "exit"
    PROVE  FoundPairs = Matches(r, s)
<1>1. 0 \in Probers /\ ~Unspawned /\ 0 \in Builders
  BY SettingFacts, PhjAssumption DEF Unspawned, Probers
<1>2. /\ \A t \in Builders : pc[t] = "exit"
      /\ part_queue = <<>> /\ skew_queue = <<>> /\ skewtask = NULL
  BY <1>1, OnlyJoins
<1>3. join_queue = <<>>
  BY <1>1, SettingFacts DEF ContentInv, Finished
<1>4. Made /\ ~InSkew
  BY <1>1, <1>2 DEF Made, InSkew
<1>5. /\ Claims[<<"part", 0>>] = {} /\ Claims[<<"skew", 0>>] = {} /\ Claims[<<"join", 0>>] = {}
  BY <1>2, <1>3, ClaimsAre, PairsInFacts
<1>6. Claims[<<"all", 0>>] = {}
  BY <1>4, ClaimsAre DEF HeldByAll
<1>7. \A t \in Builders : Claims[<<"builder", t>>] = {}
  BY <1>2, ClaimsAre DEF RestOf
<1>8. \A p \in Probers : Claims[<<"prober", p>>] = {}
  BY ClaimsAre DEF JoinedBy
<1>9. \A g \in Groups : Claims[g] = {}
  BY <1>5, <1>6, <1>7, <1>8, GroupFacts
<1> QED BY <1>9 DEF FoundPairs, Together

(* So what is printed is the answer of the join.                           *)
LEMMA CollectAnswers ==
    ASSUME Setting, PairInv, Collect
    PROVE  /\ FoundPairs = Matches(r, s) /\ result = NULL
           /\ result' = JoinAnswer(RowidBits, r, s)
<1>1. /\ result = NULL /\ \A p \in Probers : ppc[p] = "exit"
      /\ result' = [matched  |-> SumFunction([p \in Probers |-> acc[p].matched]),
                    checksum |-> SumFunction([p \in Probers |-> acc[p].checksum]) % 2^RowidBits]
  BY DEF Collect
<1>2. FoundPairs = Matches(r, s)
  BY <1>1, AllJoined
<1>3. PICK F : Portions(F, acc, FoundPairs)
  BY DEF PairInv
<1>4. /\ \A p \in Probers : F[p] \subseteq Matches(r, s)
      /\ \A p, q \in Probers : p # q => F[p] \cap F[q] = {}
      /\ Together(F, Probers) = Matches(r, s)
      /\ \A p \in Probers : acc[p] = Tally(RowidBits, F[p])
  BY <1>2, <1>3 DEF Portions, Unshared
<1>5. \A p \in Probers : F[p] \in SUBSET (Int \X Int) /\ IsFiniteSet(F[p])
  <2>1. DOMAIN r = Rows(NR) /\ DOMAIN s = Rows(NS) /\ NR \in Nat /\ NS \in Nat
    BY SettingFacts, PhjAssumption DEF ContentInv, Loads
  <2> QED BY <1>4, <2>1, MatchesFinite
<1>6. IsFiniteSet(Probers) /\ RowidBits \in Nat
  <2>1. ProbeNum - 1 \in Int /\ 0 \in Int /\ RowidBits \in Nat
    BY PhjAssumption
  <2> QED BY <2>1, FS_Interval DEF Probers
<1>7. [matched  |-> SumFunction([p \in Probers |-> acc[p].matched]),
       checksum |-> SumFunction([p \in Probers |-> acc[p].checksum]) % 2^RowidBits]
          = Tally(RowidBits, Together(F, Probers))
  BY <1>4, <1>5, <1>6, TallyCollect, Zenon
<1> QED BY <1>1, <1>2, <1>4, <1>7, AnswerIsTally

(* The abstract join and the pipeline mean the same by an answer.          *)
LEMMA SameAnswer ==
    /\ Promise!JoinAnswer(RowidBits, r, s) = JoinAnswer(RowidBits, r, s)
    /\ Promise!Matches(r, s) = Matches(r, s)
<1>1. \A S : Promise!Cardinality(S) = Cardinality(S)
  BY DEF Promise!Cardinality, Cardinality
<1>2. \A f : Promise!SumFunction(f) = SumFunction(f)
  BY DEF Promise!SumFunction, SumFunction, Promise!SumFunctionOnSet, SumFunctionOnSet,
         Promise!FoldFunctionOnSet, FoldFunctionOnSet, Promise!MapThenFoldSet, MapThenFoldSet
<1> QED
  BY <1>1, <1>2 DEF Promise!JoinAnswer, JoinAnswer, Promise!Matches, Matches,
                    Promise!RowidSum, RowidSum, Promise!RowId, RowId

(* Every step of the pipeline finds pairs, or none, or prints the answer.  *)
LEMMA JoinSteps ==
    ASSUME Setting, PairInv, Setting', PairInv', [Next]_vars
    PROVE  Promise!Find \/ Promise!Answer
<1>1. /\ FoundPairs \subseteq FoundPairs' /\ FoundPairs' \subseteq Matches(r, s)
      /\ UNCHANGED <<r, s>>
  <2>1. UNCHANGED <<build, r, s>>
    BY InputsKept
  <2> QED BY <2>1, PairNext
<1>2. Joined = FoundPairs /\ Joined' = FoundPairs'
  <2>1. Joined = FoundPairs
    BY JoinedIs
  <2>2. (Setting /\ PairInv => Joined = FoundPairs)'
    BY JoinedIs, PTL
  <2> QED BY <2>1, <2>2
<1>3. CASE Collect
  <2>1. UNCHANGED FoundPairs
    BY <1>3, PairIdle
  <2> QED BY <1>1, <1>2, <1>3, <2>1, CollectAnswers, SameAnswer DEF Promise!Answer, Joined
<1>4. CASE ~Collect
  <2>1. result' = result
    <3>1. ASSUME NEW t \in Builders, Buildpart(t) PROVE result' = result
      BY <3>1 DEF Buildpart, FirstPass, SecondPass, SkewHandling, Partition, Memset, MakeTasks, Zero,
         Count, Scatter, StoreLines, StoreRests, StartSecondPass, PopPart, Cluster, Emit, ShareMax,
         FetchSkew, Look, MakeSkewTasks, DrainParts, FindMax, prober
    <3>2. ASSUME NEW p \in Probers, Probejoin(p) PROVE result' = result
      BY <3>2 DEF Probejoin, Wipe, PopJoin, BuildTable, Reorder, ProbeTable
    <3>3. ASSUME Release \/ SpawnProbers \/ ReleaseProbe \/ Terminated \/ UNCHANGED vars
          PROVE  result' = result
      BY <3>3 DEF Release, Open, SpawnProbers, ReleaseProbe, Terminated, vars, prober
    <3> QED BY <1>4, <3>1, <3>2, <3>3 DEF Next, Main
  <2> QED BY <1>1, <1>2, <2>1, SameAnswer DEF Promise!Find, Joined
<1> QED BY <1>3, <1>4

(* The partitioned hash join implements the abstract join.                 *)
THEOREM Refinement ==
    ASSUME Symmetric, TwoArrays PROVE Spec => RefinesPairs
<1>1. Init => Promise!PairInit
  <2> SUFFICES ASSUME Init PROVE Promise!PairInit
    OBVIOUS
  <2>1. /\ r \in RInputs /\ s \in SInputs /\ result = NULL
        /\ pc[0] = "memset" /\ part[0] = "first"
    BY PhjAssumption DEF Init, Load, LoadInto, Pool, Builders
  <2>2. ~Made
    BY <2>1 DEF Made
  <2> QED BY <2>1, <2>2 DEF Promise!PairInit
<1>2. Setting /\ PairInv /\ (Setting /\ PairInv)' /\ [Next]_vars =>
          [Promise!Find \/ Promise!Answer]_<<r, s,
              IF Made THEN Matches(r, s) \ UNION Range(Outstanding) ELSE {}, result>>
  BY JoinSteps
<1>3. Spec => [](Setting /\ PairInv)
  BY PairInvariant
<1> QED BY <1>1, <1>2, <1>3, PTL DEF Spec, RefinesPairs, Promise!PairBehaviour
=============================================================================
