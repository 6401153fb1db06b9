------------------------------- MODULE PtrPhj -------------------------------
(***************************************************************************)
(* ptr_phj.c: the partitioned hash join over keys and row ids.             *)
(*                                                                         *)
(* The first pass copies the keys and row ids of a relation to an array of *)
(* its own; the further passes go between that and a third one, and the    *)
(* relation stays as it is.  A kernel does not add up what it finds but    *)
(* stores the pairs of row ids in memory of its thread, maybe through a    *)
(* write-combining buffer of one line (NONTEMP_STORE_MATER).  A third pool *)
(* of threads fetches the tuples of those pairs from the relations.        *)
(***************************************************************************)
EXTENDS Phj

CONSTANTS
    RetrieveNum,   \* RETRIEVE_THREAD_NUM
    PairLine,      \* ROW_ID_PAIR_PER_SWWCB
    PairSlack      \* AVX512_SIZE / ROW_ID_PAIR_T_SIZE

ASSUME PtrAssumption == {RetrieveNum, PairLine, PairSlack} \subseteq Nat \ {0}

VARIABLES
    mater,      \* mater[p]: the pairs of row ids that probe thread p stored
    pairbuf,    \* its write-combining buffer
    pairslot,   \* how many pairs went through that
    rpc,        \* where each retrieving thread stands
    racc        \* its checksum

ptrvars == <<mater, pairbuf, pairslot, rpc, racc>>

Retrievers == 0 .. RetrieveNum - 1

(* What mater has room for: the thread's share of S, times                 *)
(* AVG_MATCH_NUM_PER_THR_SCALING_FACTOR, which is 1.2, and one register.   *)
(* The model has places for more, and MaterFits says that none is used.    *)
MaterRoom   == (NS * 12) \div (10 * ProbeNum) + PairSlack
MaterPlaces == 0 .. NS + PairLine - 1

(* What a build without row ids leaves alone. *)
PtrFresh ==
    /\ mater = [p \in Probers |-> [c \in MaterPlaces |-> Garbage]]
    /\ pairbuf = [p \in Probers |-> [c \in 0 .. PairLine - 1 |-> Garbage]]
    /\ pairslot = [p \in Probers |-> 0]
    /\ rpc = [q \in Retrievers |-> "idle"]
    /\ racc = [q \in Retrievers |-> 0]

(* mater is measured for `the uniform pkfk scenario' only: each tuple of S *)
(* has a partner in R.                                                     *)
ForeignKeys == \A j \in Rows(NS) : \E i \in Rows(NR) : r[i] = s[j]

(* The relations are loaded, and the two arrays for the keys and row ids   *)
(* of each of them allocated, with zeroed paddings.                        *)
PtrLoad(file) ==
    /\ build \in Builds /\ build.file = file
    /\ r \in RInputs /\ s \in SInputs /\ ForeignKeys
    /\ mem = [X \in Rels |-> [a \in {"org", "tmp", "ext"} |->
                [c \in Allocated(X) |-> IF c >= Size[X] THEN Empty
                                    ELSE IF a = "org" THEN c ELSE Garbage]]]
    /\ hist = [X \in Rels |-> [t \in Builders |-> NoCounts]]
    /\ part_queue = <<>> /\ skew_queue = <<>> /\ join_queue = <<>>
    /\ skewtask = NULL
    /\ maxBuild = [t \in Builders |-> 0]
    /\ size = 0

PtrPool == Pool

PtrRelease == Release
-----------------------------------------------------------------------------
(***************************************************************************)
(* ptr_phj_thread_buildpart.                                               *)
(***************************************************************************)
PtrMemset(t) ==
    /\ pc[t] = "memset"
    /\ mem' = [X \in Rels |-> [a \in DOMAIN mem[X] |-> [c \in Cells(X) |->
                 IF a # "org" /\ c \in Share(Size[X], BuildNum, t)
                 THEN Empty ELSE mem[X][a][c]]]]
    /\ Goto(t, "ready")
    /\ UNCHANGED <<inputs, queues, hist, skewtask, maxBuild, local, prober>>

PtrZero(t)     == part[t] = "first" /\ Zero(t)
PtrZeroSkew(t) == part[t] = "skew" /\ Zero(t)

(* The first pass reads tuples, skew handling keys and row ids; each has   *)
(* its own copies of the two ways to partition.                            *)
PtrCountFirst(t, X)      == part[t] = "first" /\ Count(t, X)
PtrScatterFirst(t, X)    == part[t] = "first" /\ Scatter(t, X)
PtrStoreLinesFirst(t, X) == part[t] = "first" /\ StoreLines(t, X)
PtrStoreRestsFirst(t, X) == part[t] = "first" /\ StoreRests(t, X)

PtrCountFollowing(t, X)      == part[t] = "skew" /\ Count(t, X)
PtrScatterFollowing(t, X)    == part[t] = "skew" /\ Scatter(t, X)
PtrStoreLinesFollowing(t, X) == part[t] = "skew" /\ StoreLines(t, X)
PtrStoreRestsFollowing(t, X) == part[t] = "skew" /\ StoreRests(t, X)

(* A partition of one relation only becomes a task, too. *)
PtrPartTask(t, total, p) == PartTask(t, total, p)
PtrFirstTasks(t) == [i \in 1 .. Fanout1 |-> PtrPartTask(t, Size, i - 1)]
PtrAsides(tasks) == SelectSeq(tasks, Aside)
PtrParts(tasks)  == SelectSeq(tasks, LAMBDA x : x.R.num + x.S.num > 0 /\ ~Aside(x))

PtrAddTasks(tasks) ==
    /\ skew_queue' = Pushed(skew_queue, PtrAsides(tasks))
    /\ part_queue' = Pushed(part_queue, PtrParts(tasks))

PtrMakeTasks(t) ==
    /\ pc[t] = "tasks"
    /\ \/ /\ t = 0
          /\ PtrAddTasks(PtrFirstTasks(t))
          /\ lmax' = [lmax EXCEPT ![t] = Largest(@, PtrParts(PtrFirstTasks(t)))]
       \/ t # 0 /\ UNCHANGED <<skew_queue, part_queue, lmax>>
    /\ Goto(t, "queued")
    /\ UNCHANGED <<inputs, mem, join_queue, hist, skewtask, maxBuild, part, task, next,
                   prober>>

PtrStartSecondPass(t) == StartSecondPass(t)
PtrPopPart(t)         == PopPart(t)
PtrCluster(t)         == Cluster(t)
PtrEmit(t)            == Emit(t)
PtrShareMax(t)        == ShareMax(t)
PtrFetchSkew(t)       == FetchSkew(t)
PtrLook(t)            == Look(t)

PtrSkewTasks(t) ==
    [i \in 1 .. Fanout2 |-> PtrPartTask(t, [X \in Rels |-> skewtask[X].num], i - 1)]

(* A large partition is cut up even if the other relation has none of it.  *)
PtrAddSkewTasks(tasks) ==
    LET joins  == SelectSeq(tasks, LAMBDA x : Joinable(x) /\ ~Large(x))
        splits == SelectSeq(tasks, Large)
    IN  /\ part_queue' = Pushed(part_queue,
               FlattenSeq([i \in DOMAIN splits |-> Split(splits[i])]))
        /\ join_queue' = Pushed(join_queue, joins)

PtrMakeSkewTasks(t) ==
    /\ pc[t] = "skewtasks"
    /\ \/ /\ t = 0
          /\ PtrAddSkewTasks(PtrSkewTasks(t))
          /\ lmax' = [lmax EXCEPT ![t] = Largest(@, PtrSkewTasks(t))]
       \/ t # 0 /\ UNCHANGED <<part_queue, join_queue, lmax>>
    /\ Goto(t, "fetch")
    /\ UNCHANGED <<inputs, mem, skew_queue, hist, skewtask, maxBuild, part, task, next,
                   prober>>

PtrDrainParts(t) == DrainParts(t)
PtrFindMax(t)    == FindMax(t)
-----------------------------------------------------------------------------
(***************************************************************************)
(* ptr_phj_thread_probejoin: the join tasks become pairs of row ids.       *)
(***************************************************************************)
PtrSpawnProbers == SpawnProbers /\ UNCHANGED ptrvars

(* Each thread has allocated and zeroed its own memory for pairs. *)
PtrWipe(p) ==
    /\ Wipe(p)
    /\ mater' = [mater EXCEPT ![p] = [c \in MaterPlaces |-> Empty]]
    /\ pairbuf' = [pairbuf EXCEPT ![p] = [c \in 0 .. PairLine - 1 |-> Empty]]
    /\ pairslot' = [pairslot EXCEPT ![p] = 0]
    /\ UNCHANGED <<rpc, racc>>

PtrReleaseProbe == ReleaseProbe /\ UNCHANGED ptrvars

(* The kernels build their tables as those of phj.c do. *)
PtrBuildBc(p) == build.kernel = "bc" /\ BuildTable(p)
PtrBuildLp(p) == build.kernel = "lp" /\ BuildTable(p)
PtrBuildSc(p) == build.kernel = "sc" /\ BuildTable(p)
PtrBuildHr(p) == build.kernel = "hr" /\ Reorder(p)

(* The pairs in the order of the S room. *)
PairSeq(rows, room) ==
    FlattenSeq([k \in 1 .. room.num |->
        SetToSeq({m \in PairsOf(rows, room) : m[2] = At("S", room, k - 1)})])

(* Storing pairs behind those of the tasks before: in memory, *)
Stores(p, pairs) ==
    LET m == acc[p].matched
    IN  /\ mater' = [mater EXCEPT ![p] = [c \in MaterPlaces |->
               IF c \in m .. m + Len(pairs) - 1 THEN pairs[c - m + 1] ELSE @[c]]]
        /\ UNCHANGED <<pairbuf, pairslot>>

(* or in the buffer, which goes to memory whenever a line is full.  It is  *)
(* not emptied between two tasks.                                          *)
StoresNontemp(p, pairs) ==
    LET from  == pairslot[p]
        to    == from + Len(pairs)
        at(c) == IF c >= from THEN pairs[c - from + 1] ELSE pairbuf[p][c % PairLine]
        lines == from - (from % PairLine) .. to - (to % PairLine) - 1
    IN  /\ mater' = [mater EXCEPT ![p] = [c \in MaterPlaces |->
               IF c \in lines THEN at(c) ELSE @[c]]]
        /\ pairbuf' = [pairbuf EXCEPT ![p] = [i \in 0 .. PairLine - 1 |->
               IF \E c \in from .. to - 1 : c % PairLine = i
               THEN at(Max({c \in from .. to - 1 : c % PairLine = i})) ELSE @[i]]]
        /\ pairslot' = [pairslot EXCEPT ![p] = to]

PtrProbe(p) ==
    /\ ppc[p] = "probe"
    /\ LET pairs == PairSeq(TableRows(p), ptask[p].S)
       IN  /\ IF build.nontemp THEN StoresNontemp(p, pairs) ELSE Stores(p, pairs)
           /\ acc' = [acc EXCEPT ![p].matched = @ + Len(pairs)]
    /\ ppc' = [ppc EXCEPT ![p] = "pop"]
    /\ UNCHANGED <<inputs, mem, queues, builder, size, table, ptask, result, rpc, racc>>

PtrProbeBc(p) == build.kernel = "bc" /\ PtrProbe(p)
PtrProbeLp(p) == build.kernel = "lp" /\ PtrProbe(p)
PtrProbeSc(p) == build.kernel = "sc" /\ PtrProbe(p)
PtrProbeHr(p) == build.kernel = "hr" /\ PtrProbe(p)

(* Mutant: what is left in the buffer stays there. *)
RestOfBufferForgotten(p) == UNCHANGED mater

(* What is left in the buffer of a thread that has found no more task.     *)
RestOfBuffer(p) ==
    LET m == acc[p].matched
    IN  mater' = [mater EXCEPT ![p] = [c \in MaterPlaces |->
            IF c \in m - (m % PairLine) .. m - 1 THEN pairbuf[p][c % PairLine] ELSE @[c]]]

PtrPopJoin(p) ==
    /\ PopJoin(p)
    /\ IF build.nontemp /\ join_queue = <<>> THEN RestOfBuffer(p) ELSE UNCHANGED mater
    /\ UNCHANGED <<pairbuf, pairslot, rpc, racc>>
-----------------------------------------------------------------------------
(***************************************************************************)
(* ptr_phj_thread_retrieve, and ptr_join_init_run.                         *)
(***************************************************************************)
SpawnRetrievers ==
    /\ \A p \in Probers : ppc[p] = "exit"
    /\ \A q \in Retrievers : rpc[q] = "idle"
    /\ rpc' = [q \in Retrievers |-> "retrieve"]
    /\ UNCHANGED <<vars, mater, pairbuf, pairslot, racc>>

(* ptr_retrieve: what the tuples of a pair add to the checksum. *)
Fetched(m) == RowId(m[1]) + RowId(m[2])

(* A thread takes its share of what each probe thread has left.  Nobody    *)
(* writes to that any more.                                                *)
Retrieve(q) ==
    /\ rpc[q] = "retrieve"
    /\ LET share(p) == Share(acc[p].matched, RetrieveNum, q)
           sum(p)   == MapThenSumSet(LAMBDA c : Fetched(mater[p][c]), share(p))
       IN  racc' = [racc EXCEPT ![q] = MapThenSumSet(sum, Probers) % 2^RowidBits]
    /\ rpc' = [rpc EXCEPT ![q] = "retrieved"]
    /\ UNCHANGED <<vars, mater, pairbuf, pairslot>>

ReleaseRetrieve ==
    /\ \A q \in Retrievers : rpc[q] = "retrieved"
    /\ rpc' = [q \in Retrievers |-> "exit"]
    /\ UNCHANGED <<vars, mater, pairbuf, pairslot, racc>>

PtrCollect ==
    /\ result = NULL
    /\ \A q \in Retrievers : rpc[q] = "exit"
    /\ result' = [matched  |-> MapThenSumSet(LAMBDA p : acc[p].matched, Probers),
                  checksum |-> MapThenSumSet(LAMBDA q : racc[q], Retrievers) % 2^RowidBits]
    /\ UNCHANGED <<inputs, mem, queues, builder, size, table, ppc, ptask, acc, ptrvars>>
-----------------------------------------------------------------------------
PtrFirstPass(t) ==
    \E X \in Rels : \/ PtrCountFirst(t, X) \/ PtrScatterFirst(t, X)
                    \/ PtrStoreLinesFirst(t, X) \/ PtrStoreRestsFirst(t, X)

PtrSkewPass(t) ==
    \E X \in Rels : \/ PtrCountFollowing(t, X) \/ PtrScatterFollowing(t, X)
                    \/ PtrStoreLinesFollowing(t, X) \/ PtrStoreRestsFollowing(t, X)

PtrBuildpart(t) ==
    /\ \/ PtrMemset(t) \/ PtrZero(t) \/ PtrFirstPass(t) \/ PtrMakeTasks(t)
       \/ PtrStartSecondPass(t) \/ PtrPopPart(t) \/ PtrCluster(t) \/ PtrEmit(t)
       \/ PtrShareMax(t) \/ PtrFetchSkew(t) \/ PtrLook(t) \/ PtrZeroSkew(t)
       \/ PtrSkewPass(t) \/ PtrMakeSkewTasks(t) \/ PtrDrainParts(t) \/ PtrFindMax(t)
    /\ UNCHANGED ptrvars

PtrBuild(p) == PtrBuildBc(p) \/ PtrBuildLp(p) \/ PtrBuildSc(p) \/ PtrBuildHr(p)

PtrProbejoin(p) ==
    \/ PtrWipe(p) \/ PtrPopJoin(p)
    \/ PtrBuild(p) /\ UNCHANGED ptrvars
    \/ PtrProbeBc(p) \/ PtrProbeLp(p) \/ PtrProbeSc(p) \/ PtrProbeHr(p)

PtrRetrieve(q) == Retrieve(q)

PtrMain ==
    \/ PtrRelease /\ UNCHANGED ptrvars
    \/ PtrSpawnProbers \/ PtrReleaseProbe
    \/ SpawnRetrievers \/ ReleaseRetrieve \/ PtrCollect
-----------------------------------------------------------------------------
(***************************************************************************)
(* Properties.                                                             *)
(***************************************************************************)

(* When the probe threads are done, their memory holds each matching pair  *)
(* once, whichever thread and buffer it went through (ptr_phj.c:758-771,   *)
(* 2170-2190).                                                             *)
MaterComplete ==
    (build.file \in RowIds /\ \A p \in Probers : ppc[p] = "exit") =>
        \A m \in Matches(r, s) :
            Cardinality({x \in Probers \X MaterPlaces :
                x[2] < acc[x[1]].matched /\ mater[x[1]][x[2]] = m}) = 1

(* A thread stores its pairs in its own memory, of which it has a share    *)
(* and a fifth: enough, says ptr_phj.c:2066, for uniform keys with one     *)
(* partner each.                                                           *)
MaterFits ==
    \A p \in Probers, c \in MaterPlaces :
        c >= MaterRoom => mater[p][c] \in {Garbage, Empty}
=============================================================================
