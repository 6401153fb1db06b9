----------------------------- MODULE PhjBuffers -----------------------------
(***************************************************************************)
(* The partitioned hash joins with linked partition buffers, each in a     *)
(* file and a build of its own: phj_shr.c and phj_ind.c.                   *)
(***************************************************************************)
EXTENDS PhjInd

BInit == Init \/ (IndLoad /\ IndPool)

BBuildpart(t) ==
    \/ build.file = "phj_shr" /\ Buildpart(t)
    \/ build.file = "phj_ind" /\ IndBuildpart(t)

BProbejoin(p) ==
    \/ build.file = "phj_shr" /\ Probejoin(p)
    \/ build.file = "phj_ind" /\ IndProbejoin(p)

BMain ==
    \/ build.file = "phj_shr" /\ Main
    \/ build.file = "phj_ind" /\ IndMain

BNext == \/ \E t \in Builders : BBuildpart(t)
         \/ \E p \in Probers : BProbejoin(p)
         \/ BMain
         \/ Terminated

BSpec == BInit /\ [][BNext]_vars

(* As long as some thread can go on, one does.                             *)
BFairSpec == BSpec /\ WF_vars(BNext)
-----------------------------------------------------------------------------
(***************************************************************************)
(* Properties.                                                             *)
(***************************************************************************)

(* With skew handling, a thread that reads part_queue->count after another *)
(* one has taken a task moves its base too little (phj_shr.c:1356, 1409,   *)
(* phj_ind.c:1871, 1934), and the groups of heads that threads then take   *)
(* for skewtask are not the same, or are in use: tuples are lost.  The     *)
(* properties are about the behaviours where all counts are those of the   *)
(* tasks that thread 0 has made.                                           *)
InPart(X, p) == {i \in Rows(Size[X]) : Radix1(X, i) = p}
Queued == {p \in 0 .. Fanout1 - 1 :
              /\ \E X \in Rels : InPart(X, p) # {}
              /\ build.skew => \A X \in Rels : Cardinality(InPart(X, p)) <= Threshold0}

CountsAgree ==
    build.skew => \A t \in Builders : partnum[t] \in {NULL, Cardinality(Queued)}

TaskPairs(x) == PairsOf(ToSet(RowsOf(x, "R")), ProbeRows(x))

Joining(p) == ppc[p] = "probe" \/ (ppc[p] = "build" /\ ~Idle(ptask[p]))

(* Thread 0 has made the tasks of the first pass, or of skewtask.          *)
Made   == pc[0] \notin {"first", "part", "parted", "tasks"}
InSkew == skewtask # NULL /\ pc[0] # "fetch"

(* The tasks still to be joined, with where they are: in a queue, in the   *)
(* hands of a build thread, as what is left of one to make join tasks of,  *)
(* or in the hands of a probe thread.                                      *)
Pending ==
    LET queued == part_queue \o skew_queue \o join_queue
        At(place) == {t \in Builders : pc[t] = place}
    IN  {<<"queue", i, queued[i]>> : i \in DOMAIN queued}
            \cup {<<"skew", 0, skewtask>> : t \in IF InSkew THEN {0} ELSE {}}
            \cup {<<"cluster", t, task[t]>> : t \in At("cluster")}
            \cup UNION {{<<"emit", t, ClusterTask(t, p)>> : p \in next[t] .. Fanout2 - 1} :
                           t \in At("emit")}
            \cup {<<"probe", p, ptask[p]>> : p \in {q \in Probers : Joining(q)}}

(* The pairs that each of them stands for.                                 *)
Claims == UNION {{<<x, m>> : m \in TaskPairs(x[3])} : x \in Pending}
Outstanding == {c[2] : c \in Claims}

(* From the first tasks on, each matching pair is in one task or counted,  *)
(* however the threads' tuples got mixed in the lists: no tuple is lost at *)
(* the end of a buffer, stored before its list is walked, or in the        *)
(* buffers of two shares (phj_shr.c:181-203, 1444-1478, 1534-1552,         *)
(* phj_ind.c:1803-1828, 2131-2159).                                        *)
BPairsConserved ==
    Made /\ CountsAgree =>
        LET claims == Claims
            found  == MapThenSumSet(LAMBDA p : acc[p].matched, Probers)
        IN  /\ \A c, d \in claims : c[2] = d[2] => c = d
            /\ Cardinality(claims) + found = Cardinality(Matches(r, s))

JoinTasks == ToSet(join_queue) \cup {ptask[p] : p \in {q \in Probers : Joining(q)}}

(* What was measured suffices: a table has room for the R lists of each    *)
(* task, which each thread saw only some of, and nobody takes more buffers *)
(* from a pool than it has, which nobody checks (phj_shr.c:186, 1811-1828, *)
(* 1594-1603, 2095-2098).                                                  *)
Linked(X, heads) ==
    MapThenSumSet(LAMBDA u : MapThenSumSet(LAMBDA h : Len(chain[X][u][h]) - 1, heads), Owners)

BMemorySuffices ==
    CountsAgree =>
        /\ (\E p \in Probers : ppc[p] # "idle") =>
               \A x \in JoinTasks : Len(RowsOf(x, "R")) <= size
        /\ \A X \in Rels :
               LET first == 0 .. Fanout1 - 1
                   pool(n) == CeilDiv(Size[X], Cap) + n * Cardinality(Owners)
               IN  /\ Linked(X, first) <= pool(Fanout1)
                   /\ Linked(X, Heads \ first) <= pool(Fanout1 * Fanout2)

(* Both implement the abstract join, too.                                  *)
BPromise == INSTANCE PairSpec WITH
    found  <- IF Made /\ CountsAgree THEN Matches(r, s) \ Outstanding ELSE {},
    answer <- IF CountsAgree THEN result ELSE NULL

BRefinesPairs == BPromise!PairBehaviour

(* The rounds of skew handling end and no barrier waits for a thread that  *)
(* took another way: the join ends (phj_shr.c:1432-1579).                  *)
BTermination == <>(result # NULL \/ ~CountsAgree)
=============================================================================
