------------------------------- MODULE NphjLP -------------------------------
(***************************************************************************)
(* The non-partitioned hash join with linear probing, nphj_lp in           *)
(* src/algo/nphj.c.                                                        *)
(*                                                                         *)
(* The table is one array of hash_entry_t.  A build thread walks from the  *)
(* home entry of its tuple to the first entry whose hashkey is 0, claims   *)
(* it by making the hashkey nonzero, and only then stores the tuple in it. *)
(* The claim is a compare-and-swap or, built with LOCK_IN_BUCKET, a test   *)
(* under the latch of the entry; either way it is preceded by a read of    *)
(* the hashkey that takes no latch.  The probe threads walk the same path  *)
(* to the first entry with an equal key or hashkey 0.                      *)
(***************************************************************************)
EXTENDS Relations

CONSTANTS
    NR, NS,          \* r_tuple_num, s_tuple_num
    RInputs,         \* the contents of R to consider, functions from rows to keys
    SInputs,         \* the contents of S to consider
    Keys,            \* the keys that occur in them
    NumEntries,      \* num_entrys = next_pow_2(r_tuple_num)
    IdHash,          \* IDHASH(key, hashmask, bitskip), a function of the key
    BuildNum,        \* BUILDPART_THREAD_NUM
    ProbeNum,        \* PROBEJOIN_THREAD_NUM
    Builds,          \* the builds: [lockInBucket, testSelectivity]
    RowidBits,       \* the width of rowid_t
    NULL,            \* the null pointer
    Garbage,         \* the contents of memory nobody has written
    Empty            \* the contents of an entry no tuple has been stored in

Entries  == 0 .. NumEntries - 1
Builders == 0 .. BuildNum - 1
Probers  == 0 .. ProbeNum - 1

ASSUME SizeAssumption ==
    /\ NR \in Nat /\ NS \in Nat
    /\ NumEntries \in Nat \ {0} /\ NumEntries >= NR
    /\ BuildNum \in Nat \ {0}
    /\ ProbeNum \in Nat \ {0}
    /\ RowidBits \in Nat
    /\ Builds \subseteq [lockInBucket : BOOLEAN, testSelectivity : BOOLEAN]

(* The keys of R are unique: linear probing reports one partner at most.   *)
ASSUME InputAssumption ==
    /\ RInputs \subseteq [Rows(NR) -> Keys]
    /\ SInputs \subseteq [Rows(NS) -> Keys]
    /\ IdHash \in [Keys -> Entries]
    /\ \A f \in RInputs : \A i, j \in Rows(NR) : f[i] = f[j] => i = j

ASSUME MarkerAssumption ==
    /\ Garbage \notin Int
    /\ Empty \notin Rows(NR)

VARIABLES
    build,      \* which build of the program runs
    r, s,       \* the two relations
    hashkey,    \* hashkey[e]: 0 while entry e is free
    latch,      \* latch[e]: its latch byte
    tuples,     \* tuples[e]: the R row stored in it
    pc,         \* where each build thread stands
    idx,        \* the R row each build thread is inserting
    pos,        \* the entry it looks at
    ppc,        \* where each probe thread stands
    sidx,       \* the S row it is probing
    ppos, flag, \* its locals: the entry it looks at, whether that is the first
    acc,        \* the matched_cnt and checksum in its argument block
    fault,      \* a null pointer has been dereferenced: the process is gone
    result      \* what nphj_lp prints

inputs  == <<build, r, s>>
table   == <<hashkey, latch, tuples>>
builder == <<pc, idx, pos>>
prober  == <<ppc, sidx, ppos, flag, acc, fault>>
vars    == <<inputs, table, builder, prober, result>>

LockInBucket    == build.lockInBucket
TestSelectivity == build.testSelectivity

BuildPC == {"memset", "barrier1", "timer", "barrier2", "next", "peek", "claim",
            "test", "write", "unlock", "reject", "store", "barrier3", "exit"}
ProbePC == {"idle", "start", "look", "barrier", "exit"}

(* What acc and result may hold is the business of RefinesJoin below.      *)
TypeOK ==
    /\ build \in Builds
    /\ r \in RInputs /\ s \in SInputs
    /\ hashkey \in [Entries -> (0 .. NumEntries) \cup {Garbage}]
    /\ latch \in [Entries -> {0, 1, Garbage}]
    /\ tuples \in [Entries -> Rows(NR) \cup {Empty}]
    /\ pc \in [Builders -> BuildPC]
    /\ idx \in [Builders -> 0 .. NR]
    /\ pos \in [Builders -> Entries]
    /\ ppc \in [Probers -> ProbePC]
    /\ sidx \in [Probers -> 0 .. NS]
    /\ ppos \in [Probers -> Entries]
    /\ flag \in [Probers -> BOOLEAN]
    /\ fault \in BOOLEAN

(* A lookup of a key that R lacks goes round a full table for ever without *)
(* TEST_SELECTIVITY, which is there for data with such keys.               *)
ForBuild ==
    \/ TestSelectivity
    \/ NR < NumEntries
    \/ \A j \in Rows(NS) : \E i \in Rows(NR) : r[i] = s[j]

Init ==
    /\ build \in Builds /\ r \in RInputs /\ s \in SInputs
    /\ ForBuild
    /\ hashkey = [e \in Entries |-> Garbage]
    /\ latch = [e \in Entries |-> Garbage]
    /\ tuples = [e \in Entries |-> Empty]
    /\ pc = [t \in Builders |-> "memset"]
    /\ idx = [t \in Builders |-> ShareBegin(NR, BuildNum, t)]
    /\ pos = [t \in Builders |-> 0]
    /\ ppc = [p \in Probers |-> "idle"]
    /\ sidx = [p \in Probers |-> ShareBegin(NS, ProbeNum, p)]
    /\ ppos = [p \in Probers |-> 0]
    /\ flag = [p \in Probers |-> TRUE]
    /\ acc = [p \in Probers |-> [matched |-> 0, checksum |-> 0]]
    /\ fault = FALSE
    /\ result = NULL
-----------------------------------------------------------------------------
(***************************************************************************)
(* The build threads: run_nphj_lp_buildpart and build_hashtable_nphj_lp.   *)
(***************************************************************************)

(* Thread t zeroes its share of the entries and arrives at the barrier.    *)
Memset(t) ==
    /\ pc[t] = "memset"
    /\ LET mine == Share(NumEntries, BuildNum, t)
       IN  /\ hashkey' = [e \in Entries |-> IF e \in mine THEN 0 ELSE hashkey[e]]
           /\ latch' = [e \in Entries |-> IF e \in mine THEN 0 ELSE latch[e]]
    /\ pc' = [pc EXCEPT ![t] = "barrier1"]
    /\ UNCHANGED <<inputs, tuples, idx, pos, prober, result>>

AfterBarrier == [barrier1 |-> "timer", barrier2 |-> "next", barrier3 |-> "exit"]

(* BARRIER_ARRIVE lets the threads go on when the last one has arrived.    *)
ReleaseBuild ==
    \E b \in DOMAIN AfterBarrier :
        /\ \A t \in Builders : pc[t] = b
        /\ pc' = [t \in Builders |-> AfterBarrier[b]]
        /\ UNCHANGED <<inputs, table, idx, pos, prober, result>>

(* Only thread 0 takes the time between the first two barriers. *)
Timer(t) ==
    /\ pc[t] = "timer"
    /\ pc' = [pc EXCEPT ![t] = "barrier2"]
    /\ UNCHANGED <<inputs, table, idx, pos, prober, result>>

(* Mutant: the search goes on where the one before has ended. *)
StartInsertWhereLeft(t) ==
    /\ pc[t] = "next"
    /\ idx[t] < ShareEnd(NR, BuildNum, t)
    /\ pc' = [pc EXCEPT ![t] = "peek"]
    /\ UNCHANGED <<inputs, table, idx, pos, prober, result>>

(* lp_insert: go to the home entry of the next tuple of the share. *)
StartInsert(t) ==
    /\ pc[t] = "next"
    /\ idx[t] < ShareEnd(NR, BuildNum, t)
    /\ pos' = [pos EXCEPT ![t] = IdHash[r[idx[t]]]]
    /\ pc' = [pc EXCEPT ![t] = "peek"]
    /\ UNCHANGED <<inputs, table, idx, prober, result>>

(* (pos + 1) & hashmask *)
Succ(e) == IF e = NumEntries - 1 THEN 0 ELSE e + 1

(* The read of the hashkey that the loop of lp_insert_with_pos starts with. *)
Peek(t) ==
    /\ pc[t] = "peek"
    /\ \/ /\ hashkey[pos[t]] # 0
          /\ pos' = [pos EXCEPT ![t] = Succ(@)]
          /\ UNCHANGED pc
       \/ /\ hashkey[pos[t]] = 0
          /\ pc' = [pc EXCEPT ![t] = "claim"]
          /\ UNCHANGED pos
    /\ UNCHANGED <<inputs, table, idx, prober, result>>

(* Mutant: the entry is taken without comparing again. *)
ClaimBlindly(t) ==
    /\ ~LockInBucket
    /\ pc[t] = "claim"
    /\ hashkey' = [hashkey EXCEPT ![pos[t]] = IdHash[r[idx[t]]] + 1]
    /\ pc' = [pc EXCEPT ![t] = "store"]
    /\ UNCHANGED <<inputs, latch, tuples, idx, pos, prober, result>>

(* Mutant: a thread that loses the race gives its tuple up. *)
ClaimOnce(t) ==
    /\ ~LockInBucket
    /\ pc[t] = "claim"
    /\ \/ /\ hashkey[pos[t]] = 0
          /\ hashkey' = [hashkey EXCEPT ![pos[t]] = IdHash[r[idx[t]]] + 1]
          /\ pc' = [pc EXCEPT ![t] = "store"]
          /\ UNCHANGED idx
       \/ /\ hashkey[pos[t]] # 0
          /\ idx' = [idx EXCEPT ![t] = @ + 1]
          /\ pc' = [pc EXCEPT ![t] = "next"]
          /\ UNCHANGED hashkey
    /\ UNCHANGED <<inputs, latch, tuples, pos, prober, result>>

(* __sync_bool_compare_and_swap(&hashkey, 0, tmp_hashkey + 1) *)
Claim(t) ==
    /\ ~LockInBucket
    /\ pc[t] = "claim"
    /\ \/ /\ hashkey[pos[t]] = 0
          /\ hashkey' = [hashkey EXCEPT ![pos[t]] = IdHash[r[idx[t]]] + 1]
          /\ pc' = [pc EXCEPT ![t] = "store"]
          /\ UNCHANGED pos
       \/ /\ hashkey[pos[t]] # 0
          /\ pos' = [pos EXCEPT ![t] = Succ(@)]
          /\ pc' = [pc EXCEPT ![t] = "peek"]
          /\ UNCHANGED hashkey
    /\ UNCHANGED <<inputs, latch, tuples, idx, prober, result>>

(* acquire_lock_and_store: lock the entry ... *)
Lock(t) ==
    /\ LockInBucket
    /\ pc[t] = "claim"
    /\ latch[pos[t]] = 0
    /\ latch' = [latch EXCEPT ![pos[t]] = 1]
    /\ pc' = [pc EXCEPT ![t] = "test"]
    /\ UNCHANGED <<inputs, hashkey, tuples, idx, pos, prober, result>>

(* ... read its hashkey again ... *)
Test(t) ==
    /\ pc[t] = "test"
    /\ pc' = [pc EXCEPT ![t] = IF hashkey[pos[t]] = 0 THEN "write" ELSE "reject"]
    /\ UNCHANGED <<inputs, table, idx, pos, prober, result>>

(* ... make it nonzero if it was 0 ... *)
Write(t) ==
    /\ pc[t] = "write"
    /\ hashkey' = [hashkey EXCEPT ![pos[t]] = IdHash[r[idx[t]]] + 1]
    /\ pc' = [pc EXCEPT ![t] = "unlock"]
    /\ UNCHANGED <<inputs, latch, tuples, idx, pos, prober, result>>

(* ... and unlock: to store the tuple, or to try the next entry. *)
Unlock(t) ==
    /\ latch' = [latch EXCEPT ![pos[t]] = 0]
    /\ \/ /\ pc[t] = "unlock"
          /\ pc' = [pc EXCEPT ![t] = "store"]
          /\ UNCHANGED pos
       \/ /\ pc[t] = "reject"
          /\ pos' = [pos EXCEPT ![t] = Succ(@)]
          /\ pc' = [pc EXCEPT ![t] = "peek"]
    /\ UNCHANGED <<inputs, hashkey, tuples, idx, prober, result>>

(* store_a_tuple(&hashtable[pos].tuple, tuple) *)
Store(t) ==
    /\ pc[t] = "store"
    /\ tuples' = [tuples EXCEPT ![pos[t]] = idx[t]]
    /\ idx' = [idx EXCEPT ![t] = @ + 1]
    /\ pc' = [pc EXCEPT ![t] = "next"]
    /\ UNCHANGED <<inputs, hashkey, latch, pos, prober, result>>

(* The share is inserted: arrive at the barrier that ends the build.       *)
FinishBuild(t) ==
    /\ pc[t] = "next"
    /\ idx[t] >= ShareEnd(NR, BuildNum, t)
    /\ pc' = [pc EXCEPT ![t] = "barrier3"]
    /\ UNCHANGED <<inputs, table, idx, pos, prober, result>>
-----------------------------------------------------------------------------
(***************************************************************************)
(* The probe threads: run_nphj_lp_probejoin and probe_hashtable_nphj_lp.   *)
(***************************************************************************)

(* The main thread has joined every build thread and starts the probe threads. *)
SpawnProbers ==
    /\ \A t \in Builders : pc[t] = "exit"
    /\ \A p \in Probers : ppc[p] = "idle"
    /\ ppc' = [p \in Probers |-> "start"]
    /\ UNCHANGED <<inputs, table, builder, sidx, ppos, flag, acc, fault, result>>

(* lp_lookup: take the next S tuple and go to its home entry, or finish.   *)
StartTuple(p) ==
    /\ ppc[p] = "start"
    /\ \/ /\ sidx[p] < ShareEnd(NS, ProbeNum, p)
          /\ ppos' = [ppos EXCEPT ![p] = IdHash[s[sidx[p]]]]
          /\ flag' = [flag EXCEPT ![p] = TRUE]
          /\ ppc' = [ppc EXCEPT ![p] = "look"]
       \/ /\ sidx[p] >= ShareEnd(NS, ProbeNum, p)
          /\ ppc' = [ppc EXCEPT ![p] = "barrier"]
          /\ UNCHANGED <<ppos, flag>>
    /\ UNCHANGED <<inputs, table, builder, sidx, acc, fault, result>>

(* Mutant: equal hashes are taken for equal keys. *)
SameHash(i, j) == i # Empty /\ IdHash[r[i]] = IdHash[s[j]]

(* hashtable[pos].tuple.key == tuple->key *)
SameKey(i, j) == i # Empty /\ r[i] = s[j]

(* Mutant: no guard against a second round. *)
WrappedNever(p) == FALSE

(* With TEST_SELECTIVITY a lookup ends when it is back at its home entry.  *)
Wrapped(p) == TestSelectivity /\ ppos[p] = IdHash[s[sidx[p]]] /\ ~flag[p]

(* The loop of lp_lookup_with_pos. *)
Walk(p) ==
    /\ ppc[p] = "look"
    /\ hashkey[ppos[p]] # 0 /\ ~SameKey(tuples[ppos[p]], sidx[p]) /\ ~Wrapped(p)
    /\ flag' = [flag EXCEPT ![p] = FALSE]
    /\ ppos' = [ppos EXCEPT ![p] = Succ(@)]
    /\ UNCHANGED <<inputs, table, builder, ppc, sidx, acc, fault, result>>

(* It returns a tuple, and the caller adds the pair to its result. *)
Hit(p) ==
    /\ ppc[p] = "look"
    /\ hashkey[ppos[p]] # 0 /\ SameKey(tuples[ppos[p]], sidx[p]) /\ ~Wrapped(p)
    /\ acc' = [acc EXCEPT ![p] =
                 [matched  |-> @.matched + 1,
                  checksum |-> (@.checksum + RowId(sidx[p]) + RowId(tuples[ppos[p]]))
                                   % 2^RowidBits]]
    /\ sidx' = [sidx EXCEPT ![p] = @ + 1]
    /\ ppc' = [ppc EXCEPT ![p] = "start"]
    /\ UNCHANGED <<inputs, table, builder, ppos, flag, fault, result>>

(* It returns NULL.  The caller reads found_tuple->row_id before it        *)
(* multiplies it by matched_flag = 0, and the process ends.                *)
Miss(p) ==
    /\ ppc[p] = "look"
    /\ hashkey[ppos[p]] = 0 \/ Wrapped(p)
    /\ fault' = TRUE
    /\ UNCHANGED <<inputs, table, builder, ppc, sidx, ppos, flag, acc, result>>

(* The barrier at the end of run_nphj_lp_probejoin. *)
ReleaseProbe ==
    /\ \A p \in Probers : ppc[p] = "barrier"
    /\ ppc' = [p \in Probers |-> "exit"]
    /\ UNCHANGED <<inputs, table, builder, sidx, ppos, flag, acc, fault, result>>

(* The main thread joins the probe threads and adds their results up.      *)
Collect ==
    /\ result = NULL
    /\ \A p \in Probers : ppc[p] = "exit"
    /\ result' = [matched  |-> SumFunction([p \in Probers |-> acc[p].matched]),
                  checksum |-> SumFunction([p \in Probers |-> acc[p].checksum]) % 2^RowidBits]
    /\ UNCHANGED <<inputs, table, builder, prober>>

(* nphj_lp has printed its result, or the process is gone. *)
Terminated ==
    /\ result # NULL \/ fault
    /\ UNCHANGED vars
-----------------------------------------------------------------------------
Build(t) ==
    \/ Memset(t) \/ Timer(t) \/ StartInsert(t) \/ Peek(t)
    \/ Claim(t) \/ Lock(t) \/ Test(t) \/ Write(t) \/ Unlock(t)
    \/ Store(t) \/ FinishBuild(t)

Probe(p) == StartTuple(p) \/ Walk(p) \/ Hit(p) \/ Miss(p)

Main == ReleaseBuild \/ SpawnProbers \/ ReleaseProbe \/ Collect

Next ==
    \/ /\ ~fault
       /\ \/ \E t \in Builders : Build(t)
          \/ \E p \in Probers : Probe(p)
          \/ Main
    \/ Terminated

Spec == Init /\ [][Next]_vars

(* Every thread is scheduled while the process lives; a latch is handed to *)
(* nobody in particular.                                                   *)
Fairness ==
    /\ \A t \in Builders : WF_vars(~fault /\ Build(t))
    /\ \A p \in Probers : WF_vars(~fault /\ Probe(p))
    /\ WF_vars(~fault /\ Main)

FairSpec == Spec /\ Fairness
-----------------------------------------------------------------------------
(***************************************************************************)
(* Properties.                                                             *)
(***************************************************************************)

Claimed(e) == hashkey[e] \notin {0, Garbage}
Owns(t, e) == pc[t] \in {"unlock", "store"} /\ pos[t] = e

(* The claim is exclusive although the hashkey is first read without it:   *)
(* a claimed entry is either stored or still to be stored by exactly one   *)
(* thread, and nobody stores into an entry that is not claimed             *)
(* (lp_insert_with_pos, nphj.c:1056-1070).                                 *)
EntryOwnership ==
    \A e \in Entries :
        LET owners == {t \in Builders : Owns(t, e)}
        IN  /\ \A t, u \in owners : t = u
            /\ Claimed(e) => (owners = {}) = (tuples[e] # Empty)
            /\ ~Claimed(e) => owners = {} /\ tuples[e] = Empty

(* The entries from home entry h up to e, cyclically, without e. *)
Before(h, e) ==
    {x \in Entries : IF h <= e THEN h <= x /\ x < e ELSE h <= x \/ x < e}

(* A tuple is never behind a free entry on its path: the entries an insert  *)
(* has passed were claimed and stay so, so that a lookup that stops at the *)
(* first free entry has seen all there is (nphj.c:1064, 1162).             *)
UnbrokenPath ==
    /\ \A e \in Entries : tuples[e] # Empty =>
           \A x \in Before(IdHash[r[tuples[e]]], e) : Claimed(x)
    /\ \A t \in Builders :
           pc[t] \in {"peek", "claim", "test", "write", "unlock", "reject", "store"} =>
               \A x \in Before(IdHash[r[idx[t]]], pos[t]) : Claimed(x)

(* When the build threads have been joined every R tuple is in one entry.  *)
BuildComplete ==
    (\A t \in Builders : pc[t] = "exit") =>
        \A i \in Rows(NR) :
            \E e \in Entries : \A x \in Entries : tuples[x] = i <=> x = e

(* nphj_lp implements the abstract join: a store puts one more row into the *)
(* table and none out of it, and what is printed is the join's answer.     *)
Promise == INSTANCE JoinSpec WITH
    inserted <- {tuples[e] : e \in Entries} \ {Empty},
    answer <- result

RefinesJoin == Promise!JoinBehaviour

(* The join ends, one way or the other: no insert or lookup walks in       *)
(* circles, and no thread spins on a latch or waits at a barrier forever.  *)
Termination == <>(result # NULL \/ fault)

(* A lookup that finds nothing contributes nothing, as the comment above   *)
(* the statement has it: "(found_tuple == NULL) ? 0 : ..." (nphj.c:1261).  *)
MissIsHarmless == ~fault
=============================================================================
