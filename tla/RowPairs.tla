------------------------------ MODULE RowPairs ------------------------------
(***************************************************************************)
(* The pairs of row ids between the probe and the retrieving threads of    *)
(* ptr_nphj.c.                                                             *)
(*                                                                         *)
(* A probe thread stores the row ids of what it finds in memory of its     *)
(* own, one pair at a time or a line at a time through a write-combining   *)
(* buffer (NONTEMP_STORE_MATER).  When all probe threads have been joined, *)
(* a third pool of threads shares what each of them has left, and fetches  *)
(* the tuples from the two relations.                                      *)
(*                                                                         *)
(* Both joins of that file have these steps.  The modules that extend this *)
(* one say when a pair is found.                                           *)
(***************************************************************************)
EXTENDS Relations, SequencesExt

CONSTANTS
    RetrieveNum,   \* RETRIEVE_THREAD_NUM
    PairLine,      \* ROW_ID_PAIR_PER_SWWCB
    PairSlack      \* AVX512_SIZE / ROW_ID_PAIR_T_SIZE

ASSUME PairAssumption == {RetrieveNum, PairLine, PairSlack} \subseteq Nat \ {0}

VARIABLES
    nontemp,    \* whether the program is built with NONTEMP_STORE_MATER
    mater,      \* mater[p]: the pairs that probe thread p stored
    pairbuf,    \* its write-combining buffer
    rpc,        \* where each retrieving thread stands
    racc        \* the checksum in its argument block

pairvars == <<nontemp, mater, pairbuf, rpc, racc>>

Retrievers == 0 .. RetrieveNum - 1

(* Zeroed memory: two row ids 0, which no row has. *)
NoPair == <<-1, -1>>

(* Thread p zeroes room for as many pairs as it has tuples of S, for in    *)
(* `the uniform pkfk scenario' a tuple has one partner.                    *)
PairInit(room) ==
    /\ nontemp \in BOOLEAN
    /\ mater = [p \in DOMAIN room |-> [c \in 0 .. room[p] + PairSlack - 1 |-> NoPair]]
    /\ pairbuf = [p \in DOMAIN room |-> [c \in 0 .. PairLine - 1 |-> NoPair]]
    /\ rpc = [q \in Retrievers |-> "idle"]
    /\ racc = [q \in Retrievers |-> 0]

(* Thread p, which has stored n pairs, stores some more: in memory, *)
StorePlain(p, n, pairs) ==
    /\ mater' = [mater EXCEPT ![p] = [c \in DOMAIN @ |->
           IF c \in n .. n + Len(pairs) - 1 THEN pairs[c - n + 1] ELSE @[c]]]
    /\ UNCHANGED pairbuf

(* or in its buffer, which goes to memory whenever a line is full.         *)
StoreBuffered(p, n, pairs) ==
    LET end   == n + Len(pairs)
        at(c) == IF c >= n THEN pairs[c - n + 1] ELSE pairbuf[p][c % PairLine]
        full  == n - (n % PairLine) .. end - (end % PairLine) - 1
        mine(i) == {c \in n .. end - 1 : c % PairLine = i}
    IN  /\ mater' = [mater EXCEPT ![p] = [c \in DOMAIN @ |->
               IF c \in full THEN at(c) ELSE @[c]]]
        /\ pairbuf' = [pairbuf EXCEPT ![p] = [i \in DOMAIN @ |->
               IF mine(i) = {} THEN @[i] ELSE at(Max(mine(i)))]]

StorePairs(p, n, pairs) ==
    /\ IF nontemp THEN StoreBuffered(p, n, pairs) ELSE StorePlain(p, n, pairs)
    /\ UNCHANGED <<nontemp, rpc, racc>>

(* After its last tuple it stores what is left in the buffer. *)
StoreRest(p, n) ==
    /\ mater' = [mater EXCEPT ![p] = [c \in DOMAIN @ |->
           IF nontemp /\ c \in n - (n % PairLine) .. n - 1
           THEN pairbuf[p][c % PairLine] ELSE @[c]]]
    /\ UNCHANGED <<nontemp, pairbuf, rpc, racc>>
-----------------------------------------------------------------------------
StartRetrieve ==
    /\ \A q \in Retrievers : rpc[q] = "idle"
    /\ rpc' = [q \in Retrievers |-> "retrieve"]
    /\ UNCHANGED <<nontemp, mater, pairbuf, racc>>

(* ptr_retrieve: what the two tuples of a pair add to the checksum.  A row *)
(* id is taken for a place in the relation, which it is in the data sets   *)
(* with payloads: they are numbered after they have been shuffled.         *)
Fetched(m) == RowId(m[1]) + RowId(m[2])

(* Thread q takes its share of the cnt[p] pairs of each probe thread p.    *)
(* Nobody writes to those any more.                                        *)
RetrievePairs(q, cnt, bits) ==
    /\ rpc[q] = "retrieve"
    /\ LET sum(p) == MapThenSumSet(LAMBDA c : Fetched(mater[p][c]),
                                   Share(cnt[p], RetrieveNum, q))
       IN  racc' = [racc EXCEPT ![q] = MapThenSumSet(sum, DOMAIN cnt) % 2^bits]
    /\ rpc' = [rpc EXCEPT ![q] = "barrier"]
    /\ UNCHANGED <<nontemp, mater, pairbuf>>

ReleaseRetrieve ==
    /\ \A q \in Retrievers : rpc[q] = "barrier"
    /\ rpc' = [q \in Retrievers |-> "exit"]
    /\ UNCHANGED <<nontemp, mater, pairbuf, racc>>

Retrieved == \A q \in Retrievers : rpc[q] = "exit"

(* The main thread adds the checksums of the retrieving threads up.        *)
RetrievedSum(bits) == MapThenSumSet(LAMBDA q : racc[q], Retrievers) % 2^bits
=============================================================================
