------------------------------ MODULE TaskQueue ------------------------------
(***************************************************************************)
(* The task queue of the partitioned joins, src/inc/task_pthread.h: a      *)
(* linked stack of task_t under one mutex, and an allocator that hands out *)
(* the task_t from blocks of AllocNum under another.                       *)
(*                                                                         *)
(* It is used in the order the joins use it.  First every thread adds the  *)
(* tasks its work leads to (none, for part_queue; the sub-partitions of the *)
(* second pass, for join_queue).  Behind a barrier thread 0 adds tasks     *)
(* without any mutex while the others wait at the next barrier, and behind *)
(* that one all threads take tasks until they get NULL.                    *)
(***************************************************************************)
EXTENDS Integers, FiniteSets, Pointers

CONSTANTS
    ThreadNum,  \* the threads that share the queue
    AddNum,     \* AddNum[t]: the tasks thread t adds while the others do
    AloneNum,   \* the tasks thread 0 adds alone, between the barriers
    AllocNum,   \* alloc_num
    NULL        \* the null pointer

Threads == 0 .. ThreadNum - 1

ASSUME QueueAssumption ==
    /\ ThreadNum \in Nat \ {0}
    /\ AddNum \in [Threads -> Nat]
    /\ AloneNum \in Nat
    /\ AllocNum \in Nat \ {0}

(* A task_t: element k of the n-th block of the free list. *)
Slots == Nat \X (0 .. AllocNum - 1)

ASSUME NullAssumption == NULL \notin Slots /\ NULL \notin Threads

(* What is put into a task_t: <<t, k>> for the k-th task of thread t.      *)
Goal(t) == AddNum[t] + (IF t = 0 THEN AloneNum ELSE 0)
Tasks   == UNION {{t} \X (0 .. Goal(t) - 1) : t \in Threads}

VARIABLES
    lock, allocLock,  \* the threads that hold the mutexes, or NULL
    head, count,      \* the stack
    blocks, curr,     \* the free list: its blocks, and the used tasks of the newest
    used,             \* the slots handed out, with their contents and next pointers
    pc,               \* where each thread stands
    added,            \* the tasks each thread has added
    slot,             \* its locals: the task_t it was given, to fill or to work on
    seen,             \* what it has read of head or curr
    got               \* the tasks it has worked on

queue == <<lock, head, count>>
alloc == <<allocLock, blocks, curr>>
local == <<pc, added, slot, seen, got>>
vars  == <<queue, alloc, used, local>>

AddPC == {"alloc", "carve", "fill", "push", "link", "bump"}
GetPC == {"pop", "peek", "take"}

TypeOK ==
    /\ lock \in Threads \cup {NULL} /\ allocLock \in Threads \cup {NULL}
    /\ head \in Slots \cup {NULL}
    /\ count \in Nat
    /\ blocks \in Nat /\ curr \in 0 .. AllocNum
    /\ DOMAIN used \subseteq Slots
    /\ used \in [DOMAIN used -> [task : Tasks, next : Slots \cup {NULL}]]
    /\ pc \in [Threads -> {"ready", "barrier1", "alone", "barrier2", "exit"} \cup AddPC \cup GetPC]
    /\ added \in [Threads -> Nat]
    /\ slot \in [Threads -> Slots \cup {NULL}]
    /\ seen \in [Threads -> Slots \cup {NULL}]
    /\ got \in [Threads -> SUBSET Tasks]

(* task_queue_init: an empty stack, and one block of free task_t. *)
Init ==
    /\ lock = NULL /\ allocLock = NULL
    /\ head = NULL /\ count = 0
    /\ blocks = 0 /\ curr = 0
    /\ used = <<>>
    /\ pc = [t \in Threads |-> "ready"]
    /\ added = [t \in Threads |-> 0]
    /\ slot = [t \in Threads |-> NULL]
    /\ seen = [t \in Threads |-> NULL]
    /\ got = [t \in Threads |-> {}]
-----------------------------------------------------------------------------
(* task_queue_get_slot: the next task_t of the newest block, or the first  *)
(* one of a new block when that is used up.                                *)
FreeSlot ==
    IF curr < AllocNum
    THEN [addr |-> <<blocks, curr>>, blocks |-> blocks, curr |-> curr + 1]
    ELSE [addr |-> <<blocks + 1, 0>>, blocks |-> blocks + 1, curr |-> 1]

(* The memory of a task_t once it has been written to. *)
Written(a, node) == [x \in DOMAIN used \cup {a} |-> IF x = a THEN node ELSE used[x]]

(* Add the next task, or wait for the others when all are added. *)
Choose(t) ==
    /\ pc[t] = "ready"
    /\ pc' = [pc EXCEPT ![t] = IF added[t] < AddNum[t] THEN "alloc" ELSE "barrier1"]
    /\ UNCHANGED <<queue, alloc, used, added, slot, seen, got>>

Barrier1 ==
    /\ \A t \in Threads : pc[t] = "barrier1"
    /\ pc' = [t \in Threads |-> IF t = 0 THEN "alone" ELSE "barrier2"]
    /\ UNCHANGED <<queue, alloc, used, added, slot, seen, got>>

(* Mutant: task_queue_add leaves the count alone. *)
AddAloneUncounted ==
    /\ pc[0] = "alone" /\ added[0] < Goal(0)
    /\ used' = Written(FreeSlot.addr, [task |-> <<0, added[0]>>, next |-> head])
    /\ blocks' = FreeSlot.blocks /\ curr' = FreeSlot.curr
    /\ head' = FreeSlot.addr
    /\ added' = [added EXCEPT ![0] = @ + 1]
    /\ UNCHANGED <<lock, count, allocLock, pc, slot, seen, got>>

(* Thread 0, while nobody else is about: task_queue_get_slot, the fields of *)
(* the task, and task_queue_add without the mutex.                         *)
AddAlone ==
    /\ pc[0] = "alone" /\ added[0] < Goal(0)
    /\ used' = Written(FreeSlot.addr, [task |-> <<0, added[0]>>, next |-> head])
    /\ blocks' = FreeSlot.blocks /\ curr' = FreeSlot.curr
    /\ head' = FreeSlot.addr
    /\ count' = count + 1
    /\ added' = [added EXCEPT ![0] = @ + 1]
    /\ UNCHANGED <<lock, allocLock, pc, slot, seen, got>>

AloneDone ==
    /\ pc[0] = "alone" /\ added[0] = Goal(0)
    /\ pc' = [pc EXCEPT ![0] = "barrier2"]
    /\ UNCHANGED <<queue, alloc, used, added, slot, seen, got>>

Barrier2 ==
    /\ \A t \in Threads : pc[t] = "barrier2"
    /\ pc' = [t \in Threads |-> "pop"]
    /\ UNCHANGED <<queue, alloc, used, added, slot, seen, got>>
-----------------------------------------------------------------------------
(***************************************************************************)
(* task_queue_get_slot_atomic, the fields of the task, and                 *)
(* task_queue_add_atomic.                                                  *)
(***************************************************************************)

(* Mutant: the allocator has no mutex of its own. *)
LockAllocNot(t) ==
    /\ pc[t] = "alloc"
    /\ allocLock' = t
    /\ pc' = [pc EXCEPT ![t] = "carve"]
    /\ slot' = [slot EXCEPT ![t] = FreeSlot.addr]
    /\ UNCHANGED <<queue, blocks, curr, used, added, seen, got>>

(* pthread_mutex_lock(&alloc_lock), and the read of the free list. *)
LockAlloc(t) ==
    /\ pc[t] = "alloc"
    /\ allocLock = NULL
    /\ allocLock' = t
    /\ pc' = [pc EXCEPT ![t] = "carve"]
    /\ slot' = [slot EXCEPT ![t] = FreeSlot.addr]
    /\ UNCHANGED <<queue, blocks, curr, used, added, seen, got>>

(* Write the free list back and unlock. *)
Carve(t) ==
    /\ pc[t] = "carve"
    /\ blocks' = slot[t][1]
    /\ curr' = slot[t][2] + 1
    /\ allocLock' = NULL
    /\ pc' = [pc EXCEPT ![t] = "fill"]
    /\ UNCHANGED <<queue, used, added, slot, seen, got>>

(* The fields of the task, outside of the mutexes. *)
Fill(t) ==
    /\ pc[t] = "fill"
    /\ used' = Written(slot[t], [task |-> <<t, added[t]>>, next |-> NULL])
    /\ pc' = [pc EXCEPT ![t] = "push"]
    /\ UNCHANGED <<queue, alloc, added, slot, seen, got>>

(* Mutant: the stack is not locked. *)
LockPushNot(t) ==
    /\ pc[t] = "push"
    /\ lock' = t
    /\ pc' = [pc EXCEPT ![t] = "link"]
    /\ UNCHANGED <<head, count, alloc, used, added, slot, seen, got>>

LockPush(t) ==
    /\ pc[t] = "push"
    /\ lock = NULL
    /\ lock' = t
    /\ pc' = [pc EXCEPT ![t] = "link"]
    /\ UNCHANGED <<head, count, alloc, used, added, slot, seen, got>>

(* t->next = tq->head *)
Link(t) ==
    /\ pc[t] = "link"
    /\ used' = [used EXCEPT ![slot[t]].next = head]
    /\ pc' = [pc EXCEPT ![t] = "bump"]
    /\ UNCHANGED <<queue, alloc, added, slot, seen, got>>

(* tq->head = t, count ++, unlock *)
Bump(t) ==
    /\ pc[t] = "bump"
    /\ head' = slot[t]
    /\ count' = count + 1
    /\ lock' = NULL
    /\ added' = [added EXCEPT ![t] = @ + 1]
    /\ pc' = [pc EXCEPT ![t] = "ready"]
    /\ UNCHANGED <<alloc, used, slot, seen, got>>
-----------------------------------------------------------------------------
(***************************************************************************)
(* task_queue_get_atomic in the loop of the joins.                         *)
(***************************************************************************)
LockPop(t) ==
    /\ pc[t] = "pop"
    /\ lock = NULL
    /\ lock' = t
    /\ pc' = [pc EXCEPT ![t] = "peek"]
    /\ UNCHANGED <<head, count, alloc, used, added, slot, seen, got>>

(* Mutant: the last task is taken for none. *)
PeekOffByOne(t) ==
    /\ pc[t] = "peek"
    /\ \/ /\ count > 1
          /\ slot' = [slot EXCEPT ![t] = head]
          /\ seen' = [seen EXCEPT ![t] = used[head].next]
          /\ pc' = [pc EXCEPT ![t] = "take"]
          /\ UNCHANGED lock
       \/ /\ count <= 1
          /\ lock' = NULL
          /\ pc' = [pc EXCEPT ![t] = "exit"]
          /\ UNCHANGED <<slot, seen>>
    /\ UNCHANGED <<head, count, alloc, used, added, got>>

(* The first task and its successor are read, or there is none: unlock and  *)
(* return NULL, and the thread is through.                                 *)
Peek(t) ==
    /\ pc[t] = "peek"
    /\ \/ /\ count > 0
          /\ slot' = [slot EXCEPT ![t] = head]
          /\ seen' = [seen EXCEPT ![t] = used[head].next]
          /\ pc' = [pc EXCEPT ![t] = "take"]
          /\ UNCHANGED lock
       \/ /\ count = 0
          /\ lock' = NULL
          /\ pc' = [pc EXCEPT ![t] = "exit"]
          /\ UNCHANGED <<slot, seen>>
    /\ UNCHANGED <<head, count, alloc, used, added, got>>

(* head and count are written back, the mutex is released, and the thread  *)
(* works on the task.                                                      *)
Take(t) ==
    /\ pc[t] = "take"
    /\ head' = seen[t]
    /\ count' = count - 1
    /\ lock' = NULL
    /\ got' = [got EXCEPT ![t] = @ \cup {used[slot[t]].task}]
    /\ pc' = [pc EXCEPT ![t] = "pop"]
    /\ UNCHANGED <<alloc, used, added, slot, seen>>

(* All threads have gone on, and the queue is freed. *)
Terminated ==
    /\ \A t \in Threads : pc[t] = "exit"
    /\ UNCHANGED vars
-----------------------------------------------------------------------------
Add(t) ==
    \/ Choose(t) \/ LockAlloc(t) \/ Carve(t) \/ Fill(t)
    \/ LockPush(t) \/ Link(t) \/ Bump(t)

Get(t) == LockPop(t) \/ Peek(t) \/ Take(t)

Next ==
    \/ Barrier1 \/ AddAlone \/ AloneDone \/ Barrier2
    \/ \E t \in Threads : Add(t) \/ Get(t)
    \/ Terminated

Spec == Init /\ [][Next]_vars

(* Every thread is scheduled.  A mutex is handed to some thread that wants   *)
(* it; as a thread asks for it finitely often, nobody waits forever.       *)
FairSpec ==
    /\ Spec
    /\ WF_vars(Barrier1 \/ AddAlone \/ AloneDone \/ Barrier2)
    /\ \A t \in Threads : WF_vars(Add(t) \/ Get(t))
-----------------------------------------------------------------------------
(***************************************************************************)
(* Properties.                                                             *)
(***************************************************************************)

(* The threads that were given a task_t by the allocator and have not yet  *)
(* handed it to the queue.                                                 *)
Filling(t) == pc[t] \in {"fill", "push", "link", "bump"}

(* The stack from the top, as far as its pointers lead. *)
Stack ==
    LET after == [a \in DOMAIN used |-> used[a].next]
        node  == Follow(head, after, NULL, Cardinality(DOMAIN used))
    IN  {node[n] : n \in DOMAIN node} \ {NULL}

(* The two mutexes do not protect each other's data, and need not: no task_t *)
(* is given to two threads, and none that is being filled is on the stack  *)
(* (task_pthread.h:149-174).                                               *)
SlotsApart ==
    \A t \in Threads : Filling(t) =>
        /\ slot[t] \notin Stack
        /\ \A u \in Threads : Filling(u) /\ slot[u] = slot[t] => u = t

(* Unless somebody is at it, the stack holds as many tasks as count says, so *)
(* that a thread that trusts count (task_pthread.h:113) follows head only  *)
(* to a task, and never to NULL.                                           *)
CountIsDepth == lock = NULL => count = Cardinality(Stack)

(* The queue implements the pool of tasks: every task handed in comes out  *)
(* once, to one thread, and a thread is only sent on to the barrier behind *)
(* the joins when there are none left (task_pthread.h:110-133).            *)
Pool == INSTANCE TaskPool WITH
    pool <- {used[x].task : x \in Stack},
    told <- {t \in Threads : pc[t] = "exit"}

RefinesPool == Pool!Spec

(* Every thread gets through, and together they leave no task behind: the  *)
(* loops of phj.c:1344 and phj.c:1821 end, and end at the right time.      *)

AllDone ==
    <>((\A t \in Threads : pc[t] = "exit") /\ head = NULL
       /\ Tasks = UNION {got[t] : t \in Threads})
=============================================================================
