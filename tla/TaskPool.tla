------------------------------ MODULE TaskPool ------------------------------
(***************************************************************************)
(* What a task queue promises to the threads that share it: a task that is *)
(* handed in comes out once, to one thread, and a thread is only told that *)
(* there are no more tasks when there are none.                            *)
(***************************************************************************)
CONSTANTS Threads, Tasks

VARIABLES
    pool,  \* the tasks handed in and not yet taken out
    got,   \* got[t]: the tasks thread t was given
    told   \* the threads that were told there are none

vars == <<pool, got, told>>

Known == pool \cup UNION {got[t] : t \in Threads}

Init == pool = {} /\ got = [t \in Threads |-> {}] /\ told = {}

Put ==
    /\ \E x \in Tasks \ Known : pool' = pool \cup {x}
    /\ UNCHANGED <<got, told>>

Get(t) ==
    /\ t \notin told
    /\ \E x \in pool : /\ pool' = pool \ {x}
                       /\ got' = [got EXCEPT ![t] = @ \cup {x}]
    /\ UNCHANGED told

GetNothing(t) ==
    /\ pool = {} /\ t \notin told
    /\ told' = told \cup {t}
    /\ UNCHANGED <<pool, got>>

Next == Put \/ \E t \in Threads : Get(t) \/ GetNothing(t)

Spec == Init /\ [][Next]_vars
=============================================================================
