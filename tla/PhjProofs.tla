----------------------------- MODULE PhjProofs ------------------------------
(***************************************************************************)
(* Theorems about the partitioned hash join.                               *)
(*                                                                         *)
(* Layer 1: the barriers keep the build threads together (PhaseInv).       *)
(* Layer 2: the tables are measured for the largest of the join tasks,     *)
(* whoever made it (FitInv).                                               *)
(* Layer 3: the rooms of the tasks are apart (RoomInv).                    *)
(* Layer 4, to begin with: what copying a room in parts leaves.            *)
(*                                                                         *)
(* What the rooms hold, and with it the answer, is in PhjPairProofs.       *)
(***************************************************************************)
EXTENDS Phj, RelationsProofs, SequenceTheorems

(***************************************************************************)
(* Layer 1: the phases.                                                    *)
(***************************************************************************)

(* Where the threads may be while one of them is in the second pass.       *)
SecondPhase == {"second", "pop", "cluster", "emit", "share", "shared"}

(* What comes behind the scatter of R, and of S, up to the next barrier.   *)
AfterR == IF part[0] = "first" \/ "S" \in SecondRels THEN {"countS", "countedS"} ELSE {"skewed"}
AfterS == IF part[0] = "first" THEN {"parted"} ELSE {"skewed"}

ScatterPhases ==
    IF build.swwcb
    THEN {{"scatterR", "linedR"}, {"restsR"} \cup AfterR,
          {"scatterS", "linedS"}, {"restsS"} \cup AfterS}
    ELSE {{"scatterR"} \cup AfterR, {"scatterS"} \cup AfterS}

LookPhase == {"look"} \cup IF skewtask = NULL THEN {"drain", "drained"} ELSE {"zero", "zeroed"}

(* Each phase ends with a barrier, where it is entered by all at once.     *)
Phases ==
    ScatterPhases \cup
    {{"memset", "ready"}, {"zero", "zeroed"}, {"countR", "countedR"}, {"tasks", "queued"},
     SecondPhase, {"skewtasks", "fetch", "fetched"}, LookPhase, {"max", "maxed"}, {"exit"}}

SamePhase == \E P \in Phases : \A t \in Builders : pc[t] \in P

(* The threads partition the two relations first, and skew tasks later.    *)
Turns ==
    \A t \in Builders :
        /\ pc[t] \in {"memset", "ready", "tasks", "queued", "parted", "second", "pop", "cluster",
                      "emit", "share"} => part[t] = "first"
        /\ pc[t] = "shared" => part[t] = IF build.skew THEN "skew" ELSE "first"
        /\ pc[t] \in {"fetch", "fetched", "look", "drain", "drained", "skewed", "skewtasks"} =>
               part[t] = "skew"
        /\ pc[t] \notin SecondPhase => part[t] = part[0]

(* While a skew task is partitioned there is one.                          *)
Partitioning == {"zero", "zeroed", "countR", "countedR", "scatterR", "linedR", "restsR",
                 "countS", "countedS", "scatterS", "linedS", "restsS", "skewed"}
SkewKnown ==
    /\ \A t \in Builders : pc[t] \in Partitioning /\ part[t] = "skew" => skewtask # NULL
    /\ pc[0] = "skewtasks" => skewtask # NULL

PhaseInv ==
    /\ build \in Builds
    /\ pc \in [Builders -> BuildPC] /\ part \in [Builders -> {"first", "skew"}]
    /\ SamePhase /\ Turns /\ SkewKnown

(* What comes behind each barrier.                                         *)
LEMMA BarrierFacts ==
    /\ DOMAIN AfterBarrier =
           {"ready", "zeroed", "countedR", "countedS", "linedR", "linedS", "parted", "queued",
            "shared", "fetched", "skewed", "drained", "maxed"}
    /\ AfterBarrier["ready"] = "zero" /\ AfterBarrier["zeroed"] = "countR"
    /\ AfterBarrier["countedR"] = "scatterR" /\ AfterBarrier["countedS"] = "scatterS"
    /\ AfterBarrier["linedR"] = "restsR" /\ AfterBarrier["linedS"] = "restsS"
    /\ AfterBarrier["parted"] = "tasks"
    /\ AfterBarrier["queued"] = IF build.passes = 2 THEN "second" ELSE "share"
    /\ AfterBarrier["shared"] = IF build.skew THEN "fetch" ELSE "max"
    /\ AfterBarrier["fetched"] = "look" /\ AfterBarrier["skewed"] = "skewtasks"
    /\ AfterBarrier["drained"] = "max" /\ AfterBarrier["maxed"] = "exit"
  BY DEF AfterBarrier

(* Where a step of a build thread leads.                                   *)
PcStep(t, c) ==
    \/ pc[t] = "memset" /\ c = "ready"
    \/ pc[t] = "zero" /\ c = "zeroed"
    \/ pc[t] = "countR" /\ c = "countedR"
    \/ pc[t] = "countS" /\ c = "countedS"
    \/ pc[t] = "scatterR" /\ build.swwcb /\ c = "linedR"
    \/ pc[t] = "scatterS" /\ build.swwcb /\ c = "linedS"
    \/ /\ pc[t] = "restsR" \/ (pc[t] = "scatterR" /\ ~build.swwcb)
       /\ c = IF part[t] = "first" \/ "S" \in SecondRels THEN "countS" ELSE "skewed"
    \/ /\ pc[t] = "restsS" \/ (pc[t] = "scatterS" /\ ~build.swwcb)
       /\ c = IF part[t] = "first" THEN "parted" ELSE "skewed"
    \/ pc[t] = "tasks" /\ c = "queued"
    \/ pc[t] = "second" /\ c = "pop"
    \/ pc[t] = "pop" /\ c \in {"cluster", "share"}
    \/ pc[t] = "cluster" /\ c = "emit"
    \/ pc[t] = "emit" /\ c \in {"emit", "pop"}
    \/ pc[t] = "share" /\ c = "shared"
    \/ pc[t] = "fetch" /\ c = "fetched"
    \/ pc[t] = "look" /\ c = IF skewtask = NULL THEN "drain" ELSE "zero"
    \/ pc[t] = "skewtasks" /\ c = "fetch"
    \/ pc[t] = "drain" /\ c = "drained"
    \/ pc[t] = "max" /\ c = "maxed"

(* What a step of a build thread does to the control of the threads.       *)
Advance(t) ==
    /\ \E c \in BuildPC : pc' = [pc EXCEPT ![t] = c] /\ PcStep(t, c)
    /\ UNCHANGED build
    /\ part' = IF pc[t] = "share" /\ build.skew THEN [part EXCEPT ![t] = "skew"] ELSE part
    /\ (pc[t] # "fetch" \/ t # 0) => skewtask' = skewtask
(* Every step of a build thread is one of these.                           *)
LEMMA StepAdvances ==
    ASSUME NEW t \in Builders, Buildpart(t) PROVE Advance(t)
<1>1. ASSUME NEW c \in BuildPC, Goto(t, c), PcStep(t, c), UNCHANGED <<build, part, skewtask>>,
             pc[t] # "share"
      PROVE  Advance(t)
  BY <1>1 DEF Advance, Goto
<1>0. \A c \in {"ready", "zeroed", "countedR", "countedS", "linedR", "linedS", "countS", "skewed",
                "parted", "queued", "pop", "cluster", "share", "emit", "shared", "fetched", "drain",
                "zero", "fetch", "drained", "maxed"} : c \in BuildPC
  BY BarrierFacts DEF BuildPC
<1>2. CASE Memset(t)
  BY <1>0, <1>1, <1>2 DEF Memset, PcStep, inputs, local
<1>3. CASE Zero(t)
  BY <1>0, <1>1, <1>3 DEF Zero, PcStep, inputs, local
<1>4. ASSUME NEW X \in Rels, Count(t, X) PROVE Advance(t)
  <2>1. X = "R" \/ X = "S"
    BY DEF Rels
  <2> QED BY <1>0, <1>1, <1>4, <2>1 DEF Count, PcStep, inputs, local
<1>5. ASSUME NEW X \in Rels, StoreLines(t, X) PROVE Advance(t)
  <2>1. X = "R" \/ X = "S"
    BY DEF Rels
  <2> QED BY <1>0, <1>1, <1>5, <2>1 DEF StoreLines, PcStep, inputs, local
<1>6. ASSUME NEW X \in Rels, Partitioned(t, X),
             \/ X = "R" /\ (pc[t] = "restsR" \/ (pc[t] = "scatterR" /\ ~build.swwcb))
             \/ X = "S" /\ (pc[t] = "restsS" \/ (pc[t] = "scatterS" /\ ~build.swwcb)),
             UNCHANGED <<build, part, skewtask>>
      PROVE  Advance(t)
  <2> DEFINE c == IF X = "R"
                  THEN IF part[t] = "first" \/ "S" \in SecondRels THEN "countS" ELSE "skewed"
                  ELSE IF part[t] = "first" THEN "parted" ELSE "skewed"
  <2>1. Goto(t, c)
    BY <1>6 DEF Partitioned, Current, Rels
  <2>2. c \in BuildPC /\ PcStep(t, c) /\ pc[t] # "share"
    BY <1>0, <1>6 DEF PcStep
  <2> QED BY <1>1, <1>6, <2>1, <2>2
<1>7. ASSUME NEW X \in Rels, Scatter(t, X) PROVE Advance(t)
  <2>1. X = "R" \/ X = "S"
    BY DEF Rels
  <2>2. /\ pc[t] = IF X = "R" THEN "scatterR" ELSE "scatterS"
        /\ Partitioned(t, X) /\ UNCHANGED <<build, part, skewtask>>
    BY <1>7, <2>1 DEF Scatter, inputs, local
  <2>3. ~build.swwcb
    BY <1>7 DEF Scatter
  <2> QED BY <1>6, <2>1, <2>2, <2>3
<1>8. ASSUME NEW X \in Rels, StoreRests(t, X) PROVE Advance(t)
  <2>1. X = "R" \/ X = "S"
    BY DEF Rels
  <2>2. /\ pc[t] = IF X = "R" THEN "restsR" ELSE "restsS"
        /\ Partitioned(t, X) /\ UNCHANGED <<build, part, skewtask>>
    BY <1>8, <2>1 DEF StoreRests, inputs, local
  <2> QED BY <1>6, <2>1, <2>2
<1>9. CASE MakeTasks(t)
  BY <1>0, <1>1, <1>9 DEF MakeTasks, PcStep, inputs, local
<1>10. CASE StartSecondPass(t)
  BY <1>0, <1>1, <1>10 DEF StartSecondPass, PcStep, inputs, local
<1>11. CASE PopPart(t)
  BY <1>0, <1>1, <1>11 DEF PopPart, PcStep, inputs, local
<1>12. CASE Cluster(t)
  BY <1>0, <1>1, <1>12 DEF Cluster, PcStep, inputs, local
<1>13. CASE Emit(t)
  BY <1>0, <1>1, <1>13 DEF Emit, PcStep, inputs, local
<1>14. CASE ShareMax(t)
  <2>1. PcStep(t, "shared") /\ Goto(t, "shared")
    BY <1>14 DEF ShareMax, PcStep
  <2> QED BY <1>0, <1>14, <2>1 DEF ShareMax, Advance, Goto, inputs
<1>15. CASE FetchSkew(t)
  <2>1. PcStep(t, "fetched") /\ Goto(t, "fetched")
    BY <1>15 DEF FetchSkew, PcStep
  <2> QED BY <1>0, <1>15, <2>1 DEF FetchSkew, Advance, Goto, inputs, local
<1>16. CASE Look(t)
  BY <1>0, <1>1, <1>16 DEF Look, PcStep, inputs, local
<1>17. CASE MakeSkewTasks(t)
  BY <1>0, <1>1, <1>17 DEF MakeSkewTasks, PcStep, inputs, local
<1>18. CASE DrainParts(t)
  BY <1>0, <1>1, <1>18 DEF DrainParts, PcStep, inputs, local
<1>19. CASE FindMax(t)
  BY <1>0, <1>1, <1>19 DEF FindMax, PcStep, inputs, local
<1> QED
  BY <1>2, <1>3, <1>4, <1>5, <1>7, <1>8, <1>9, <1>10, <1>11, <1>12, <1>13, <1>14, <1>15, <1>16,
     <1>17, <1>18, <1>19 DEF Buildpart, FirstPass, SecondPass, SkewHandling, Partition

(* A step stays in the phase it is in.                                     *)
LEMMA StepInPhase ==
    ASSUME PhaseInv, NEW t \in Builders, NEW c, PcStep(t, c), NEW P \in Phases,
           \A u \in Builders : pc[u] \in P
    PROVE  c \in P
<1>0. pc[t] \in P /\ (pc[t] \notin SecondPhase => part[t] = part[0])
  BY DEF PhaseInv, Turns
<1>1. CASE P \in ScatterPhases
  <2>1. CASE build.swwcb
    BY <1>0, <1>1, <2>1 DEF ScatterPhases, AfterR, AfterS, PcStep, SecondPhase
  <2>2. CASE ~build.swwcb
    BY <1>0, <1>1, <2>2 DEF ScatterPhases, AfterR, AfterS, PcStep, SecondPhase
  <2> QED BY <2>1, <2>2
<1>2. CASE P = SecondPhase
  BY <1>0, <1>2 DEF SecondPhase, PcStep
<1>3. CASE P = LookPhase
  BY <1>0, <1>3 DEF LookPhase, PcStep
<1>4. CASE P \in {{"memset", "ready"}, {"zero", "zeroed"}, {"countR", "countedR"},
                  {"tasks", "queued"}, {"skewtasks", "fetch", "fetched"}, {"max", "maxed"}, {"exit"}}
  BY <1>0, <1>4 DEF PcStep
<1> QED BY <1>1, <1>2, <1>3, <1>4 DEF Phases

(* A phase of one state is one of the next if that is about it.            *)
LEMMA PhaseStays ==
    ASSUME PhaseInv, NEW t \in Builders, Advance(t), NEW P \in Phases,
           \A u \in Builders : pc[u] \in P
    PROVE  P \in Phases'
<1>0. 0 \in Builders /\ pc[0] \in P /\ pc[t] \in P
  BY PhjAssumption DEF Builders
<1>1. build' = build
  BY DEF Advance
<1>2. SecondRels' = SecondRels
  BY <1>1 DEF SecondRels
<1>3. CASE P \in ScatterPhases
  <2>1. pc[t] \notin {"share", "fetch"}
    BY <1>0, <1>3 DEF ScatterPhases, AfterR, AfterS
  <2>2. part' = part
    BY <2>1 DEF Advance
  <2> QED BY <1>1, <1>2, <1>3, <2>2 DEF Phases, ScatterPhases, AfterR, AfterS
<1>4. CASE P = LookPhase
  <2>1. pc[t] # "fetch"
    BY <1>0, <1>4 DEF LookPhase
  <2>2. skewtask' = skewtask
    BY <2>1 DEF Advance
  <2> QED BY <1>4, <2>2 DEF Phases, LookPhase
<1>5. CASE P \in {{"memset", "ready"}, {"zero", "zeroed"}, {"countR", "countedR"},
                  {"tasks", "queued"}, SecondPhase, {"skewtasks", "fetch", "fetched"},
                  {"max", "maxed"}, {"exit"}}
  BY <1>5 DEF Phases
<1> QED BY <1>3, <1>4, <1>5 DEF Phases

(* A step of a build thread keeps the invariant of the phases.             *)
LEMMA PhaseStep ==
    ASSUME PhaseInv, NEW t \in Builders, Buildpart(t) PROVE PhaseInv'
<1>0. Advance(t) /\ 0 \in Builders
  BY StepAdvances, PhjAssumption DEF Builders
<1>1. PICK P \in Phases : \A u \in Builders : pc[u] \in P
  BY DEF PhaseInv, SamePhase
<1>2. PICK c \in BuildPC : pc' = [pc EXCEPT ![t] = c] /\ PcStep(t, c)
  BY <1>0 DEF Advance
<1>3. /\ pc \in [Builders -> BuildPC] /\ part \in [Builders -> {"first", "skew"}]
      /\ pc'[t] = c /\ \A u \in Builders \ {t} : pc'[u] = pc[u]
      /\ build' = build
  BY <1>0, <1>2 DEF PhaseInv, Advance
<1>4. SamePhase'
  <2>1. c \in P /\ P \in Phases'
    BY <1>0, <1>1, <1>2, StepInPhase, PhaseStays
  <2>2. \A u \in Builders : pc'[u] \in P
    BY <1>1, <1>3, <2>1
  <2> QED BY <2>1, <2>2 DEF SamePhase
<1>5. Turns'
  <2>1. CASE part' = part
    <3>1. ASSUME NEW u \in Builders
          PROVE  /\ pc'[u] \in {"memset", "ready", "tasks", "queued", "parted", "second", "pop",
                                "cluster", "emit", "share"} => part[u] = "first"
                 /\ pc'[u] = "shared" => part[u] = IF build.skew THEN "skew" ELSE "first"
                 /\ pc'[u] \in {"fetch", "fetched", "look", "drain", "drained", "skewed",
                                "skewtasks"} => part[u] = "skew"
                 /\ pc'[u] \notin SecondPhase => part[u] = part[0]
      <4>1. CASE u # t
        BY <1>3, <4>1 DEF PhaseInv, Turns
      <4>2. CASE u = t
        <5>1. part[t] \in {"first", "skew"} /\ (pc[t] = "share" => ~build.skew)
          <6>1. ~(pc[t] = "share" /\ build.skew)
            <7>1. SUFFICES ASSUME pc[t] = "share", build.skew PROVE FALSE
              OBVIOUS
            <7>2. part' = [part EXCEPT ![t] = "skew"] /\ part[t] = "first"
              BY <1>0, <7>1 DEF Advance, PhaseInv, Turns
            <7> QED BY <1>3, <2>1, <7>2
          <6> QED BY <1>3, <6>1
        <5> QED BY <1>2, <1>3, <4>2, <5>1 DEF PhaseInv, Turns, PcStep, SecondPhase
      <4> QED BY <4>1, <4>2
    <3> QED BY <1>3, <2>1, <3>1 DEF Turns
  <2>2. CASE part' # part
    <3>1. pc[t] = "share" /\ build.skew /\ part' = [part EXCEPT ![t] = "skew"] /\ c = "shared"
      BY <1>0, <1>2, <2>2 DEF Advance, PcStep
    <3>2. \A u \in Builders : pc[u] \in SecondPhase
      BY <1>1, <3>1 DEF Phases, ScatterPhases, AfterR, AfterS, LookPhase, SecondPhase
    <3> QED BY <1>3, <3>1, <3>2 DEF PhaseInv, Turns, SecondPhase
  <2> QED BY <2>1, <2>2
<1>6. SkewKnown'
  <2>1. CASE pc[t] = "fetch"
    <3>1. c = "fetched" /\ P = {"skewtasks", "fetch", "fetched"}
      BY <1>1, <1>2, <2>1 DEF PcStep, Phases, ScatterPhases, AfterR, AfterS, LookPhase, SecondPhase
    <3>2. \A u \in Builders : pc'[u] \notin Partitioning
      BY <1>1, <1>3, <3>1 DEF Partitioning
    <3>3. pc'[0] = "skewtasks" => skewtask' = skewtask /\ pc[0] = "skewtasks"
      BY <1>0, <1>3, <2>1, <3>1 DEF Advance
    <3> QED BY <3>2, <3>3 DEF SkewKnown, PhaseInv
  <2>2. CASE pc[t] # "fetch"
    <3>1. skewtask' = skewtask
      BY <1>0, <2>2 DEF Advance
    <3>2. pc'[0] = "skewtasks" => skewtask # NULL
      BY <1>0, <1>2, <1>3 DEF PhaseInv, SkewKnown, PcStep
    <3>3. ASSUME NEW u \in Builders, pc'[u] \in Partitioning, part'[u] = "skew"
          PROVE  skewtask # NULL
      <4>1. part'[u] = part[u]
        <5>1. pc[t] = "share" => c \notin Partitioning
          BY <1>2 DEF PcStep, Partitioning
        <5> QED BY <1>0, <1>3, <3>3, <5>1 DEF Advance
      <4>2. CASE u # t
        BY <1>3, <3>3, <4>1, <4>2 DEF PhaseInv, SkewKnown
      <4>3. CASE u = t
        <5>1. pc[t] \in Partitioning \/ (pc[t] = "look" /\ skewtask # NULL)
          <6>1. c \in Partitioning
            BY <1>3, <3>3, <4>3
          <6> QED BY <1>2, <6>1 DEF PcStep, Partitioning
        <5> QED BY <3>3, <4>1, <4>3, <5>1 DEF PhaseInv, SkewKnown
      <4> QED BY <4>2, <4>3
    <3> QED BY <3>1, <3>2, <3>3 DEF SkewKnown
  <2> QED BY <2>1, <2>2
<1>7. build \in Builds /\ build' \in Builds /\ part' \in [Builders -> {"first", "skew"}]
  BY <1>0, <1>3 DEF PhaseInv, Advance
<1>8. pc' \in [Builders -> BuildPC'] /\ BuildPC' = BuildPC
  <2>1. BuildPC' = BuildPC
    BY <1>3, BarrierFacts DEF BuildPC, AfterBarrier
  <2> QED BY <1>2, <1>3, <2>1
<1> QED BY <1>4, <1>5, <1>6, <1>7, <1>8 DEF PhaseInv

(* A barrier opens for all threads, into one phase.                        *)
LEMMA PhaseRelease ==
    ASSUME PhaseInv, Release PROVE PhaseInv'
<1>0. /\ 0 \in Builders /\ pc[0] \in DOMAIN AfterBarrier /\ \A t \in Builders : pc[t] = pc[0]
      /\ UNCHANGED <<build, part, skewtask>>
  BY PhjAssumption DEF Release, Open, Builders, inputs, local
<1>1. \A t \in Builders : part[t] = IF pc[0] = "shared" THEN IF build.skew THEN "skew" ELSE "first"
                                    ELSE part[0]
  BY <1>0, BarrierFacts DEF PhaseInv, Turns, SecondPhase
<1>2. PICK c : c = AfterBarrier[pc[0]]
  OBVIOUS
<1>3. pc' = [t \in Builders |-> c] /\ c \in BuildPC
  <2>1. pc' = [t \in Builders |-> c]
    BY <1>2 DEF Release, Open
  <2>2. c \in {"zero", "countR", "scatterR", "scatterS", "restsR", "restsS", "tasks", "second",
               "share", "fetch", "max", "look", "skewtasks", "exit"}
    BY <1>0, <1>2, BarrierFacts
  <2> QED BY <2>1, <2>2 DEF BuildPC
<1>4. PICK Q \in Phases : pc[0] \in Q
  BY <1>0 DEF PhaseInv, SamePhase
<1>5. /\ pc[0] \in {"linedR", "linedS"} => build.swwcb
      /\ c \in {"restsR", "restsS"} => build.swwcb
  <2>1. pc[0] \in {"linedR", "linedS"} => build.swwcb
    BY <1>4 DEF Phases, ScatterPhases, AfterR, AfterS, LookPhase, SecondPhase
  <2> QED BY <1>0, <1>2, <2>1, BarrierFacts
<1>6. \E P \in Phases : c \in P
  <2>1. CASE c \in {"scatterR", "scatterS", "restsR", "restsS"}
    <3>1. ScatterPhases \subseteq Phases
      BY DEF Phases
    <3>2. CASE build.swwcb
      <4>1. /\ {"scatterR", "linedR"} \in ScatterPhases /\ {"scatterS", "linedS"} \in ScatterPhases
            /\ {"restsR"} \cup AfterR \in ScatterPhases /\ {"restsS"} \cup AfterS \in ScatterPhases
        BY <3>2 DEF ScatterPhases
      <4> QED BY <2>1, <3>1, <4>1
    <3>3. CASE ~build.swwcb
      <4>1. /\ {"scatterR"} \cup AfterR \in ScatterPhases
            /\ {"scatterS"} \cup AfterS \in ScatterPhases
        BY <3>3 DEF ScatterPhases
      <4> QED BY <1>5, <2>1, <3>1, <3>3, <4>1
    <3> QED BY <3>2, <3>3
  <2>2. CASE c \in {"zero", "countR", "tasks", "skewtasks", "fetch", "max", "exit"}
    <3>1. /\ {"zero", "zeroed"} \in Phases /\ {"countR", "countedR"} \in Phases
          /\ {"tasks", "queued"} \in Phases /\ {"skewtasks", "fetch", "fetched"} \in Phases
          /\ {"max", "maxed"} \in Phases /\ {"exit"} \in Phases
      BY DEF Phases
    <3> QED BY <2>2, <3>1
  <2>3. CASE c \in {"second", "share"}
    <3>1. SecondPhase \in Phases
      BY DEF Phases
    <3>2. c \in SecondPhase
      BY <2>3 DEF SecondPhase
    <3> QED BY <3>1, <3>2, Zenon
  <2>4. CASE c = "look"
    <3>1. LookPhase \in Phases
      BY DEF Phases
    <3>2. c \in LookPhase
      BY <2>4 DEF LookPhase
    <3> QED BY <3>1, <3>2, Zenon
  <2> QED BY <1>0, <1>2, <2>1, <2>2, <2>3, <2>4, BarrierFacts
<1>7. Phases' = Phases /\ BuildPC' = BuildPC
  <2>1. SecondRels' = SecondRels
    BY <1>0 DEF SecondRels
  <2> QED BY <1>0, <2>1 DEF Phases, ScatterPhases, LookPhase, AfterR, AfterS, BuildPC, AfterBarrier
<1>8. SamePhase'
  BY <1>3, <1>6, <1>7 DEF SamePhase
<1>9. Turns'
  <2>1. \A t \in Builders : part[t] = part[0]
    BY <1>0, <1>1
  <2>2. /\ c \in {"tasks", "second"} => part[0] = "first"
        /\ c = "share" => part[0] = "first"
        /\ c \in {"fetch", "look", "skewtasks"} => part[0] = "skew"
    BY <1>0, <1>1, <1>2, BarrierFacts DEF PhaseInv, Turns
  <2>3. c \notin {"memset", "ready", "queued", "parted", "pop", "cluster", "emit", "shared",
                  "fetched", "drain", "drained", "skewed"}
    BY <1>0, <1>2, BarrierFacts
  <2> QED BY <1>0, <1>3, <2>1, <2>2, <2>3 DEF Turns
<1>10. SkewKnown'
  <2>1. c \in Partitioning \cup {"skewtasks"} => pc[0] \in Partitioning \/ pc[0] = "ready"
    BY <1>0, <1>2, BarrierFacts DEF Partitioning
  <2>2. pc[0] = "ready" => part[0] = "first" /\ c = "zero"
    BY <1>0, <1>2, BarrierFacts DEF PhaseInv, Turns
  <2>3. pc[0] = "skewed" => part[0] = "skew"
    BY <1>0 DEF PhaseInv, Turns
  <2>4. c = "skewtasks" => pc[0] = "skewed"
    BY <1>0, <1>2, BarrierFacts
  <2>5. pc[0] \in Partitioning /\ part[0] = "skew" => skewtask # NULL
    BY <1>0 DEF PhaseInv, SkewKnown
  <2>6. \A t \in Builders : part[t] = "skew" /\ c \in Partitioning => skewtask # NULL
    BY <1>0, <1>1, <2>1, <2>2, <2>5
  <2>7. c = "skewtasks" => skewtask # NULL
    BY <2>3, <2>4, <2>5 DEF Partitioning
  <2> QED BY <1>0, <1>3, <2>6, <2>7 DEF SkewKnown
<1> QED BY <1>0, <1>3, <1>7, <1>8, <1>9, <1>10 DEF PhaseInv

(* The other steps are not the build threads'.                             *)
LEMMA OtherSteps ==
    ASSUME \/ \E p \in Probers : Probejoin(p)
           \/ SpawnProbers \/ ReleaseProbe \/ Collect \/ Terminated
    PROVE  UNCHANGED <<inputs, builder, skew_queue>>
<1>1. ASSUME NEW p \in Probers, Probejoin(p) PROVE UNCHANGED <<inputs, builder, skew_queue>>
  BY <1>1 DEF Probejoin, Wipe, PopJoin, BuildTable, Reorder, ProbeTable, queues
<1>2. CASE SpawnProbers
  BY <1>2 DEF SpawnProbers
<1>3. CASE ReleaseProbe \/ Collect
  BY <1>3 DEF ReleaseProbe, Collect, queues
<1>4. CASE Terminated
  BY <1>4 DEF Terminated, vars, queues
<1> QED BY <1>1, <1>2, <1>3, <1>4

(* The invariant holds in the beginning and is kept.                       *)
LEMMA PhaseInit == Init => PhaseInv
<1> SUFFICES ASSUME Init PROVE PhaseInv
  OBVIOUS
<1>0. /\ build \in Builds /\ pc = [t \in Builders |-> "memset"]
      /\ part = [t \in Builders |-> "first"] /\ 0 \in Builders
  BY PhjAssumption DEF Init, Load, LoadInto, Pool, Builders
<1>1. SamePhase
  <2>1. {"memset", "ready"} \in Phases
    BY DEF Phases
  <2>2. \A t \in Builders : pc[t] \in {"memset", "ready"}
    BY <1>0
  <2> QED BY <2>1, <2>2, Zenon DEF SamePhase
<1>2. Turns /\ SkewKnown
  BY <1>0 DEF Turns, SkewKnown, Partitioning
<1>3. pc \in [Builders -> BuildPC]
  BY <1>0 DEF BuildPC
<1> QED BY <1>0, <1>1, <1>2, <1>3 DEF PhaseInv

(* ... in every step.                                                      *)
LEMMA PhaseNext == PhaseInv /\ [Next]_vars => PhaseInv'
<1> SUFFICES ASSUME PhaseInv, [Next]_vars PROVE PhaseInv'
  OBVIOUS
<1>1. ASSUME NEW t \in Builders, Buildpart(t) PROVE PhaseInv'
  BY <1>1, PhaseStep
<1>2. CASE Release
  BY <1>2, PhaseRelease
<1>3. ASSUME UNCHANGED <<inputs, builder>> PROVE PhaseInv'
  <2>1. UNCHANGED <<build, pc, part, skewtask>>
    BY <1>3 DEF inputs, builder, local
  <2>2. SecondRels' = SecondRels
    BY <2>1 DEF SecondRels
  <2>3. Phases' = Phases /\ BuildPC' = BuildPC
    BY <2>1, <2>2 DEF Phases, ScatterPhases, LookPhase, AfterR, AfterS, BuildPC, AfterBarrier
  <2> QED BY <2>1, <2>3 DEF PhaseInv, SamePhase, Turns, SkewKnown
<1>4. CASE UNCHANGED vars
  BY <1>3, <1>4 DEF vars
<1> QED BY <1>1, <1>2, <1>3, <1>4, OtherSteps DEF Next, Main

(* The barriers keep the threads in one phase, whatever each of them does  *)
(* in it, and nobody partitions a skew task that is not there              *)
(* (prj_thread_buildpart, phj.c:1140-1687).                                *)
THEOREM PhaseInvariant == Spec => []PhaseInv
  BY PhaseInit, PhaseNext, PTL DEF Spec

(* Thread 0 puts the next task where the others read the current one only  *)
(* when they are done with it (phj.c:1471, 1478, 1575).                    *)
THEOREM SkewTaskIsStable == Spec => SkewTaskStable
<1> DEFINE Stable == skewtask' # skewtask =>
                         \A t \in Builders \ {0} : pc[t] \in {"skewtasks", "fetch", "fetched"}
<1>1. PhaseInv /\ [Next]_vars => [Stable]_vars
  <2> SUFFICES ASSUME PhaseInv, Next, skewtask' # skewtask, NEW t \in Builders
               PROVE  pc[t] \in {"skewtasks", "fetch", "fetched"}
    OBVIOUS
  <2>1. PICK u \in Builders : Buildpart(u)
    <3>1. UNCHANGED <<inputs, builder>> \/ Release => UNCHANGED skewtask
      BY DEF builder, Release, Open
    <3> QED BY <3>1, OtherSteps DEF Next, Main
  <2>2. pc[u] = "fetch"
    BY <2>1, StepAdvances DEF Advance
  <2>3. PICK P \in Phases : \A v \in Builders : pc[v] \in P
    BY DEF PhaseInv, SamePhase
  <2> QED BY <2>2, <2>3 DEF Phases, ScatterPhases, AfterR, AfterS, LookPhase, SecondPhase
<1> QED BY <1>1, PhaseInvariant, PTL DEF Spec, SkewTaskStable
-----------------------------------------------------------------------------
(***************************************************************************)
(* What FlattenSeq, task_queue_add and task_queue_get make of the tasks.   *)
(***************************************************************************)

(* The places in the first n of some sequences, and a list of them: each   *)
(* place of the sequence `out' is one of those, with what is there.        *)
Spots(seqs, n) == {q \in (1 .. n) \X Nat : q[2] \in 1 .. Len(seqs[q[1]])}

Lists(out, seqs, n, g) ==
    /\ g \in [1 .. Len(out) -> Spots(seqs, n)]
    /\ \A a, b \in 1 .. Len(out) : g[a] = g[b] => a = b
    /\ \A q \in Spots(seqs, n) : \E a \in 1 .. Len(out) : g[a] = q
    /\ \A a \in 1 .. Len(out) : out[a] = seqs[g[a][1]][g[a][2]]

(* The recursion of FlattenSeq.                                            *)
Flattening(seqs, n, f) ==
    f = [i \in 1 .. n |-> IF i = 1 THEN seqs[i] ELSE f[i - 1] \o seqs[i]]

(* There is a function that satisfies it.                                  *)
LEMMA FlattenExists ==
    ASSUME NEW seqs PROVE \A n \in Nat : \E f : Flattening(seqs, n, f)
<1> DEFINE G == {n \in Nat : \E f : Flattening(seqs, n, f)}
<1>1. 0 \in G
  <2> DEFINE f == [i \in 1 .. 0 |-> 0]
  <2>1. Flattening(seqs, 0, f)
    BY DEF Flattening
  <2> QED BY <2>1
<1>2. ASSUME NEW n \in Nat, n \in G PROVE n + 1 \in G
  <2>1. PICK f : Flattening(seqs, n, f)
    BY <1>2
  <2> DEFINE h == [i \in 1 .. n + 1 |->
                     IF i = n + 1 THEN IF i = 1 THEN seqs[i] ELSE f[i - 1] \o seqs[i] ELSE f[i]]
  <2>2. ASSUME NEW i \in 1 .. n + 1
        PROVE  h[i] = IF i = 1 THEN seqs[i] ELSE h[i - 1] \o seqs[i]
    <3>1. CASE i = n + 1
      <4>1. i # 1 => i - 1 \in 1 .. n /\ h[i - 1] = f[i - 1]
        BY <3>1
      <4> QED BY <3>1, <4>1
    <3>2. CASE i # n + 1
      <4>1. i \in 1 .. n /\ h[i] = f[i] /\ (i # 1 => i - 1 \in 1 .. n /\ h[i - 1] = f[i - 1])
        BY <3>2
      <4>2. f[i] = IF i = 1 THEN seqs[i] ELSE f[i - 1] \o seqs[i]
        BY <2>1, <4>1 DEF Flattening
      <4> QED BY <4>1, <4>2
    <3> QED BY <3>1, <3>2
  <2>3. h = [i \in 1 .. n + 1 |-> h[i]]
    OBVIOUS
  <2> HIDE DEF h
  <2>4. Flattening(seqs, n + 1, h)
    BY <2>2, <2>3 DEF Flattening
  <2> QED BY <2>4
<1>3. Nat \subseteq G
  <2> HIDE DEF G
  <2> QED BY <1>1, <1>2, NatSetInduction
<1> QED BY <1>3

(* Concatenation, with names for the lengths.                              *)
LEMMA ConcatFacts ==
    ASSUME NEW T, NEW a \in Seq(T), NEW b \in Seq(T), NEW k, k = Len(a), NEW l, l = Len(b)
    PROVE  /\ a \o b \in Seq(T) /\ Len(a \o b) = k + l /\ k \in Nat /\ l \in Nat
           /\ DOMAIN (a \o b) = 1 .. k + l
           /\ \A i \in 1 .. k + l : (a \o b)[i] = IF i <= k THEN a[i] ELSE b[i - k]
<1>1. /\ a \o b \in Seq(T) /\ Len(a \o b) = Len(a) + Len(b) /\ k \in Nat /\ l \in Nat
      /\ DOMAIN (a \o b) = 1 .. Len(a \o b)
  BY ConcatProperties
<1>2. \A i \in 1 .. Len(a) + Len(b) : (a \o b)[i] = IF i <= Len(a) THEN a[i] ELSE b[i - Len(a)]
  BY ConcatProperties
<1> QED BY <1>1, <1>2

(* The same as a predicate, to be used without expanding it.               *)
IsConcat(out, a, b, T) ==
    /\ out \in Seq(T) /\ Len(out) = Len(a) + Len(b)
    /\ \A i \in 1 .. Len(a) + Len(b) : out[i] = IF i <= Len(a) THEN a[i] ELSE b[i - Len(a)]

(* A concatenation satisfies it.                                           *)
LEMMA ConcatIsConcat ==
    ASSUME NEW T PROVE \A a \in Seq(T) : \A b \in Seq(T) : IsConcat(a \o b, a, b, T)
  BY ConcatProperties DEF IsConcat

(* What FlattenSeq returns has each place of the sequences once.           *)
LEMMA FlattenLists ==
    ASSUME NEW T, NEW seqs \in Seq(Seq(T))
    PROVE  /\ FlattenSeq(seqs) \in Seq(T)
           /\ \E g : Lists(FlattenSeq(seqs), seqs, Len(seqs), g)
<1>1. CASE Len(seqs) = 0
  <2> DEFINE g == [a \in 1 .. 0 |-> 0]
  <2>1. FlattenSeq(seqs) = <<>>
    BY <1>1 DEF FlattenSeq
  <2>2. Spots(seqs, Len(seqs)) = {}
    BY <1>1 DEF Spots
  <2>3. Lists(<<>>, seqs, Len(seqs), g)
    BY <2>2 DEF Lists
  <2> QED BY <2>1, <2>3
<1>2. CASE Len(seqs) # 0
  <2> DEFINE m == Len(seqs)
             f == CHOOSE f : Flattening(seqs, m, f)
  <2>1. m \in Nat \ {0} /\ \A i \in 1 .. m : seqs[i] \in Seq(T)
    BY <1>2
  <2>2. FlattenSeq(seqs) = f[m]
    BY <1>2 DEF FlattenSeq, Flattening
  <2> HIDE DEF m
  <2>3. Flattening(seqs, m, f)
    BY <2>1, FlattenExists
  <2> HIDE DEF f
  <2>4. f[1] = seqs[1] /\ \A i \in 2 .. m : f[i] = f[i - 1] \o seqs[i]
    <3>1. ASSUME NEW i \in 1 .. m PROVE f[i] = IF i = 1 THEN seqs[i] ELSE f[i - 1] \o seqs[i]
      BY <2>3, Zenon DEF Flattening
    <3>2. f[1] = seqs[1]
      <4>1. 1 \in 1 .. m
        BY <2>1
      <4> QED BY <3>1, <4>1, Zenon
    <3>3. ASSUME NEW i \in 2 .. m PROVE f[i] = f[i - 1] \o seqs[i]
      <4>1. i \in 1 .. m /\ i # 1
        BY <2>1
      <4> QED BY <3>1, <4>1, Zenon
    <3> QED BY <3>2, <3>3
  <2> DEFINE Good(i) == f[i] \in Seq(T) /\ \E g : Lists(f[i], seqs, i, g)
             G == {n \in Nat : n + 1 \in 1 .. m => Good(n + 1)}
  <2>5. Good(1)
    <3> DEFINE g == [a \in 1 .. Len(seqs[1]) |-> <<1, a>>]
    <3>1. f[1] = seqs[1] /\ seqs[1] \in Seq(T) /\ Len(seqs[1]) \in Nat
      BY <2>1, <2>4
    <3>2. Lists(seqs[1], seqs, 1, g)
      <4>1. \A a \in 1 .. Len(seqs[1]) : g[a] \in Spots(seqs, 1)
        BY <3>1 DEF Spots
      <4>2. \A q \in Spots(seqs, 1) : q[2] \in 1 .. Len(seqs[1]) /\ g[q[2]] = q
        BY <3>1 DEF Spots
      <4> QED BY <4>1, <4>2 DEF Lists
    <3> QED BY <3>1, <3>2
  <2>6. ASSUME NEW i \in Nat, i \in 1 .. m - 1, Good(i) PROVE Good(i + 1)
    <3>1. PICK g : Lists(f[i], seqs, i, g)
      BY <2>6
    <3> DEFINE k == Len(f[i])
               l == Len(seqs[i + 1])
               out == f[i] \o seqs[i + 1]
               h == [a \in 1 .. k + l |-> IF a <= k THEN g[a] ELSE <<i + 1, a - k>>]
    <3>2. f[i + 1] = out /\ f[i] \in Seq(T) /\ seqs[i + 1] \in Seq(T)
      <4>1. i + 1 \in 2 .. m /\ i + 1 \in 1 .. m /\ (i + 1) - 1 = i
        BY <2>1, <2>6
      <4>2. f[i + 1] = f[(i + 1) - 1] \o seqs[i + 1]
        BY <2>4, <4>1, Zenon
      <4> QED BY <2>1, <2>6, <4>1, <4>2
    <3>3. /\ out \in Seq(T) /\ Len(out) = k + l /\ k \in Nat /\ l \in Nat
          /\ \A a \in 1 .. k + l : out[a] = IF a <= k THEN f[i][a] ELSE seqs[i + 1][a - k]
      <4>1. k = Len(f[i]) /\ l = Len(seqs[i + 1]) /\ out = f[i] \o seqs[i + 1]
        OBVIOUS
      <4> HIDE DEF k, l, out, h
      <4>2. f[i] \in Seq(T) /\ seqs[i + 1] \in Seq(T)
        BY <3>2
      <4>3. IsConcat(f[i] \o seqs[i + 1], f[i], seqs[i + 1], T)
        BY <4>2, ConcatIsConcat, Zenon
      <4>4. k \in Nat /\ l \in Nat
        BY <4>1, <4>2
      <4> QED BY <4>1, <4>3, <4>4 DEF IsConcat
    <3> HIDE DEF k, out
    <3>4. \A a \in 1 .. k : g[a] \in Spots(seqs, i) /\ f[i][a] = seqs[g[a][1]][g[a][2]]
      BY <3>1 DEF Lists, k
    <3>5. \A q \in Spots(seqs, i + 1) : q \in Spots(seqs, i) \/ (q[1] = i + 1 /\ q[2] \in 1 .. l)
      BY DEF Spots
    <3>6. \A q \in Spots(seqs, i) : q \in Spots(seqs, i + 1) /\ q[1] # i + 1
      BY DEF Spots
    <3>7. \A u \in 1 .. l : <<i + 1, u>> \in Spots(seqs, i + 1)
      BY DEF Spots
    <3> HIDE DEF l
    <3>8. ASSUME NEW a \in 1 .. k + l
          PROVE  h[a] \in Spots(seqs, i + 1) /\ out[a] = seqs[h[a][1]][h[a][2]]
      <4>1. CASE a <= k
        <5>1. a \in 1 .. k
          BY <3>3, <4>1
        <5> QED BY <3>3, <3>4, <3>6, <4>1, <5>1
      <4>2. CASE ~(a <= k)
        <5>1. a - k \in 1 .. l
          BY <3>3, <4>2
        <5> QED BY <3>3, <3>7, <4>2, <5>1
      <4> QED BY <4>1, <4>2
    <3>9. ASSUME NEW a \in 1 .. k + l, NEW b \in 1 .. k + l, h[a] = h[b] PROVE a = b
      <4>1. CASE a <= k /\ b <= k
        <5>1. a \in 1 .. k /\ b \in 1 .. k /\ g[a] = g[b]
          BY <3>3, <3>9, <4>1
        <5> QED BY <3>1, <5>1 DEF Lists, k
      <4>2. CASE ~(a <= k) /\ ~(b <= k)
        BY <3>3, <3>9, <4>2
      <4>3. CASE a <= k /\ ~(b <= k)
        <5>1. a \in 1 .. k /\ g[a] = <<i + 1, b - k>>
          BY <3>3, <3>9, <4>3
        <5> QED BY <3>4, <3>6, <5>1
      <4>4. CASE ~(a <= k) /\ b <= k
        <5>1. b \in 1 .. k /\ g[b] = <<i + 1, a - k>>
          BY <3>3, <3>9, <4>4
        <5> QED BY <3>4, <3>6, <5>1
      <4> QED BY <4>1, <4>2, <4>3, <4>4
    <3>10. ASSUME NEW q \in Spots(seqs, i + 1) PROVE \E a \in 1 .. k + l : h[a] = q
      <4>1. CASE q \in Spots(seqs, i)
        <5>1. PICK a \in 1 .. k : g[a] = q
          BY <3>1, <4>1 DEF Lists, k
        <5>2. a \in 1 .. k + l /\ h[a] = q
          BY <3>3, <5>1
        <5> QED BY <5>2
      <4>2. CASE q[1] = i + 1 /\ q[2] \in 1 .. l
        <5>1. q[2] + k \in 1 .. k + l /\ ~(q[2] + k <= k) /\ (q[2] + k) - k = q[2]
          BY <3>3, <4>2
        <5>2. h[q[2] + k] = <<i + 1, q[2]>> /\ q = <<q[1], q[2]>>
          BY <5>1 DEF Spots
        <5> QED BY <4>2, <5>1, <5>2
      <4> QED BY <3>5, <4>1, <4>2
    <3>11. h \in [1 .. k + l -> Spots(seqs, i + 1)]
      BY <3>8
    <3> HIDE DEF h
    <3>12. Lists(out, seqs, i + 1, h)
      BY <3>3, <3>8, <3>9, <3>10, <3>11 DEF Lists
    <3> QED BY <3>2, <3>3, <3>12
  <2>7. Nat \subseteq G
    <3>1. 0 \in G
      BY <2>5
    <3>2. \A n \in Nat : n \in G => n + 1 \in G
      <4> TAKE n \in Nat
      <4> SUFFICES ASSUME n \in G, (n + 1) + 1 \in 1 .. m PROVE Good((n + 1) + 1)
        OBVIOUS
      <4>1. n + 1 \in 1 .. m - 1 /\ n + 1 \in 1 .. m /\ n + 1 \in Nat
        BY <2>1
      <4>2. Good(n + 1)
        BY <4>1
      <4> HIDE DEF Good
      <4> QED BY <2>6, <4>1, <4>2
    <3> HIDE DEF G
    <3> QED BY <3>1, <3>2, NatSetInduction
  <2>8. Good(m)
    <3>0. m - 1 \in Nat /\ (m - 1) + 1 = m /\ m \in 1 .. m
      BY <2>1
    <3>1. m - 1 \in G
      BY <2>7, <3>0
    <3> HIDE DEF Good
    <3> QED BY <3>0, <3>1
  <2> QED BY <2>2, <2>8 DEF m
<1> QED BY <1>1, <1>2

(* Its elements are those of the sequences.                                *)
LEMMA FlattenToSet ==
    ASSUME NEW T, NEW seqs \in Seq(Seq(T))
    PROVE  ToSet(FlattenSeq(seqs)) = UNION {ToSet(seqs[i]) : i \in 1 .. Len(seqs)}
<1> DEFINE out == FlattenSeq(seqs)
           n == Len(seqs)
<1>1. out \in Seq(T) /\ \E g : Lists(out, seqs, n, g)
  BY FlattenLists
<1>2. n \in Nat /\ \A i \in 1 .. n : seqs[i] \in Seq(T)
  OBVIOUS
<1>3. \A i \in 1 .. n : DOMAIN seqs[i] = 1 .. Len(seqs[i]) /\ Len(seqs[i]) \in Nat
  BY <1>2
<1>4. DOMAIN out = 1 .. Len(out)
  BY <1>1
<1> HIDE DEF out, n
<1>5. PICK g : Lists(out, seqs, n, g)
  BY <1>1
<1>6. ASSUME NEW a \in DOMAIN out PROVE out[a] \in UNION {ToSet(seqs[i]) : i \in 1 .. n}
  <2>1. g[a] \in Spots(seqs, n) /\ out[a] = seqs[g[a][1]][g[a][2]]
    BY <1>4, <1>5 DEF Lists
  <2>2. g[a][1] \in 1 .. n /\ g[a][2] \in DOMAIN seqs[g[a][1]]
    BY <1>3, <2>1 DEF Spots
  <2>3. out[a] \in ToSet(seqs[g[a][1]])
    BY <2>1, <2>2 DEF ToSet
  <2> QED BY <2>2, <2>3
<1>7. ASSUME NEW i \in 1 .. n, NEW k \in DOMAIN seqs[i] PROVE seqs[i][k] \in ToSet(out)
  <2>1. <<i, k>> \in Spots(seqs, n)
    BY <1>3, <1>7 DEF Spots
  <2>2. PICK a \in 1 .. Len(out) : g[a] = <<i, k>>
    BY <1>5, <2>1 DEF Lists
  <2>3. out[a] = seqs[i][k]
    BY <1>5, <2>2 DEF Lists
  <2> QED BY <1>4, <2>3 DEF ToSet
<1> QED BY <1>6, <1>7 DEF ToSet, out, n

(* Pushed adds all tasks to those in the queue.                            *)
LEMMA PushedFacts ==
    ASSUME NEW T, NEW queue \in Seq(T), NEW tasks \in Seq(T)
    PROVE  /\ Pushed(queue, tasks) \in Seq(T)
           /\ ToSet(Pushed(queue, tasks)) = ToSet(queue) \cup ToSet(tasks)
<1> DEFINE back == Reverse(tasks)
           l == Len(tasks)
           k == Len(queue)
<1>1. l \in Nat /\ k \in Nat /\ DOMAIN tasks = 1 .. l /\ DOMAIN queue = 1 .. k
  OBVIOUS
<1>2. back = [i \in 1 .. l |-> tasks[(l - i) + 1]]
  BY DEF Reverse
<1> HIDE DEF back, l, k
<1>3. \A i \in 1 .. l : (l - i) + 1 \in 1 .. l /\ tasks[(l - i) + 1] \in T
  BY <1>1
<1>4. back \in [1 .. l -> T]
  BY <1>2, <1>3
<1>5. back \in Seq(T) /\ Len(back) = l /\ DOMAIN back = 1 .. l
  BY <1>1, <1>4
<1>6. ToSet(back) = ToSet(tasks)
  <2>1. \A i \in 1 .. l : (l - ((l - i) + 1)) + 1 = i
    BY <1>1
  <2>2. \A i \in 1 .. l : tasks[i] = back[(l - i) + 1]
    BY <1>2, <1>3, <2>1
  <2> QED BY <1>1, <1>2, <1>3, <1>5, <2>2 DEF ToSet
<1> DEFINE out == back \o queue
<1>7. /\ out \in Seq(T) /\ Len(out) = l + k /\ DOMAIN out = 1 .. l + k
      /\ \A i \in 1 .. l + k : out[i] = IF i <= l THEN back[i] ELSE queue[i - l]
  BY <1>5, ConcatFacts DEF k
<1> HIDE DEF out
<1>8. ToSet(out) = ToSet(back) \cup ToSet(queue)
  <2>1. ASSUME NEW i \in 1 .. l + k PROVE out[i] \in ToSet(back) \cup ToSet(queue)
    <3>1. CASE i <= l
      <4>1. i \in 1 .. l
        BY <1>1, <3>1
      <4> QED BY <1>5, <1>7, <3>1, <4>1 DEF ToSet
    <3>2. CASE ~(i <= l)
      <4>1. i - l \in 1 .. k
        BY <1>1, <3>2
      <4> QED BY <1>1, <1>7, <3>2, <4>1 DEF ToSet
    <3> QED BY <3>1, <3>2
  <2>2. ASSUME NEW i \in 1 .. l PROVE back[i] \in ToSet(out)
    <3>1. i \in 1 .. l + k /\ i <= l
      BY <1>1
    <3> QED BY <1>7, <3>1 DEF ToSet
  <2>3. ASSUME NEW i \in 1 .. k PROVE queue[i] \in ToSet(out)
    <3>1. i + l \in 1 .. l + k /\ ~(i + l <= l) /\ (i + l) - l = i
      BY <1>1
    <3> QED BY <1>7, <3>1 DEF ToSet
  <2>4. /\ ToSet(out) = {out[i] : i \in 1 .. l + k} /\ ToSet(back) = {back[i] : i \in 1 .. l}
        /\ ToSet(queue) = {queue[i] : i \in 1 .. k}
    BY <1>1, <1>5, <1>7 DEF ToSet
  <2> QED BY <2>1, <2>2, <2>3, <2>4
<1> QED BY <1>6, <1>7, <1>8 DEF Pushed, out, back

(* Taking the first task.                                                  *)
LEMMA PoppedFacts ==
    ASSUME NEW T, NEW queue \in Seq(T), queue # <<>>
    PROVE  /\ Head(queue) \in T /\ Tail(queue) \in Seq(T)
           /\ ToSet(queue) = {Head(queue)} \cup ToSet(Tail(queue))
<1> DEFINE n == Len(queue)
           rest == Tail(queue)
<1>1. /\ n \in Nat \ {0} /\ DOMAIN queue = 1 .. n /\ Head(queue) = queue[1] /\ queue[1] \in T
      /\ rest \in Seq(T) /\ Len(rest) = n - 1 /\ DOMAIN rest = 1 .. Len(rest)
      /\ \A i \in 1 .. Len(rest) : rest[i] = queue[i + 1]
  BY HeadTailProperties, EmptySeq
<1> HIDE DEF n, rest
<1>2. ASSUME NEW i \in 1 .. n PROVE queue[i] \in {queue[1]} \cup ToSet(rest)
  <2>1. CASE i # 1
    <3>1. i - 1 \in 1 .. n - 1 /\ (i - 1) + 1 = i
      BY <1>1, <2>1
    <3> QED BY <1>1, <3>1 DEF ToSet
  <2> QED BY <2>1
<1>3. ASSUME NEW i \in 1 .. n - 1 PROVE rest[i] \in ToSet(queue)
  <2>1. i + 1 \in 1 .. n
    BY <1>1
  <2> QED BY <1>1, <2>1 DEF ToSet
<1>4. 1 \in 1 .. n
  BY <1>1
<1> QED BY <1>1, <1>2, <1>3, <1>4 DEF ToSet, rest

(* Among leaves the tasks that are in the set.                             *)
LEMMA AmongFacts ==
    ASSUME NEW T, NEW tasks \in Seq(T), NEW set
    PROVE  /\ Among(tasks, set) \in Seq(T \cap set)
           /\ ToSet(Among(tasks, set)) = ToSet(tasks) \cap set
<1> DEFINE n == Len(tasks)
           seqs == [i \in DOMAIN tasks |-> IF tasks[i] \in set THEN <<tasks[i]>> ELSE <<>>]
<1>1. n \in Nat /\ DOMAIN tasks = 1 .. n /\ \A i \in 1 .. n : tasks[i] \in T
  OBVIOUS
<1>2. ASSUME NEW i \in 1 .. n
      PROVE  /\ seqs[i] \in Seq(T \cap set)
             /\ ToSet(seqs[i]) = {tasks[i]} \cap set
  <2>1. CASE tasks[i] \in set
    <3>1. seqs[i] = <<tasks[i]>> /\ tasks[i] \in T \cap set /\ seqs[i] \in Seq(T \cap set)
      BY <1>1, <2>1
    <3>2. DOMAIN <<tasks[i]>> = {1} /\ <<tasks[i]>>[1] = tasks[i]
      OBVIOUS
    <3>3. ToSet(<<tasks[i]>>) = {tasks[i]}
      BY <3>2 DEF ToSet
    <3> QED BY <2>1, <3>1, <3>3
  <2>2. CASE tasks[i] \notin set
    <3>1. seqs[i] = <<>>
      BY <1>1, <2>2
    <3>2. ToSet(<<>>) = {}
      BY DEF ToSet
    <3> QED BY <2>2, <3>1, <3>2
  <2> QED BY <2>1, <2>2
<1>3. seqs \in [1 .. n -> Seq(T \cap set)]
  BY <1>1, <1>2
<1>4. seqs \in Seq(Seq(T \cap set)) /\ Len(seqs) = n
  BY <1>1, <1>3
<1>5. Among(tasks, set) = FlattenSeq(seqs)
  BY DEF Among
<1> HIDE DEF n, seqs
<1>6. Among(tasks, set) \in Seq(T \cap set)
  BY <1>4, <1>5, FlattenLists
<1>7. ToSet(Among(tasks, set)) = UNION {ToSet(seqs[i]) : i \in 1 .. n}
  BY <1>4, <1>5, FlattenToSet
<1>8. ToSet(Among(tasks, set)) = UNION {{tasks[i]} \cap set : i \in 1 .. n}
  BY <1>2, <1>7
<1>9. ToSet(tasks) = {tasks[i] : i \in 1 .. n}
  BY <1>1 DEF ToSet
<1> QED BY <1>6, <1>8, <1>9

(***************************************************************************)
(* Layer 2: what the variables hold, and the size of the tables.           *)
(***************************************************************************)

(* The tasks of this module: rooms without regions.                        *)
PlainRooms == [arr : {"org", "tmp", "ext"}, base : Int, num : Int]
PlainTasks == [R : PlainRooms, S : PlainRooms]

PlainHist   == hist \in [Rels -> [Builders -> [0 .. 2^RadixBits - 1 -> Nat]]]
PlainQueues == /\ part_queue \in Seq(PlainTasks) /\ skew_queue \in Seq(PlainTasks)
               /\ join_queue \in Seq(PlainTasks)
PlainSkew   == skewtask # NULL => skewtask \in PlainTasks
PlainLocal  ==
    /\ task \in [Builders -> PlainTasks \cup {NULL}] /\ next \in [Builders -> Nat]
    /\ \A t \in Builders : pc[t] \in {"cluster", "emit"} => task[t] \in PlainTasks
    /\ lmax \in [Builders -> Nat] /\ maxBuild \in [Builders -> Nat]
PlainProbers ==
    /\ size \in Nat
    /\ ppc \in [Probers -> ProbePC] /\ ptask \in [Probers -> PlainTasks \cup {NULL}]
    /\ \A p \in Probers : Joining(p) => ptask[p] \in PlainTasks

Plain == PlainHist /\ PlainQueues /\ PlainSkew /\ PlainLocal /\ PlainProbers

(* Only two passes have a second one, and nobody is in it when the probe   *)
(* threads run.                                                            *)
Unspawned == \A p \in Probers : ppc[p] = "idle"

InOrder ==
    /\ \A t \in Builders : pc[t] \in {"second", "pop", "cluster", "emit"} => build.passes = 2
    /\ \A t \in Builders : part[t] = "skew" => build.passes = 2
    /\ ~Unspawned => \A t \in Builders : pc[t] = "exit"
    /\ build.passes = 2 /\ pc[0] = "share" => part_queue = <<>>
    /\ build.passes = 1 /\ Unspawned => join_queue = <<>>

(* A thread has seen the tasks that it has made, in the second pass or     *)
(* later.                                                                  *)
Past(t) == part[t] = "skew" \/ pc[t] \in {"pop", "cluster", "emit", "share", "shared",
                                          "max", "maxed", "exit"}

SeenBy(x, t) == Past(t) /\ x.R.num <= lmax[t]

(* Its maximum is in its slot.                                             *)
InSlot(t) == part[t] = "skew" \/ pc[t] \in {"shared", "max", "maxed", "exit"}

Measured ==
    /\ \A x \in JoinTasks : \E t \in Builders : SeenBy(x, t)
    /\ Unspawned /\ (build.passes = 1 \/ part[0] = "skew") =>
           \A x \in ToSet(part_queue) : x.R.num <= lmax[0]
    /\ \A t \in Builders \ {0} : IF build.passes = 1 THEN lmax[t] = 0
                                 ELSE InSlot(t) => lmax[t] <= maxBuild[t]
    /\ pc[0] \in {"maxed", "exit"} => \A t \in Builders : lmax[t] <= maxBuild[0]
    /\ ~Unspawned => \A t \in Builders : lmax[t] <= size

FitInv == PhaseInv /\ Plain /\ InOrder /\ Measured
-----------------------------------------------------------------------------
(* The largest of some numbers.                                            *)
LEMMA MaxFacts ==
    ASSUME NEW S, IsFiniteSet(S), S \subseteq Int, S # {}
    PROVE  Max(S) \in S /\ \A x \in S : x <= Max(S)
<1> DEFINE F == {V \in SUBSET S : V # {} => \E m \in V : \A x \in V : m >= x}
<1>1. \A V \in SUBSET S : (\A x \in V : V \ {x} \in F) => V \in F
  <2> SUFFICES ASSUME NEW V \in SUBSET S, \A x \in V : V \ {x} \in F, V # {}
               PROVE  \E m \in V : \A x \in V : m >= x
    OBVIOUS
  <2>1. PICK z : z \in V
    OBVIOUS
  <2>2. CASE V \ {z} = {}
    <3>1. \A x \in V : z >= x
      BY <2>1, <2>2
    <3> QED BY <2>1, <3>1
  <2>3. CASE V \ {z} # {}
    <3>1. PICK m \in V \ {z} : \A x \in V \ {z} : m >= x
      BY <2>1, <2>3
    <3>2. m \in Int /\ z \in Int
      BY <2>1
    <3>3. CASE m >= z
      <4>1. \A x \in V : m >= x
        BY <3>1, <3>3
      <4> QED BY <4>1
    <3>4. CASE ~(m >= z)
      <4>1. \A x \in V : x \in Int /\ z >= x
        BY <3>1, <3>2, <3>4
      <4> QED BY <2>1, <4>1
    <3> QED BY <3>3, <3>4
  <2> QED BY <2>2, <2>3
<1> HIDE DEF F
<1>2. S \in F
  BY <1>1, FiniteSetInduction
<1>3. \E m \in S : \A x \in S : m >= x
  BY <1>2 DEF F
<1>4. Max(S) \in S /\ \A x \in S : Max(S) >= x
  BY <1>3, Zenon DEF Max
<1> QED BY <1>4

(* A function with a finite domain has a finite range.                     *)
LEMMA FiniteRange ==
    ASSUME NEW D, IsFiniteSet(D), NEW f
    PROVE  IsFiniteSet({f[x] : x \in D})
<1> DEFINE T == {f[x] : x \in D}
           g == [x \in D |-> f[x]]
<1>1. g \in Surjection(D, T)
  BY DEF Surjection
<1> HIDE DEF g, T
<1>2. IsFiniteSet(T)
  BY <1>1, FS_Surjection
<1> QED BY <1>2 DEF T

(* The largest R room of some tasks.                                       *)
LEMMA LargestFacts ==
    ASSUME NEW n \in Int, NEW tasks \in Seq(PlainTasks)
    PROVE  /\ Largest(n, tasks) \in Int /\ n <= Largest(n, tasks)
           /\ \A x \in ToSet(tasks) : x.R.num <= Largest(n, tasks)
<1> DEFINE sizes == {x.R.num : x \in ToSet(tasks)}
           S == {n} \cup sizes
<1>1. DOMAIN tasks = 1 .. Len(tasks) /\ Len(tasks) \in Nat
  OBVIOUS
<1>2. IsFiniteSet(DOMAIN tasks)
  BY <1>1, FS_Interval
<1>3. ToSet(tasks) \subseteq PlainTasks
  BY <1>1 DEF ToSet
<1>4. IsFiniteSet(sizes)
  <2> DEFINE f == [i \in DOMAIN tasks |-> tasks[i].R.num]
  <2>1. sizes = {f[i] : i \in DOMAIN tasks}
    BY DEF ToSet
  <2> HIDE DEF f
  <2> QED BY <1>2, <2>1, FiniteRange
<1>5. S \subseteq Int /\ IsFiniteSet(S) /\ n \in S
  <2>1. sizes \subseteq Int
    BY <1>3 DEF PlainTasks, PlainRooms
  <2>2. IsFiniteSet(sizes \cup {n}) /\ sizes \cup {n} = S
    BY <1>4, FS_AddElement
  <2> QED BY <2>1, <2>2
<1> HIDE DEF S
<1>6. Max(S) \in S /\ \A x \in S : x <= Max(S)
  BY <1>5, MaxFacts
<1>7. Largest(n, tasks) = Max(S)
  BY DEF Largest, S
<1>8. \A x \in ToSet(tasks) : x.R.num \in S
  BY DEF S
<1> QED BY <1>5, <1>6, <1>7, <1>8
(* More bits, more partitions.                                             *)
LEMMA PowerMono ==
    ASSUME NEW m \in Nat, NEW n \in Nat, m <= n
    PROVE  2^m \in Nat \ {0} /\ 2^n \in Nat \ {0} /\ 2^m <= 2^n
<1>1. /\ IsFiniteSet(1 .. m) /\ Cardinality(1 .. m) = m
      /\ IsFiniteSet(1 .. n) /\ Cardinality(1 .. n) = n
  BY FS_Interval
<1>2. /\ IsFiniteSet(SUBSET (1 .. m)) /\ Cardinality(SUBSET (1 .. m)) = 2^m
      /\ IsFiniteSet(SUBSET (1 .. n)) /\ Cardinality(SUBSET (1 .. n)) = 2^n
  BY <1>1, FS_SUBSET
<1>3. SUBSET (1 .. m) \subseteq SUBSET (1 .. n)
  <2>1. 1 .. m \subseteq 1 .. n
    OBVIOUS
  <2> QED BY <2>1
<1>4. Cardinality(SUBSET (1 .. m)) <= Cardinality(SUBSET (1 .. n))
  BY <1>2, <1>3, FS_Subset
<1> QED BY <1>2, <1>4, PowerOfTwo

(* The partitions of either pass fit in a histogram.                       *)
LEMMA FanoutFacts ==
    ASSUME build \in Builds
    PROVE  /\ Fanout1 \in Nat \ {0} /\ Fanout1 <= 2^RadixBits
           /\ Fanout2 \in Nat \ {0} /\ Fanout2 <= 2^RadixBits
           /\ Skip \in 0 .. RadixBits /\ 2^RadixBits \in Nat \ {0}
<1>1. RadixBits \in Nat \ {0} /\ BitsPass1 \in 0 .. RadixBits /\ build.passes \in {1, 2}
  BY PhjAssumption
<1>2. RadixBits \div 1 = RadixBits /\ RadixBits \div 2 \in 0 .. RadixBits
  BY <1>1
<1>3. Skip \in 0 .. RadixBits
  BY <1>1, <1>2 DEF Skip
<1>4. RadixBits - Skip \in Nat /\ RadixBits - Skip <= RadixBits /\ Skip \in Nat /\ Skip <= RadixBits
  BY <1>1, <1>3
<1> HIDE DEF Skip
<1> QED BY <1>1, <1>3, <1>4, PowerMono DEF Fanout1, Fanout2

(* A partition has some number of a room's tuples.                         *)
LEMMA CountInNat ==
    ASSUME NEW room, room.num \in Int, "regions" \notin DOMAIN room,
           NEW X, NEW fanout, NEW skip, NEW p
    PROVE  CountIn(X, room, fanout, skip, p) \in Nat
<1> DEFINE S == {k \in Places(X, room) : HashAt(X, room, k, fanout, skip) = p}
<1>1. S \subseteq 0 .. room.num - 1
  BY DEF Places, Spread, Rows
<1>2. IsFiniteSet(0 .. room.num - 1)
  BY FS_Interval
<1> HIDE DEF S
<1>3. IsFiniteSet(S) /\ Cardinality(S) \in Nat
  BY <1>1, <1>2, FS_Subset, FS_CardinalityType
<1> QED BY <1>3 DEF CountIn, S

(* Rooms and tasks of this module.                                         *)
LEMMA RoomFacts ==
    /\ \A a \in {"org", "tmp", "ext"} : \A b, n \in Int :
           /\ Room(a, b, n) \in PlainRooms /\ Room(a, b, n).num = n /\ Room(a, b, n).base = b
           /\ Room(a, b, n).arr = a
    /\ \A room \in PlainRooms : /\ "regions" \notin DOMAIN room
                                /\ room.num \in Int /\ room.base \in Int
                                /\ room.arr \in {"org", "tmp", "ext"}
                                /\ Other(room.arr) \in {"org", "tmp", "ext"}
    /\ \A x, y \in PlainRooms : /\ Task(x, y) \in PlainTasks
                                /\ Task(x, y).R = x /\ Task(x, y).S = y
    /\ \A x \in PlainTasks : \A X \in Rels : x[X] \in PlainRooms
  BY DEF Room, PlainRooms, PlainTasks, Task, Rels, Other, Back

(* The histograms add up.                                                  *)
LEMMA OffsetNat ==
    ASSUME Plain, build \in Builds, NEW t \in Builders, NEW X \in Rels,
           NEW p \in 0 .. 2^RadixBits - 1
    PROVE  Offset(t, X, p) \in Int
<1>1. \A u \in Builders : \A q \in 0 .. 2^RadixBits - 1 : hist[X][u][q] \in Nat
  <2> DEFINE Bins == 0 .. 2^RadixBits - 1
  <2>1. hist \in [Rels -> [Builders -> [Bins -> Nat]]]
    BY DEF Plain, PlainHist
  <2> HIDE DEF Bins
  <2>2. \A u \in Builders : \A q \in Bins : hist[X][u][q] \in Nat
    BY <2>1
  <2> QED BY <2>2 DEF Bins
<1>2. 2^RadixBits \in Nat \ {0} /\ Fanout2 \in Nat /\ Pad \in Nat /\ BuildNum \in Nat
  BY FanoutFacts, PhjAssumption
<1>3. IsFiniteSet(Builders) /\ IsFiniteSet(0 .. p - 1) /\ IsFiniteSet(0 .. t - 1)
  <2>1. 0 \in Int /\ BuildNum - 1 \in Int /\ p - 1 \in Int /\ t - 1 \in Int
    BY <1>2 DEF Builders
  <2> QED BY <2>1, FS_Interval DEF Builders
<1> DEFINE total(q) == SumFunctionOnSet([u \in Builders |-> hist[X][u][q]], Builders)
           totals == [q \in 0 .. p - 1 |-> total(q)]
           before == [u \in 0 .. t - 1 |-> hist[X][u][p]]
<1>4. ASSUME NEW q \in 0 .. p - 1 PROVE total(q) \in Int
  <2> DEFINE f == [u \in Builders |-> hist[X][u][q]]
  <2>1. \A u \in Builders : f[u] \in Int
    <3>1. q \in 0 .. 2^RadixBits - 1
      BY <1>2
    <3>2. \A u \in Builders : hist[X][u][q] \in Nat
      BY <1>1, <3>1
    <3> QED BY <3>2
  <2> HIDE DEF f
  <2>2. SumFunctionOnSet(f, Builders) \in Int
    BY <1>3, <2>1, SumType
  <2> QED BY <2>2 DEF f
<1>5. \A q \in 0 .. p - 1 : totals[q] \in Int
  BY <1>4
<1>6. \A u \in 0 .. t - 1 : before[u] \in Int
  <2>1. \A u \in 0 .. t - 1 : u \in Builders
    BY <1>2 DEF Builders
  <2> QED BY <1>1, <2>1
<1>7. Offset(t, X, p) = SumFunctionOnSet(totals, 0 .. p - 1) + p * Padding(t)
                            + SumFunctionOnSet(before, 0 .. t - 1)
  BY DEF Offset
<1> HIDE DEF totals, before, total
<1>8. SumFunctionOnSet(totals, 0 .. p - 1) \in Int /\ SumFunctionOnSet(before, 0 .. t - 1) \in Int
  BY <1>3, <1>5, <1>6, SumType
<1>9. p * Padding(t) \in Int
  BY <1>2 DEF Padding
<1> QED BY <1>7, <1>8, <1>9

(* The tasks that thread 0 makes after the first pass, or of skewtask.     *)
LEMMA PartTaskPlain ==
    ASSUME Plain, PhaseInv, NEW t \in Builders, NEW total, total["R"] \in Int, total["S"] \in Int,
           part[t] = "skew" => skewtask # NULL, NEW p \in 0 .. Fanout(t) - 1
    PROVE  PartTask(t, total, p) \in PlainTasks
<1>0. /\ build \in Builds /\ part[t] \in {"first", "skew"}
      /\ part[t] = "skew" => skewtask \in PlainTasks
  BY DEF PhaseInv, Plain, PlainSkew
<1>1. /\ Fanout(t) \in Nat \ {0} /\ Fanout(t) <= 2^RadixBits /\ 2^RadixBits \in Nat
      /\ Padding(t) \in Int
  <2>1. Pad \in Nat
    BY PhjAssumption
  <2> QED BY <1>0, <2>1, FanoutFacts DEF Fanout, Padding
<1>2. p \in 0 .. 2^RadixBits - 1 /\ p \in Int /\ (p # Fanout(t) - 1 => p + 1 \in 0 .. 2^RadixBits - 1)
  BY <1>1
<1> HIDE DEF Fanout, Padding
<1> DEFINE room(X) == IF X \in Current(t)
                      THEN Room(Target(t, X), Begin(t, X) + Offset(t, X, p),
                                PartNum(t, X, total[X], p))
                      ELSE skewtask[X]
<1>3. ASSUME NEW X \in Rels PROVE room(X) \in PlainRooms
  <2>1. Offset(t, X, p) \in Int /\ (p # Fanout(t) - 1 => Offset(t, X, p + 1) \in Int)
    BY <1>0, <1>2, OffsetNat
  <2>2. total[X] \in Int
    BY DEF Rels
  <2>3. p * Padding(t) \in Int
    BY <1>1, <1>2
  <2>4. PartNum(t, X, total[X], p) \in Int
    BY <1>1, <2>1, <2>2, <2>3 DEF PartNum
  <2>5. part[t] = "skew" => skewtask[X] \in PlainRooms
    BY <1>0, RoomFacts
  <2>6. Target(t, X) \in {"org", "tmp", "ext"} /\ Begin(t, X) \in Int
    BY <1>0, <2>5, RoomFacts DEF Target, Begin
  <2>7. Begin(t, X) + Offset(t, X, p) \in Int
    BY <2>1, <2>6
  <2>8. X \notin Current(t) => part[t] = "skew"
    BY <1>0 DEF Current
  <2> HIDE DEF Target, Begin, Offset, PartNum, Current
  <2> QED BY <2>4, <2>5, <2>6, <2>7, <2>8, RoomFacts
<1>4. PartTask(t, total, p) = Task(room("R"), room("S"))
  BY DEF PartTask
<1> HIDE DEF room
<1> QED BY <1>3, <1>4, RoomFacts DEF Rels

(* The join tasks of the second pass.                                      *)
LEMMA ClusterTaskPlain ==
    ASSUME build \in Builds, NEW x \in PlainTasks, NEW p \in Nat
    PROVE  ClusterTask(x, p) \in PlainTasks
<1> DEFINE room(X) == IF X \in SecondRels
                      THEN Room(Other(x[X].arr), x[X].base + ClusterOffset(x, X, p),
                                CountIn(X, x[X], Fanout2, Skip, p))
                      ELSE x[X]
<1>1. ASSUME NEW X \in Rels PROVE room(X) \in PlainRooms
  <2>1. x[X] \in PlainRooms
    BY RoomFacts
  <2>2. /\ x[X].num \in Int /\ "regions" \notin DOMAIN x[X] /\ x[X].base \in Int
        /\ Other(x[X].arr) \in {"org", "tmp", "ext"}
    BY <2>1, RoomFacts
  <2> DEFINE counts == [q \in 0 .. p - 1 |-> CountIn(X, x[X], Fanout2, Skip, q)]
  <2>3. \A q : CountIn(X, x[X], Fanout2, Skip, q) \in Nat
    BY <2>2, CountInNat
  <2>4. \A q \in 0 .. p - 1 : counts[q] \in Int
    BY <2>3
  <2>5. ClusterOffset(x, X, p) = SumFunctionOnSet(counts, 0 .. p - 1) + p * Pad
    BY DEF ClusterOffset
  <2> HIDE DEF counts
  <2>6. SumFunctionOnSet(counts, 0 .. p - 1) \in Int
    <3>1. IsFiniteSet(0 .. p - 1)
      BY FS_Interval
    <3> QED BY <2>4, <3>1, SumType
  <2>7. x[X].base + ClusterOffset(x, X, p) \in Int
    <3>1. p * Pad \in Int
      BY PhjAssumption
    <3>2. ClusterOffset(x, X, p) \in Int
      BY <2>5, <2>6, <3>1
    <3> QED BY <2>2, <3>2
  <2>8. CountIn(X, x[X], Fanout2, Skip, p) \in Int
    BY <2>3
  <2> QED BY <2>1, <2>2, <2>7, <2>8, RoomFacts
<1>2. ClusterTask(x, p) = Task(room("R"), room("S"))
  BY DEF ClusterTask
<1> HIDE DEF room
<1> QED BY <1>1, <1>2, RoomFacts DEF Rels

(* The pieces of a large task have its R room.                             *)
LEMMA SplitPlain ==
    ASSUME NEW x \in PlainTasks
    PROVE  Split(x) \in Seq(PlainTasks) /\ \A y \in ToSet(Split(x)) : y.R = x.R
<1>1. x.R \in PlainRooms /\ x.S \in PlainRooms
  BY DEF PlainTasks
<1>2. x.S.base \in Int /\ x.S.num \in Int /\ x.S.arr \in {"org", "tmp", "ext"}
  BY <1>1, RoomFacts
<1>3. ProbeNum \in Nat \ {0}
  BY PhjAssumption
<1> DEFINE n == x.S.num \div ProbeNum
           piece(j) == Room(x.S.arr, x.S.base + (j - 1) * n,
                            IF j = ProbeNum THEN x.S.num - (j - 1) * n ELSE n)
<1>4. n \in Int
  BY <1>2, <1>3
<1> HIDE DEF n
<1>5. ASSUME NEW j \in 1 .. ProbeNum PROVE piece(j) \in PlainRooms
  <2>1. (j - 1) * n \in Int
    BY <1>3, <1>4
  <2>2. x.S.base + (j - 1) * n \in Int /\ x.S.num - (j - 1) * n \in Int
    BY <1>2, <2>1
  <2> QED BY <1>2, <1>4, <2>2, RoomFacts
<1>6. Split(x) = [j \in 1 .. ProbeNum |-> Task(x.R, piece(j))]
  BY DEF Split, n
<1> HIDE DEF piece
<1>7. \A j \in 1 .. ProbeNum : Task(x.R, piece(j)) \in PlainTasks /\ Task(x.R, piece(j)).R = x.R
  BY <1>1, <1>5, RoomFacts
<1>8. Split(x) \in [1 .. ProbeNum -> PlainTasks]
  BY <1>6, <1>7
<1>9. Split(x) \in Seq(PlainTasks)
  BY <1>3, <1>8
<1>10. \A y \in ToSet(Split(x)) : y.R = x.R
  BY <1>6, <1>7 DEF ToSet
<1> QED BY <1>9, <1>10
-----------------------------------------------------------------------------
(* The steps that neither make nor take tasks, nor measure them.           *)
QuietPlaces == {"memset", "ready", "zero", "zeroed", "countR", "countedR", "scatterR", "linedR",
                "restsR", "countS", "countedS", "scatterS", "linedS", "restsS", "skewed", "parted",
                "look", "drain"}

QuietStep(t) ==
    /\ UNCHANGED <<build, queues, skewtask, maxBuild, local, prober>>
    /\ pc[t] \in QuietPlaces /\ \E c \in QuietPlaces : pc' = [pc EXCEPT ![t] = c]

Quiet(t) == Memset(t) \/ Zero(t) \/ Partition(t) \/ Look(t)

(* They are such steps.                                                    *)
LEMMA QuietSteps ==
    ASSUME NEW t \in Builders, Quiet(t) PROVE QuietStep(t)
<1>1. CASE Memset(t)
  BY <1>1 DEF Memset, QuietStep, QuietPlaces, Goto, inputs
<1>2. CASE Zero(t)
  BY <1>2 DEF Zero, QuietStep, QuietPlaces, Goto, inputs
<1>3. CASE Look(t)
  BY <1>3 DEF Look, QuietStep, QuietPlaces, Goto, inputs
<1>4. ASSUME NEW X \in Rels, Count(t, X) PROVE QuietStep(t)
  <2>1. X = "R" \/ X = "S"
    BY DEF Rels
  <2>2. pc[t] \in QuietPlaces /\ UNCHANGED <<build, queues, skewtask, maxBuild, local, prober>>
    BY <1>4, <2>1 DEF Count, QuietPlaces, inputs
  <2>3. Goto(t, "countedR") \/ Goto(t, "countedS")
    BY <1>4, <2>1 DEF Count
  <2> QED BY <2>2, <2>3 DEF QuietStep, QuietPlaces, Goto
<1>5. ASSUME NEW X \in Rels, StoreLines(t, X) PROVE QuietStep(t)
  <2>1. X = "R" \/ X = "S"
    BY DEF Rels
  <2>2. pc[t] \in QuietPlaces /\ UNCHANGED <<build, queues, skewtask, maxBuild, local, prober>>
    BY <1>5, <2>1 DEF StoreLines, QuietPlaces, inputs
  <2>3. Goto(t, "linedR") \/ Goto(t, "linedS")
    BY <1>5, <2>1 DEF StoreLines
  <2> QED BY <2>2, <2>3 DEF QuietStep, QuietPlaces, Goto
<1>6. ASSUME NEW X \in Rels, Partitioned(t, X)
      PROVE  \E c \in QuietPlaces : pc' = [pc EXCEPT ![t] = c]
  BY <1>6 DEF Partitioned, QuietPlaces, Goto
<1>7. ASSUME NEW X \in Rels, Scatter(t, X) PROVE QuietStep(t)
  <2>1. X = "R" \/ X = "S"
    BY DEF Rels
  <2>2. pc[t] \in QuietPlaces /\ UNCHANGED <<build, queues, skewtask, maxBuild, local, prober>>
    BY <1>7, <2>1 DEF Scatter, QuietPlaces, inputs
  <2>3. Partitioned(t, X)
    BY <1>7 DEF Scatter
  <2> QED BY <1>6, <2>2, <2>3 DEF QuietStep
<1>8. ASSUME NEW X \in Rels, StoreRests(t, X) PROVE QuietStep(t)
  <2>1. X = "R" \/ X = "S"
    BY DEF Rels
  <2>2. pc[t] \in QuietPlaces /\ UNCHANGED <<build, queues, skewtask, maxBuild, local, prober>>
    BY <1>8, <2>1 DEF StoreRests, QuietPlaces, inputs
  <2>3. Partitioned(t, X)
    BY <1>8 DEF StoreRests
  <2> QED BY <1>6, <2>2, <2>3 DEF QuietStep
<1> QED BY <1>1, <1>2, <1>3, <1>4, <1>5, <1>7, <1>8 DEF Quiet, Partition

(* The other steps of a build thread.                                      *)
LEMMA BuildpartCases ==
    ASSUME NEW t \in Builders, Buildpart(t)
    PROVE  \/ Quiet(t) \/ MakeTasks(t) \/ StartSecondPass(t) \/ PopPart(t) \/ Cluster(t) \/ Emit(t)
           \/ ShareMax(t) \/ FetchSkew(t) \/ MakeSkewTasks(t) \/ DrainParts(t) \/ FindMax(t)
  BY DEF Buildpart, FirstPass, SecondPass, SkewHandling, Quiet

(* Only counting writes the histograms.                                    *)
LEMMA HistKept ==
    ASSUME PhaseInv, Plain, NEW t \in Builders, Buildpart(t)
    PROVE  PlainHist'
<1> DEFINE Bins == 0 .. 2^RadixBits - 1
           H == [Rels -> [Builders -> [Bins -> Nat]]]
<1>0. hist \in H /\ NoCounts \in [Bins -> Nat] /\ DOMAIN NoCounts = Bins
  BY DEF Plain, PlainHist, NoCounts
<1>1. PlainHist' <=> hist' \in H
  BY DEF PlainHist
<1> HIDE DEF Bins
<1>2. CASE Zero(t)
  <2>1. hist' = [X \in Rels |->
           IF X \in Current(t) THEN [hist[X] EXCEPT ![t] = NoCounts] ELSE hist[X]]
    BY <1>2 DEF Zero
  <2> HIDE DEF NoCounts
  <2> QED BY <1>0, <1>1, <2>1
<1>3. ASSUME NEW X \in Rels, Count(t, X) PROVE PlainHist'
  <2> DEFINE n(p) == CountIn(X, Source(t, X), Fanout(t), SkipOf(t), p)
  <2>1. hist' = [hist EXCEPT ![X][t] = [p \in DOMAIN NoCounts |-> @[p] + n(p)]]
    BY <1>3 DEF Count
  <2>2. ASSUME NEW p PROVE n(p) \in Nat
    <3>1. pc[t] \in Partitioning
      <4>1. X = "R" \/ X = "S"
        BY DEF Rels
      <4> QED BY <1>3, <4>1 DEF Count, Partitioning
    <3>2. part[t] = "skew" => skewtask \in PlainTasks
      BY <3>1 DEF PhaseInv, SkewKnown, Plain, PlainSkew
    <3>3. part[t] \in {"first", "skew"}
      BY DEF PhaseInv
    <3>4. Whole(t, X).num \in Int
      <4>1. Size[X] \in Int
        BY PhjAssumption DEF Size, Rels
      <4>2. Room("org", 0, Size[X]).num = Size[X]
        BY DEF Room
      <4>3. part[t] # "first" => skewtask[X].num \in Int
        BY <3>2, <3>3, RoomFacts
      <4> QED BY <4>1, <4>2, <4>3 DEF Whole
    <3> DEFINE w == Whole(t, X)
               m == Share(w.num, BuildNum, t)
    <3>5. IsFiniteSet(m)
      <4>1. BuildNum \in Nat \ {0} /\ t \in Int
        BY PhjAssumption DEF Builders
      <4>2. ShareBegin(w.num, BuildNum, t) \in Int /\ ShareEnd(w.num, BuildNum, t) - 1 \in Int
        <5> HIDE DEF w
        <5>1. w.num \div BuildNum \in Int
          BY <3>4, <4>1 DEF w
        <5>2. t * (w.num \div BuildNum) \in Int /\ (t + 1) * (w.num \div BuildNum) \in Int
          BY <4>1, <5>1
        <5> QED BY <3>4, <5>2 DEF ShareBegin, ShareEnd, w
      <4> QED BY <4>2, FS_Interval DEF Share
    <3>6. Source(t, X).num \in Int /\ "regions" \notin DOMAIN Source(t, X)
      <4>1. Cardinality(m) \in Nat
        BY <3>5, FS_CardinalityType
      <4> HIDE DEF m
      <4>2. Source(t, X) = Room(w.arr, w.base + ShareBegin(w.num, BuildNum, t), Cardinality(m))
        BY DEF Source, ShareOf, m
      <4> QED BY <4>1, <4>2 DEF Room
    <3> QED BY <3>6, CountInNat
  <2> HIDE DEF n
  <2>3. [p \in Bins |-> hist[X][t][p] + n(p)] \in [Bins -> Nat]
    <3>1. \A p \in Bins : hist[X][t][p] \in Nat
      BY <1>0
    <3> QED BY <2>2, <3>1
  <2>4. hist' = [hist EXCEPT ![X][t] = [p \in Bins |-> hist[X][t][p] + n(p)]]
    BY <1>0, <2>1
  <2> QED BY <1>0, <1>1, <2>3, <2>4
<1>4. CASE UNCHANGED hist
  BY <1>0, <1>1, <1>4
<1>5. Memset(t) \/ Look(t) => UNCHANGED hist
  BY DEF Memset, Look
<1>6. ASSUME NEW X \in Rels, Scatter(t, X) \/ StoreLines(t, X) \/ StoreRests(t, X)
      PROVE  UNCHANGED hist
  BY <1>6 DEF Scatter, StoreLines, StoreRests
<1>7. \/ MakeTasks(t) \/ StartSecondPass(t) \/ PopPart(t) \/ Cluster(t) \/ Emit(t)
      \/ ShareMax(t) \/ FetchSkew(t) \/ MakeSkewTasks(t) \/ DrainParts(t) \/ FindMax(t)
      => UNCHANGED hist
  BY DEF MakeTasks, StartSecondPass, PopPart, Cluster, Emit, ShareMax, FetchSkew, MakeSkewTasks,
         DrainParts, FindMax
<1> QED BY <1>2, <1>3, <1>4, <1>5, <1>6, <1>7, BuildpartCases DEF Quiet, Partition
-----------------------------------------------------------------------------
(* What Among leaves of some tasks.                                        *)
LEMMA AmongPlain ==
    ASSUME NEW tasks \in Seq(PlainTasks), NEW set
    PROVE  Among(tasks, set) \in Seq(PlainTasks) /\ ToSet(Among(tasks, set)) \subseteq ToSet(tasks)
<1>1. Among(tasks, set) \in Seq(PlainTasks \cap set)
  BY AmongFacts
<1>2. ToSet(Among(tasks, set)) = ToSet(tasks) \cap set
  BY AmongFacts
<1>3. Seq(PlainTasks \cap set) \subseteq Seq(PlainTasks)
  OBVIOUS
<1> QED BY <1>1, <1>2, <1>3

(* A thread's maximum only grows when it measures tasks.                   *)
Grown(old, new, t) ==
    /\ new \in [Builders -> Nat] /\ old[t] <= new[t]
    /\ \A u \in Builders \ {t} : new[u] = old[u]

(* Measuring tasks.                                                        *)
LEMMA LargestGrows ==
    ASSUME lmax \in [Builders -> Nat], NEW t \in Builders, NEW tasks \in Seq(PlainTasks),
           lmax' = [lmax EXCEPT ![t] = Largest(@, tasks)]
    PROVE  Grown(lmax, lmax', t) /\ \A x \in ToSet(tasks) : x.R.num <= lmax'[t]
<1>1. lmax[t] \in Nat
  OBVIOUS
<1> DEFINE n == Largest(lmax[t], tasks)
<1>2. n \in Int /\ lmax[t] <= n /\ \A x \in ToSet(tasks) : x.R.num <= n
  BY <1>1, LargestFacts
<1> HIDE DEF n
<1>3. lmax' = [lmax EXCEPT ![t] = n]
  BY DEF n
<1> QED BY <1>1, <1>2, <1>3 DEF Grown

(* Thread 0 makes the tasks of the first pass, and measures those it puts  *)
(* in part_queue.                                                          *)
LEMMA MakeTasksFacts ==
    ASSUME PhaseInv, Plain, MakeTasks(0)
    PROVE  /\ part_queue' \in Seq(PlainTasks) /\ skew_queue' \in Seq(PlainTasks)
           /\ Grown(lmax, lmax', 0)
           /\ \A x \in ToSet(part_queue') : x \in ToSet(part_queue) \/ x.R.num <= lmax'[0]
<1>0. 0 \in Builders
  BY PhjAssumption DEF Builders
<1> DEFINE tasks == FirstTasks(0)
<1>1. tasks \in Seq(PlainTasks)
  <2>1. part[0] = "first" /\ build \in Builds
    BY <1>0 DEF MakeTasks, PhaseInv, Turns
  <2>2. Fanout(0) = Fanout1 /\ Fanout1 \in Nat
    BY <2>1, FanoutFacts DEF Fanout
  <2>3. Size["R"] \in Int /\ Size["S"] \in Int
    BY PhjAssumption DEF Size
  <2>4. \A p \in 0 .. Fanout(0) - 1 : PartTask(0, Size, p) \in PlainTasks
    BY <1>0, <2>1, <2>3, PartTaskPlain
  <2>5. \A i \in 1 .. Fanout1 : i - 1 \in 0 .. Fanout(0) - 1
    BY <2>2
  <2>6. tasks = [i \in 1 .. Fanout1 |-> PartTask(0, Size, i - 1)]
    BY DEF FirstTasks
  <2> HIDE DEF tasks
  <2>7. tasks \in [1 .. Fanout1 -> PlainTasks]
    BY <2>4, <2>5, <2>6
  <2> QED BY <2>2, <2>7
<1>2. /\ skew_queue' = Pushed(skew_queue, Asides(tasks)) /\ part_queue' = Pushed(part_queue, Parts(tasks))
      /\ lmax' = [lmax EXCEPT ![0] = Largest(@, Parts(tasks))]
  BY DEF MakeTasks, AddTasks
<1> HIDE DEF tasks
<1>3. Parts(tasks) \in Seq(PlainTasks) /\ Asides(tasks) \in Seq(PlainTasks)
  BY <1>1, AmongPlain DEF Parts, Asides
<1>4. part_queue \in Seq(PlainTasks) /\ skew_queue \in Seq(PlainTasks) /\ lmax \in [Builders -> Nat]
  BY DEF Plain, PlainQueues, PlainLocal
<1>5. /\ part_queue' \in Seq(PlainTasks) /\ skew_queue' \in Seq(PlainTasks)
      /\ ToSet(part_queue') = ToSet(part_queue) \cup ToSet(Parts(tasks))
  BY <1>2, <1>3, <1>4, PushedFacts
<1>6. Grown(lmax, lmax', 0) /\ \A x \in ToSet(Parts(tasks)) : x.R.num <= lmax'[0]
  BY <1>0, <1>2, <1>3, <1>4, LargestGrows
<1> QED BY <1>5, <1>6

(* Thread 0 makes those of a skew task, and measures them all.             *)
LEMMA MakeSkewTasksFacts ==
    ASSUME PhaseInv, Plain, MakeSkewTasks(0)
    PROVE  /\ part_queue' \in Seq(PlainTasks) /\ join_queue' \in Seq(PlainTasks)
           /\ Grown(lmax, lmax', 0)
           /\ \A x \in ToSet(part_queue') : x \in ToSet(part_queue) \/ x.R.num <= lmax'[0]
           /\ \A x \in ToSet(join_queue') : x \in ToSet(join_queue) \/ x.R.num <= lmax'[0]
<1>0. 0 \in Builders
  BY PhjAssumption DEF Builders
<1> DEFINE tasks == SkewTasks(0)
<1>1. tasks \in Seq(PlainTasks)
  <2>1. part[0] = "skew" /\ build \in Builds /\ skewtask \in PlainTasks /\ skewtask # NULL
    BY <1>0 DEF MakeSkewTasks, PhaseInv, Turns, SkewKnown, Plain, PlainSkew
  <2>2. Fanout(0) = Fanout2 /\ Fanout2 \in Nat
    BY <2>1, FanoutFacts DEF Fanout
  <2> DEFINE total == [X \in Rels |-> skewtask[X].num]
  <2>3. total["R"] \in Int /\ total["S"] \in Int
    <3>1. "R" \in Rels /\ "S" \in Rels
      BY DEF Rels
    <3> QED BY <2>1, <3>1, RoomFacts
  <2>6. tasks = [i \in 1 .. Fanout2 |-> PartTask(0, total, i - 1)]
    BY DEF SkewTasks
  <2> HIDE DEF tasks, total
  <2>4. \A p \in 0 .. Fanout(0) - 1 : PartTask(0, total, p) \in PlainTasks
    BY <1>0, <2>1, <2>3, PartTaskPlain
  <2>5. \A i \in 1 .. Fanout2 : i - 1 \in 0 .. Fanout(0) - 1
    BY <2>2
  <2>7. tasks \in [1 .. Fanout2 -> PlainTasks]
    BY <2>4, <2>5, <2>6
  <2> QED BY <2>2, <2>7
<1> DEFINE joins  == Among(tasks, {x \in ToSet(tasks) : Joinable(x) /\ ~Large(x)})
           splits == Among(tasks, {x \in ToSet(tasks) : Joinable(x) /\ Large(x)})
           pieces == [i \in DOMAIN splits |-> Split(splits[i])]
<1>2. /\ part_queue' = Pushed(part_queue, FlattenSeq(pieces)) /\ join_queue' = Pushed(join_queue, joins)
      /\ lmax' = [lmax EXCEPT ![0] = Largest(@, tasks)]
  BY DEF MakeSkewTasks, AddSkewTasks
<1> HIDE DEF tasks
<1>3. /\ joins \in Seq(PlainTasks) /\ splits \in Seq(PlainTasks)
      /\ ToSet(joins) \subseteq ToSet(tasks) /\ ToSet(splits) \subseteq ToSet(tasks)
  BY <1>1, AmongPlain
<1> HIDE DEF joins, splits
<1>4. DOMAIN splits = 1 .. Len(splits) /\ Len(splits) \in Nat
  BY <1>3
<1>5. ASSUME NEW i \in 1 .. Len(splits)
      PROVE  /\ pieces[i] \in Seq(PlainTasks)
             /\ \A y \in ToSet(pieces[i]) : \E x \in ToSet(tasks) : y.R = x.R
  <2>1. splits[i] \in PlainTasks /\ splits[i] \in ToSet(tasks)
    <3>1. splits[i] \in ToSet(splits)
      BY <1>4 DEF ToSet
    <3> QED BY <1>3, <1>4, <3>1
  <2>2. pieces[i] = Split(splits[i])
    BY <1>4
  <2>3. \A y \in ToSet(Split(splits[i])) : y.R = splits[i].R
    BY <2>1, SplitPlain
  <2>4. Split(splits[i]) \in Seq(PlainTasks)
    BY <2>1, SplitPlain
  <2> HIDE DEF pieces
  <2> QED BY <2>1, <2>2, <2>3, <2>4
<1>6. pieces \in Seq(Seq(PlainTasks)) /\ Len(pieces) = Len(splits)
  <2>1. pieces = [i \in 1 .. Len(splits) |-> pieces[i]]
    BY <1>4
  <2> HIDE DEF pieces
  <2>2. pieces \in [1 .. Len(splits) -> Seq(PlainTasks)]
    BY <1>5, <2>1
  <2> QED BY <1>4, <2>2
<1> HIDE DEF pieces
<1>7. /\ FlattenSeq(pieces) \in Seq(PlainTasks)
      /\ ToSet(FlattenSeq(pieces)) = UNION {ToSet(pieces[i]) : i \in 1 .. Len(splits)}
  BY <1>6, FlattenLists, FlattenToSet
<1>8. part_queue \in Seq(PlainTasks) /\ join_queue \in Seq(PlainTasks) /\ lmax \in [Builders -> Nat]
  BY DEF Plain, PlainQueues, PlainLocal
<1>9. /\ part_queue' \in Seq(PlainTasks) /\ join_queue' \in Seq(PlainTasks)
      /\ ToSet(part_queue') = ToSet(part_queue) \cup ToSet(FlattenSeq(pieces))
      /\ ToSet(join_queue') = ToSet(join_queue) \cup ToSet(joins)
  BY <1>2, <1>3, <1>7, <1>8, PushedFacts
<1>10. Grown(lmax, lmax', 0) /\ \A x \in ToSet(tasks) : x.R.num <= lmax'[0]
  BY <1>0, <1>1, <1>2, <1>8, LargestGrows
<1>11. ASSUME NEW y \in ToSet(FlattenSeq(pieces)) PROVE y.R.num <= lmax'[0]
  <2>1. PICK i \in 1 .. Len(splits) : y \in ToSet(pieces[i])
    BY <1>7
  <2>2. PICK x \in ToSet(tasks) : y.R = x.R
    BY <1>5, <2>1
  <2> QED BY <1>10, <2>2
<1> QED BY <1>3, <1>9, <1>10, <1>11
(* A join task of the second pass is measured when it is made.             *)
LEMMA EmitFacts ==
    ASSUME PhaseInv, Plain, NEW t \in Builders, Emit(t)
    PROVE  /\ join_queue' \in Seq(PlainTasks) /\ Grown(lmax, lmax', t)
           /\ \A x \in ToSet(join_queue') : x \in ToSet(join_queue) \/ x.R.num <= lmax'[t]
<1>1. /\ task[t] \in PlainTasks /\ next[t] \in Nat /\ build \in Builds
      /\ join_queue \in Seq(PlainTasks) /\ lmax \in [Builders -> Nat]
  BY DEF Emit, PhaseInv, Plain, PlainLocal, PlainQueues
<1> DEFINE x == ClusterTask(task[t], next[t])
<1>2. x \in PlainTasks
  BY <1>1, ClusterTaskPlain
<1>3. IF Joinable(x)
      THEN /\ join_queue' = Pushed(join_queue, <<x>>)
           /\ lmax' = [lmax EXCEPT ![t] = Largest(@, <<x>>)]
      ELSE UNCHANGED <<join_queue, lmax>>
  BY DEF Emit
<1> HIDE DEF x
<1>4. <<x>> \in Seq(PlainTasks)
  BY <1>2
<1>5. CASE Joinable(x)
  <2>1. Grown(lmax, lmax', t) /\ \A y \in ToSet(<<x>>) : y.R.num <= lmax'[t]
    BY <1>1, <1>3, <1>4, <1>5, LargestGrows
  <2>2. /\ join_queue' \in Seq(PlainTasks)
        /\ ToSet(join_queue') = ToSet(join_queue) \cup ToSet(<<x>>)
    <3>1. join_queue' = Pushed(join_queue, <<x>>)
      BY <1>3, <1>5
    <3>2. /\ Pushed(join_queue, <<x>>) \in Seq(PlainTasks)
          /\ ToSet(Pushed(join_queue, <<x>>)) = ToSet(join_queue) \cup ToSet(<<x>>)
      BY <1>1, <1>4, PushedFacts
    <3> QED BY <3>1, <3>2
  <2> QED BY <2>1, <2>2
<1>6. CASE ~Joinable(x)
  BY <1>1, <1>3, <1>6 DEF Grown
<1> QED BY <1>5, <1>6

(* Thread 0 moves the pieces of large tasks to join_queue.                 *)
LEMMA DrainFacts ==
    ASSUME Plain, DrainParts(0)
    PROVE  /\ part_queue' = <<>> /\ join_queue' \in Seq(PlainTasks)
           /\ ToSet(join_queue') = ToSet(join_queue) \cup ToSet(part_queue)
  BY PushedFacts DEF Plain, PlainQueues, DrainParts

(* Thread 0 finds the largest number of all.                               *)
LEMMA FindMaxFacts ==
    ASSUME Plain, FindMax(0)
    PROVE  /\ Grown(lmax, lmax', 0) /\ maxBuild' \in [Builders -> Nat]
           /\ \A u \in Builders : maxBuild[u] <= maxBuild'[u] /\ maxBuild'[u] = maxBuild'[0]
           /\ lmax'[0] <= maxBuild'[0]
<1>0. BuildNum \in Nat \ {0} /\ 0 \in Builders
  BY PhjAssumption DEF Builders
<1>1. lmax \in [Builders -> Nat] /\ maxBuild \in [Builders -> Nat]
  BY DEF Plain, PlainLocal
<1> DEFINE S == {lmax[0]} \cup {maxBuild[u] : u \in Builders}
           m == Max(S)
<1>2. IsFiniteSet(S) /\ S \subseteq Int /\ S # {}
  <2> DEFINE V == {maxBuild[u] : u \in Builders}
  <2>1. IsFiniteSet(Builders)
    BY <1>0, FS_Interval DEF Builders
  <2>2. IsFiniteSet(V)
    BY <2>1, FiniteRange
  <2>3. S = V \cup {lmax[0]} /\ V \subseteq Int
    BY <1>1
  <2> HIDE DEF V
  <2>4. IsFiniteSet(V \cup {lmax[0]})
    BY <2>2, FS_AddElement
  <2> QED BY <1>0, <1>1, <2>3, <2>4
<1>3. /\ lmax' = [lmax EXCEPT ![0] = m] /\ maxBuild' = [u \in Builders |-> m]
  BY DEF FindMax
<1>4. \A u \in Builders : maxBuild[u] \in S
  OBVIOUS
<1>5. lmax[0] \in S /\ S \subseteq Nat
  BY <1>0, <1>1
<1> HIDE DEF S
<1>6. m \in S /\ \A x \in S : x <= m
  BY <1>2, MaxFacts
<1> HIDE DEF m
<1> QED BY <1>0, <1>1, <1>3, <1>4, <1>5, <1>6 DEF Grown

(* Every step of a build thread leaves each variable what it is.           *)
LEMMA PlainStep ==
    ASSUME PhaseInv, Plain, NEW t \in Builders, Buildpart(t) PROVE Plain'
<1>0. /\ PlainHist' /\ 0 \in Builders /\ Advance(t)
      /\ PlainQueues /\ PlainSkew /\ PlainLocal /\ PlainProbers
  BY HistKept, StepAdvances, PhjAssumption DEF Builders, Plain
<1>1. PlainProbers'
  <2>1. UNCHANGED prober
    <3>1. Quiet(t) => UNCHANGED prober
      BY QuietSteps DEF QuietStep
    <3>2. \/ MakeTasks(t) \/ StartSecondPass(t) \/ PopPart(t) \/ Cluster(t) \/ Emit(t)
          \/ ShareMax(t) \/ FetchSkew(t) \/ MakeSkewTasks(t) \/ DrainParts(t) \/ FindMax(t)
          => UNCHANGED prober
      BY DEF MakeTasks, StartSecondPass, PopPart, Cluster, Emit, ShareMax, FetchSkew,
             MakeSkewTasks, DrainParts, FindMax
    <3> QED BY <3>1, <3>2, BuildpartCases
  <2> QED BY <1>0, <2>1 DEF PlainProbers, Joining, prober
<1>2. ASSUME UNCHANGED <<task, lmax, maxBuild>>, next' \in [Builders -> Nat],
             \A u \in Builders : pc'[u] \in {"cluster", "emit"} => pc[u] \in {"cluster", "emit"}
      PROVE  PlainLocal'
  BY <1>0, <1>2 DEF PlainLocal
<1>3. CASE Quiet(t)
  <2>1. QuietStep(t)
    BY <1>3, QuietSteps
  <2>2. \A u \in Builders : pc'[u] \in {"cluster", "emit"} => pc[u] \in {"cluster", "emit"}
    BY <2>1 DEF QuietStep, QuietPlaces, PhaseInv
  <2>3. UNCHANGED <<task, next, lmax, maxBuild, queues, skewtask>>
    BY <2>1 DEF QuietStep, local
  <2> QED BY <1>0, <1>1, <1>2, <2>2, <2>3 DEF Plain, PlainQueues, PlainSkew, PlainLocal, queues
<1> DEFINE NewPc(c) == pc' = [pc EXCEPT ![t] = c]
<1>4. ASSUME NEW c, NewPc(c), c \notin {"cluster", "emit"}
      PROVE  \A u \in Builders : pc'[u] \in {"cluster", "emit"} => pc[u] \in {"cluster", "emit"}
  BY <1>4 DEF PhaseInv
<1>5. ASSUME NEW c, NewPc(c), c \notin {"cluster", "emit"}, UNCHANGED <<task, next>>,
             lmax' \in [Builders -> Nat], maxBuild' \in [Builders -> Nat]
      PROVE  PlainLocal'
  BY <1>0, <1>4, <1>5 DEF PlainLocal
<1>6. CASE MakeTasks(t)
  <2>1. NewPc("queued") /\ UNCHANGED <<join_queue, skewtask, maxBuild, task, next>>
    BY <1>6 DEF MakeTasks, Goto
  <2>2. CASE t = 0
    <3>1. /\ part_queue' \in Seq(PlainTasks) /\ skew_queue' \in Seq(PlainTasks)
          /\ lmax' \in [Builders -> Nat]
      BY <1>6, <2>2, MakeTasksFacts DEF Grown
    <3>2. PlainLocal'
      BY <1>0, <1>5, <2>1, <3>1 DEF PlainLocal
    <3>3. PlainQueues' /\ PlainSkew'
      BY <1>0, <2>1, <3>1 DEF PlainQueues, PlainSkew
    <3> QED BY <1>0, <1>1, <3>2, <3>3 DEF Plain
  <2>3. CASE t # 0
    <3>1. UNCHANGED <<part_queue, skew_queue, lmax>>
      BY <1>6, <2>3 DEF MakeTasks
    <3>2. PlainLocal'
      BY <1>0, <1>5, <2>1, <3>1 DEF PlainLocal
    <3>3. PlainQueues' /\ PlainSkew'
      BY <1>0, <2>1, <3>1 DEF PlainQueues, PlainSkew
    <3> QED BY <1>0, <1>1, <3>2, <3>3 DEF Plain
  <2> QED BY <2>2, <2>3
<1>7. CASE StartSecondPass(t)
  <2>1. NewPc("pop") /\ UNCHANGED <<queues, skewtask, maxBuild, task, next>>
    BY <1>7 DEF StartSecondPass, Goto
  <2>2. lmax' \in [Builders -> Nat]
    BY <1>0, <1>7 DEF StartSecondPass, PlainLocal
  <2>3. PlainLocal'
    BY <1>0, <1>5, <2>1, <2>2 DEF PlainLocal
  <2>4. PlainQueues' /\ PlainSkew'
    BY <1>0, <2>1 DEF PlainQueues, PlainSkew, queues
  <2> QED BY <1>0, <1>1, <2>3, <2>4 DEF Plain
<1>8. CASE PopPart(t)
  <2>1. UNCHANGED <<skew_queue, join_queue, skewtask, maxBuild, next, lmax>>
    BY <1>8 DEF PopPart
  <2>2. CASE part_queue # <<>>
    <3>1. NewPc("cluster") /\ task' = [task EXCEPT ![t] = Head(part_queue)] /\ part_queue' = Tail(part_queue)
      BY <1>8, <2>2 DEF PopPart, Goto
    <3>2. Head(part_queue) \in PlainTasks /\ Tail(part_queue) \in Seq(PlainTasks)
      BY <1>0, <2>2, PoppedFacts DEF PlainQueues
    <3>3. PlainLocal'
      BY <1>0, <2>1, <3>1, <3>2 DEF PlainLocal, PhaseInv
    <3> QED BY <1>0, <1>1, <2>1, <3>1, <3>2, <3>3 DEF Plain, PlainQueues, PlainSkew
  <2>3. CASE part_queue = <<>>
    <3>1. NewPc("share") /\ UNCHANGED <<part_queue, task>>
      BY <1>8, <2>3 DEF PopPart, Goto
    <3>2. PlainLocal'
      BY <1>0, <1>5, <2>1, <3>1 DEF PlainLocal
    <3>3. PlainQueues' /\ PlainSkew'
      BY <1>0, <2>1, <3>1 DEF PlainQueues, PlainSkew
    <3> QED BY <1>0, <1>1, <3>2, <3>3 DEF Plain
  <2> QED BY <2>2, <2>3
<1>9. CASE Cluster(t)
  <2>1. /\ NewPc("emit") /\ pc[t] = "cluster" /\ next' = [next EXCEPT ![t] = 0]
        /\ UNCHANGED <<queues, skewtask, maxBuild, task, lmax>>
    BY <1>9 DEF Cluster, Goto
  <2>2. \A u \in Builders : pc'[u] \in {"cluster", "emit"} => pc[u] \in {"cluster", "emit"}
    BY <2>1 DEF PhaseInv
  <2>3. next' \in [Builders -> Nat]
    BY <1>0, <2>1 DEF PlainLocal
  <2> QED BY <1>0, <1>1, <1>2, <2>1, <2>2, <2>3 DEF Plain, PlainQueues, PlainSkew, queues
<1>10. CASE Emit(t)
  <2>1. /\ pc[t] = "emit" /\ next' = [next EXCEPT ![t] = @ + 1]
        /\ \E c : NewPc(c)
        /\ UNCHANGED <<part_queue, skew_queue, skewtask, maxBuild, task>>
    BY <1>10 DEF Emit, Goto
  <2>2. \A u \in Builders : pc'[u] \in {"cluster", "emit"} => pc[u] \in {"cluster", "emit"}
    BY <2>1 DEF PhaseInv
  <2>3. next' \in [Builders -> Nat]
    BY <1>0, <2>1 DEF PlainLocal
  <2>4. join_queue' \in Seq(PlainTasks) /\ lmax' \in [Builders -> Nat]
    BY <1>10, EmitFacts DEF Grown
  <2> QED BY <1>0, <1>1, <2>1, <2>2, <2>3, <2>4 DEF Plain, PlainQueues, PlainSkew, PlainLocal
<1>11. CASE ShareMax(t)
  <2>1. NewPc("shared") /\ UNCHANGED <<queues, skewtask, task, next, lmax>>
    BY <1>11 DEF ShareMax, Goto
  <2>2. maxBuild' \in [Builders -> Nat] /\ lmax' \in [Builders -> Nat]
    BY <1>0, <1>11 DEF ShareMax, PlainLocal
  <2>3. PlainLocal'
    <3>1. \A u \in Builders : pc'[u] \in {"cluster", "emit"} => pc[u] \in {"cluster", "emit"}
      BY <1>4, <2>1
    <3>2. UNCHANGED <<task, next>>
      BY <2>1
    <3> QED BY <1>0, <2>2, <3>1, <3>2 DEF PlainLocal
  <2>4. PlainQueues' /\ PlainSkew'
    BY <1>0, <2>1 DEF PlainQueues, PlainSkew, queues
  <2> QED BY <1>0, <1>1, <2>3, <2>4 DEF Plain
<1>12. CASE FetchSkew(t)
  <2>1. NewPc("fetched") /\ UNCHANGED <<part_queue, join_queue, maxBuild, task, next, lmax>>
    BY <1>12 DEF FetchSkew, Goto, local
  <2>2. PlainLocal'
    BY <1>0, <1>5, <2>1 DEF PlainLocal
  <2>3. CASE skew_queue # <<>> /\ t = 0
    <3>1. skewtask' = Head(skew_queue) /\ skew_queue' = Tail(skew_queue)
      BY <1>12, <2>3 DEF FetchSkew
    <3>2. Head(skew_queue) \in PlainTasks /\ Tail(skew_queue) \in Seq(PlainTasks)
      BY <1>0, <2>3, PoppedFacts DEF PlainQueues
    <3> QED BY <1>0, <1>1, <2>1, <2>2, <3>1, <3>2 DEF Plain, PlainQueues, PlainSkew
  <2>4. CASE ~(skew_queue # <<>> /\ t = 0)
    <3>1. skewtask' \in {NULL, skewtask} /\ skew_queue' = skew_queue
      BY <1>12, <2>4 DEF FetchSkew
    <3> QED BY <1>0, <1>1, <2>1, <2>2, <3>1 DEF Plain, PlainQueues, PlainSkew
  <2> QED BY <2>3, <2>4
<1>13. CASE MakeSkewTasks(t)
  <2>1. NewPc("fetch") /\ UNCHANGED <<skew_queue, skewtask, maxBuild, task, next>>
    BY <1>13 DEF MakeSkewTasks, Goto
  <2>2. CASE t = 0
    <3>1. /\ part_queue' \in Seq(PlainTasks) /\ join_queue' \in Seq(PlainTasks)
          /\ lmax' \in [Builders -> Nat]
      BY <1>13, <2>2, MakeSkewTasksFacts DEF Grown
    <3>2. PlainLocal'
      BY <1>0, <1>5, <2>1, <3>1 DEF PlainLocal
    <3>3. PlainQueues' /\ PlainSkew'
      BY <1>0, <2>1, <3>1 DEF PlainQueues, PlainSkew
    <3> QED BY <1>0, <1>1, <3>2, <3>3 DEF Plain
  <2>3. CASE t # 0
    <3>1. UNCHANGED <<part_queue, join_queue, lmax>>
      BY <1>13, <2>3 DEF MakeSkewTasks
    <3>2. PlainLocal'
      BY <1>0, <1>5, <2>1, <3>1 DEF PlainLocal
    <3>3. PlainQueues' /\ PlainSkew'
      BY <1>0, <2>1, <3>1 DEF PlainQueues, PlainSkew
    <3> QED BY <1>0, <1>1, <3>2, <3>3 DEF Plain
  <2> QED BY <2>2, <2>3
<1>14. CASE DrainParts(t)
  <2>1. NewPc("drained") /\ UNCHANGED <<skew_queue, skewtask, maxBuild, lmax, task, next>>
    BY <1>14 DEF DrainParts, Goto, local
  <2>2. CASE t = 0
    <3>1. part_queue' = <<>> /\ join_queue' \in Seq(PlainTasks)
      BY <1>14, <2>2, DrainFacts
    <3>2. PlainLocal'
      BY <1>0, <1>5, <2>1, <3>1 DEF PlainLocal
    <3>3. PlainQueues' /\ PlainSkew'
      BY <1>0, <2>1, <3>1 DEF PlainQueues, PlainSkew
    <3> QED BY <1>0, <1>1, <3>2, <3>3 DEF Plain
  <2>3. CASE t # 0
    <3>1. UNCHANGED <<part_queue, join_queue>>
      BY <1>14, <2>3 DEF DrainParts
    <3>2. PlainLocal'
      BY <1>0, <1>5, <2>1, <3>1 DEF PlainLocal
    <3>3. PlainQueues' /\ PlainSkew'
      BY <1>0, <2>1, <3>1 DEF PlainQueues, PlainSkew
    <3> QED BY <1>0, <1>1, <3>2, <3>3 DEF Plain
  <2> QED BY <2>2, <2>3
<1>15. CASE FindMax(t)
  <2>1. NewPc("maxed") /\ UNCHANGED <<queues, skewtask, task, next>>
    BY <1>15 DEF FindMax, Goto
  <2>2. lmax' \in [Builders -> Nat] /\ maxBuild' \in [Builders -> Nat]
    <3>1. CASE t = 0
      BY <1>15, <3>1, FindMaxFacts DEF Grown
    <3>2. CASE t # 0
      BY <1>0, <1>15, <3>2 DEF FindMax, PlainLocal
    <3> QED BY <3>1, <3>2
  <2>3. PlainLocal'
    <3>1. \A u \in Builders : pc'[u] \in {"cluster", "emit"} => pc[u] \in {"cluster", "emit"}
      BY <1>4, <2>1
    <3>2. UNCHANGED <<task, next>>
      BY <2>1
    <3> QED BY <1>0, <2>2, <3>1, <3>2 DEF PlainLocal
  <2>4. PlainQueues' /\ PlainSkew'
    BY <1>0, <2>1 DEF PlainQueues, PlainSkew, queues
  <2> QED BY <1>0, <1>1, <2>3, <2>4 DEF Plain
<1> QED BY <1>3, <1>6, <1>7, <1>8, <1>9, <1>10, <1>11, <1>12, <1>13, <1>14, <1>15, BuildpartCases
(* What the probe threads do: they take the join tasks, one at a time.     *)
Takes ==
    /\ UNCHANGED <<build, hist, part_queue, skew_queue, skewtask, maxBuild, pc, local, size>>
    /\ PlainProbers' /\ join_queue' \in Seq(PlainTasks) /\ JoinTasks' \subseteq JoinTasks
    /\ IF Unspawned THEN Unspawned' /\ join_queue' = join_queue ELSE ~Unspawned'

(* A step of a probe thread.                                               *)
LEMMA ProbejoinTakes ==
    ASSUME Plain, NEW p \in Probers, Probejoin(p) PROVE Takes
<1>0. /\ UNCHANGED <<build, hist, part_queue, skew_queue, skewtask, maxBuild, pc, local, size>>
      /\ PlainProbers /\ PlainQueues
  BY DEF Probejoin, Wipe, PopJoin, BuildTable, Reorder, ProbeTable, queues, builder, inputs, Plain
<1>1. ASSUME NEW c \in ProbePC \ {"idle", "build"}, ppc' = [ppc EXCEPT ![p] = c],
             c = "probe" => ppc[p] = "build",
             UNCHANGED <<ptask, join_queue>>, ppc[p] # "idle"
      PROVE  Takes
  <2>1. \A q \in Probers : ppc'[q] \in {"build", "probe"} => Joining(q) /\ ptask'[q] = ptask[q]
    BY <1>0, <1>1 DEF PlainProbers, Joining
  <2>2. PlainProbers'
    BY <1>0, <1>1, <2>1 DEF PlainProbers, Joining
  <2>3. JoinTasks' \subseteq JoinTasks
    BY <1>1, <2>1 DEF JoinTasks, Joining
  <2>4. ~Unspawned /\ ~Unspawned'
    BY <1>0, <1>1 DEF Unspawned, PlainProbers
  <2> QED BY <1>0, <1>1, <2>2, <2>3, <2>4 DEF Takes, PlainQueues
<1>2. CASE Wipe(p)
  BY <1>1, <1>2 DEF Wipe, queues, ProbePC
<1>3. CASE BuildTable(p)
  BY <1>1, <1>3 DEF BuildTable, queues, ProbePC
<1>4. CASE Reorder(p)
  BY <1>1, <1>4 DEF Reorder, queues, ProbePC
<1>5. CASE ProbeTable(p)
  BY <1>1, <1>5 DEF ProbeTable, queues, ProbePC
<1>6. CASE PopJoin(p)
  <2>1. CASE join_queue = <<>>
    BY <1>1, <1>6, <2>1 DEF PopJoin, ProbePC
  <2>2. CASE join_queue # <<>>
    <3>1. /\ ppc[p] = "pop" /\ ptask' = [ptask EXCEPT ![p] = Head(join_queue)]
          /\ join_queue' = Tail(join_queue) /\ ppc' = [ppc EXCEPT ![p] = "build"]
      BY <1>6, <2>2 DEF PopJoin
    <3>2. /\ Head(join_queue) \in PlainTasks /\ Tail(join_queue) \in Seq(PlainTasks)
          /\ ToSet(join_queue) = {Head(join_queue)} \cup ToSet(Tail(join_queue))
      BY <1>0, <2>2, PoppedFacts DEF PlainQueues
    <3>3. \A q \in Probers : ppc'[q] \in {"build", "probe"} =>
              (q = p /\ ptask'[q] = Head(join_queue)) \/ (Joining(q) /\ ptask'[q] = ptask[q])
      BY <1>0, <3>1 DEF PlainProbers, Joining
    <3>4. PlainProbers'
      BY <1>0, <3>1, <3>2, <3>3 DEF PlainProbers, Joining, ProbePC
    <3>5. JoinTasks' \subseteq JoinTasks
      BY <3>1, <3>2, <3>3 DEF JoinTasks, Joining
    <3>6. ~Unspawned /\ ~Unspawned'
      BY <1>0, <3>1 DEF Unspawned, PlainProbers
    <3> QED BY <1>0, <3>1, <3>2, <3>4, <3>5, <3>6 DEF Takes
  <2> QED BY <2>1, <2>2
<1> QED BY <1>2, <1>3, <1>4, <1>5, <1>6 DEF Probejoin

(* ... of all of them, or none.                                            *)
LEMMA OthersTake ==
    ASSUME Plain, \/ \E p \in Probers : Probejoin(p)
                  \/ ReleaseProbe \/ Collect \/ Terminated \/ UNCHANGED vars
    PROVE  Takes
<1>0. PlainProbers /\ PlainQueues /\ 0 \in Probers
  BY PhjAssumption DEF Plain, Probers
<1>1. ASSUME NEW p \in Probers, Probejoin(p) PROVE Takes
  BY <1>1, ProbejoinTakes
<1>2. CASE ReleaseProbe
  <2>0. /\ UNCHANGED <<build, hist, part_queue, skew_queue, skewtask, maxBuild, pc, local, size>>
        /\ UNCHANGED <<ptask, join_queue>>
    BY <1>2 DEF ReleaseProbe, queues, builder, inputs
  <2>1. ppc' \in [Probers -> {"pop", "exit"}] /\ \A p \in Probers : ppc[p] \in {"wiped", "joined"}
    BY <1>2 DEF ReleaseProbe
  <2>2. PlainProbers'
    BY <1>0, <2>0, <2>1 DEF PlainProbers, Joining, ProbePC
  <2>3. JoinTasks' \subseteq JoinTasks
    BY <2>0, <2>1 DEF JoinTasks, Joining
  <2>4. ~Unspawned /\ ~Unspawned'
    BY <1>0, <2>1 DEF Unspawned
  <2> QED BY <1>0, <2>0, <2>2, <2>3, <2>4 DEF Takes, PlainQueues
<1>3. ASSUME UNCHANGED <<build, hist, part_queue, skew_queue, skewtask, maxBuild, pc, local, size>>,
             UNCHANGED <<ptask, join_queue, ppc>>
      PROVE  Takes
  <2>1. PlainProbers' /\ JoinTasks' = JoinTasks /\ Unspawned' = Unspawned
    BY <1>0, <1>3 DEF PlainProbers, JoinTasks, Joining, Unspawned
  <2> QED BY <1>0, <1>3, <2>1 DEF Takes, PlainQueues
<1>4. CASE Collect
  BY <1>3, <1>4 DEF Collect, queues, builder, inputs
<1>5. CASE Terminated \/ UNCHANGED vars
  BY <1>3, <1>5 DEF Terminated, vars, queues, builder, inputs, prober
<1> QED BY <1>1, <1>2, <1>4, <1>5

(* The main thread starts the probe threads.                               *)
LEMMA SpawnFacts ==
    ASSUME Plain, SpawnProbers
    PROVE  /\ UNCHANGED <<build, hist, skew_queue, skewtask, maxBuild, pc, local>>
           /\ \A t \in Builders : pc[t] = "exit"
           /\ Unspawned /\ ~Unspawned' /\ size' = maxBuild[0]
           /\ PlainQueues' /\ PlainProbers'
           /\ JoinTasks' = ToSet(IF build.passes = 1 THEN part_queue ELSE join_queue)
           /\ build.passes # 1 => part_queue' = part_queue
<1>0. PlainProbers /\ PlainQueues /\ 0 \in Probers /\ maxBuild \in [Builders -> Nat] /\ 0 \in Builders
  BY PhjAssumption DEF Plain, Probers, PlainLocal, Builders
<1>1. /\ UNCHANGED <<build, hist, skew_queue, skewtask, maxBuild, pc, local>>
      /\ \A t \in Builders : pc[t] = "exit"
      /\ size' = maxBuild[0] /\ ptask' = ptask
      /\ ppc' = [p \in Probers |-> "wipe"]
      /\ \A p \in Probers : ppc[p] = "idle"
  BY DEF SpawnProbers, builder, inputs
<1>2. IF build.passes = 1 THEN join_queue' = part_queue /\ part_queue' = join_queue
      ELSE UNCHANGED <<join_queue, part_queue>>
  BY DEF SpawnProbers
<1>3. Unspawned /\ ~Unspawned'
  BY <1>0, <1>1 DEF Unspawned
<1>4. PlainQueues'
  BY <1>0, <1>1, <1>2 DEF PlainQueues
<1>5. \A p \in Probers : ppc'[p] = "wipe"
  BY <1>1
<1>6. PlainProbers'
  BY <1>0, <1>1, <1>5 DEF PlainProbers, Joining, ProbePC
<1>7. JoinTasks' = ToSet(join_queue')
  BY <1>5 DEF JoinTasks, Joining
<1> QED BY <1>1, <1>2, <1>3, <1>4, <1>6, <1>7

(* In the beginning each variable is what it is.                           *)
LEMMA PlainInit == Init => Plain
<1> SUFFICES ASSUME Init PROVE Plain
  OBVIOUS
<1>1. hist = [X \in Rels |-> [t \in Builders |-> NoCounts]]
  BY DEF Init, Load, LoadInto
<1>2. PlainHist
  <2>1. NoCounts \in [0 .. 2^RadixBits - 1 -> Nat]
    BY DEF NoCounts
  <2> QED BY <1>1, <2>1 DEF PlainHist
<1>3. PlainQueues
  BY DEF Init, Load, LoadInto, PlainQueues
<1>4. PlainSkew
  BY DEF Init, Load, LoadInto, PlainSkew
<1>5. PlainLocal
  BY DEF Init, Load, LoadInto, Pool, PlainLocal
<1>6. PlainProbers
  BY DEF Init, Load, LoadInto, Pool, PlainProbers, Joining, ProbePC
<1> QED BY <1>2, <1>3, <1>4, <1>5, <1>6 DEF Plain

(* ... and it stays so.                                                    *)
LEMMA PlainNext == PhaseInv /\ Plain /\ [Next]_vars => Plain'
<1> SUFFICES ASSUME PhaseInv, Plain, [Next]_vars PROVE Plain'
  OBVIOUS
<1>0. PlainHist /\ PlainQueues /\ PlainSkew /\ PlainLocal /\ PlainProbers
  BY DEF Plain
<1>1. ASSUME NEW t \in Builders, Buildpart(t) PROVE Plain'
  BY <1>1, PlainStep
<1>2. CASE Release
  <2>1. UNCHANGED <<hist, queues, skewtask, task, next, lmax, maxBuild, size, ppc, ptask>>
    BY <1>2 DEF Release, Open, local, prober
  <2>2. \A t \in Builders : pc'[t] \notin {"cluster", "emit"}
    BY <1>2, BarrierFacts DEF Release, Open
  <2>3. PlainQueues' /\ PlainHist' /\ PlainSkew'
    BY <1>0, <2>1 DEF PlainQueues, PlainHist, PlainSkew, queues
  <2>4. PlainLocal' /\ PlainProbers'
    BY <1>0, <2>1, <2>2 DEF PlainLocal, PlainProbers, Joining
  <2> QED BY <2>3, <2>4 DEF Plain
<1>3. ASSUME Takes PROVE Plain'
  BY <1>0, <1>3 DEF Takes, Plain, PlainHist, PlainQueues, PlainSkew, PlainLocal, local
<1>4. CASE SpawnProbers
  <2>1. /\ UNCHANGED <<hist, skewtask, maxBuild, pc, task, next, lmax>>
        /\ PlainQueues' /\ PlainProbers'
    BY <1>4, SpawnFacts DEF local
  <2> QED BY <1>0, <2>1 DEF Plain, PlainHist, PlainSkew, PlainLocal
<1> QED BY <1>1, <1>2, <1>3, <1>4, OthersTake DEF Next, Main
-----------------------------------------------------------------------------
(* What a step of a build thread does to the queues and the maxima.        *)
QueueEffects(t) ==
    /\ \A x \in ToSet(join_queue') :
           \/ x \in ToSet(join_queue)
           \/ pc[t] \in {"emit", "skewtasks"} /\ x.R.num <= lmax'[t]
           \/ t = 0 /\ pc[t] = "drain" /\ x \in ToSet(part_queue)
    /\ \A x \in ToSet(part_queue') :
           x \in ToSet(part_queue) \/ (t = 0 /\ x.R.num <= lmax'[0])
    /\ pc[t] \notin {"emit", "skewtasks", "drain"} => join_queue' = join_queue
    /\ pc'[t] = "share" \/ (part_queue = <<>> /\ (t # 0 \/ pc[t] = "share")) =>
           part_queue' = <<>>

MaxEffects(t) ==
    /\ \A u \in Builders \ {t} : lmax'[u] = lmax[u]
    /\ IF pc[t] = "second" THEN lmax'[t] = 0 ELSE lmax[t] <= lmax'[t]
    /\ t # 0 /\ pc[t] \notin {"second", "emit"} => lmax' = lmax
    /\ IF pc[t] = "share"
       THEN lmax' = lmax /\ (build.passes = 2 => maxBuild' = [maxBuild EXCEPT ![t] = lmax[t]])
                         /\ (build.passes # 2 => maxBuild' = maxBuild)
       ELSE \A u \in Builders : maxBuild[u] <= maxBuild'[u]
    /\ pc[t] = "max" /\ t # 0 => maxBuild' = maxBuild
    /\ pc[t] = "max" /\ t = 0 =>
           lmax'[0] <= maxBuild'[0] /\ \A u \in Builders : maxBuild'[u] = maxBuild'[0]

(* ... as each of them does.                                               *)
LEMMA StepEffects ==
    ASSUME PhaseInv, Plain, NEW t \in Builders, Buildpart(t)
    PROVE  QueueEffects(t) /\ MaxEffects(t) /\ UNCHANGED <<prober, build>>
<1>0. /\ pc \in [Builders -> BuildPC] /\ part_queue \in Seq(PlainTasks)
      /\ lmax \in [Builders -> Nat] /\ maxBuild \in [Builders -> Nat]
  BY DEF PhaseInv, Plain, PlainQueues, PlainLocal
<1>1. UNCHANGED <<prober, build>>
  <2>1. Quiet(t) => UNCHANGED <<prober, build>>
    BY QuietSteps DEF QuietStep
  <2>2. \/ MakeTasks(t) \/ StartSecondPass(t) \/ PopPart(t) \/ Cluster(t) \/ Emit(t)
        \/ ShareMax(t) \/ FetchSkew(t) \/ MakeSkewTasks(t) \/ DrainParts(t) \/ FindMax(t)
        => UNCHANGED <<prober, build>>
    BY DEF MakeTasks, StartSecondPass, PopPart, Cluster, Emit, ShareMax, FetchSkew,
           MakeSkewTasks, DrainParts, FindMax, inputs
  <2> QED BY <2>1, <2>2, BuildpartCases
<1> DEFINE NewPc(c) == pc' = [pc EXCEPT ![t] = c]
<1>2. ASSUME UNCHANGED <<part_queue, join_queue>>, NEW c, NewPc(c), c # "share"
      PROVE  QueueEffects(t)
  BY <1>0, <1>2 DEF QueueEffects
<1>3. ASSUME UNCHANGED <<lmax, maxBuild>>, pc[t] \notin {"second", "share"}, pc[t] = "max" => t # 0
      PROVE  MaxEffects(t)
  BY <1>0, <1>3 DEF MaxEffects
<1>4. ASSUME Grown(lmax, lmax', t), UNCHANGED maxBuild, pc[t] = "emit" \/ t = 0,
             pc[t] \notin {"second", "share", "max"}
      PROVE  MaxEffects(t)
  BY <1>0, <1>4 DEF MaxEffects, Grown
<1>5. CASE Quiet(t)
  <2>1. QuietStep(t)
    BY <1>5, QuietSteps
  <2>2. /\ UNCHANGED <<part_queue, join_queue, lmax, maxBuild>>
        /\ pc[t] \notin {"second", "share", "max"} /\ \E c : NewPc(c) /\ c # "share"
    BY <2>1 DEF QuietStep, QuietPlaces, queues, local
  <2> QED BY <1>1, <1>2, <1>3, <2>2
<1>6. CASE MakeTasks(t)
  <2>1. pc[t] = "tasks" /\ NewPc("queued") /\ UNCHANGED <<join_queue, maxBuild>>
    BY <1>6 DEF MakeTasks, Goto
  <2>2. CASE t = 0
    <3>1. /\ Grown(lmax, lmax', 0)
          /\ \A x \in ToSet(part_queue') : x \in ToSet(part_queue) \/ x.R.num <= lmax'[0]
      BY <1>6, <2>2, MakeTasksFacts
    <3>2. MaxEffects(t)
      BY <1>4, <2>1, <2>2, <3>1
    <3>3. QueueEffects(t)
      BY <1>0, <2>1, <2>2, <3>1 DEF QueueEffects
    <3> QED BY <1>1, <3>2, <3>3
  <2>3. CASE t # 0
    <3>1. UNCHANGED <<part_queue, lmax>>
      BY <1>6, <2>3 DEF MakeTasks
    <3>2. MaxEffects(t)
      BY <1>3, <2>1, <3>1
    <3>3. QueueEffects(t)
      BY <1>2, <2>1, <3>1
    <3> QED BY <1>1, <3>2, <3>3
  <2> QED BY <2>2, <2>3
<1>7. CASE StartSecondPass(t)
  <2>1. /\ pc[t] = "second" /\ NewPc("pop") /\ UNCHANGED <<queues, maxBuild>>
        /\ lmax' = [lmax EXCEPT ![t] = 0]
    BY <1>7 DEF StartSecondPass, Goto
  <2>2. UNCHANGED <<part_queue, join_queue>>
    BY <2>1 DEF queues
  <2>3. QueueEffects(t)
    BY <1>2, <2>1, <2>2
  <2>4. MaxEffects(t)
    BY <1>0, <2>1 DEF MaxEffects
  <2> QED BY <1>1, <2>3, <2>4
<1>8. CASE PopPart(t)
  <2>1. pc[t] = "pop" /\ UNCHANGED <<join_queue, maxBuild, lmax>>
    BY <1>8 DEF PopPart
  <2>2. MaxEffects(t)
    BY <1>3, <2>1
  <2>3. CASE part_queue # <<>>
    <3>1. NewPc("cluster") /\ part_queue' = Tail(part_queue)
      BY <1>8, <2>3 DEF PopPart, Goto
    <3>2. ToSet(part_queue') \subseteq ToSet(part_queue)
      BY <1>0, <2>3, <3>1, PoppedFacts
    <3>3. QueueEffects(t)
      BY <1>0, <2>1, <2>3, <3>1, <3>2 DEF QueueEffects
    <3> QED BY <1>1, <2>2, <3>3
  <2>4. CASE part_queue = <<>>
    <3>1. UNCHANGED part_queue
      BY <1>8, <2>4 DEF PopPart
    <3>2. QueueEffects(t)
      BY <2>1, <2>4, <3>1 DEF QueueEffects
    <3> QED BY <1>1, <2>2, <3>2
  <2> QED BY <2>3, <2>4
<1>9. CASE Cluster(t)
  <2>1. /\ pc[t] = "cluster" /\ NewPc("emit") /\ UNCHANGED <<queues, maxBuild, lmax>>
    BY <1>9 DEF Cluster, Goto
  <2>2. UNCHANGED <<part_queue, join_queue>>
    BY <2>1 DEF queues
  <2>3. QueueEffects(t)
    BY <1>2, <2>1, <2>2
  <2>4. MaxEffects(t)
    BY <1>3, <2>1
  <2> QED BY <1>1, <2>3, <2>4
<1>10. CASE Emit(t)
  <2>1. /\ pc[t] = "emit" /\ UNCHANGED <<part_queue, maxBuild>>
        /\ \E c : NewPc(c) /\ c # "share"
    <3>1. pc[t] = "emit" /\ UNCHANGED <<part_queue, maxBuild>>
      BY <1>10 DEF Emit
    <3>2. NewPc("pop") \/ NewPc("emit")
      BY <1>10 DEF Emit, Goto
    <3> HIDE DEF NewPc
    <3> QED BY <3>1, <3>2
  <2>2. /\ Grown(lmax, lmax', t)
        /\ \A x \in ToSet(join_queue') : x \in ToSet(join_queue) \/ x.R.num <= lmax'[t]
    BY <1>10, EmitFacts
  <2>3. QueueEffects(t)
    BY <1>0, <2>1, <2>2 DEF QueueEffects
  <2>4. MaxEffects(t)
    BY <1>4, <2>1, <2>2
  <2> QED BY <1>1, <2>3, <2>4
<1>11. CASE ShareMax(t)
  <2>1. /\ pc[t] = "share" /\ NewPc("shared") /\ UNCHANGED <<queues, lmax>>
        /\ maxBuild' = IF build.passes = 2 THEN [maxBuild EXCEPT ![t] = lmax[t]] ELSE maxBuild
    BY <1>11 DEF ShareMax, Goto
  <2>2. UNCHANGED <<part_queue, join_queue>>
    BY <2>1 DEF queues
  <2>3. QueueEffects(t)
    BY <1>2, <2>1, <2>2
  <2>4. MaxEffects(t)
    BY <1>0, <2>1 DEF MaxEffects
  <2> QED BY <1>1, <2>3, <2>4
<1>12. CASE FetchSkew(t)
  <2>1. pc[t] = "fetch" /\ NewPc("fetched") /\ UNCHANGED <<part_queue, join_queue, maxBuild, lmax>>
    BY <1>12 DEF FetchSkew, Goto, local
  <2>2. QueueEffects(t)
    BY <1>2, <2>1
  <2>3. MaxEffects(t)
    BY <1>3, <2>1
  <2> QED BY <1>1, <2>2, <2>3
<1>13. CASE MakeSkewTasks(t)
  <2>1. pc[t] = "skewtasks" /\ NewPc("fetch") /\ UNCHANGED maxBuild
    BY <1>13 DEF MakeSkewTasks, Goto
  <2>2. CASE t = 0
    <3>1. /\ Grown(lmax, lmax', 0)
          /\ \A x \in ToSet(part_queue') : x \in ToSet(part_queue) \/ x.R.num <= lmax'[0]
          /\ \A x \in ToSet(join_queue') : x \in ToSet(join_queue) \/ x.R.num <= lmax'[0]
      BY <1>13, <2>2, MakeSkewTasksFacts
    <3>2. MaxEffects(t)
      BY <1>4, <2>1, <2>2, <3>1
    <3>3. QueueEffects(t)
      BY <1>0, <2>1, <2>2, <3>1 DEF QueueEffects
    <3> QED BY <1>1, <3>2, <3>3
  <2>3. CASE t # 0
    <3>1. UNCHANGED <<part_queue, join_queue, lmax>>
      BY <1>13, <2>3 DEF MakeSkewTasks
    <3>2. MaxEffects(t)
      BY <1>3, <2>1, <3>1
    <3>3. QueueEffects(t)
      BY <1>2, <2>1, <3>1
    <3> QED BY <1>1, <3>2, <3>3
  <2> QED BY <2>2, <2>3
<1>14. CASE DrainParts(t)
  <2>1. pc[t] = "drain" /\ NewPc("drained") /\ UNCHANGED <<maxBuild, lmax>>
    BY <1>14 DEF DrainParts, Goto, local
  <2>2. MaxEffects(t)
    BY <1>3, <2>1
  <2>3. CASE t = 0
    <3>1. part_queue' = <<>> /\ ToSet(join_queue') = ToSet(join_queue) \cup ToSet(part_queue)
      BY <1>14, <2>3, DrainFacts
    <3>2. ToSet(<<>>) = {}
      BY DEF ToSet
    <3>3. QueueEffects(t)
      BY <1>0, <2>1, <2>3, <3>1, <3>2 DEF QueueEffects
    <3> QED BY <1>1, <2>2, <3>3
  <2>4. CASE t # 0
    <3>1. UNCHANGED <<part_queue, join_queue>>
      BY <1>14, <2>4 DEF DrainParts
    <3>2. QueueEffects(t)
      BY <1>2, <2>1, <3>1
    <3> QED BY <1>1, <2>2, <3>2
  <2> QED BY <2>3, <2>4
<1>15. CASE FindMax(t)
  <2>1. pc[t] = "max" /\ NewPc("maxed") /\ UNCHANGED queues
    BY <1>15 DEF FindMax, Goto
  <2>2. QueueEffects(t)
    <3>1. UNCHANGED <<part_queue, join_queue>>
      BY <2>1 DEF queues
    <3> QED BY <1>2, <2>1, <3>1
  <2>3. MaxEffects(t)
    <3>1. CASE t = 0
      <4>1. /\ Grown(lmax, lmax', 0) /\ lmax'[0] <= maxBuild'[0]
            /\ \A u \in Builders : maxBuild[u] <= maxBuild'[u] /\ maxBuild'[u] = maxBuild'[0]
        BY <1>15, <3>1, FindMaxFacts
      <4> QED BY <2>1, <3>1, <4>1 DEF MaxEffects, Grown
    <3>2. CASE t # 0
      <4>1. UNCHANGED <<lmax, maxBuild>>
        BY <1>15, <3>2 DEF FindMax
      <4> QED BY <1>3, <2>1, <3>2, <4>1
    <3> QED BY <3>1, <3>2
  <2> QED BY <1>1, <2>2, <2>3
<1> QED BY <1>5, <1>6, <1>7, <1>8, <1>9, <1>10, <1>11, <1>12, <1>13, <1>14, <1>15, BuildpartCases
-----------------------------------------------------------------------------
(* Without probe threads the join tasks are those in join_queue.           *)
LEMMA JoinTasksUnspawned ==
    Unspawned => JoinTasks = ToSet(join_queue)
  BY DEF Unspawned, JoinTasks, Joining

(* A step of a build thread keeps the order.                               *)
LEMMA InOrderStep ==
    ASSUME FitInv, NEW t \in Builders, Buildpart(t) PROVE InOrder' /\ Unspawned /\ Unspawned'
<1>0. /\ QueueEffects(t) /\ UNCHANGED <<prober, build>> /\ Advance(t) /\ PhaseInv /\ InOrder
      /\ build \in Builds /\ 0 \in Builders
  BY StepEffects, StepAdvances, PhjAssumption DEF FitInv, PhaseInv, Builders
<1>1. PICK c \in BuildPC : pc' = [pc EXCEPT ![t] = c] /\ PcStep(t, c)
  BY <1>0 DEF Advance
<1>2. pc'[t] = c /\ \A u \in Builders \ {t} : pc'[u] = pc[u]
  BY <1>0, <1>1 DEF PhaseInv
<1>3. Unspawned
  <2>1. pc[t] # "exit"
    BY <1>1 DEF PcStep
  <2> QED BY <1>0, <2>1 DEF InOrder
<1>4. Unspawned'
  BY <1>0, <1>3 DEF Unspawned, prober
<1>5. build.passes \in {1, 2} /\ (build.skew => build.passes = 2)
  BY <1>0, PhjAssumption
<1>6. \A u \in Builders : pc'[u] \in {"second", "pop", "cluster", "emit"} => build.passes = 2
  <2>1. c \in {"second", "pop", "cluster", "emit"} => pc[t] \in {"second", "pop", "cluster", "emit"}
    BY <1>1 DEF PcStep
  <2> QED BY <1>0, <1>2, <2>1 DEF InOrder
<1>7. \A u \in Builders : part'[u] = "skew" => build.passes = 2
  BY <1>0, <1>5 DEF InOrder, Advance, PhaseInv
<1>8. build.passes = 2 /\ pc'[0] = "share" => part_queue' = <<>>
  <2>1. CASE t = 0
    BY <1>0, <2>1 DEF QueueEffects
  <2>2. CASE t # 0
    <3>1. pc'[0] = pc[0]
      BY <1>0, <1>2, <2>2
    <3> QED BY <1>0, <2>2, <3>1 DEF QueueEffects, InOrder
  <2> QED BY <2>1, <2>2
<1>9. build.passes = 1 => join_queue' = <<>>
  <2>1. pc[t] \in {"skewtasks", "drain"} => part[t] = "skew"
    BY <1>0 DEF PhaseInv, Turns
  <2>2. pc[t] \in {"emit", "skewtasks", "drain"} => build.passes = 2
    BY <1>0, <2>1 DEF InOrder
  <2> QED BY <1>0, <1>3, <2>2 DEF QueueEffects, InOrder
<1> QED BY <1>0, <1>3, <1>4, <1>6, <1>7, <1>8, <1>9 DEF InOrder

(* What a thread has seen stays seen, and no thread is past the second     *)
(* pass without its maximum in its slot.                                   *)
LEMMA PastStays ==
    ASSUME PhaseInv, NEW t \in Builders, Advance(t), NEW u \in Builders
    PROVE  /\ Past(u) => Past(u)'
           /\ InSlot(u)' => InSlot(u) \/ (u = t /\ pc[t] = "share")
           /\ InSlot(u) => pc[u] \notin {"second", "emit", "share"}
           /\ Past(u) => pc[u] # "second"
<1>1. PICK c \in BuildPC : pc' = [pc EXCEPT ![t] = c] /\ PcStep(t, c)
  BY DEF Advance
<1>2. pc'[t] = c /\ \A v \in Builders \ {t} : pc'[v] = pc[v]
  BY <1>1 DEF PhaseInv
<1>3. /\ \A v \in Builders : part[v] = "skew" => part'[v] = "skew"
      /\ \A v \in Builders \ {t} : part'[v] = part[v]
      /\ pc[t] # "share" => part' = part
  BY DEF Advance, PhaseInv
<1>4. pc[u] \in {"second", "emit", "share"} => part[u] = "first"
  BY DEF PhaseInv, Turns
<1>5. CASE u # t
  <2>1. pc'[u] = pc[u] /\ part'[u] = part[u]
    BY <1>2, <1>3, <1>5
  <2> QED BY <1>4, <2>1 DEF Past, InSlot
<1>6. CASE u = t
  <2>1. Past(u) => Past(u)'
    BY <1>1, <1>2, <1>3, <1>6 DEF Past, PcStep
  <2>2. InSlot(u)' => InSlot(u) \/ pc[t] = "share"
    BY <1>1, <1>2, <1>3, <1>6 DEF InSlot, PcStep
  <2> QED BY <1>4, <1>6, <2>1, <2>2 DEF Past, InSlot
<1> QED BY <1>5, <1>6

(* A step of a build thread keeps what is measured.                        *)
LEMMA MeasuredStep ==
    ASSUME FitInv, NEW t \in Builders, Buildpart(t) PROVE Measured'
<1>0. /\ QueueEffects(t) /\ MaxEffects(t) /\ UNCHANGED <<prober, build>> /\ Advance(t)
      /\ PhaseInv /\ InOrder /\ Plain /\ Plain' /\ Measured /\ 0 \in Builders
  BY StepEffects, StepAdvances, PlainStep, PhjAssumption DEF FitInv, Builders
<1>00. /\ build.passes \in {1, 2} /\ Unspawned /\ Unspawned'
  BY <1>0, InOrderStep, PhjAssumption DEF PhaseInv
<1>1. JoinTasks = ToSet(join_queue) /\ JoinTasks' = ToSet(join_queue')
  <2>1. Unspawned' => JoinTasks' = ToSet(join_queue')
    BY DEF Unspawned, JoinTasks, Joining
  <2> QED BY <1>00, <2>1, JoinTasksUnspawned
<1>2. PICK c \in BuildPC : pc' = [pc EXCEPT ![t] = c] /\ PcStep(t, c)
  BY <1>0 DEF Advance
<1>3. pc'[t] = c /\ \A u \in Builders \ {t} : pc'[u] = pc[u]
  BY <1>0, <1>2 DEF PhaseInv
<1>4. /\ \A u \in Builders : lmax[u] \in Nat /\ lmax'[u] \in Nat /\ maxBuild[u] \in Nat /\ maxBuild'[u] \in Nat
      /\ maxBuild \in [Builders -> Nat]
  BY <1>0 DEF Plain, PlainLocal
<1>5. \A x \in ToSet(join_queue') \cup ToSet(join_queue) \cup ToSet(part_queue) \cup ToSet(part_queue') :
          x.R.num \in Int
  <2>1. /\ join_queue \in Seq(PlainTasks) /\ join_queue' \in Seq(PlainTasks)
        /\ part_queue \in Seq(PlainTasks) /\ part_queue' \in Seq(PlainTasks)
    BY <1>0 DEF Plain, PlainQueues
  <2>2. \A q \in Seq(PlainTasks) : \A x \in ToSet(q) : x \in PlainTasks
    BY DEF ToSet
  <2>3. \A x \in PlainTasks : x.R.num \in Int
    BY DEF PlainTasks, PlainRooms
  <2> QED BY <2>1, <2>2, <2>3
<1>6. \A u \in Builders : /\ Past(u) => Past(u)'
                          /\ InSlot(u)' => InSlot(u) \/ (u = t /\ pc[t] = "share")
                          /\ InSlot(u) => pc[u] \notin {"second", "emit", "share"}
                          /\ Past(u) => pc[u] # "second"
  BY <1>0, PastStays
<1>7. ASSUME NEW u \in Builders, Past(u) PROVE lmax[u] <= lmax'[u]
  <2>1. pc[u] # "second"
    BY <1>6, <1>7
  <2> QED BY <1>0, <1>4, <2>1 DEF MaxEffects
<1>8. ASSUME NEW x \in ToSet(join_queue') PROVE \E u \in Builders : SeenBy(x, u)'
  <2>1. CASE x \in ToSet(join_queue)
    <3>1. PICK u \in Builders : SeenBy(x, u)
      BY <1>0, <1>1, <2>1 DEF Measured
    <3>2. SeenBy(x, u)'
      BY <1>4, <1>5, <1>6, <1>7, <1>8, <3>1 DEF SeenBy
    <3> QED BY <3>2
  <2>2. CASE pc[t] \in {"emit", "skewtasks"} /\ x.R.num <= lmax'[t]
    <3>1. Past(t)
      BY <1>0, <2>2 DEF Past, PhaseInv, Turns
    <3>2. SeenBy(x, t)'
      BY <1>6, <2>2, <3>1 DEF SeenBy
    <3> QED BY <3>2
  <2>3. CASE t = 0 /\ pc[t] = "drain" /\ x \in ToSet(part_queue)
    <3>1. part[0] = "skew" /\ Past(0)
      BY <1>0, <2>3 DEF Past, PhaseInv, Turns
    <3>2. x.R.num <= lmax[0]
      BY <1>0, <1>00, <2>3, <3>1 DEF Measured
    <3>3. SeenBy(x, 0)'
      BY <1>0, <1>4, <1>5, <1>6, <1>7, <2>3, <3>1, <3>2 DEF SeenBy
    <3> QED BY <1>0, <3>3
  <2> QED BY <1>0, <1>8, <2>1, <2>2, <2>3 DEF QueueEffects
<1>9. ASSUME build.passes = 1 \/ part'[0] = "skew", NEW x \in ToSet(part_queue')
      PROVE  x.R.num <= lmax'[0]
  <2>1. pc[0] # "second"
    <3>1. pc[0] = "second" => build.passes = 2 /\ part'[0] = "first"
      BY <1>0 DEF InOrder, Advance, PhaseInv, Turns
    <3> QED BY <1>9, <3>1
  <2>2. lmax[0] <= lmax'[0]
    BY <1>0, <1>4, <2>1 DEF MaxEffects
  <2>3. CASE build.passes = 1 \/ part[0] = "skew"
    <3>1. x \in ToSet(part_queue) => x.R.num <= lmax[0]
      BY <1>0, <1>00, <2>3 DEF Measured
    <3> QED BY <1>0, <1>4, <1>5, <1>9, <2>2, <3>1 DEF QueueEffects
  <2>4. CASE ~(build.passes = 1 \/ part[0] = "skew")
    <3>1. t = 0 /\ pc[0] = "share"
      BY <1>0, <1>9, <2>4 DEF Advance, PhaseInv
    <3>2. part_queue' = <<>>
      BY <1>0, <1>00, <2>4, <3>1 DEF InOrder, QueueEffects
    <3> QED BY <1>9, <3>2 DEF ToSet
  <2> QED BY <2>3, <2>4
<1>10. ASSUME NEW u \in Builders \ {0}
       PROVE  IF build.passes = 1 THEN lmax'[u] = 0 ELSE InSlot(u)' => lmax'[u] <= maxBuild'[u]
  <2>1. CASE build.passes = 1
    <3>1. pc[t] \notin {"second", "emit"} /\ lmax[u] = 0
      BY <1>0, <2>1 DEF InOrder, Measured
    <3> QED BY <1>0, <2>1, <3>1 DEF MaxEffects
  <2>2. CASE build.passes # 1
    <3>1. CASE InSlot(u)
      <4>1. lmax[u] <= maxBuild[u]
        BY <1>0, <2>2, <3>1 DEF Measured
      <4>2. pc[u] \notin {"second", "emit", "share"}
        BY <1>6, <3>1
      <4>3. lmax'[u] = lmax[u]
        BY <1>0, <4>2 DEF MaxEffects
      <4>4. maxBuild[u] <= maxBuild'[u]
        <5>1. CASE pc[t] = "share"
          <6>1. maxBuild' = [maxBuild EXCEPT ![t] = lmax[t]]
            BY <1>0, <1>00, <2>2, <5>1 DEF MaxEffects
          <6>2. u # t
            BY <4>2, <5>1
          <6> QED BY <1>4, <6>1, <6>2
        <5>2. CASE pc[t] # "share"
          BY <1>0, <5>2 DEF MaxEffects
        <5> QED BY <5>1, <5>2
      <4> QED BY <1>4, <2>2, <4>1, <4>3, <4>4
    <3>2. CASE ~InSlot(u)
      <4>1. SUFFICES ASSUME u = t, pc[t] = "share" PROVE lmax'[u] <= maxBuild'[u]
        BY <1>6, <2>2, <3>2
      <4>2. lmax' = lmax /\ maxBuild' = [maxBuild EXCEPT ![t] = lmax[t]]
        BY <1>0, <1>00, <2>2, <4>1 DEF MaxEffects
      <4> QED BY <1>4, <4>1, <4>2
    <3> QED BY <3>1, <3>2
  <2> QED BY <2>1, <2>2
<1>11. ASSUME pc'[0] \in {"maxed", "exit"}, NEW u \in Builders PROVE lmax'[u] <= maxBuild'[0]
  <2>1. PICK P \in Phases : \A v \in Builders : pc[v] \in P
    BY <1>0 DEF PhaseInv, SamePhase
  <2>2. pc[0] \in {"max", "maxed", "exit"}
    <3>1. c \in {"maxed", "exit"} => pc[t] = "max"
      BY <1>2 DEF PcStep
    <3> QED BY <1>0, <1>3, <1>11, <3>1
  <2>3. \A v \in Builders : pc[v] \in {"max", "maxed", "exit"}
    BY <1>0, <2>1, <2>2 DEF Phases, ScatterPhases, AfterR, AfterS, LookPhase, SecondPhase
  <2>4. pc[t] = "max"
    BY <1>2, <2>3 DEF PcStep
  <2>5. CASE t # 0
    <3>1. lmax' = lmax /\ maxBuild' = maxBuild /\ pc'[0] = pc[0]
      BY <1>0, <1>3, <2>4, <2>5 DEF MaxEffects
    <3> QED BY <1>0, <1>11, <3>1 DEF Measured
  <2>6. CASE t = 0
    <3>1. /\ lmax'[0] <= maxBuild'[0] /\ maxBuild'[u] = maxBuild'[0]
          /\ maxBuild[u] <= maxBuild'[u] /\ (u # 0 => lmax'[u] = lmax[u])
      BY <1>0, <2>4, <2>6 DEF MaxEffects
    <3>2. u # 0 => lmax[u] <= maxBuild[u]
      <4>1. InSlot(u)
        BY <2>3 DEF InSlot
      <4> QED BY <1>0, <1>4, <4>1 DEF Measured
    <3> QED BY <1>0, <1>4, <3>1, <3>2
  <2> QED BY <2>5, <2>6
<1>12. Builders' = Builders /\ build' = build
  BY <1>0 DEF Builders
<1> QED BY <1>00, <1>1, <1>8, <1>9, <1>10, <1>11, <1>12 DEF Measured
(* A barrier lets all threads go on.                                       *)
LEMMA FitRelease ==
    ASSUME FitInv, Release PROVE InOrder' /\ Measured'
<1>0. /\ PhaseInv /\ InOrder /\ Measured /\ 0 \in Builders /\ build.passes \in {1, 2}
      /\ build.skew => build.passes = 2
  BY PhjAssumption DEF FitInv, PhaseInv, Builders
<1>1. /\ pc[0] \in DOMAIN AfterBarrier /\ \A t \in Builders : pc[t] = pc[0]
      /\ pc' = [t \in Builders |-> AfterBarrier[pc[0]]]
      /\ UNCHANGED <<build, part_queue, join_queue, part, lmax, maxBuild, size, ppc, ptask>>
  BY DEF Release, Open, inputs, queues, local, prober
<1> DEFINE c == AfterBarrier[pc[0]]
<1>2. \A t \in Builders : pc'[t] = c
  BY <1>1
<1>3. /\ c \in {"zero", "countR", "scatterR", "scatterS", "restsR", "restsS", "tasks", "second",
                "share", "fetch", "max", "look", "skewtasks", "exit"}
      /\ c = "second" => build.passes = 2
      /\ c = "share" => build.passes = 1
      /\ c = "exit" => pc[0] = "maxed"
      /\ c = "max" => pc[0] = "drained" \/ (pc[0] = "shared" /\ ~build.skew)
      /\ c = "fetch" => build.skew
      /\ pc[0] = "shared" => c = IF build.skew THEN "fetch" ELSE "max"
      /\ pc[0] = "maxed" => c = "exit"
      /\ pc[0] \notin {"pop", "cluster", "emit", "share", "max", "exit"}
  <2> HIDE DEF c
  <2>1. c = AfterBarrier[pc[0]]
    BY DEF c
  <2> QED BY <1>0, <1>1, <2>1, BarrierFacts
<1> HIDE DEF c
<1>4. Unspawned /\ Unspawned' /\ JoinTasks' = JoinTasks
  <2>1. pc[0] # "exit"
    BY <1>3
  <2> QED BY <1>0, <1>1, <2>1 DEF InOrder, Unspawned, JoinTasks, Joining
<1>5. ASSUME NEW u \in Builders
      PROVE  (Past(u) => Past(u)') /\ (InSlot(u)' => InSlot(u))
  <2>1. /\ pc[u] = pc[0] /\ pc'[u] = c /\ part'[u] = part[u]
    BY <1>1, <1>2
  <2>2. /\ pc[0] = "shared" /\ build.skew => part[u] = "skew"
        /\ pc[0] = "drained" => part[u] = "skew"
    BY <1>0, <2>1 DEF PhaseInv, Turns
  <2> QED BY <1>3, <2>1, <2>2 DEF Past, InSlot
<1>6. InOrder'
  BY <1>0, <1>1, <1>2, <1>3, <1>4 DEF InOrder
<1>7. ASSUME NEW x, NEW u \in Builders, SeenBy(x, u) PROVE SeenBy(x, u)'
  BY <1>1, <1>5, <1>7 DEF SeenBy
<1>8. \A x \in JoinTasks : \E u \in Builders : SeenBy(x, u)'
  <2> SUFFICES ASSUME NEW x \in JoinTasks PROVE \E u \in Builders : SeenBy(x, u)'
    OBVIOUS
  <2>1. PICK u \in Builders : SeenBy(x, u)
    BY <1>0 DEF Measured
  <2>2. SeenBy(x, u)'
    BY <1>7, <2>1
  <2> QED BY <2>2
<1>9. pc'[0] \in {"maxed", "exit"} => pc[0] \in {"maxed", "exit"}
  BY <1>0, <1>2, <1>3
<1> QED BY <1>0, <1>1, <1>4, <1>5, <1>6, <1>8, <1>9 DEF Measured

(* The main thread starts the probe threads when all is measured.          *)
LEMMA FitSpawn ==
    ASSUME FitInv, SpawnProbers PROVE InOrder' /\ Measured'
<1>0. /\ PhaseInv /\ Plain /\ InOrder /\ Measured /\ 0 \in Builders /\ build.passes \in {1, 2}
  BY PhjAssumption DEF FitInv, PhaseInv, Builders
<1>1. /\ UNCHANGED <<build, pc, part, lmax, maxBuild>>
      /\ \A t \in Builders : pc[t] = "exit"
      /\ Unspawned /\ ~Unspawned' /\ size' = maxBuild[0]
      /\ JoinTasks' = ToSet(IF build.passes = 1 THEN part_queue ELSE join_queue)
  BY <1>0, SpawnFacts DEF local
<1>2. InOrder'
  BY <1>0, <1>1 DEF InOrder
<1>3. \A x \in JoinTasks' : \E u \in Builders : SeenBy(x, u)'
  <2> SUFFICES ASSUME NEW x \in JoinTasks' PROVE \E u \in Builders : SeenBy(x, u)'
    OBVIOUS
  <2>1. CASE build.passes = 1
    <3>1. x.R.num <= lmax[0]
      BY <1>0, <1>1, <2>1 DEF Measured
    <3>2. SeenBy(x, 0)'
      BY <1>0, <1>1, <3>1 DEF SeenBy, Past
    <3> QED BY <1>0, <3>2
  <2>2. CASE build.passes # 1
    <3>1. x \in JoinTasks
      BY <1>1, <2>2 DEF JoinTasks
    <3>2. PICK u \in Builders : SeenBy(x, u)
      BY <1>0, <3>1 DEF Measured
    <3>3. SeenBy(x, u)'
      BY <1>1, <3>2 DEF SeenBy, Past
    <3> QED BY <3>3
  <2> QED BY <2>1, <2>2
<1>4. \A u \in Builders : InSlot(u)' <=> InSlot(u)
  BY <1>1 DEF InSlot
<1> QED BY <1>0, <1>1, <1>2, <1>3, <1>4 DEF Measured

(* ... and they only take tasks.                                           *)
LEMMA FitTakes ==
    ASSUME FitInv, Takes PROVE InOrder' /\ Measured'
<1>0. InOrder /\ Measured
  BY DEF FitInv
<1>1. UNCHANGED <<build, part_queue, pc, part, lmax, maxBuild, size>> /\ JoinTasks' \subseteq JoinTasks
  BY DEF Takes, local
<1>2. IF Unspawned THEN Unspawned' /\ join_queue' = join_queue ELSE ~Unspawned'
  BY DEF Takes
<1>3. InOrder'
  BY <1>0, <1>1, <1>2 DEF InOrder
<1>4. \A x \in JoinTasks' : \E u \in Builders : SeenBy(x, u)'
  <2> SUFFICES ASSUME NEW x \in JoinTasks' PROVE \E u \in Builders : SeenBy(x, u)'
    OBVIOUS
  <2>1. PICK u \in Builders : SeenBy(x, u)
    BY <1>0, <1>1 DEF Measured
  <2>2. SeenBy(x, u)'
    BY <1>1, <2>1 DEF SeenBy, Past
  <2> QED BY <2>2
<1>5. \A u \in Builders : InSlot(u)' <=> InSlot(u)
  BY <1>1 DEF InSlot
<1> QED BY <1>0, <1>1, <1>2, <1>3, <1>4, <1>5 DEF Measured

(* The invariant holds in the beginning                                    *)
LEMMA FitInit == Init => FitInv
<1> SUFFICES ASSUME Init PROVE FitInv
  OBVIOUS
<1>0. PhaseInv /\ Plain /\ 0 \in Builders
  BY PhaseInit, PlainInit, PhjAssumption DEF Builders
<1>1. /\ pc = [t \in Builders |-> "memset"] /\ part = [t \in Builders |-> "first"]
      /\ lmax = [t \in Builders |-> 0] /\ ppc = [p \in Probers |-> "idle"]
      /\ part_queue = <<>> /\ join_queue = <<>>
  BY DEF Init, Load, LoadInto, Pool
<1>2. Unspawned
  BY <1>1 DEF Unspawned
<1>3. InOrder
  BY <1>0, <1>1, <1>2 DEF InOrder
<1>4. JoinTasks = {} /\ ToSet(part_queue) = {}
  BY <1>1, <1>2, JoinTasksUnspawned DEF ToSet
<1>5. \A u \in Builders : ~InSlot(u)
  BY <1>1 DEF InSlot
<1>6. Measured
  BY <1>0, <1>1, <1>2, <1>4, <1>5 DEF Measured
<1> QED BY <1>0, <1>3, <1>6 DEF FitInv

(* and is kept by every step.                                              *)
LEMMA FitNext == FitInv /\ [Next]_vars => FitInv'
<1> SUFFICES ASSUME FitInv, [Next]_vars PROVE FitInv'
  OBVIOUS
<1>1. PhaseInv' /\ Plain'
  BY PhaseNext, PlainNext DEF FitInv
<1>2. InOrder' /\ Measured'
  <2>1. ASSUME NEW t \in Builders, Buildpart(t) PROVE InOrder' /\ Measured'
    BY <2>1, InOrderStep, MeasuredStep
  <2>2. CASE Release
    BY <2>2, FitRelease
  <2>3. CASE SpawnProbers
    BY <2>3, FitSpawn
  <2>4. ASSUME Takes PROVE InOrder' /\ Measured'
    BY <2>4, FitTakes
  <2> QED BY <2>1, <2>2, <2>3, <2>4, OthersTake DEF Next, Main, FitInv
<1> QED BY <1>1, <1>2 DEF FitInv

(* The maximum that the intermediate memory is allocated for is that of    *)
(* all join tasks, whichever thread made them, in either pass or with skew *)
(* handling (phj.c:1308, 1352, 1592, 1671, 2135).                          *)
THEOREM IntermediateAlwaysFits == Spec => []IntermediateFits
<1>1. FitInv => IntermediateFits
  <2> SUFFICES ASSUME FitInv, ~Unspawned, NEW x \in JoinTasks PROVE x.R.num <= size
    BY DEF IntermediateFits, Unspawned
  <2>1. PICK u \in Builders : SeenBy(x, u)
    BY DEF FitInv, Measured
  <2>2. lmax[u] <= size /\ lmax[u] \in Int /\ size \in Int
    BY DEF FitInv, Measured, Plain, PlainLocal, PlainProbers
  <2>3. x \in PlainTasks
    BY DEF FitInv, Plain, PlainQueues, PlainProbers, JoinTasks, ToSet
  <2>4. x.R.num \in Int
    BY <2>3 DEF PlainTasks, PlainRooms
  <2> QED BY <2>1, <2>2, <2>4 DEF SeenBy
<1> QED BY <1>1, FitInit, FitNext, PTL DEF Spec

(***************************************************************************)
(* The proofs about Phj, continued: RoomsApart.                            *)
(*                                                                         *)
(* Layer 3: the places of the rooms (RoomInv).  Three kinds of tasks are   *)
(* about: those to be partitioned, in a queue or in the hands of one       *)
(* thread or of all; what is left of a task whose join tasks are being     *)
(* made; and the join tasks.  Tasks to be partitioned keep Margin tuples   *)
(* behind each room clear, which is where their own padding goes, and join *)
(* tasks keep Pad tuples behind their R room.  Every step that makes tasks *)
(* of a task makes them within it:                                         *)
(*   - the first pass puts Margin tuples between any two partitions        *)
(*     (MakeTasksRooms), from the histograms of all threads;               *)
(*   - the second pass makes join tasks from the front, and what is left   *)
(*     begins behind the padding of the last one (EmitRoom);               *)
(*   - skew handling makes them from histograms that count no more tuples  *)
(*     than the task has (HistBounded, SkewTotals, MakeSkewTasksRooms).    *)
(* For this what is in the room must not change while it is partitioned,   *)
(* and the queues must be empty when thread 0 makes the first tasks        *)
(* (Emptied).                                                              *)
(***************************************************************************)

(* A task that is partitioned once more needs Margin tuples behind each of *)
(* its rooms, for the padding of its partitions.                           *)
Margin == Fanout2 * Pad

(* Two rooms with m and n tuples behind them are clear of each other.      *)
EndOf(a, m)       == a.base + a.num + m
Clear(a, m, b, n) == EndOf(a, m) <= b.base \/ EndOf(b, n) <= a.base

(* So are two tasks to be partitioned; a join task, and one to be          *)
(* partitioned; two join tasks.                                            *)
Far(x, y, m)    == Clear(x.R, m, y.R, m) /\ Clear(x.S, m, y.S, m)
Beside(y, x, m) == Clear(y.R, Pad, x.R, m) /\ Clear(y.S, Pad, x.S, m)
Fit(x, y)       == /\ x.R = y.R \/ Clear(x.R, Pad, y.R, Pad)
                   /\ x = y \/ Clear(x.S, 0, y.S, 0)

(* The tasks of part_queue are to be partitioned in the second pass, and   *)
(* ready to be joined otherwise.                                           *)
Parting == build.passes = 2 /\ part[0] = "first"
Own     == IF Parting THEN part_queue ELSE <<>>
Final   == JoinTasks \cup IF Parting THEN {} ELSE ToSet(part_queue)

(* What is left of task x from partition p on; what thread t still has to  *)
(* make join tasks of.                                                     *)
ToCome(x, X, p) ==
    Room(x[X].arr, x[X].base + ClusterOffset(x, X, p), x[X].num - ClusterOffset(x, X, p))
LeftOf(x, p) == Task(ToCome(x, "R", p), ToCome(x, "S", p))
Left(t)      == IF pc[t] = "cluster" THEN task[t] ELSE LeftOf(task[t], next[t])

(* Who partitions what: a thread on its own, or All together.              *)
All     == -1
Holders == {t \in Builders : pc[t] \in {"cluster", "emit"}} \cup IF InSkew THEN {All} ELSE {}
Held    == [h \in Holders |-> IF h = All THEN skewtask ELSE Left(h)]

(* All that is to be partitioned is far apart.                             *)
Spaced(q, m) == \A i, j \in DOMAIN q : i # j => Far(q[i], q[j], m)

Apart(own, skew, held, m) ==
    /\ Spaced(own, m) /\ Spaced(skew, m)
    /\ \A x \in ToSet(own), y \in ToSet(skew) : Far(x, y, m)
    /\ \A h \in DOMAIN held : \A x \in ToSet(own) \cup ToSet(skew) : Far(held[h], x, m)
    /\ \A h, k \in DOMAIN held : h # k => Far(held[h], held[k], m)

(* Join tasks are clear of it, and of each other.                          *)
Beyond(final, own, skew, held, m) ==
    \A y \in final :
        /\ \A x \in ToSet(own) \cup ToSet(skew) : Beside(y, x, m)
        /\ \A h \in DOMAIN held : Beside(y, held[h], m)
Fitting(final) == \A x, y \in final : Fit(x, y)

Separate(own, skew, held, final, m) ==
    /\ Apart(own, skew, held, m) /\ Beyond(final, own, skew, held, m) /\ Fitting(final)

(* What is to be partitioned has been written by the first pass.           *)
Sound(x) == \A X \in Rels : x[X].arr = "tmp" /\ x[X].num \in Nat
AllSound ==
    /\ \A x \in ToSet(Own) \cup ToSet(skew_queue) : Sound(x)
    /\ skewtask # NULL => Sound(skewtask)
    /\ \A t \in Builders : /\ pc[t] \in {"cluster", "emit"} => Sound(task[t])
                           /\ pc[t] = "emit" => next[t] \in 0 .. Fanout2 - 1

(* The queues are empty before the first tasks are made, and part_queue is *)
(* when thread 0 has done its second pass.                                 *)
Early == {"memset", "ready", "zero", "zeroed", "countR", "countedR", "scatterR", "linedR",
          "restsR", "countS", "countedS", "scatterS", "linedS", "restsS", "parted", "tasks"}
Emptied ==
    /\ part[0] = "first" /\ pc[0] \in Early =>
           part_queue = <<>> /\ skew_queue = <<>> /\ join_queue = <<>>
    /\ build.passes = 2 /\ pc[0] \in {"share", "shared"} => part_queue = <<>>
    /\ part[0] = "first" \/ pc[0] \in SecondPhase => skewtask = NULL

(* What a thread counts of a skew task is not more than its share.         *)
Uncounted(X) == {"zeroed", "countR"} \cup
                IF X = "R" THEN {}
                ELSE {"countedR", "scatterR", "linedR", "restsR", "countS"}
Counted(X)   == {"countedS", "scatterS", "linedS", "restsS", "skewed"} \cup
                IF X = "S" THEN {}
                ELSE {"countedR", "scatterR", "linedR", "restsR", "countS"}
Bins         == 0 .. Fanout2 - 1
Bounded(t, X) ==
    SumFunctionOnSet(hist[X][t], Bins) <= Cardinality(Share(skewtask[X].num, BuildNum, t))
HistBounded ==
    /\ \A t \in Builders, X \in Rels : part[t] = "skew" =>
           /\ pc[t] \in Uncounted(X) => hist[X][t] = NoCounts
           /\ pc[t] \in Counted(X) => Bounded(t, X)
    /\ pc[0] = "skewtasks" => \A t \in Builders, X \in Rels : Bounded(t, X)

(* The arrays that the second pass reads are there.                        *)
MemThere == \A X \in Rels : X \in DOMAIN mem /\ "tmp" \in DOMAIN mem[X]

RoomInv ==
    /\ MemThere /\ Emptied /\ HistBounded /\ AllSound
    /\ Separate(Own, skew_queue, Held, Final, Margin)

-----------------------------------------------------------------------------
(* The numbers of a task's rooms.                                          *)
LEMMA TaskNumbers ==
    ASSUME NEW x \in PlainTasks
    PROVE  /\ x.R \in PlainRooms /\ x.S \in PlainRooms /\ x["R"] = x.R /\ x["S"] = x.S
           /\ x.R.base \in Int /\ x.R.num \in Int /\ x.S.base \in Int /\ x.S.num \in Int
  BY DEF PlainTasks, PlainRooms

(* A task that lies within another one.                                    *)
Inner(a, n, b, m) == b.base <= a.base /\ EndOf(a, n) <= EndOf(b, m)
Inside(y, x, m)   == Inner(y.R, m, x.R, m) /\ Inner(y.S, m, x.S, m)

(* What is clear of a room is clear of what lies within it.                *)
LEMMA ClearInner ==
    ASSUME NEW a \in PlainRooms, NEW b \in PlainRooms, NEW c \in PlainRooms,
           NEW n \in Int, NEW m \in Int, NEW k \in Int, Inner(a, n, b, m)
    PROVE  /\ Clear(b, m, c, k) => Clear(a, n, c, k)
           /\ Clear(c, k, b, m) => Clear(c, k, a, n)
  BY DEF Clear, Inner, EndOf, PlainRooms

(* Clear of each other is mutual.                                          *)
LEMMA FarSymmetric ==
    ASSUME NEW x, NEW y, NEW m, Far(x, y, m) PROVE Far(y, x, m)
  BY DEF Far, Clear

(* The same for tasks.                                                     *)
LEMMA InsideFacts ==
    ASSUME NEW x \in PlainTasks, NEW y \in PlainTasks, NEW z \in PlainTasks, NEW m \in Int,
           Inside(y, x, m)
    PROVE  /\ Far(x, z, m) => Far(y, z, m)
           /\ Far(z, x, m) => Far(z, y, m)
           /\ Beside(z, x, m) => Beside(z, y, m)
<1>0. Pad \in Int /\ 0 \in Int
  BY PhjAssumption
<1>1. /\ x.R \in PlainRooms /\ x.S \in PlainRooms /\ y.R \in PlainRooms /\ y.S \in PlainRooms
      /\ z.R \in PlainRooms /\ z.S \in PlainRooms
  BY TaskNumbers
<1>2. Inner(y.R, m, x.R, m) /\ Inner(y.S, m, x.S, m)
  BY DEF Inside
<1>3. Far(x, z, m) => Far(y, z, m)
  BY <1>1, <1>2, ClearInner DEF Far
<1>4. Far(z, x, m) => Far(z, y, m)
  BY <1>1, <1>2, ClearInner DEF Far
<1>5. Beside(z, x, m) => Beside(z, y, m)
  BY <1>0, <1>1, <1>2, ClearInner DEF Beside
<1> QED BY <1>3, <1>4, <1>5

(* Steps after which less is to be partitioned.                            *)
LEMMA HeldShrinks ==
    ASSUME NEW m \in Int, NEW own \in Seq(PlainTasks), NEW skew \in Seq(PlainTasks),
           NEW H, NEW held \in [H -> PlainTasks], Apart(own, skew, held, m),
           NEW J \in SUBSET H, NEW less \in [J -> PlainTasks],
           \A h \in J : Inside(less[h], held[h], m)
    PROVE  /\ Apart(own, skew, less, m)
           /\ \A final \in SUBSET PlainTasks :
                  Beyond(final, own, skew, held, m) => Beyond(final, own, skew, less, m)
<1>0. /\ ToSet(own) \subseteq PlainTasks /\ ToSet(skew) \subseteq PlainTasks
      /\ DOMAIN held = H /\ DOMAIN less = J
      /\ \A h \in J : less[h] \in PlainTasks /\ held[h] \in PlainTasks
  BY DEF ToSet
<1>1. \A h \in J : \A x \in ToSet(own) \cup ToSet(skew) : Far(less[h], x, m)
  <2> TAKE h \in J
  <2> TAKE x \in ToSet(own) \cup ToSet(skew)
  <2>1. Far(held[h], x, m)
    BY <1>0 DEF Apart
  <2>2. less[h] \in PlainTasks /\ held[h] \in PlainTasks /\ x \in PlainTasks /\ Inside(less[h], held[h], m)
    BY <1>0
  <2> QED BY <2>1, <2>2, InsideFacts
<1>2. ASSUME NEW h \in J, NEW k \in J, h # k PROVE Far(less[h], less[k], m)
  <2>1. Far(held[h], held[k], m)
    BY <1>0, <1>2 DEF Apart
  <2>2. /\ less[h] \in PlainTasks /\ held[h] \in PlainTasks /\ Inside(less[h], held[h], m)
        /\ less[k] \in PlainTasks /\ held[k] \in PlainTasks /\ Inside(less[k], held[k], m)
    BY <1>0
  <2>3. Far(less[h], held[k], m)
    BY <2>1, <2>2, InsideFacts
  <2> QED BY <2>2, <2>3, InsideFacts
<1>3. Apart(own, skew, less, m)
  BY <1>0, <1>1, <1>2 DEF Apart
<1>4. ASSUME NEW final \in SUBSET PlainTasks, Beyond(final, own, skew, held, m)
      PROVE  Beyond(final, own, skew, less, m)
  <2>1. ASSUME NEW y \in final, NEW h \in J PROVE Beside(y, less[h], m)
    <3>1. Beside(y, held[h], m)
      BY <1>0, <1>4 DEF Beyond
    <3>2. less[h] \in PlainTasks /\ held[h] \in PlainTasks /\ y \in PlainTasks /\ Inside(less[h], held[h], m)
      BY <1>0
    <3> QED BY <3>1, <3>2, InsideFacts
  <2> QED BY <1>0, <1>4, <2>1 DEF Beyond
<1> QED BY <1>3, <1>4

(* A task is taken from part_queue, or from skew_queue, by one who holds   *)
(* none.                                                                   *)
Taking(queue, held, more, h) ==
    /\ DOMAIN more = DOMAIN held \cup {h} /\ h \notin DOMAIN held
    /\ more[h] = Head(queue) /\ \A k \in DOMAIN held : more[k] = held[k]

(* The head is far from the others in its queue.                           *)
LEMMA HeadFar ==
    ASSUME NEW m \in Int, NEW queue \in Seq(PlainTasks), queue # <<>>, Spaced(queue, m)
    PROVE  /\ Spaced(Tail(queue), m)
           /\ \A x \in ToSet(Tail(queue)) : Far(Head(queue), x, m)
<1> DEFINE n == Len(queue)
           rest == Tail(queue)
<1>1. /\ n \in Nat \ {0} /\ DOMAIN queue = 1 .. n /\ Head(queue) = queue[1]
      /\ rest \in Seq(PlainTasks) /\ Len(rest) = n - 1 /\ DOMAIN rest = 1 .. n - 1
      /\ \A i \in 1 .. Len(rest) : rest[i] = queue[i + 1]
  BY HeadTailProperties, EmptySeq
<1> HIDE DEF n, rest
<1>2. \A i \in 1 .. n - 1 : i + 1 \in 1 .. n /\ i + 1 # 1 /\ rest[i] = queue[i + 1]
  BY <1>1
<1>3. 1 \in 1 .. n
  BY <1>1
<1>4. \A i, j \in 1 .. n : i # j => Far(queue[i], queue[j], m)
  BY <1>1 DEF Spaced
<1>5. Spaced(rest, m)
  <2> SUFFICES ASSUME NEW i \in 1 .. n - 1, NEW j \in 1 .. n - 1, i # j
               PROVE  Far(rest[i], rest[j], m)
    BY <1>1 DEF Spaced
  <2>1. i + 1 # j + 1
    OBVIOUS
  <2> QED BY <1>2, <1>4, <2>1
<1>6. \A i \in 1 .. n - 1 : Far(queue[1], rest[i], m)
  BY <1>2, <1>3, <1>4
<1> QED BY <1>1, <1>5, <1>6 DEF ToSet, rest

(* Taking from part_queue.                                                 *)
LEMMA TakeOwn ==
    ASSUME NEW m \in Int, NEW own \in Seq(PlainTasks), NEW skew \in Seq(PlainTasks),
           NEW held, NEW more, NEW h, own # <<>>,
           Apart(own, skew, held, m), Taking(own, held, more, h)
    PROVE  /\ Apart(Tail(own), skew, more, m)
           /\ \A final : Beyond(final, own, skew, held, m) => Beyond(final, Tail(own), skew, more, m)
<1>1. /\ Spaced(Tail(own), m) /\ \A x \in ToSet(Tail(own)) : Far(Head(own), x, m)
  BY HeadFar DEF Apart
<1>2. ToSet(own) = {Head(own)} \cup ToSet(Tail(own))
  BY PoppedFacts
<1>3. /\ \A x \in ToSet(own) : \A y \in ToSet(skew) : Far(x, y, m)
      /\ \A k \in DOMAIN held : Far(held[k], Head(own), m)
  BY <1>2 DEF Apart
<1>4. \A k \in DOMAIN held : Far(Head(own), held[k], m)
  BY <1>3, FarSymmetric
<1>5. Apart(Tail(own), skew, more, m)
  BY <1>1, <1>2, <1>3, <1>4 DEF Apart, Taking
<1>6. ASSUME NEW final, Beyond(final, own, skew, held, m)
      PROVE  Beyond(final, Tail(own), skew, more, m)
  BY <1>2, <1>6 DEF Beyond, Taking
<1> QED BY <1>5, <1>6

(* Taking from skew_queue.                                                 *)
LEMMA TakeSkew ==
    ASSUME NEW m \in Int, NEW own \in Seq(PlainTasks), NEW skew \in Seq(PlainTasks),
           NEW held, NEW more, NEW h, skew # <<>>,
           Apart(own, skew, held, m), Taking(skew, held, more, h)
    PROVE  /\ Apart(own, Tail(skew), more, m)
           /\ \A final : Beyond(final, own, skew, held, m) => Beyond(final, own, Tail(skew), more, m)
<1>1. /\ Spaced(Tail(skew), m) /\ \A x \in ToSet(Tail(skew)) : Far(Head(skew), x, m)
  BY HeadFar DEF Apart
<1>2. ToSet(skew) = {Head(skew)} \cup ToSet(Tail(skew))
  BY PoppedFacts
<1>3. /\ \A x \in ToSet(own) : \A y \in ToSet(skew) : Far(x, y, m)
      /\ \A k \in DOMAIN held : Far(held[k], Head(skew), m)
  BY <1>2 DEF Apart
<1>4. /\ \A k \in DOMAIN held : Far(Head(skew), held[k], m)
      /\ \A x \in ToSet(own) : Far(Head(skew), x, m)
  BY <1>2, <1>3, FarSymmetric
<1>5. Apart(own, Tail(skew), more, m)
  BY <1>1, <1>2, <1>3, <1>4 DEF Apart, Taking
<1>6. ASSUME NEW final, Beyond(final, own, skew, held, m)
      PROVE  Beyond(final, own, Tail(skew), more, m)
  BY <1>2, <1>6 DEF Beyond, Taking
<1> QED BY <1>5, <1>6

-----------------------------------------------------------------------------
(* A sum of smaller numbers is smaller.                                    *)
LEMMA SumBelow ==
    ASSUME NEW f, NEW g, NEW S, IsFiniteSet(S),
           \A x \in S : f[x] \in Int /\ g[x] \in Int /\ f[x] <= g[x]
    PROVE  SumFunctionOnSet(f, S) <= SumFunctionOnSet(g, S)
<1> DEFINE d == [x \in S |-> g[x] - f[x]]
<1>1. \A x \in S : d[x] \in Nat /\ d[x] \in Int /\ f[x] \in Int /\ g[x] = f[x] + d[x]
  OBVIOUS
<1> HIDE DEF d
<1>2. SumFunctionOnSet(g, S) = SumFunctionOnSet(f, S) + SumFunctionOnSet(d, S)
  BY <1>1, SumPlus
<1>3. SumFunctionOnSet(d, S) \in Nat /\ SumFunctionOnSet(f, S) \in Int
  BY <1>1, SumType
<1> QED BY <1>2, <1>3

(* So is a sum of fewer.                                                   *)
LEMMA SumFewer ==
    ASSUME NEW f, NEW T, IsFiniteSet(T), NEW S \in SUBSET T, \A x \in T : f[x] \in Nat
    PROVE  SumFunctionOnSet(f, S) \in Nat /\ SumFunctionOnSet(f, S) <= SumFunctionOnSet(f, T)
<1> DEFINE V == T \ S
<1>1. IsFiniteSet(S) /\ IsFiniteSet(V) /\ S \cap V = {} /\ S \cup V = T
  BY FS_Subset
<1>2. \A x \in S \cup V : f[x] \in Int
  OBVIOUS
<1>3. /\ \A x \in S : f[x] \in Nat
      /\ \A x \in V : f[x] \in Nat
  OBVIOUS
<1> HIDE DEF V
<1>4. SumFunctionOnSet(f, S) \in Nat /\ SumFunctionOnSet(f, V) \in Nat
  BY <1>1, <1>3, SumType
<1>5. SumFunctionOnSet(f, S \cup V) = SumFunctionOnSet(f, S) + SumFunctionOnSet(f, V)
  BY <1>1, <1>2, SumUnion
<1>6. SumFunctionOnSet(f, T) = SumFunctionOnSet(f, S) + SumFunctionOnSet(f, V)
  BY <1>1, <1>5, Zenon
<1> DEFINE a == SumFunctionOnSet(f, S)
           b == SumFunctionOnSet(f, V)
<1> HIDE DEF a, b
<1>7. a \in Nat /\ b \in Nat /\ SumFunctionOnSet(f, T) = a + b
  BY <1>4, <1>6, Zenon DEF a, b
<1>8. a \in Nat /\ a <= SumFunctionOnSet(f, T)
  BY <1>7
<1> QED BY <1>8 DEF a

(* One more summand.                                                       *)
LEMMA SumUpTo ==
    ASSUME NEW f, NEW p \in Nat, \A q \in 0 .. p : f[q] \in Int
    PROVE  SumFunctionOnSet(f, 0 .. (p + 1) - 1) = SumFunctionOnSet(f, 0 .. p - 1) + f[p]
<1> DEFINE S == 0 .. p - 1
<1>1. IsFiniteSet(S)
  BY FS_Interval
<1>2. p \notin S /\ 0 .. (p + 1) - 1 = S \cup {p} /\ \A q \in S \cup {p} : f[q] \in Int
  OBVIOUS
<1> HIDE DEF S
<1>3. SumFunctionOnSet(f, S \cup {p}) = f[p] + SumFunctionOnSet(f, S)
  BY <1>1, <1>2, SumAdd
<1>4. SumFunctionOnSet(f, S) \in Int /\ f[p] \in Int
  BY <1>1, <1>2, SumType
<1> DEFINE a == SumFunctionOnSet(f, S)
           b == f[p]
<1> HIDE DEF a, b
<1>5. SumFunctionOnSet(f, 0 .. (p + 1) - 1) = b + a /\ a \in Int /\ b \in Int
  BY <1>2, <1>3, <1>4, Zenon DEF a, b
<1>6. SumFunctionOnSet(f, 0 .. (p + 1) - 1) = a + b
  BY <1>5
<1> QED BY <1>6 DEF a, b, S

(* The sum of a table, by rows or by columns.                              *)
Table(f, col, S, U)  == \A q \in S : \A u \in U : f[u][q] \in Int /\ col[q][u] = f[u][q]
SumsOf(f, sums, S, U) == \A q \in S : sums[q] = SumFunctionOnSet(f[q], U)

(* It is the same.                                                         *)
LEMMA SumSwap ==
    ASSUME NEW S, NEW U, IsFiniteSet(S), IsFiniteSet(U), NEW f, NEW col, NEW h, NEW sums,
           Table(f, col, S, U), SumsOf(col, h, S, U), SumsOf(f, sums, U, S)
    PROVE  SumFunctionOnSet(h, S) = SumFunctionOnSet(sums, U)
<1>00. /\ \A q \in S : \A u \in U : f[u][q] \in Int
       /\ \A q \in S : \A u \in U : col[q][u] = f[u][q]
       /\ \A q \in S : h[q] = SumFunctionOnSet(col[q], U)
       /\ \A u \in U : sums[u] = SumFunctionOnSet(f[u], S)
  BY DEF Table, SumsOf
<1> DEFINE row(V) == [u \in U |-> SumFunctionOnSet(f[u], V)]
           F == {V \in SUBSET S : SumFunctionOnSet(h, V) = SumFunctionOnSet(row(V), U)}
<1>0. ASSUME NEW q \in S PROVE h[q] = SumFunctionOnSet([u \in U |-> f[u][q]], U)
  <2> DEFINE g == [u \in U |-> f[u][q]]
             c == col[q]
  <2>1. \A u \in U : c[u] \in Int /\ g[u] = c[u]
    BY <1>00
  <2>2. h[q] = SumFunctionOnSet(c, U)
    BY <1>00
  <2> HIDE DEF g, c
  <2>3. SumFunctionOnSet(g, U) = SumFunctionOnSet(c, U)
    BY <2>1, SumSame
  <2> QED BY <2>2, <2>3 DEF g
<1>1. \A V \in SUBSET S : (\A x \in V : V \ {x} \in F) => V \in F
  <2> SUFFICES ASSUME NEW V \in SUBSET S, \A x \in V : V \ {x} \in F
               PROVE  SumFunctionOnSet(h, V) = SumFunctionOnSet(row(V), U)
    BY <1>00
  <2>1. CASE V = {}
    <3>1. \A u \in U : row(V)[u] = 0
      BY <2>1, SumEmpty
    <3> DEFINE z == row(V)
               w == [u \in U |-> 0]
    <3>2. \A u \in U : z[u] = 0 /\ w[u] = 0
      BY <3>1
    <3>3. SumFunctionOnSet(z, U) = 0
      <4>1. \A u \in U : w[u] \in Int /\ z[u] \in Int /\ z[u] = w[u] /\ z[u] = w[u] + z[u]
        BY <3>2
      <4> HIDE DEF z, w
      <4>2. SumFunctionOnSet(z, U) = SumFunctionOnSet(w, U) + SumFunctionOnSet(z, U)
        BY <4>1, SumPlus
      <4>3. SumFunctionOnSet(z, U) = SumFunctionOnSet(w, U)
        BY <4>1, SumSame
      <4>4. SumFunctionOnSet(w, U) \in Int
        BY <4>1, SumType
      <4> DEFINE a == SumFunctionOnSet(w, U)
                 b == SumFunctionOnSet(z, U)
      <4> HIDE DEF a, b
      <4>5. b = a + b /\ b = a /\ a \in Int
        BY <4>2, <4>3, <4>4, Zenon DEF a, b
      <4>6. b = 0
        BY <4>5
      <4> QED BY <4>6 DEF b
    <3> QED BY <2>1, <3>3, SumEmpty
  <2>2. ASSUME NEW x \in V PROVE SumFunctionOnSet(h, V) = SumFunctionOnSet(row(V), U)
    <3> DEFINE W == V \ {x}
               one == [u \in U |-> f[u][x]]
               before == row(W)
               after == row(V)
    <3>1. IsFiniteSet(V) /\ IsFiniteSet(W) /\ x \notin W /\ W \cup {x} = V
      BY <2>2, FS_Subset
    <3>2. \A u \in U : one[u] \in Int
      BY <1>00, <2>2
    <3>3. ASSUME NEW q \in V PROVE h[q] \in Int
      <4> DEFINE g == [u \in U |-> f[u][q]]
      <4>1. \A u \in U : g[u] \in Int
        BY <1>00
      <4>2. h[q] = SumFunctionOnSet(g, U)
        BY <1>0
      <4> HIDE DEF g
      <4> QED BY <4>1, <4>2, SumType
    <3>4. h[x] = SumFunctionOnSet(one, U)
      BY <1>0, <2>2
    <3>5. ASSUME NEW u \in U
          PROVE  one[u] \in Int /\ before[u] \in Int /\ after[u] = one[u] + before[u]
      <4> DEFINE r0 == f[u]
      <4>1. \A q \in V : r0[q] \in Int
        BY <1>00
      <4>2. after[u] = SumFunctionOnSet(r0, V) /\ before[u] = SumFunctionOnSet(r0, W) /\ one[u] = r0[x]
        BY <1>00
      <4> HIDE DEF r0, W, after, before, one
      <4>3. SumFunctionOnSet(r0, W \cup {x}) = r0[x] + SumFunctionOnSet(r0, W)
        BY <3>1, <4>1, SumAdd
      <4>4. SumFunctionOnSet(r0, W) \in Int
        BY <3>1, <4>1, SumType
      <4> QED BY <2>2, <3>1, <4>1, <4>2, <4>3, <4>4
    <3>6. SumFunctionOnSet(h, W) = SumFunctionOnSet(before, U)
      BY <1>00, <2>2
    <3>7. SumFunctionOnSet(after, U) = SumFunctionOnSet(one, U) + SumFunctionOnSet(before, U)
      <4> HIDE DEF after, before, one
      <4> QED BY <3>5, SumPlus
    <3>8. SumFunctionOnSet(h, V) = h[x] + SumFunctionOnSet(h, W)
      <4> HIDE DEF W
      <4>1. SumFunctionOnSet(h, W \cup {x}) = h[x] + SumFunctionOnSet(h, W)
        BY <3>1, <3>3, SumAdd
      <4> QED BY <3>1, <4>1
    <3> QED BY <3>4, <3>6, <3>7, <3>8
  <2> QED BY <2>1, <2>2
<1> HIDE DEF F
<1>2. S \in F
  BY <1>1, FiniteSetInduction
<1> DEFINE rows == row(S)
<1>3. SumFunctionOnSet(h, S) = SumFunctionOnSet(rows, U)
  BY <1>2 DEF F
<1>4. \A u \in U : rows[u] = sums[u] /\ sums[u] \in Int
  <2> TAKE u \in U
  <2> DEFINE g == f[u]
  <2>1. \A q \in S : g[q] \in Int
    BY <1>00
  <2> HIDE DEF g
  <2>2. SumFunctionOnSet(g, S) \in Int
    BY <2>1, SumType
  <2> QED BY <1>00, <2>2 DEF g
<1> HIDE DEF rows
<1>5. SumFunctionOnSet(rows, U) = SumFunctionOnSet(sums, U)
  BY <1>4, SumSame
<1> QED BY <1>3, <1>5

-----------------------------------------------------------------------------
(* The partitions of a room have no more tuples than the room.             *)
LEMMA CountInSum ==
    ASSUME NEW room, room.num \in Nat, "regions" \notin DOMAIN room, NEW X, NEW fanout \in Nat,
           NEW skip, NEW c, \A p \in 0 .. fanout - 1 : c[p] = CountIn(X, room, fanout, skip, p)
    PROVE  SumFunctionOnSet(c, 0 .. fanout - 1) <= room.num
<1> DEFINE n == room.num
           P == 0 .. fanout - 1
           here == Places(X, room)
           cell == [p \in P |-> {k \in here : HashAt(X, room, k, fanout, skip) = p}]
           ones == [k \in here |-> 1]
           all == Together(cell, P)
<1>1. here \subseteq 0 .. n - 1 /\ IsFiniteSet(0 .. n - 1) /\ Cardinality(0 .. n - 1) = n
  <2>1. here \subseteq 0 .. n - 1
    BY DEF Places, Spread, Rows
  <2> HIDE DEF n
  <2>2. IsFiniteSet(0 .. n - 1) /\ Cardinality(0 .. n - 1) = n
    <3>1. n \in Nat /\ 0 \in Int /\ n - 1 \in Int
      BY DEF n
    <3>2. /\ IsFiniteSet(0 .. n - 1)
          /\ Cardinality(0 .. n - 1) = IF 0 > n - 1 THEN 0 ELSE (n - 1) - 0 + 1
      BY <3>1, FS_Interval, Zenon
    <3> QED BY <3>1, <3>2
  <2> QED BY <2>1, <2>2
<1>2. \A p \in P : cell[p] \subseteq here /\ c[p] = Cardinality(cell[p])
  BY DEF CountIn
<1>3. \A p, q \in P : p # q => cell[p] \cap cell[q] = {}
  OBVIOUS
<1>4. IsFiniteSet(P)
  BY FS_Interval
<1> HIDE DEF n, P, here, cell
<1>5. IsFiniteSet(here)
  BY <1>1, FS_Subset
<1>6. ASSUME NEW p \in P
      PROVE  /\ IsFiniteSet(cell[p]) /\ \A k \in cell[p] : ones[k] \in Int
             /\ c[p] = SumFunctionOnSet(ones, cell[p])
  <2>1. IsFiniteSet(cell[p]) /\ \A k \in cell[p] : ones[k] = 1
    BY <1>2, <1>5, FS_Subset
  <2> HIDE DEF ones
  <2>2. SumFunctionOnSet(ones, cell[p]) = Cardinality(cell[p])
    BY <2>1, SumOnes
  <2> QED BY <1>2, <2>1, <2>2
<1>7. all \subseteq here
  BY <1>2 DEF Together
<1>8. \A k \in here : ones[k] = 1
  OBVIOUS
<1> HIDE DEF ones
<1>9. IsFiniteSet(all) /\ SumFunctionOnSet(c, P) = SumFunctionOnSet(ones, all)
  BY <1>3, <1>4, <1>6, SumPartition
<1>10. SumFunctionOnSet(ones, all) = Cardinality(all)
  BY <1>7, <1>8, <1>9, SumOnes
<1>11. all \subseteq 0 .. n - 1
  BY <1>1, <1>7
<1> HIDE DEF all
<1>12. Cardinality(all) <= n
  BY <1>1, <1>11, FS_Subset
<1> QED BY <1>9, <1>10, <1>12 DEF n, P

(* The partitions of a task lie one behind the other, with Pad tuples      *)
(* behind each, and the last ends where the room and its margin end.       *)
LEMMA ClusterOffsets ==
    ASSUME build \in Builds, NEW x \in PlainTasks, NEW X \in Rels, x[X].num \in Nat
    PROVE  /\ ClusterOffset(x, X, 0) = 0
           /\ \A p \in 0 .. Fanout2 - 1 :
                  /\ ClusterOffset(x, X, p) \in Nat
                  /\ CountIn(X, x[X], Fanout2, Skip, p) \in Nat
                  /\ ClusterOffset(x, X, p + 1) =
                         ClusterOffset(x, X, p) + CountIn(X, x[X], Fanout2, Skip, p) + Pad
                  /\ ClusterOffset(x, X, p + 1) <= x[X].num + Margin
<1> DEFINE F == Fanout2
           n == x[X].num
           c == [q \in 0 .. F - 1 |-> CountIn(X, x[X], F, Skip, q)]
           sum(p) == SumFunctionOnSet(c, 0 .. p - 1)
<1>1. F \in Nat \ {0} /\ Pad \in Nat /\ Margin = F * Pad
  BY FanoutFacts, PhjAssumption DEF Margin
<1>2. "regions" \notin DOMAIN x[X] /\ n \in Nat
  BY RoomFacts
<1>3. \A q \in 0 .. F - 1 : c[q] = CountIn(X, x[X], F, Skip, q) /\ c[q] \in Nat
  BY <1>2, CountInNat
<1>4. ASSUME NEW p \in 0 .. F PROVE ClusterOffset(x, X, p) = sum(p) + p * Pad
  <2> DEFINE g == [q \in 0 .. p - 1 |-> CountIn(X, x[X], F, Skip, q)]
  <2>1. IsFiniteSet(0 .. p - 1) /\ \A q \in 0 .. p - 1 : c[q] \in Int /\ g[q] = c[q]
    <3>1. \A q \in 0 .. p - 1 : q \in 0 .. F - 1
      BY <1>1
    <3>2. \A q \in 0 .. p - 1 : c[q] \in Int /\ g[q] = c[q]
      BY <1>3, <3>1
    <3>3. 0 \in Int /\ p - 1 \in Int
      BY <1>1
    <3>4. IsFiniteSet(0 .. p - 1)
      BY <3>3, FS_Interval, Zenon
    <3> QED BY <3>2, <3>4
  <2>2. ClusterOffset(x, X, p) = SumFunctionOnSet(g, 0 .. p - 1) + p * Pad
    BY DEF ClusterOffset
  <2> HIDE DEF g, c
  <2>3. SumFunctionOnSet(g, 0 .. p - 1) = SumFunctionOnSet(c, 0 .. p - 1)
    BY <2>1, SumSame
  <2> QED BY <2>2, <2>3
<1> HIDE DEF F, c
<1>5. SumFunctionOnSet(c, 0 .. F - 1) <= n
  <2>1. n \in Nat /\ F \in Nat /\ \A p \in 0 .. F - 1 : c[p] = CountIn(X, x[X], F, Skip, p)
    BY <1>1, <1>2, <1>3
  <2> QED BY <1>2, <2>1, CountInSum
<1>6. IsFiniteSet(0 .. F - 1)
  BY <1>1, FS_Interval
<1>7. ASSUME NEW p \in 0 .. F PROVE sum(p) \in Nat /\ sum(p) <= n
  <2>1. 0 .. p - 1 \subseteq 0 .. F - 1
    BY <1>1
  <2>2. /\ SumFunctionOnSet(c, 0 .. p - 1) \in Nat
        /\ SumFunctionOnSet(c, 0 .. p - 1) <= SumFunctionOnSet(c, 0 .. F - 1)
    BY <1>3, <1>6, <2>1, SumFewer
  <2>3. SumFunctionOnSet(c, 0 .. F - 1) \in Nat
    BY <1>3, <1>6, SumType
  <2> HIDE DEF n
  <2> QED BY <1>2, <1>5, <2>2, <2>3
<1>8. ASSUME NEW p \in 0 .. F - 1 PROVE sum(p + 1) = sum(p) + c[p]
  <2>1. p \in Nat /\ \A q \in 0 .. p : c[q] \in Int
    BY <1>1, <1>3
  <2> QED BY <2>1, SumUpTo
<1> HIDE DEF n, sum
<1>9. ClusterOffset(x, X, 0) = 0
  <2>1. 0 \in 0 .. F /\ 0 .. 0 - 1 = {}
    BY <1>1
  <2>2. sum(0) = 0
    BY <2>1, SumEmpty DEF sum
  <2> QED BY <1>1, <1>4, <2>1, <2>2
<1>10. ASSUME NEW p \in 0 .. F - 1
       PROVE  /\ ClusterOffset(x, X, p) \in Nat
              /\ ClusterOffset(x, X, p + 1) = ClusterOffset(x, X, p) + c[p] + Pad
              /\ ClusterOffset(x, X, p + 1) <= n + Margin
  <2>1. p \in 0 .. F /\ p + 1 \in 0 .. F /\ p \in Nat
    BY <1>1
  <2>2. p * Pad \in Nat /\ (p + 1) * Pad = p * Pad + Pad /\ (p + 1) * Pad <= F * Pad /\ F * Pad \in Nat
    BY <1>1, <2>1, SMT
  <2>3. sum(p) \in Nat /\ sum(p + 1) <= n /\ sum(p + 1) \in Nat
    BY <1>7, <2>1
  <2>4. c[p] \in Nat /\ n \in Nat
    BY <1>2, <1>3
  <2>5. /\ ClusterOffset(x, X, p) = sum(p) + p * Pad
        /\ ClusterOffset(x, X, p + 1) = sum(p + 1) + (p + 1) * Pad
    BY <1>4, <2>1
  <2> QED BY <1>1, <1>8, <2>2, <2>3, <2>4, <2>5
<1> QED BY <1>3, <1>9, <1>10 DEF F, n

-----------------------------------------------------------------------------
(* The builds in which both relations are partitioned alike.               *)
Symmetric == \A b \in Builds : b.file \notin Asymmetric

(* The tuples of each partition, in all histograms.                        *)
Totals(X) == [q \in 0 .. 2^RadixBits - 1 |->
                 SumFunctionOnSet([u \in Builders |-> hist[X][u][q]], Builders)]

(* Histograms are of naturals.                                             *)
LEMMA HistNat ==
    ASSUME Plain, NEW X \in Rels
    PROVE  \A u \in Builders : \A q \in 0 .. 2^RadixBits - 1 : hist[X][u][q] \in Nat
<1> DEFINE B == 0 .. 2^RadixBits - 1
<1>1. hist \in [Rels -> [Builders -> [B -> Nat]]]
  BY DEF Plain, PlainHist
<1> HIDE DEF B
<1>2. \A u \in Builders : \A q \in B : hist[X][u][q] \in Nat
  BY <1>1
<1> QED BY <1>2 DEF B

(* Where thread 0 finds the partitions.                                    *)
LEMMA Offsets ==
    ASSUME Plain, build \in Builds, NEW X \in Rels
    PROVE  /\ \A q \in 0 .. 2^RadixBits - 1 : Totals(X)[q] \in Nat
           /\ \A p \in 0 .. 2^RadixBits - 1 :
                  /\ SumFunctionOnSet(Totals(X), 0 .. p - 1) \in Nat
                  /\ Offset(0, X, p) = SumFunctionOnSet(Totals(X), 0 .. p - 1) + p * Padding(0)
           /\ \A p, q \in 0 .. 2^RadixBits - 1 : p <= q =>
                  SumFunctionOnSet(Totals(X), 0 .. p - 1) <= SumFunctionOnSet(Totals(X), 0 .. q - 1)
<1> DEFINE B == 0 .. 2^RadixBits - 1
           T == Totals(X)
<1>0. 2^RadixBits \in Nat \ {0} /\ BuildNum \in Nat \ {0} /\ Pad \in Nat /\ Fanout2 \in Nat
  BY FanoutFacts, PhjAssumption
<1>1. IsFiniteSet(Builders)
  <2>1. 0 \in Int /\ BuildNum - 1 \in Int
    BY <1>0
  <2> QED BY <2>1, FS_Interval DEF Builders
<1>2. ASSUME NEW q \in B PROVE T[q] \in Nat
  <2> DEFINE f == [u \in Builders |-> hist[X][u][q]]
  <2>1. \A u \in Builders : f[u] \in Nat
    BY HistNat
  <2>2. T[q] = SumFunctionOnSet(f, Builders)
    BY DEF Totals
  <2> HIDE DEF f, B, T
  <2> QED BY <1>1, <2>1, <2>2, SumType
<1>3. ASSUME NEW p \in B
      PROVE  Offset(0, X, p) = SumFunctionOnSet(T, 0 .. p - 1) + p * Padding(0)
  <2> DEFINE total(q) == SumFunctionOnSet([u \in Builders |-> hist[X][u][q]], Builders)
             totals == [q \in 0 .. p - 1 |-> total(q)]
             before == [u \in 0 .. 0 - 1 |-> hist[X][u][p]]
  <2>1. Offset(0, X, p) = SumFunctionOnSet(totals, 0 .. p - 1) + p * Padding(0)
                              + SumFunctionOnSet(before, 0 .. 0 - 1)
    BY DEF Offset
  <2>2. 0 .. 0 - 1 = {}
    OBVIOUS
  <2> HIDE DEF before
  <2>3. SumFunctionOnSet(before, 0 .. 0 - 1) = 0
    BY <2>2, SumEmpty
  <2>4. \A q \in 0 .. p - 1 : q \in B
    BY <1>0
  <2>5. \A q \in 0 .. p - 1 : T[q] = totals[q]
    BY <2>4 DEF Totals
  <2> HIDE DEF B, T, totals
  <2>6. \A q \in 0 .. p - 1 : T[q] \in Int /\ totals[q] = T[q]
    BY <1>2, <2>4, <2>5
  <2>7. IsFiniteSet(0 .. p - 1)
    <3>1. 0 \in Int /\ p - 1 \in Int
      BY <1>0 DEF B
    <3> QED BY <3>1, FS_Interval
  <2>8. SumFunctionOnSet(totals, 0 .. p - 1) = SumFunctionOnSet(T, 0 .. p - 1)
    BY <2>6, <2>7, SumSame
  <2>9. SumFunctionOnSet(T, 0 .. p - 1) \in Int
    BY <2>6, <2>7, SumType
  <2>10. p * Padding(0) \in Int
    BY <1>0 DEF Padding, B
  <2> QED BY <2>1, <2>3, <2>8, <2>9, <2>10
<1> HIDE DEF T
<1>4. ASSUME NEW p \in B, NEW q \in B, p <= q
      PROVE  /\ SumFunctionOnSet(T, 0 .. p - 1) \in Nat
             /\ SumFunctionOnSet(T, 0 .. p - 1) <= SumFunctionOnSet(T, 0 .. q - 1)
  <2>1. 0 .. p - 1 \subseteq 0 .. q - 1 /\ \A i \in 0 .. q - 1 : i \in B
    BY <1>0, <1>4
  <2>2. IsFiniteSet(0 .. q - 1)
    <3>1. 0 \in Int /\ q - 1 \in Int
      BY <1>0
    <3> QED BY <3>1, FS_Interval
  <2>3. \A i \in 0 .. q - 1 : T[i] \in Nat
    BY <1>2, <2>1
  <2> QED BY <2>1, <2>2, <2>3, SumFewer
<1>5. \A p \in B : p <= p
  BY <1>0
<1> QED BY <1>2, <1>3, <1>4, <1>5 DEF T

(* Both relations, in either pass.                                         *)
LEMMA SymmetricFacts ==
    ASSUME Symmetric, build \in Builds PROVE SecondRels = Rels /\ \A t : Current(t) = Rels
  BY DEF Symmetric, SecondRels, Current

(* The room of partition p.                                                *)
LEMMA PartRoom ==
    ASSUME Plain, PhaseInv, Symmetric, NEW total, NEW X \in Rels, total[X] \in Int,
           NEW p \in 0 .. Fanout(0) - 1,
           NEW room, room = PartTask(0, total, p)[X]
    PROVE  /\ room.arr = Target(0, X) /\ room.base = Begin(0, X) + Offset(0, X, p)
           /\ room.num = PartNum(0, X, total[X], p)
<1>1. Current(0) = Rels
  BY SymmetricFacts DEF PhaseInv
<1> DEFINE r0(Y) == Room(Target(0, Y), Begin(0, Y) + Offset(0, Y, p), PartNum(0, Y, total[Y], p))
<1>2. PartTask(0, total, p) = Task(r0("R"), r0("S"))
  BY <1>1 DEF PartTask, Rels
<1> HIDE DEF r0
<1>3. room = r0(X)
  BY <1>2 DEF Task, Rels
<1> QED BY <1>3 DEF r0, Room

(* Where it ends, with its padding; and one partition begins behind the    *)
(* end of those before.                                                    *)
LaidOut(total, X) ==
    \A p \in 0 .. Fanout(0) - 1 :
        /\ PartTask(0, total, p)[X].arr = Target(0, X)
        /\ PartTask(0, total, p)[X].base >= Begin(0, X)
        /\ (p = Fanout(0) - 1) =>
               EndOf(PartTask(0, total, p)[X], Padding(0)) =
                   Begin(0, X) + total[X] + Fanout(0) * Padding(0)
        /\ \A q \in p + 1 .. Fanout(0) - 1 :
               EndOf(PartTask(0, total, p)[X], Padding(0)) <= PartTask(0, total, q)[X].base

(* So it is for each relation.                                             *)
LEMMA PartRooms ==
    ASSUME Plain, PhaseInv, Symmetric, NEW total, NEW X \in Rels, total[X] \in Int,
           part[0] = "skew" => skewtask # NULL
    PROVE  LaidOut(total, X)
<1> DEFINE F == Fanout(0)
           d == Padding(0)
           b == Begin(0, X)
           off(p) == Offset(0, X, p)
           sum(p) == SumFunctionOnSet(Totals(X), 0 .. p - 1)
           room(p) == PartTask(0, total, p)[X]
<1>0. /\ build \in Builds /\ part[0] \in {"first", "skew"} /\ 0 \in Builders
      /\ part[0] = "skew" => skewtask \in PlainTasks
  BY PhjAssumption DEF PhaseInv, Plain, PlainSkew, Builders
<1>1. F \in Nat \ {0} /\ F <= 2^RadixBits /\ 2^RadixBits \in Nat /\ d \in Nat /\ b \in Int
  <2>1. Pad \in Nat
    BY PhjAssumption
  <2>2. part[0] = "skew" => skewtask[X].base \in Int
    BY <1>0, RoomFacts
  <2> QED BY <1>0, <2>1, <2>2, FanoutFacts DEF Fanout, Padding, Begin
<1> HIDE DEF F, d, b
<1>2. \A p \in 0 .. F - 1 : p \in 0 .. 2^RadixBits - 1
  BY <1>1
<1>3. /\ \A p \in 0 .. F - 1 : sum(p) \in Nat /\ off(p) = sum(p) + p * d
      /\ \A p, q \in 0 .. F - 1 : p <= q => sum(p) <= sum(q)
  BY <1>0, <1>2, Offsets DEF d
<1> HIDE DEF off, sum
<1>4. ASSUME NEW p \in 0 .. F - 1
      PROVE  /\ room(p).arr = Target(0, X) /\ room(p).base = b + off(p)
             /\ room(p).num = IF p = F - 1 THEN total[X] - off(p) + p * d
                              ELSE off(p + 1) - off(p) - d
  <2>1. p \in 0 .. Fanout(0) - 1
    BY DEF F
  <2>2. /\ room(p).arr = Target(0, X) /\ room(p).base = Begin(0, X) + Offset(0, X, p)
        /\ room(p).num = PartNum(0, X, total[X], p)
    BY <2>1, PartRoom
  <2> HIDE DEF room
  <2> QED BY <2>2 DEF PartNum, F, d, b, off
<1> HIDE DEF room
<1>5. ASSUME NEW p \in 0 .. F - 1 PROVE p * d \in Nat /\ off(p) \in Nat
  <2>1. p * d \in Nat
    BY <1>1, SMT
  <2> QED BY <1>3, <2>1
<1>6. ASSUME NEW p \in 0 .. F - 1, p = F - 1 PROVE EndOf(room(p), d) = b + total[X] + F * d
  <2>1. F * d = p * d + d
    BY <1>1, <1>6, SMT
  <2> QED BY <1>1, <1>4, <1>5, <1>6, <2>1 DEF EndOf
<1>7. ASSUME NEW p \in 0 .. F - 1, NEW q \in p + 1 .. F - 1
      PROVE  EndOf(room(p), d) <= room(q).base
  <2>1. p # F - 1 /\ p + 1 \in 0 .. F - 1 /\ q \in 0 .. F - 1 /\ p + 1 <= q
    BY <1>1
  <2>2. EndOf(room(p), d) = b + off(p + 1)
    <3>1. room(p).base = b + off(p) /\ room(p).num = off(p + 1) - off(p) - d
      BY <1>4, <2>1
    <3>2. off(p) \in Nat /\ off(p + 1) \in Nat
      BY <1>5, <2>1
    <3> QED BY <1>1, <3>1, <3>2 DEF EndOf
  <2>3. (p + 1) * d <= q * d
    BY <1>1, <2>1, SMT
  <2>4. off(p + 1) <= off(q)
    <3>1. sum(p + 1) <= sum(q) /\ sum(p + 1) \in Nat /\ sum(q) \in Nat
      BY <1>3, <2>1
    <3>2. (p + 1) * d \in Nat /\ q * d \in Nat
      BY <1>5, <2>1
    <3>3. off(p + 1) = sum(p + 1) + (p + 1) * d /\ off(q) = sum(q) + q * d
      BY <1>3, <2>1
    <3> QED BY <2>3, <3>1, <3>2, <3>3
  <2>5. off(p + 1) \in Nat /\ off(q) \in Nat /\ room(q).base = b + off(q)
    BY <1>4, <1>5, <2>1
  <2> QED BY <1>1, <2>2, <2>4, <2>5
<1>8. \A p \in 0 .. F - 1 : room(p).base >= b
  BY <1>1, <1>4, <1>5
<1> QED BY <1>4, <1>6, <1>7, <1>8 DEF LaidOut, F, d, b, room

-----------------------------------------------------------------------------
(* Among picks tasks of different places.                                  *)
LEMMA AmongPicks ==
    ASSUME NEW T, NEW tasks \in Seq(T), NEW set, NEW out, out = Among(tasks, set)
    PROVE  /\ out \in Seq(T)
           /\ \E h \in [1 .. Len(out) -> 1 .. Len(tasks)] :
                  /\ \A a, b \in 1 .. Len(out) : h[a] = h[b] => a = b
                  /\ \A a \in 1 .. Len(out) : out[a] = tasks[h[a]]
<1> DEFINE n == Len(tasks)
           seqs == [i \in DOMAIN tasks |-> IF tasks[i] \in set THEN <<tasks[i]>> ELSE <<>>]
<1>1. n \in Nat /\ DOMAIN tasks = 1 .. n /\ \A i \in 1 .. n : tasks[i] \in T
  OBVIOUS
<1>2. ASSUME NEW i \in 1 .. n
      PROVE  seqs[i] \in Seq(T) /\ \A k \in 1 .. Len(seqs[i]) : k = 1 /\ seqs[i][k] = tasks[i]
  <2>1. CASE tasks[i] \in set
    BY <1>1, <2>1
  <2>2. CASE tasks[i] \notin set
    BY <1>1, <2>2
  <2> QED BY <2>1, <2>2
<1>3. seqs \in [1 .. n -> Seq(T)]
  BY <1>1, <1>2
<1>4. seqs \in Seq(Seq(T)) /\ Len(seqs) = n
  BY <1>1, <1>3
<1>5. out = FlattenSeq(seqs)
  BY DEF Among
<1> HIDE DEF n, seqs
<1>6. PICK g : Lists(out, seqs, n, g)
  BY <1>4, <1>5, FlattenLists
<1>7. out \in Seq(T)
  BY <1>4, <1>5, FlattenLists
<1> DEFINE h == [a \in 1 .. Len(out) |-> g[a][1]]
<1>8. ASSUME NEW a \in 1 .. Len(out)
      PROVE  /\ g[a] \in Spots(seqs, n) /\ g[a] = <<g[a][1], g[a][2]>> /\ g[a][1] \in 1 .. n
             /\ g[a][2] = 1 /\ out[a] = tasks[g[a][1]]
  <2>1. g[a] \in Spots(seqs, n) /\ out[a] = seqs[g[a][1]][g[a][2]]
    BY <1>6 DEF Lists
  <2>2. g[a] \in (1 .. n) \X Nat /\ g[a][2] \in 1 .. Len(seqs[g[a][1]])
    BY <2>1 DEF Spots
  <2> QED BY <1>2, <2>1, <2>2
<1>9. h \in [1 .. Len(out) -> 1 .. n]
  BY <1>8
<1>10. ASSUME NEW a \in 1 .. Len(out), NEW b \in 1 .. Len(out), h[a] = h[b] PROVE a = b
  <2>1. g[a][1] = g[b][1]
    BY <1>10
  <2>2. g[a] = g[b]
    BY <1>8, <2>1
  <2> QED BY <1>6, <2>2 DEF Lists
<1>11. \A a \in 1 .. Len(out) : out[a] = tasks[h[a]]
  BY <1>8
<1> HIDE DEF h
<1> QED BY <1>7, <1>9, <1>10, <1>11 DEF n

(* Tasks that are far apart stay so when some of them are put in a queue.  *)
LEMMA AmongSpaced ==
    ASSUME NEW m, NEW tasks \in Seq(PlainTasks), Spaced(tasks, m), NEW set
    PROVE  Spaced(Among(tasks, set), m)
<1> DEFINE out == Among(tasks, set)
<1>1. out = Among(tasks, set) /\ DOMAIN tasks = 1 .. Len(tasks)
  OBVIOUS
<1> HIDE DEF out
<1>2. /\ out \in Seq(PlainTasks)
      /\ \E h \in [1 .. Len(out) -> 1 .. Len(tasks)] :
                  /\ \A a, b \in 1 .. Len(out) : h[a] = h[b] => a = b
                  /\ \A a \in 1 .. Len(out) : out[a] = tasks[h[a]]
  BY <1>1, AmongPicks
<1>3. PICK h \in [1 .. Len(out) -> 1 .. Len(tasks)] :
                  /\ \A a, b \in 1 .. Len(out) : h[a] = h[b] => a = b
                  /\ \A a \in 1 .. Len(out) : out[a] = tasks[h[a]]
  BY <1>2
<1>4. DOMAIN out = 1 .. Len(out)
  BY <1>2
<1> QED BY <1>1, <1>3, <1>4 DEF Spaced

(* Their order in the queue does not matter.                               *)
LEMMA PushedSpaced ==
    ASSUME NEW m, NEW tasks \in Seq(PlainTasks), Spaced(tasks, m)
    PROVE  Spaced(Pushed(<<>>, tasks), m)
<1> DEFINE back == Reverse(tasks)
           l == Len(tasks)
           out == back \o <<>>
<1>1. l \in Nat /\ DOMAIN tasks = 1 .. l
  OBVIOUS
<1>2. back = [i \in 1 .. l |-> tasks[(l - i) + 1]]
  BY DEF Reverse
<1> HIDE DEF back, l
<1>3. \A i \in 1 .. l : (l - i) + 1 \in 1 .. l
  BY <1>1
<1>4. back \in Seq(PlainTasks) /\ Len(back) = l
  BY <1>1, <1>2, <1>3
<1>5. out = back
  BY <1>4
<1> HIDE DEF out
<1>6. DOMAIN out = 1 .. l /\ \A i \in 1 .. l : out[i] = tasks[(l - i) + 1]
  BY <1>2, <1>5
<1>7. \A i, j \in 1 .. l : i # j => (l - i) + 1 # (l - j) + 1
  BY <1>1
<1>8. Spaced(out, m)
  BY <1>1, <1>3, <1>6, <1>7 DEF Spaced
<1> QED BY <1>8 DEF Pushed, out, back

(* A margin is at least a padding.                                         *)
LEMMA MarginFacts ==
    ASSUME build \in Builds
    PROVE  /\ Margin \in Nat /\ Pad \in Nat /\ Pad <= Margin /\ Fanout2 \in Nat \ {0}
           /\ Margin = Fanout2 * Pad
<1>1. Fanout2 \in Nat \ {0} /\ Pad \in Nat
  BY FanoutFacts, PhjAssumption
<1>2. Fanout2 * Pad \in Nat /\ Pad <= Fanout2 * Pad
  BY <1>1, SMT
<1> QED BY <1>1, <1>2 DEF Margin

(* Tasks that are far apart can be joined at the same time.                *)
LEMMA FarFits ==
    ASSUME NEW x \in PlainTasks, NEW y \in PlainTasks, NEW m \in Nat, Pad <= m, Far(x, y, m)
    PROVE  Fit(x, y)
<1>1. Pad \in Nat
  BY PhjAssumption
<1>2. /\ x.R \in PlainRooms /\ x.S \in PlainRooms /\ y.R \in PlainRooms /\ y.S \in PlainRooms
  BY TaskNumbers
<1>3. Clear(x.R, Pad, y.R, Pad)
  BY <1>1, <1>2 DEF Far, Clear, EndOf, PlainRooms
<1>4. Clear(x.S, 0, y.S, 0)
  BY <1>1, <1>2 DEF Far, Clear, EndOf, PlainRooms
<1> QED BY <1>3, <1>4 DEF Fit

(* ... of a whole queue.                                                   *)
LEMMA SpacedFits ==
    ASSUME NEW queue \in Seq(PlainTasks), NEW m \in Nat, Pad <= m, Spaced(queue, m)
    PROVE  Fitting(ToSet(queue))
<1>1. DOMAIN queue = 1 .. Len(queue) /\ \A i \in 1 .. Len(queue) : queue[i] \in PlainTasks
  OBVIOUS
<1> SUFFICES ASSUME NEW i \in 1 .. Len(queue), NEW j \in 1 .. Len(queue)
             PROVE  Fit(queue[i], queue[j])
  BY <1>1 DEF Fitting, ToSet
<1>2. CASE i = j
  BY <1>2 DEF Fit
<1>3. CASE i # j
  <2>1. Far(queue[i], queue[j], m)
    BY <1>1, <1>3 DEF Spaced
  <2> QED BY <1>1, <2>1, FarFits
<1> QED BY <1>2, <1>3

(* The tasks of the first pass.                                            *)
LEMMA FirstTasksSpaced ==
    ASSUME Plain, PhaseInv, Symmetric, part[0] = "first"
    PROVE  /\ FirstTasks(0) \in Seq(PlainTasks) /\ Spaced(FirstTasks(0), Margin)
           /\ \A x \in ToSet(FirstTasks(0)) : Joinable(x) => Sound(x)
<1> DEFINE tasks == FirstTasks(0)
           F == Fanout1
<1>0. 0 \in Builders /\ build \in Builds
  BY PhjAssumption DEF Builders, PhaseInv
<1>1. Fanout(0) = F /\ F \in Nat \ {0} /\ Padding(0) = Margin
  BY <1>0, FanoutFacts DEF Fanout, Padding, Margin
<1>2. Size["R"] \in Int /\ Size["S"] \in Int
  BY PhjAssumption DEF Size
<1>3. \A p \in 0 .. Fanout(0) - 1 : PartTask(0, Size, p) \in PlainTasks
  BY <1>0, <1>2, PartTaskPlain
<1>4. tasks = [i \in 1 .. F |-> PartTask(0, Size, i - 1)]
  BY DEF FirstTasks
<1> HIDE DEF tasks, F
<1>5. \A i \in 1 .. F : i - 1 \in 0 .. Fanout(0) - 1
  BY <1>1
<1>6. tasks \in [1 .. F -> PlainTasks]
  BY <1>3, <1>4, <1>5
<1>7. tasks \in Seq(PlainTasks) /\ DOMAIN tasks = 1 .. F
  BY <1>1, <1>6
<1>8. LaidOut(Size, "R") /\ LaidOut(Size, "S")
  BY <1>2, PartRooms DEF Rels
<1>9. ASSUME NEW i \in 1 .. F, NEW j \in 1 .. F, i < j, NEW X \in Rels
      PROVE  EndOf(tasks[i][X], Margin) <= tasks[j][X].base
  <2>1. i - 1 \in 0 .. Fanout(0) - 1 /\ j - 1 \in (i - 1) + 1 .. Fanout(0) - 1
    BY <1>1, <1>9
  <2>2. LaidOut(Size, X)
    BY <1>8 DEF Rels
  <2>3. tasks[i] = PartTask(0, Size, i - 1) /\ tasks[j] = PartTask(0, Size, j - 1)
    BY <1>4
  <2> HIDE DEF PartTask, EndOf, Padding, Margin
  <2>4. EndOf(PartTask(0, Size, i - 1)[X], Padding(0)) <= PartTask(0, Size, j - 1)[X].base
    BY <2>1, <2>2 DEF LaidOut
  <2> QED BY <1>1, <2>3, <2>4
<1>10. ASSUME NEW i \in 1 .. F, NEW j \in 1 .. F, i # j PROVE Far(tasks[i], tasks[j], Margin)
  <2>1. tasks[i] \in PlainTasks /\ tasks[j] \in PlainTasks
    BY <1>6
  <2>2. /\ tasks[i].R = tasks[i]["R"] /\ tasks[i].S = tasks[i]["S"]
        /\ tasks[j].R = tasks[j]["R"] /\ tasks[j].S = tasks[j]["S"]
    BY <2>1, TaskNumbers
  <2>3. "R" \in Rels /\ "S" \in Rels
    BY DEF Rels
  <2>4. CASE i < j
    BY <1>9, <2>2, <2>3, <2>4 DEF Far, Clear
  <2>5. CASE j < i
    BY <1>9, <2>2, <2>3, <2>5 DEF Far, Clear
  <2>6. i < j \/ j < i
    BY <1>1, <1>10
  <2> QED BY <2>4, <2>5, <2>6
<1>11. Spaced(tasks, Margin)
  BY <1>7, <1>10 DEF Spaced
<1>12. ASSUME NEW x \in ToSet(tasks), Joinable(x) PROVE Sound(x)
  <2>1. PICK i \in 1 .. F : x = tasks[i]
    BY <1>7 DEF ToSet
  <2>2. i - 1 \in 0 .. Fanout(0) - 1 /\ x = PartTask(0, Size, i - 1)
    BY <1>4, <1>5, <2>1
  <2>3. x["R"].arr = Target(0, "R") /\ x["S"].arr = Target(0, "S")
    BY <1>8, <2>2 DEF LaidOut
  <2>4. x \in PlainTasks
    BY <1>6, <2>1
  <2>5. x.R.num \in Nat /\ x.S.num \in Nat /\ x["R"] = x.R /\ x["S"] = x.S
    BY <1>12, <2>4, TaskNumbers DEF Joinable
  <2>6. Target(0, "R") = "tmp" /\ Target(0, "S") = "tmp"
    BY DEF Target
  <2> QED BY <2>3, <2>5, <2>6 DEF Sound, Rels
<1> QED BY <1>7, <1>11, <1>12 DEF tasks

(* What thread 0 makes after the first pass, when all queues are empty.    *)
LEMMA MakeTasksRooms ==
    ASSUME Plain, PhaseInv, Symmetric, MakeTasks(0), part_queue = <<>>, skew_queue = <<>>
    PROVE  /\ Spaced(part_queue', Margin) /\ Spaced(skew_queue', Margin)
           /\ \A x \in ToSet(part_queue'), y \in ToSet(skew_queue') : Far(x, y, Margin)
           /\ \A x \in ToSet(part_queue') \cup ToSet(skew_queue') : Sound(x)
<1> DEFINE tasks == FirstTasks(0)
<1>0. 0 \in Builders
  BY PhjAssumption DEF Builders
<1>1. part[0] = "first"
  BY <1>0 DEF MakeTasks, PhaseInv, Turns
<1>2. /\ tasks \in Seq(PlainTasks) /\ Spaced(tasks, Margin)
      /\ \A x \in ToSet(tasks) : Joinable(x) => Sound(x)
  BY <1>1, FirstTasksSpaced
<1>3. /\ skew_queue' = Pushed(<<>>, Asides(tasks)) /\ part_queue' = Pushed(<<>>, Parts(tasks))
  BY DEF MakeTasks, AddTasks
<1> HIDE DEF tasks
<1>4. Parts(tasks) \in Seq(PlainTasks) /\ Asides(tasks) \in Seq(PlainTasks)
  BY <1>2, AmongPlain DEF Parts, Asides
<1>5. Spaced(Parts(tasks), Margin) /\ Spaced(Asides(tasks), Margin)
  BY <1>2, AmongSpaced DEF Parts, Asides
<1>6. Spaced(part_queue', Margin) /\ Spaced(skew_queue', Margin)
  BY <1>3, <1>4, <1>5, PushedSpaced
<1>7. /\ ToSet(part_queue') = ToSet(Parts(tasks)) /\ ToSet(skew_queue') = ToSet(Asides(tasks))
  <2>1. ToSet(part_queue) = {} /\ ToSet(skew_queue) = {}
    BY DEF ToSet
  <2>2. part_queue \in Seq(PlainTasks) /\ skew_queue \in Seq(PlainTasks)
    BY DEF Plain, PlainQueues
  <2>3. ToSet(Pushed(part_queue, Parts(tasks))) = ToSet(part_queue) \cup ToSet(Parts(tasks))
    BY <1>4, <2>2, PushedFacts, Zenon
  <2>4. ToSet(Pushed(skew_queue, Asides(tasks))) = ToSet(skew_queue) \cup ToSet(Asides(tasks))
    BY <1>4, <2>2, PushedFacts, Zenon
  <2> QED BY <1>3, <2>1, <2>3, <2>4
<1>8. /\ ToSet(Parts(tasks)) = ToSet(tasks) \cap {x \in ToSet(tasks) : Joinable(x) /\ ~Aside(x)}
      /\ ToSet(Asides(tasks)) = ToSet(tasks) \cap {x \in ToSet(tasks) : Joinable(x) /\ Aside(x)}
  BY <1>2, AmongFacts DEF Parts, Asides
<1>9. ASSUME NEW x \in ToSet(part_queue'), NEW y \in ToSet(skew_queue') PROVE Far(x, y, Margin)
  <2>1. x \in ToSet(tasks) /\ y \in ToSet(tasks) /\ ~Aside(x) /\ Aside(y)
    BY <1>7, <1>8
  <2>2. PICK i \in DOMAIN tasks : x = tasks[i]
    BY <2>1 DEF ToSet
  <2>3. PICK j \in DOMAIN tasks : y = tasks[j]
    BY <2>1 DEF ToSet
  <2>4. i # j
    BY <2>1, <2>2, <2>3
  <2> QED BY <1>2, <2>2, <2>3, <2>4 DEF Spaced
<1>10. \A x \in ToSet(part_queue') \cup ToSet(skew_queue') : Sound(x)
  BY <1>2, <1>7, <1>8
<1> QED BY <1>6, <1>9, <1>10

-----------------------------------------------------------------------------
(* A room that n tuples are counted in has at least as many.               *)
LEMMA SkewTotals ==
    ASSUME Plain, PhaseInv, HistBounded, pc[0] = "skewtasks", NEW X \in Rels,
           skewtask[X].num \in Nat
    PROVE  SumFunctionOnSet(Totals(X), Bins) <= skewtask[X].num
<1> DEFINE n == skewtask[X].num
           h == hist[X]
           B == Bins
           T == Totals(X)
           col == [q \in Bins |-> [u \in Builders |-> hist[X][u][q]]]
           mine == [u \in Builders |-> SumFunctionOnSet(h[u], B)]
           shares == [u \in Builders |-> Share(n, BuildNum, u)]
           sizes == [u \in Builders |-> Cardinality(Share(n, BuildNum, u))]
           ones == [i \in 0 .. n - 1 |-> 1]
           all == Together(shares, Builders)
<1>0. /\ build \in Builds /\ BuildNum \in Nat \ {0} /\ n \in Nat
      /\ Fanout2 \in Nat /\ Fanout2 <= 2^RadixBits /\ 2^RadixBits \in Nat
  BY FanoutFacts, PhjAssumption DEF PhaseInv
<1>1. IsFiniteSet(Builders)
  <2>1. 0 \in Int /\ BuildNum - 1 \in Int
    BY <1>0
  <2> QED BY <2>1, FS_Interval DEF Builders
<1>2. IsFiniteSet(B) /\ \A q \in B : q \in 0 .. 2^RadixBits - 1
  <2>1. 0 \in Int /\ Fanout2 - 1 \in Int
    BY <1>0
  <2>2. IsFiniteSet(0 .. Fanout2 - 1)
    BY <2>1, FS_Interval
  <2> QED BY <1>0, <2>2 DEF Bins
<1>3. \A u \in Builders : \A q \in B : h[u][q] \in Nat
  BY <1>2, HistNat
<1>4. \A q \in B : T[q] = SumFunctionOnSet([u \in Builders |-> h[u][q]], Builders)
  BY <1>2 DEF Totals
<1>4a. /\ \A q \in B : \A u \in Builders : col[q][u] = h[u][q]
       /\ \A q \in B : T[q] = SumFunctionOnSet(col[q], Builders)
  BY <1>4
<1>5. \A u \in Builders : mine[u] = SumFunctionOnSet(h[u], B) /\ mine[u] <= sizes[u]
  BY DEF HistBounded, Bounded
<1> HIDE DEF h, B, T
<1>6. SumFunctionOnSet(T, B) = SumFunctionOnSet(mine, Builders)
  <2>1. \A q \in B : \A u \in Builders : h[u][q] \in Int
    BY <1>3
  <2>2. /\ \A u \in Builders : mine[u] = SumFunctionOnSet(h[u], B)
        /\ IsFiniteSet(B)
    BY <1>2, <1>5
  <2>3. Table(h, col, B, Builders)
    BY <1>4a, <2>1 DEF Table
  <2> HIDE DEF mine, col
  <2>4. SumsOf(col, T, B, Builders) /\ SumsOf(h, mine, Builders, B)
    BY <1>4a, <2>2 DEF SumsOf
  <2> QED BY <1>1, <2>2, <2>3, <2>4, SumSwap
<1>7. \A u \in Builders : mine[u] \in Int
  BY <1>2, <1>3, SumType
<1> HIDE DEF n, mine
<1>8. ASSUME NEW u \in Builders
      PROVE  /\ shares[u] \subseteq 0 .. n - 1 /\ IsFiniteSet(shares[u])
             /\ sizes[u] = Cardinality(shares[u]) /\ sizes[u] \in Nat
  <2>1. u \in 0 .. BuildNum - 1
    BY DEF Builders
  <2>2. Share(n, BuildNum, u) \subseteq Rows(n) /\ IsFiniteSet(Share(n, BuildNum, u))
    BY <1>0, <2>1, ShareBounds
  <2> QED BY <2>2, FS_CardinalityType DEF Rows
<1>9. \A u, v \in Builders : u # v => shares[u] \cap shares[v] = {}
  BY <1>0, ShareDisjoint DEF Builders
<1> HIDE DEF shares, sizes
<1>10. \A u \in Builders : \A i \in shares[u] : ones[i] = 1
  BY <1>8
<1>11. \A i \in 0 .. n - 1 : ones[i] = 1
  OBVIOUS
<1> HIDE DEF ones
<1>12. SumFunctionOnSet(mine, Builders) <= SumFunctionOnSet(sizes, Builders)
  BY <1>1, <1>5, <1>7, <1>8, SumBelow
<1>13. \A u \in Builders : sizes[u] = SumFunctionOnSet(ones, shares[u])
  BY <1>8, <1>10, SumOnes
<1>14. \A u \in Builders : \A i \in shares[u] : ones[i] \in Int
  BY <1>10
<1>15. IsFiniteSet(all) /\ SumFunctionOnSet(sizes, Builders) = SumFunctionOnSet(ones, all)
  BY <1>1, <1>8, <1>9, <1>13, <1>14, SumPartition
<1>16. all \subseteq 0 .. n - 1
  BY <1>8 DEF Together
<1> HIDE DEF all
<1>17. SumFunctionOnSet(ones, all) = Cardinality(all)
  BY <1>11, <1>15, <1>16, SumOnes
<1>18. IsFiniteSet(0 .. n - 1) /\ Cardinality(0 .. n - 1) = n
  <2>1. 0 \in Int /\ n - 1 \in Int
    BY <1>0
  <2>2. /\ IsFiniteSet(0 .. n - 1)
        /\ Cardinality(0 .. n - 1) = IF 0 > n - 1 THEN 0 ELSE (n - 1) - 0 + 1
    BY <2>1, FS_Interval, Zenon
  <2> QED BY <1>0, <2>2
<1>19. Cardinality(all) <= n
  BY <1>16, <1>18, FS_Subset
<1>20. SumFunctionOnSet(mine, Builders) <= n
  <2> DEFINE a == SumFunctionOnSet(mine, Builders)
             b == Cardinality(all)
  <2>1. a \in Int /\ b \in Nat
    BY <1>1, <1>7, <1>15, SumType, FS_CardinalityType
  <2>2. a <= b /\ b <= n
    BY <1>12, <1>15, <1>17, <1>19
  <2> HIDE DEF a, b
  <2>3. a <= n
    BY <1>0, <2>1, <2>2
  <2> QED BY <2>3 DEF a
<1>21. SumFunctionOnSet(T, B) <= n
  BY <1>6, <1>20
<1> QED BY <1>21 DEF T, B, n

(* A task to be joined that has its rooms, with the padding that the       *)
(* kernels need, in those of a task that is partitioned.                   *)
Within(y, x) == Inner(y.R, Pad, x.R, Margin) /\ Inner(y.S, Pad, x.S, Margin)

(* It is clear of all that this task was clear of.                         *)
LEMMA WithinFacts ==
    ASSUME NEW x \in PlainTasks, NEW y \in PlainTasks, NEW z \in PlainTasks,
           Margin \in Int, Within(y, x)
    PROVE  /\ Far(x, z, Margin) => Beside(y, z, Margin)
           /\ Beside(z, x, Margin) => Fit(y, z) /\ Fit(z, y)
<1>0. Pad \in Int /\ 0 \in Int
  BY PhjAssumption
<1>1. /\ x.R \in PlainRooms /\ x.S \in PlainRooms /\ y.R \in PlainRooms /\ y.S \in PlainRooms
      /\ z.R \in PlainRooms /\ z.S \in PlainRooms
  BY TaskNumbers
<1>2. Inner(y.R, Pad, x.R, Margin) /\ Inner(y.S, Pad, x.S, Margin)
  BY DEF Within
<1>3. Far(x, z, Margin) => Beside(y, z, Margin)
  <2>1. /\ Clear(x.R, Margin, z.R, Margin) => Clear(y.R, Pad, z.R, Margin)
        /\ Clear(x.S, Margin, z.S, Margin) => Clear(y.S, Pad, z.S, Margin)
    BY <1>0, <1>1, <1>2, ClearInner
  <2> QED BY <2>1 DEF Far, Beside
<1>4. Beside(z, x, Margin) => Clear(z.R, Pad, y.R, Pad) /\ Clear(z.S, 0, y.S, 0)
  <2>1. Beside(z, x, Margin) => Clear(z.R, Pad, y.R, Pad) /\ Clear(z.S, Pad, y.S, Pad)
    BY <1>0, <1>1, <1>2, ClearInner DEF Beside
  <2>2. Pad \in Nat /\ y.S.base \in Int /\ y.S.num \in Int /\ z.S.base \in Int /\ z.S.num \in Int
    BY PhjAssumption, TaskNumbers
  <2>3. Clear(z.S, Pad, y.S, Pad) => Clear(z.S, 0, y.S, 0)
    BY <2>2 DEF Clear, EndOf
  <2> QED BY <2>1, <2>3
<1>5. ASSUME NEW a, NEW b, NEW n, Clear(a, n, b, n) PROVE Clear(b, n, a, n)
  BY <1>5 DEF Clear
<1>6. Beside(z, x, Margin) => Clear(y.R, Pad, z.R, Pad) /\ Clear(y.S, 0, z.S, 0)
  BY <1>4, <1>5
<1> QED BY <1>3, <1>4, <1>6 DEF Fit

(* The pieces of a task lie in its S room, one behind the other.           *)
LEMMA SplitRooms ==
    ASSUME NEW x \in PlainTasks, x.S.num \in Nat
    PROVE  /\ \A y \in ToSet(Split(x)) : y \in PlainTasks /\ y.R = x.R /\ Inner(y.S, 0, x.S, 0)
           /\ Fitting(ToSet(Split(x)))
<1> DEFINE k == ProbeNum
           n == x.S.num \div ProbeNum
           b == x.S.base
           e == x.S.num
           from(j) == b + (j - 1) * n
           size0(j) == IF j = k THEN e - (j - 1) * n ELSE n
           piece(j) == Room(x.S.arr, from(j), size0(j))
<1>0. k \in Nat \ {0} /\ e \in Nat /\ b \in Int /\ x.S.arr \in {"org", "tmp", "ext"}
  BY TaskNumbers, RoomFacts, PhjAssumption
<1>1. n \in Nat /\ k * n <= e
  BY <1>0, DivFacts
<1>2. Split(x) = [j \in 1 .. k |-> Task(x.R, piece(j))]
  BY DEF Split
<1> HIDE DEF n, b, e, k
<1>3. ASSUME NEW j \in 1 .. k
      PROVE  /\ (j - 1) * n \in Nat /\ (j - 1) * n + n = j * n /\ j * n <= e
             /\ \A i \in j .. k - 1 : j * n <= i * n
  <2>1. (j - 1) * n \in Nat /\ (j - 1) * n + n = j * n
    BY <1>0, <1>1, SMT
  <2>2. j * n <= k * n /\ j * n \in Int /\ k * n \in Int
    BY <1>0, <1>1, SMT
  <2>3. \A i \in j .. k - 1 : j * n <= i * n
    BY <1>0, <1>1, SMT
  <2> QED BY <1>0, <1>1, <2>1, <2>2, <2>3
<1>3a. ASSUME NEW j \in 1 .. k
       PROVE  /\ piece(j) \in PlainRooms /\ piece(j).base = b + (j - 1) * n
              /\ piece(j).num = IF j = k THEN e - (j - 1) * n ELSE n
  <2>1. from(j) \in Int /\ size0(j) \in Int
    BY <1>0, <1>1, <1>3
  <2> HIDE DEF from, size0
  <2>2. /\ piece(j) \in PlainRooms /\ piece(j).base = from(j) /\ piece(j).num = size0(j)
    BY <1>0, <2>1 DEF Room, PlainRooms
  <2> HIDE DEF piece
  <2> QED BY <2>2 DEF from, size0
<1> HIDE DEF piece
<1>4. ASSUME NEW j \in 1 .. k
      PROVE  /\ piece(j) \in PlainRooms /\ b <= piece(j).base /\ EndOf(piece(j), 0) <= b + e
             /\ \A i \in j + 1 .. k : EndOf(piece(j), 0) <= piece(i).base
  <2>1. /\ piece(j) \in PlainRooms /\ piece(j).base = b + (j - 1) * n
        /\ piece(j).num = IF j = k THEN e - (j - 1) * n ELSE n
    BY <1>3a
  <2>2. EndOf(piece(j), 0) = IF j = k THEN b + e ELSE b + j * n
    BY <1>0, <1>1, <1>3, <2>1 DEF EndOf
  <2>3. EndOf(piece(j), 0) <= b + e /\ b <= piece(j).base
    BY <1>0, <1>1, <1>3, <2>1, <2>2
  <2>4. ASSUME NEW i \in j + 1 .. k PROVE EndOf(piece(j), 0) <= piece(i).base
    <3>1. j # k /\ i \in 1 .. k /\ i - 1 \in j .. k - 1
      BY <1>0
    <3>2. (i - 1) * n \in Int
      BY <1>0, <1>1, <1>3, <3>1
    <3>3. piece(i).base = b + (i - 1) * n
      BY <1>3a, <3>1
    <3>4. j * n <= (i - 1) * n
      BY <1>3, <3>1
    <3>5. j * n \in Int
      BY <1>0, <1>1
    <3> QED BY <1>0, <2>2, <3>1, <3>2, <3>3, <3>4, <3>5
  <2> QED BY <2>1, <2>3, <2>4
<1>5. x.R \in PlainRooms /\ x.S \in PlainRooms
  BY TaskNumbers
<1>6. ASSUME NEW j \in 1 .. k
      PROVE  /\ Split(x)[j] \in PlainTasks /\ Split(x)[j].R = x.R /\ Split(x)[j].S = piece(j)
  <2>1. Split(x)[j] = Task(x.R, piece(j)) /\ piece(j) \in PlainRooms
    BY <1>2, <1>4
  <2> HIDE DEF Split
  <2> QED BY <1>5, <2>1 DEF Task, PlainTasks
<1>7. DOMAIN Split(x) = 1 .. k
  BY <1>2
<1> HIDE DEF Split
<1>8. ASSUME NEW j \in 1 .. k PROVE Inner(Split(x)[j].S, 0, x.S, 0)
  <2>1. EndOf(x.S, 0) = b + e
    BY <1>0 DEF EndOf, b, e
  <2> QED BY <1>4, <1>6, <2>1 DEF Inner, b
<1>9. ASSUME NEW i \in 1 .. k, NEW j \in 1 .. k PROVE Fit(Split(x)[i], Split(x)[j])
  <2>1. CASE i = j
    BY <2>1 DEF Fit
  <2>2. CASE i < j
    <3>1. j \in i + 1 .. k
      BY <1>0, <2>2
    <3>2. Clear(piece(i), 0, piece(j), 0)
      BY <1>4, <3>1 DEF Clear
    <3> QED BY <1>6, <3>2 DEF Fit
  <2>3. CASE j < i
    <3>1. i \in j + 1 .. k
      BY <1>0, <2>3
    <3>2. Clear(piece(i), 0, piece(j), 0)
      BY <1>4, <3>1 DEF Clear
    <3> QED BY <1>6, <3>2 DEF Fit
  <2> QED BY <1>0, <2>1, <2>2, <2>3
<1>10. \A y \in ToSet(Split(x)) : \E j \in 1 .. k : y = Split(x)[j]
  BY <1>7 DEF ToSet
<1> QED BY <1>6, <1>8, <1>9, <1>10 DEF Fitting

(* How a skew task is partitioned.                                         *)
LEMMA SkewSetting ==
    ASSUME Plain, PhaseInv, Symmetric, AllSound, pc[0] = "skewtasks"
    PROVE  /\ part[0] = "skew" /\ build \in Builds /\ skewtask \in PlainTasks /\ skewtask # NULL
           /\ Fanout(0) = Fanout2 /\ Padding(0) = Pad
           /\ \A X \in Rels : /\ Begin(0, X) = skewtask[X].base /\ skewtask[X].base \in Int
                              /\ skewtask[X].num \in Nat
<1>0. 0 \in Builders
  BY PhjAssumption DEF Builders
<1>1. part[0] = "skew" /\ build \in Builds /\ skewtask \in PlainTasks /\ skewtask # NULL
  BY <1>0 DEF PhaseInv, Turns, SkewKnown, Plain, PlainSkew
<1>2. \A X \in Rels : skewtask[X].base \in Int
  BY <1>1, RoomFacts
<1> QED BY <1>1, <1>2 DEF Fanout, Padding, Begin, AllSound, Sound

(* The last partition begins before the task and its margin end.           *)
LEMMA SkewLast ==
    ASSUME Plain, PhaseInv, Symmetric, HistBounded, AllSound, pc[0] = "skewtasks",
           NEW X \in Rels, NEW total, total[X] = skewtask[X].num
    PROVE  PartTask(0, total, Fanout2 - 1)[X].base <= EndOf(skewtask[X], Margin)
<1> DEFINE F == Fanout2
           n == skewtask[X].num
           b == skewtask[X].base
           T == Totals(X)
           p == F - 1
           low == SumFunctionOnSet(T, 0 .. p - 1)
           full == SumFunctionOnSet(T, 0 .. F - 1)
<1>0. /\ build \in Builds /\ Fanout(0) = F /\ Padding(0) = Pad
      /\ Begin(0, X) = b /\ b \in Int /\ n \in Nat
  BY SkewSetting
<1>1. /\ F \in Nat \ {0} /\ F <= 2^RadixBits /\ 2^RadixBits \in Nat /\ Pad \in Nat
      /\ Margin = F * Pad
  BY <1>0, FanoutFacts, PhjAssumption DEF Margin
<1>2. full <= n
  BY <1>0, SkewTotals DEF Bins
<1>3. PartTask(0, total, p)[X].base = b + Offset(0, X, p)
  <2>1. total[X] \in Int /\ p \in 0 .. Fanout(0) - 1
    BY <1>0, <1>1
  <2>2. PartTask(0, total, p)[X].base = Begin(0, X) + Offset(0, X, p)
    BY <2>1, PartRoom
  <2> QED BY <1>0, <2>2
<1> HIDE DEF F, b
<1>4. p \in 0 .. 2^RadixBits - 1 /\ p \in Nat
  BY <1>1
<1>5. Offset(0, X, p) = low + p * Pad /\ \A q \in 0 .. 2^RadixBits - 1 : T[q] \in Nat
  BY <1>0, <1>4, Offsets
<1> HIDE DEF T, n
<1>6. low \in Nat /\ low <= full /\ full \in Nat
  <2>1. IsFiniteSet(0 .. F - 1)
    BY <1>1, FS_Interval
  <2>2. 0 .. p - 1 \in SUBSET (0 .. F - 1) /\ \A q \in 0 .. F - 1 : T[q] \in Nat
    BY <1>1, <1>5
  <2> HIDE DEF p
  <2> QED BY <2>1, <2>2, SumFewer, SumType
<1>7. p * Pad \in Nat /\ p * Pad <= F * Pad /\ F * Pad \in Nat
  BY <1>1, SMT
<1> HIDE DEF low, full, p
<1>8. EndOf(skewtask[X], Margin) = b + n + Margin
  BY DEF EndOf, b, n
<1> HIDE DEF PartTask, EndOf
<1>9. PartTask(0, total, p)[X].base <= EndOf(skewtask[X], Margin)
  BY <1>0, <1>1, <1>2, <1>3, <1>5, <1>6, <1>7, <1>8
<1> QED BY <1>9 DEF p, F

(* The partitions lie within the skew task, far enough apart to be joined  *)
(* at the same time.                                                       *)
LEMMA SkewTasksApart ==
    ASSUME Plain, PhaseInv, Symmetric, HistBounded, AllSound, pc[0] = "skewtasks"
    PROVE  /\ SkewTasks(0) \in Seq(PlainTasks) /\ DOMAIN SkewTasks(0) = 1 .. Fanout2
           /\ \A i \in 1 .. Fanout2 : Within(SkewTasks(0)[i], skewtask)
           /\ \A i, j \in 1 .. Fanout2 : i # j => Far(SkewTasks(0)[i], SkewTasks(0)[j], Pad)
<1> DEFINE F == Fanout2
           total == [X \in Rels |-> skewtask[X].num]
           tasks == SkewTasks(0)
<1>0. /\ part[0] = "skew" /\ build \in Builds /\ skewtask \in PlainTasks /\ skewtask # NULL
      /\ Fanout(0) = F /\ Padding(0) = Pad
      /\ \A X \in Rels : /\ Begin(0, X) = skewtask[X].base /\ skewtask[X].base \in Int
                         /\ skewtask[X].num \in Nat
  BY SkewSetting
<1>1. F \in Nat \ {0} /\ Pad \in Nat /\ Margin = F * Pad /\ Margin \in Nat /\ 0 \in Builders
  BY <1>0, MarginFacts, FanoutFacts, PhjAssumption DEF Builders
<1>2. tasks = [i \in 1 .. F |-> PartTask(0, total, i - 1)]
  BY DEF SkewTasks
<1>3. \A X \in Rels : total[X] = skewtask[X].num /\ total[X] \in Int
  BY <1>0
<1>4. "R" \in Rels /\ "S" \in Rels
  BY DEF Rels
<1> HIDE DEF tasks, total, F
<1>5. \A i \in 1 .. F : i - 1 \in 0 .. Fanout(0) - 1
  BY <1>0, <1>1
<1>6. \A p \in 0 .. Fanout(0) - 1 : PartTask(0, total, p) \in PlainTasks
  BY <1>0, <1>1, <1>3, <1>4, PartTaskPlain
<1>7. tasks \in [1 .. F -> PlainTasks]
  BY <1>2, <1>5, <1>6
<1>8. tasks \in Seq(PlainTasks) /\ DOMAIN tasks = 1 .. F
  BY <1>1, <1>7
<1>9. ASSUME NEW i \in 1 .. F, NEW X \in Rels
      PROVE  /\ skewtask[X].base <= tasks[i][X].base
             /\ \A j \in i + 1 .. F : EndOf(tasks[i][X], Pad) <= tasks[j][X].base
             /\ EndOf(tasks[i][X], Pad) <= EndOf(skewtask[X], Margin)
  <2>1. LaidOut(total, X)
    BY <1>0, <1>3, PartRooms
  <2>2. i - 1 \in 0 .. F - 1 /\ tasks[i] = PartTask(0, total, i - 1)
    BY <1>0, <1>2, <1>5
  <2> HIDE DEF PartTask, EndOf, Padding, Begin, Fanout
  <2>3. skewtask[X].base <= tasks[i][X].base
    BY <1>0, <2>1, <2>2 DEF LaidOut
  <2>4. ASSUME NEW j \in i + 1 .. F PROVE EndOf(tasks[i][X], Pad) <= tasks[j][X].base
    <3>1. j - 1 \in (i - 1) + 1 .. F - 1 /\ j \in 1 .. F
      BY <1>1
    <3>2. tasks[j] = PartTask(0, total, j - 1)
      BY <1>2, <3>1
    <3>3. EndOf(PartTask(0, total, i - 1)[X], Padding(0)) <= PartTask(0, total, j - 1)[X].base
      BY <1>0, <2>1, <2>2, <3>1 DEF LaidOut
    <3> QED BY <1>0, <2>2, <3>2, <3>3
  <2>5. EndOf(tasks[i][X], Pad) <= EndOf(skewtask[X], Margin)
    <3>1. CASE i = F
      <4>1. EndOf(PartTask(0, total, i - 1)[X], Padding(0)) =
                Begin(0, X) + total[X] + Fanout(0) * Padding(0)
        BY <1>0, <2>1, <2>2, <3>1 DEF LaidOut
      <4>2. EndOf(tasks[i][X], Pad) = skewtask[X].base + skewtask[X].num + Margin
        BY <1>0, <1>1, <1>3, <2>2, <4>1
      <4>3. EndOf(tasks[i][X], Pad) = EndOf(skewtask[X], Margin)
        BY <4>2 DEF EndOf
      <4>4. EndOf(skewtask[X], Margin) \in Int
        BY <1>0, <1>1 DEF EndOf
      <4> QED BY <4>3, <4>4
    <3>2. CASE i # F
      <4>1. F \in i + 1 .. F /\ F \in 1 .. F
        BY <1>1, <3>2
      <4>2. EndOf(tasks[i][X], Pad) <= tasks[F][X].base
        BY <2>4, <4>1
      <4>3. tasks[F] = PartTask(0, total, F - 1)
        BY <1>2, <4>1
      <4>4. tasks[F][X].base <= EndOf(skewtask[X], Margin)
        BY <1>3, <4>3, SkewLast DEF F
      <4>5. tasks[i] \in PlainTasks /\ tasks[F] \in PlainTasks
        BY <1>7, <4>1
      <4>6. tasks[i][X] \in PlainRooms /\ tasks[F][X] \in PlainRooms
        BY <4>5, RoomFacts
      <4>7. EndOf(tasks[i][X], Pad) \in Int /\ EndOf(skewtask[X], Margin) \in Int /\ tasks[F][X].base \in Int
        BY <1>0, <1>1, <4>6 DEF EndOf, PlainRooms
      <4> QED BY <4>2, <4>4, <4>7
    <3> QED BY <3>1, <3>2
  <2> QED BY <2>3, <2>4, <2>5
<1>10. ASSUME NEW i \in 1 .. F PROVE Within(tasks[i], skewtask)
  <2>1. tasks[i] \in PlainTasks
    BY <1>7
  <2>2. /\ tasks[i]["R"] = tasks[i].R /\ tasks[i]["S"] = tasks[i].S
        /\ skewtask["R"] = skewtask.R /\ skewtask["S"] = skewtask.S
        /\ tasks[i].S.base \in Int /\ tasks[i].S.num \in Int
        /\ skewtask.S.base \in Int /\ skewtask.S.num \in Int
    BY <1>0, <2>1, TaskNumbers
  <2>3. Inner(tasks[i].R, Pad, skewtask.R, Margin) /\ Inner(tasks[i].S, Pad, skewtask.S, Margin)
    BY <1>4, <1>9, <2>2 DEF Inner
  <2> QED BY <2>3 DEF Within
<1>11. ASSUME NEW i \in 1 .. F, NEW j \in 1 .. F, i # j PROVE Far(tasks[i], tasks[j], Pad)
  <2>1. tasks[i] \in PlainTasks /\ tasks[j] \in PlainTasks
    BY <1>7
  <2>2. /\ tasks[i].R = tasks[i]["R"] /\ tasks[i].S = tasks[i]["S"]
        /\ tasks[j].R = tasks[j]["R"] /\ tasks[j].S = tasks[j]["S"]
    BY <2>1, TaskNumbers
  <2>3. CASE i < j
    <3>1. j \in i + 1 .. F
      BY <1>1, <2>3
    <3> QED BY <1>4, <1>9, <2>2, <3>1 DEF Far, Clear
  <2>4. CASE j < i
    <3>1. i \in j + 1 .. F
      BY <1>1, <2>4
    <3> QED BY <1>4, <1>9, <2>2, <3>1 DEF Far, Clear
  <2> QED BY <1>1, <1>11, <2>3, <2>4
<1> QED BY <1>8, <1>10, <1>11 DEF tasks, F

(* What becomes of a partition of a skew task.                             *)
Derived(y, x) == IF Large(x) THEN y \in ToSet(Split(x)) ELSE y = x

(* ... has its R room, and lies in its S room.                             *)
LEMMA DerivedFacts ==
    ASSUME NEW x \in PlainTasks, Joinable(x), NEW y, Derived(y, x)
    PROVE  y \in PlainTasks /\ y.R = x.R /\ Inner(y.S, 0, x.S, 0)
<1>1. x.S.num \in Nat /\ x.S.num \in Int /\ x.S.base \in Int
  BY TaskNumbers DEF Joinable
<1>2. CASE Large(x)
  BY <1>1, <1>2, SplitRooms DEF Derived
<1>3. CASE ~Large(x)
  BY <1>1, <1>3 DEF Derived, Inner, EndOf
<1> QED BY <1>2, <1>3

(* Those of one partition can be joined at the same time,                  *)
LEMMA DerivedFit ==
    ASSUME NEW x \in PlainTasks, Joinable(x), NEW y, Derived(y, x), NEW z, Derived(z, x)
    PROVE  Fit(y, z)
<1>1. x.S.num \in Nat
  BY TaskNumbers DEF Joinable
<1>2. CASE Large(x)
  BY <1>1, <1>2, SplitRooms DEF Derived, Fitting
<1>3. CASE ~Large(x)
  BY <1>3 DEF Derived, Fit
<1> QED BY <1>2, <1>3

(* and so can those of different ones.                                     *)
LEMMA DerivedApart ==
    ASSUME NEW x \in PlainTasks, Joinable(x), NEW y, Derived(y, x),
           NEW v \in PlainTasks, Joinable(v), NEW z, Derived(z, v), Far(x, v, Pad)
    PROVE  Fit(y, z)
<1>0. Pad \in Nat
  BY PhjAssumption
<1>1. /\ y \in PlainTasks /\ y.R = x.R /\ Inner(y.S, 0, x.S, 0)
      /\ z \in PlainTasks /\ z.R = v.R /\ Inner(z.S, 0, v.S, 0)
  BY DerivedFacts
<1>2. /\ x.S.base \in Int /\ x.S.num \in Int /\ v.S.base \in Int /\ v.S.num \in Int
      /\ y.S.base \in Int /\ y.S.num \in Int /\ z.S.base \in Int /\ z.S.num \in Int
  BY <1>1, TaskNumbers
<1>3. Clear(y.R, Pad, z.R, Pad)
  BY <1>1 DEF Far
<1>4. Clear(x.S, Pad, v.S, Pad)
  BY DEF Far
<1>5. Clear(y.S, 0, z.S, 0)
  BY <1>0, <1>1, <1>2, <1>4 DEF Clear, Inner, EndOf
<1> QED BY <1>3, <1>5 DEF Fit

(* All that thread 0 makes of a skew task lies within it, and can be       *)
(* joined at the same time.                                                *)
LEMMA MakeSkewTasksRooms ==
    ASSUME Plain, PhaseInv, Symmetric, HistBounded, AllSound, MakeSkewTasks(0)
    PROVE  \E new \in SUBSET PlainTasks :
               /\ ToSet(join_queue') \cup ToSet(part_queue')
                      = ToSet(join_queue) \cup ToSet(part_queue) \cup new
               /\ \A y \in new : Within(y, skewtask)
               /\ Fitting(new)
<1> DEFINE tasks == SkewTasks(0)
           joins  == Among(tasks, {x \in ToSet(tasks) : Joinable(x) /\ ~Large(x)})
           splits == Among(tasks, {x \in ToSet(tasks) : Joinable(x) /\ Large(x)})
           pieces == [i \in DOMAIN splits |-> Split(splits[i])]
           new == ToSet(joins) \cup ToSet(FlattenSeq(pieces))
<1>1. pc[0] = "skewtasks"
  BY DEF MakeSkewTasks
<1>2. /\ tasks \in Seq(PlainTasks) /\ DOMAIN tasks = 1 .. Fanout2
      /\ \A i \in 1 .. Fanout2 : Within(tasks[i], skewtask)
      /\ \A i, j \in 1 .. Fanout2 : i # j => Far(tasks[i], tasks[j], Pad)
  BY <1>1, SkewTasksApart
<1>3. part_queue' = Pushed(part_queue, FlattenSeq(pieces)) /\ join_queue' = Pushed(join_queue, joins)
  BY DEF MakeSkewTasks, AddSkewTasks
<1> HIDE DEF tasks
<1>4. /\ joins \in Seq(PlainTasks) /\ splits \in Seq(PlainTasks)
      /\ ToSet(joins) = ToSet(tasks) \cap {x \in ToSet(tasks) : Joinable(x) /\ ~Large(x)}
      /\ ToSet(splits) = ToSet(tasks) \cap {x \in ToSet(tasks) : Joinable(x) /\ Large(x)}
  BY <1>2, AmongPlain, AmongFacts
<1> HIDE DEF joins, splits
<1>5. DOMAIN splits = 1 .. Len(splits) /\ Len(splits) \in Nat
  BY <1>4
<1>6. ASSUME NEW i \in 1 .. Len(splits)
      PROVE  /\ pieces[i] \in Seq(PlainTasks)
             /\ \A y \in ToSet(pieces[i]) :
                    \E x \in ToSet(tasks) : Joinable(x) /\ Derived(y, x)
  <2>1. splits[i] \in PlainTasks /\ splits[i] \in ToSet(tasks) /\ Joinable(splits[i]) /\ Large(splits[i])
    <3>1. splits[i] \in ToSet(splits)
      BY <1>5 DEF ToSet
    <3> QED BY <1>4, <1>5, <3>1
  <2>2. pieces[i] = Split(splits[i])
    BY <1>5
  <2>3. Split(splits[i]) \in Seq(PlainTasks)
    BY <2>1, SplitPlain
  <2> HIDE DEF pieces
  <2> QED BY <2>1, <2>2, <2>3 DEF Derived
<1>7. pieces \in Seq(Seq(PlainTasks)) /\ Len(pieces) = Len(splits)
  <2>1. pieces = [i \in 1 .. Len(splits) |-> pieces[i]]
    BY <1>5
  <2> HIDE DEF pieces
  <2>2. pieces \in [1 .. Len(splits) -> Seq(PlainTasks)]
    BY <1>6, <2>1
  <2> QED BY <1>5, <2>2
<1> HIDE DEF pieces
<1>8. /\ FlattenSeq(pieces) \in Seq(PlainTasks)
      /\ ToSet(FlattenSeq(pieces)) = UNION {ToSet(pieces[i]) : i \in 1 .. Len(splits)}
  BY <1>7, FlattenLists, FlattenToSet
<1>9. /\ ToSet(part_queue') = ToSet(part_queue) \cup ToSet(FlattenSeq(pieces))
      /\ ToSet(join_queue') = ToSet(join_queue) \cup ToSet(joins)
  BY <1>3, <1>4, <1>8, PushedFacts DEF Plain, PlainQueues
<1>10. ASSUME NEW y \in new PROVE \E x \in ToSet(tasks) : Joinable(x) /\ Derived(y, x)
  <2>1. CASE y \in ToSet(joins)
    BY <1>4, <2>1 DEF Derived
  <2>2. CASE y \in ToSet(FlattenSeq(pieces))
    <3>1. PICK i \in 1 .. Len(splits) : y \in ToSet(pieces[i])
      BY <1>8, <2>2
    <3> QED BY <1>6, <3>1
  <2> QED BY <2>1, <2>2
<1>11. ASSUME NEW y \in new
       PROVE  \E i \in 1 .. Fanout2 : Joinable(tasks[i]) /\ Derived(y, tasks[i])
  <2>1. PICK x \in ToSet(tasks) : Joinable(x) /\ Derived(y, x)
    BY <1>10
  <2>2. PICK i \in 1 .. Fanout2 : x = tasks[i]
    BY <1>2 DEF ToSet
  <2> QED BY <2>1, <2>2
<1> HIDE DEF new
<1>12. \A i \in 1 .. Fanout2 : tasks[i] \in PlainTasks
  <2>1. \A i \in DOMAIN tasks : tasks[i] \in PlainTasks
    <3>1. tasks \in Seq(PlainTasks)
      BY <1>2
    <3> QED BY <3>1
  <2> QED BY <1>2, <2>1
<1>13. ASSUME NEW y \in new PROVE y \in PlainTasks /\ Within(y, skewtask)
  <2>1. PICK i \in 1 .. Fanout2 : Joinable(tasks[i]) /\ Derived(y, tasks[i])
    BY <1>11
  <2>2. y \in PlainTasks /\ y.R = tasks[i].R /\ Inner(y.S, 0, tasks[i].S, 0)
    BY <1>12, <2>1, DerivedFacts
  <2>3. Within(tasks[i], skewtask)
    BY <1>2
  <2>4. /\ y.S.base \in Int /\ y.S.num \in Int /\ tasks[i].S.base \in Int /\ tasks[i].S.num \in Int
        /\ skewtask.S.base \in Int /\ skewtask.S.num \in Int
    BY <1>1, <1>12, <2>2, SkewSetting, TaskNumbers
  <2>5. Margin \in Nat
    BY MarginFacts DEF PhaseInv
  <2>6. Inner(y.S, Pad, skewtask.S, Margin)
    BY <2>2, <2>3, <2>4, <2>5, PhjAssumption DEF Within, Inner, EndOf
  <2> QED BY <2>2, <2>3, <2>6 DEF Within
<1>14. ASSUME NEW y \in new, NEW z \in new PROVE Fit(y, z)
  <2>1. PICK i \in 1 .. Fanout2 : Joinable(tasks[i]) /\ Derived(y, tasks[i])
    BY <1>11
  <2>2. PICK j \in 1 .. Fanout2 : Joinable(tasks[j]) /\ Derived(z, tasks[j])
    BY <1>11
  <2>3. CASE i = j
    BY <1>12, <2>1, <2>2, <2>3, DerivedFit
  <2>4. CASE i # j
    <3>1. Far(tasks[i], tasks[j], Pad)
      BY <1>2, <2>4
    <3> QED BY <1>12, <2>1, <2>2, <3>1, DerivedApart
  <2> QED BY <2>3, <2>4
<1>15. /\ ToSet(join_queue') \cup ToSet(part_queue') = ToSet(join_queue) \cup ToSet(part_queue) \cup new
       /\ new \in SUBSET PlainTasks /\ (\A y \in new : Within(y, skewtask)) /\ Fitting(new)
  BY <1>9, <1>13, <1>14 DEF new, Fitting
<1> QED BY <1>15

-----------------------------------------------------------------------------
(* When less is to be partitioned, and fewer tasks are to be joined, all   *)
(* stays apart.                                                            *)
LEMMA SeparateLess ==
    ASSUME NEW m \in Int, NEW own \in Seq(PlainTasks), NEW skew \in Seq(PlainTasks),
           NEW H, NEW held \in [H -> PlainTasks], NEW final \in SUBSET PlainTasks,
           Separate(own, skew, held, final, m),
           NEW J \in SUBSET H, NEW less \in [J -> PlainTasks],
           \A h \in J : Inside(less[h], held[h], m),
           NEW fewer \in SUBSET final
    PROVE  Separate(own, skew, less, fewer, m)
<1>1. Apart(own, skew, held, m) /\ Beyond(final, own, skew, held, m) /\ Fitting(final)
  BY DEF Separate
<1>2. Apart(own, skew, less, m) /\ Beyond(final, own, skew, less, m)
  BY <1>1, HeldShrinks
<1>3. Beyond(fewer, own, skew, less, m) /\ Fitting(fewer)
  BY <1>1, <1>2 DEF Beyond, Fitting
<1> QED BY <1>2, <1>3 DEF Separate

(* New join tasks that lie within something held, and beside what is left  *)
(* of it.                                                                  *)
LEMMA SeparateMore ==
    ASSUME Margin \in Nat, NEW own \in Seq(PlainTasks), NEW skew \in Seq(PlainTasks),
           NEW H, NEW held \in [H -> PlainTasks], NEW final \in SUBSET PlainTasks,
           Separate(own, skew, held, final, Margin),
           NEW J \in SUBSET H, NEW less \in [J -> PlainTasks],
           \A k \in J : Inside(less[k], held[k], Margin),
           NEW h \in H, NEW new \in SUBSET PlainTasks, Fitting(new),
           \A y \in new : Within(y, held[h]),
           \A y \in new : h \in J => Beside(y, less[h], Margin)
    PROVE  Separate(own, skew, less, final \cup new, Margin)
<1>0. /\ ToSet(own) \subseteq PlainTasks /\ ToSet(skew) \subseteq PlainTasks
      /\ DOMAIN held = H /\ DOMAIN less = J /\ Margin \in Int
      /\ \A k \in J : less[k] \in PlainTasks /\ held[k] \in PlainTasks
      /\ held[h] \in PlainTasks
  BY DEF ToSet
<1>1. Apart(own, skew, held, Margin) /\ Beyond(final, own, skew, held, Margin) /\ Fitting(final)
  BY DEF Separate
<1>2. Apart(own, skew, less, Margin) /\ Beyond(final, own, skew, less, Margin)
  BY <1>0, <1>1, HeldShrinks
<1>3. ASSUME NEW y \in new, NEW x \in ToSet(own) \cup ToSet(skew) PROVE Beside(y, x, Margin)
  <2>1. Far(held[h], x, Margin)
    BY <1>0, <1>1 DEF Apart
  <2>2. x \in PlainTasks /\ y \in PlainTasks /\ Within(y, held[h])
    BY <1>0
  <2> QED BY <1>0, <2>1, <2>2, WithinFacts
<1>4. ASSUME NEW y \in new, NEW k \in J PROVE Beside(y, less[k], Margin)
  <2>1. CASE k = h
    BY <2>1
  <2>2. CASE k # h
    <3>1. Far(held[h], held[k], Margin)
      BY <1>0, <1>1, <2>2 DEF Apart
    <3>2. held[k] \in PlainTasks /\ y \in PlainTasks /\ Within(y, held[h]) /\ less[k] \in PlainTasks
      BY <1>0
    <3>3. Beside(y, held[k], Margin)
      BY <1>0, <3>1, <3>2, WithinFacts
    <3> QED BY <1>0, <3>2, <3>3, InsideFacts
  <2> QED BY <2>1, <2>2
<1>5. Beyond(final \cup new, own, skew, less, Margin)
  BY <1>0, <1>2, <1>3, <1>4 DEF Beyond
<1>6. ASSUME NEW y \in new, NEW z \in final PROVE Fit(y, z) /\ Fit(z, y)
  <2>1. Beside(z, held[h], Margin)
    BY <1>0, <1>1 DEF Beyond
  <2>2. z \in PlainTasks /\ y \in PlainTasks /\ Within(y, held[h])
    OBVIOUS
  <2> QED BY <1>0, <2>1, <2>2, WithinFacts
<1>7. Fitting(final \cup new)
  BY <1>1, <1>6 DEF Fitting
<1> QED BY <1>2, <1>5, <1>7 DEF Separate

(* A task lies within itself.                                              *)
LEMMA InsideSelf ==
    ASSUME NEW x \in PlainTasks, NEW m \in Int PROVE Inside(x, x, m)
<1>1. x.R \in PlainRooms /\ x.S \in PlainRooms
  BY TaskNumbers
<1> QED BY <1>1 DEF Inside, Inner, EndOf, PlainRooms

(* The tuples of a room of the first pass are the same as long as nobody   *)
(* writes there.                                                           *)
LEMMA CountStays ==
    ASSUME UNCHANGED <<build, r, s>>, NEW X \in Rels, mem'[X]["tmp"] = mem[X]["tmp"],
           NEW room \in PlainRooms, room.arr = "tmp", NEW p
    PROVE  CountIn(X, room, Fanout2, Skip, p)' = CountIn(X, room, Fanout2, Skip, p)
<1>1. Fanout2' = Fanout2 /\ Skip' = Skip /\ "regions" \notin DOMAIN room
  BY RoomFacts DEF Fanout2, Skip
<1>2. \A k : At(X, room, k)' = At(X, room, k)
  BY DEF At
<1>3. Spread(X, room)' = Rows(room.num) /\ Spread(X, room) = Rows(room.num)
  BY <1>1 DEF Spread
<1>4. Places(X, room)' = Places(X, room)
  BY <1>2, <1>3 DEF Places
<1>5. \A k : HashAt(X, room, k, Fanout2, Skip)' = HashAt(X, room, k, Fanout2, Skip)
  BY <1>1, <1>2 DEF HashAt, Radix, KeyOf
<1>6. {k \in Places(X, room) : HashAt(X, room, k, Fanout2, Skip) = p}'
          = {k \in Places(X, room) : HashAt(X, room, k, Fanout2, Skip) = p}
  BY <1>4, <1>5
<1> QED BY <1>6 DEF CountIn

(* So is what is left of a task.                                           *)
LEMMA LeftStays ==
    ASSUME UNCHANGED <<build, r, s>>, \A X \in Rels : mem'[X]["tmp"] = mem[X]["tmp"],
           NEW x \in PlainTasks, Sound(x), NEW p \in Nat
    PROVE  LeftOf(x, p)' = LeftOf(x, p)
<1>1. ASSUME NEW X \in Rels PROVE ClusterOffset(x, X, p)' = ClusterOffset(x, X, p)
  <2>1. x[X] \in PlainRooms /\ x[X].arr = "tmp"
    BY RoomFacts DEF Sound
  <2>2. \A q : CountIn(X, x[X], Fanout2, Skip, q)' = CountIn(X, x[X], Fanout2, Skip, q)
    BY <2>1, CountStays
  <2>3. [q \in 0 .. p - 1 |-> CountIn(X, x[X], Fanout2, Skip, q)]'
            = [q \in 0 .. p - 1 |-> CountIn(X, x[X], Fanout2, Skip, q)]
    BY <2>2
  <2> QED BY <2>3 DEF ClusterOffset
<1>2. ToCome(x, "R", p)' = ToCome(x, "R", p) /\ ToCome(x, "S", p)' = ToCome(x, "S", p)
  BY <1>1 DEF ToCome, Rels
<1> QED BY <1>2 DEF LeftOf

(* It is some rooms, within the task.                                      *)
LEMMA LeftFacts ==
    ASSUME build \in Builds, NEW x \in PlainTasks, Sound(x), NEW p \in 0 .. Fanout2 - 1
    PROVE  LeftOf(x, p) \in PlainTasks /\ Inside(LeftOf(x, p), x, Margin)
<1>0. Margin \in Int
  BY MarginFacts
<1>1. ASSUME NEW X \in Rels
      PROVE  ToCome(x, X, p) \in PlainRooms /\ Inner(ToCome(x, X, p), Margin, x[X], Margin)
  <2>1. x[X] \in PlainRooms /\ x[X].num \in Nat /\ x[X].base \in Int
    BY RoomFacts DEF Sound
  <2>2. ClusterOffset(x, X, p) \in Nat
    BY <2>1, ClusterOffsets
  <2> DEFINE a == x[X].base + ClusterOffset(x, X, p)
             n == x[X].num - ClusterOffset(x, X, p)
  <2>3. a \in Int /\ n \in Int /\ x[X].base <= a /\ a + n = x[X].base + x[X].num
    BY <2>1, <2>2
  <2>4. ToCome(x, X, p) = Room(x[X].arr, a, n)
    BY DEF ToCome
  <2> HIDE DEF a, n
  <2>5. /\ ToCome(x, X, p) \in PlainRooms /\ ToCome(x, X, p).base = a /\ ToCome(x, X, p).num = n
    BY <2>1, <2>3, <2>4 DEF Room, PlainRooms
  <2> HIDE DEF ToCome
  <2>6. Inner(ToCome(x, X, p), Margin, x[X], Margin)
    BY <1>0, <2>1, <2>3, <2>5 DEF Inner, EndOf
  <2> QED BY <2>5, <2>6
<1>2. x["R"] = x.R /\ x["S"] = x.S /\ "R" \in Rels /\ "S" \in Rels
  BY TaskNumbers DEF Rels
<1>3. /\ LeftOf(x, p) \in PlainTasks
      /\ LeftOf(x, p).R = ToCome(x, "R", p) /\ LeftOf(x, p).S = ToCome(x, "S", p)
  BY <1>1, <1>2, RoomFacts DEF LeftOf
<1> HIDE DEF ToCome, LeftOf
<1> QED BY <1>1, <1>2, <1>3 DEF Inside

-----------------------------------------------------------------------------
(* The join task of partition p is the first of what is left from p on.    *)
LEMMA EmitRoom ==
    ASSUME build \in Builds, Symmetric, NEW x \in PlainTasks, Sound(x), NEW p \in Bins
    PROVE  /\ LeftOf(x, p) \in PlainTasks /\ LeftOf(x, p + 1) \in PlainTasks
           /\ ClusterTask(x, p) \in PlainTasks
           /\ Inside(LeftOf(x, p + 1), LeftOf(x, p), Margin)
           /\ Within(ClusterTask(x, p), LeftOf(x, p))
           /\ Beside(ClusterTask(x, p), LeftOf(x, p + 1), Margin)
<1>0. Margin \in Int /\ Pad \in Nat /\ p \in 0 .. Fanout2 - 1 /\ p \in Nat /\ p + 1 \in Nat
  BY MarginFacts DEF Bins
<1>1. ClusterTask(x, p) \in PlainTasks
  BY <1>0, ClusterTaskPlain
<1>2. \A X \in Rels : /\ ClusterTask(x, p)[X].base = x[X].base + ClusterOffset(x, X, p)
                      /\ ClusterTask(x, p)[X].num = CountIn(X, x[X], Fanout2, Skip, p)
  <2>1. "R" \in SecondRels /\ "S" \in SecondRels
    BY SymmetricFacts DEF Rels
  <2> QED BY <2>1 DEF ClusterTask, Task, Room, Rels
<1>3. ASSUME NEW X \in Rels
      PROVE  /\ ToCome(x, X, p) \in PlainRooms /\ ToCome(x, X, p + 1) \in PlainRooms
             /\ Inner(ToCome(x, X, p + 1), Margin, ToCome(x, X, p), Margin)
             /\ \A n \in 0 .. Pad : /\ Inner(ClusterTask(x, p)[X], n, ToCome(x, X, p), Margin)
                                    /\ Clear(ClusterTask(x, p)[X], n, ToCome(x, X, p + 1), Margin)
  <2>1. x[X] \in PlainRooms /\ x[X].num \in Nat /\ x[X].base \in Int
    BY RoomFacts DEF Sound
  <2> DEFINE b == x[X].base
             k == x[X].num
             c == CountIn(X, x[X], Fanout2, Skip, p)
             o == ClusterOffset(x, X, p)
             n1 == ClusterOffset(x, X, p + 1)
             y == ClusterTask(x, p)[X]
  <2>2. o \in Nat /\ c \in Nat /\ n1 = o + c + Pad /\ n1 <= k + Margin
    BY <1>0, <2>1, ClusterOffsets
  <2>3. y.base = b + o /\ y.num = c
    BY <1>2
  <2>4. ToCome(x, X, p) = Room(x[X].arr, b + o, k - o) /\ ToCome(x, X, p + 1) = Room(x[X].arr, b + n1, k - n1)
    BY DEF ToCome
  <2>5. b \in Int /\ k \in Nat
    BY <2>1
  <2> HIDE DEF b, k, c, o, n1, y
  <2>6. /\ ToCome(x, X, p) \in PlainRooms
        /\ ToCome(x, X, p).base = b + o /\ ToCome(x, X, p).num = k - o
    BY <1>0, <2>1, <2>2, <2>4, <2>5 DEF Room, PlainRooms
  <2>7. /\ ToCome(x, X, p + 1) \in PlainRooms
        /\ ToCome(x, X, p + 1).base = b + n1 /\ ToCome(x, X, p + 1).num = k - n1
    BY <1>0, <2>1, <2>2, <2>4, <2>5 DEF Room, PlainRooms
  <2> HIDE DEF ToCome
  <2>8. Inner(ToCome(x, X, p + 1), Margin, ToCome(x, X, p), Margin)
    BY <1>0, <2>2, <2>5, <2>6, <2>7 DEF Inner, EndOf
  <2>9. ASSUME NEW n \in 0 .. Pad
        PROVE  Inner(y, n, ToCome(x, X, p), Margin) /\ Clear(y, n, ToCome(x, X, p + 1), Margin)
    BY <1>0, <2>2, <2>3, <2>5, <2>6, <2>7 DEF Inner, EndOf, Clear
  <2> QED BY <2>6, <2>7, <2>8, <2>9 DEF y
<1>4. "R" \in Rels /\ "S" \in Rels
  BY DEF Rels
<1> HIDE DEF ToCome
<1>5. /\ LeftOf(x, p) \in PlainTasks
      /\ LeftOf(x, p).R = ToCome(x, "R", p) /\ LeftOf(x, p).S = ToCome(x, "S", p)
  BY <1>3, <1>4, RoomFacts DEF LeftOf
<1>6. /\ LeftOf(x, p + 1) \in PlainTasks
      /\ LeftOf(x, p + 1).R = ToCome(x, "R", p + 1) /\ LeftOf(x, p + 1).S = ToCome(x, "S", p + 1)
  BY <1>3, <1>4, RoomFacts DEF LeftOf
<1> DEFINE y == ClusterTask(x, p)
<1>7. y["R"] = y.R /\ y["S"] = y.S /\ y \in PlainTasks
  BY <1>1
<1>8. 0 \in 0 .. Pad /\ Pad \in 0 .. Pad
  BY <1>0
<1> HIDE DEF LeftOf
<1>9. Inside(LeftOf(x, p + 1), LeftOf(x, p), Margin)
  BY <1>3, <1>4, <1>5, <1>6 DEF Inside
<1>10. /\ Inner(y["R"], Pad, ToCome(x, "R", p), Margin) /\ Inner(y["S"], Pad, ToCome(x, "S", p), Margin)
       /\ Clear(y["R"], Pad, ToCome(x, "R", p + 1), Margin)
       /\ Clear(y["S"], Pad, ToCome(x, "S", p + 1), Margin)
  BY <1>3, <1>4, <1>8
<1> HIDE DEF y
<1>11. Within(y, LeftOf(x, p)) /\ Beside(y, LeftOf(x, p + 1), Margin)
  BY <1>5, <1>6, <1>7, <1>10 DEF Within, Beside
<1> QED BY <1>1, <1>5, <1>6, <1>9, <1>11 DEF y

(* Who partitions something has a task.                                    *)
LEMMA HeldPlain ==
    Plain /\ build \in Builds /\ AllSound =>
        /\ Held \in [Holders -> PlainTasks] /\ Own \in Seq(PlainTasks)
        /\ Final \in SUBSET PlainTasks
<1> SUFFICES ASSUME Plain, build \in Builds, AllSound
             PROVE  /\ Held \in [Holders -> PlainTasks] /\ Own \in Seq(PlainTasks)
                    /\ Final \in SUBSET PlainTasks
  OBVIOUS
<1>0. All \notin Builders
  BY DEF All, Builders
<1>1. ASSUME NEW h \in Holders PROVE Held[h] \in PlainTasks
  <2>1. CASE h = All
    <3>1. InSkew
      BY <1>0, <2>1 DEF Holders
    <3>2. skewtask \in PlainTasks
      BY <3>1 DEF InSkew, Plain, PlainSkew
    <3> QED BY <2>1, <3>2 DEF Held
  <2>2. CASE h # All
    <3>1. h \in Builders /\ pc[h] \in {"cluster", "emit"}
      BY <2>2 DEF Holders
    <3>2. task[h] \in PlainTasks /\ Sound(task[h])
      BY <3>1 DEF Plain, PlainLocal, AllSound
    <3>3. pc[h] # "cluster" => LeftOf(task[h], next[h]) \in PlainTasks
      <4>1. SUFFICES ASSUME pc[h] # "cluster" PROVE LeftOf(task[h], next[h]) \in PlainTasks
        OBVIOUS
      <4>2. next[h] \in 0 .. Fanout2 - 1
        BY <3>1, <4>1 DEF AllSound
      <4> QED BY <3>2, <4>2, LeftFacts
    <3> QED BY <2>2, <3>2, <3>3 DEF Held, Left
  <2> QED BY <2>1, <2>2
<1>2. Own \in Seq(PlainTasks)
  BY DEF Own, Plain, PlainQueues
<1>3. JoinTasks \subseteq PlainTasks /\ ToSet(part_queue) \subseteq PlainTasks
  BY DEF JoinTasks, Plain, PlainQueues, PlainProbers, ToSet
<1>4. Held \in [Holders -> PlainTasks]
  BY <1>1 DEF Held
<1> QED BY <1>2, <1>3, <1>4 DEF Final

(* A step that leaves alone what is partitioned, but for some threads.     *)
SteadyBut(T) ==
    /\ UNCHANGED <<build, r, s>>
    /\ \A h \in Builders \ T : pc'[h] \in {"cluster", "emit"} =>
           /\ pc[h] = pc'[h] /\ task[h] = task'[h] /\ next[h] = next'[h]
           /\ \A X \in Rels : mem'[X]["tmp"] = mem[X]["tmp"]
    /\ InSkew' => (InSkew /\ skewtask' = skewtask) \/ All \in T
Steady == SteadyBut({})

(* Thread h holds after some steps what it held before.                    *)
LEMMA LeftKept ==
    ASSUME Plain, AllSound, UNCHANGED <<build, r, s>>, NEW h \in Builders,
           pc[h] \in {"cluster", "emit"}, pc[h] = pc'[h], task[h] = task'[h], next[h] = next'[h],
           \A X \in Rels : mem'[X]["tmp"] = mem[X]["tmp"]
    PROVE  Left(h)' = Left(h)
<1> PICK x : x = task[h]
  OBVIOUS
<1> PICK p : p = next[h]
  OBVIOUS
<1>1. x \in PlainTasks /\ Sound(x) /\ p \in Nat
  BY DEF Plain, PlainLocal, AllSound
<1>2. LeftOf(x, p)' = LeftOf(x, p)
  BY <1>1, LeftStays
<1>3. Left(h)' = IF pc[h] = "cluster" THEN x ELSE LeftOf(x, p)'
  BY DEF Left
<1> QED BY <1>2, <1>3 DEF Left

(* The others hold the same.                                               *)
LEMMA SteadyHeld ==
    ASSUME Plain, AllSound, NEW T, SteadyBut(T)
    PROVE  \A h \in Holders' : h \notin T => h \in Holders /\ Held'[h] = Held[h]
<1>0. All \notin Builders
  BY DEF All, Builders
<1>1. ASSUME NEW h \in Holders', h \notin T PROVE h \in Holders /\ Held'[h] = Held[h]
  <2>1. CASE h = All
    <3>1. InSkew'
      BY <1>0, <2>1 DEF Holders
    <3>2. InSkew /\ skewtask' = skewtask
      BY <1>1, <2>1, <3>1 DEF SteadyBut
    <3> QED BY <2>1, <3>2 DEF Holders, Held
  <2>2. CASE h # All
    <3>1. h \in Builders /\ pc'[h] \in {"cluster", "emit"}
      BY <2>2 DEF Holders
    <3>2. /\ UNCHANGED <<build, r, s>>
          /\ pc[h] = pc'[h] /\ task[h] = task'[h] /\ next[h] = next'[h]
          /\ \A X \in Rels : mem'[X]["tmp"] = mem[X]["tmp"]
      BY <1>1, <3>1 DEF SteadyBut
    <3>3. Left(h)' = Left(h)
      BY <3>1, <3>2, LeftKept
    <3>4. h \in Holders
      BY <3>1, <3>2 DEF Holders
    <3> QED BY <2>2, <3>3, <3>4 DEF Held
  <2> QED BY <2>1, <2>2
<1> QED BY <1>1

(* What is partitioned is there, and in its place.                         *)
Placed == AllSound /\ Separate(Own, skew_queue, Held, Final, Margin)

(* A step that leaves it all alone keeps all apart.                        *)
LEMMA SteadyKeeps ==
    ASSUME Plain, Plain', build \in Builds, Placed, Steady, Own' = Own,
           UNCHANGED skew_queue, skewtask' \in {skewtask, NULL}, Final' \subseteq Final
    PROVE  Placed'
<1>1. build' \in Builds /\ Fanout2' = Fanout2 /\ Margin' = Margin /\ Margin \in Int
  BY MarginFacts DEF Steady, SteadyBut, Fanout2, Skip, Margin
<1>2. AllSound'
  <2>1. \A x \in ToSet(Own') \cup ToSet(skew_queue') : Sound(x)
    BY DEF Placed, AllSound
  <2>2. skewtask' # NULL => Sound(skewtask')
    BY DEF Placed, AllSound
  <2>3. ASSUME NEW h \in Builders, pc'[h] \in {"cluster", "emit"}
        PROVE  Sound(task'[h]) /\ (pc'[h] = "emit" => next'[h] \in 0 .. Fanout2' - 1)
    BY <1>1, <2>3 DEF Placed, AllSound, Steady, SteadyBut
  <2>4. \A x : Sound(x)' = Sound(x)
    BY DEF Sound
  <2> QED BY <2>1, <2>2, <2>3 DEF AllSound, Sound
<1>3. /\ Held \in [Holders -> PlainTasks] /\ Own \in Seq(PlainTasks)
      /\ Final \in SUBSET PlainTasks /\ skew_queue \in Seq(PlainTasks)
  BY HeldPlain DEF Placed, Plain, PlainQueues
<1>4. Held' \in [Holders' -> PlainTasks]
  <2>1. Plain' /\ (build \in Builds)' /\ AllSound'
    BY <1>1, <1>2
  <2>2. (Held \in [Holders -> PlainTasks])'
    BY <2>1, HeldPlain, PTL
  <2> QED BY <2>2
<1>5. Holders' \in SUBSET Holders /\ \A h \in Holders' : Held'[h] = Held[h]
  BY SteadyHeld DEF Placed, Steady
<1>6. \A h \in Holders' : Inside(Held'[h], Held[h], Margin)
  <2>1. ASSUME NEW h \in Holders' PROVE Inside(Held'[h], Held[h], Margin)
    <3>1. Held[h] \in PlainTasks /\ Held'[h] = Held[h]
      BY <1>3, <1>5
    <3> QED BY <1>1, <3>1, InsideSelf
  <2> QED BY <2>1
<1>7. Separate(Own, skew_queue, Held, Final, Margin)
  BY DEF Placed
<1> HIDE DEF Own, Held, Holders, Final, Margin
<1>8. Separate(Own, skew_queue, Held', Final', Margin)
  BY <1>1, <1>3, <1>4, <1>5, <1>6, <1>7, SeparateLess
<1>9. Separate(Own, skew_queue, Held, Final, Margin)'
  BY <1>1, <1>8 DEF Separate, Apart, Beyond, Fitting, Spaced, Far, Beside, Fit, Clear, EndOf
<1> QED BY <1>2, <1>9 DEF Placed

-----------------------------------------------------------------------------
(* All threads are in the second pass when one is.                         *)
LEMMA AllInSecond ==
    ASSUME PhaseInv, NEW t \in Builders, pc[t] \in SecondPhase
    PROVE  \A u \in Builders : pc[u] \in SecondPhase
<1>1. PICK P \in Phases : \A u \in Builders : pc[u] \in P
  BY DEF PhaseInv, SamePhase
<1>2. P = SecondPhase \/ P \cap SecondPhase = {}
  <2>1. CASE P \in ScatterPhases
    BY <2>1 DEF ScatterPhases, AfterR, AfterS, SecondPhase
  <2>2. CASE P \notin ScatterPhases
    BY <2>2 DEF Phases, SecondPhase, LookPhase
  <2> QED BY <2>1, <2>2
<1> QED BY <1>1, <1>2

(* What is sound stays so.                                                 *)
LEMMA SoundKept ==
    ASSUME AllSound, NEW T, SteadyBut(T),
           ToSet(Own') \cup ToSet(skew_queue') \subseteq ToSet(Own) \cup ToSet(skew_queue),
           skewtask' # NULL => Sound(skewtask'),
           \A h \in Builders : h \in T /\ pc'[h] \in {"cluster", "emit"} =>
               Sound(task'[h]) /\ (pc'[h] = "emit" => next'[h] \in 0 .. Fanout2 - 1)
    PROVE  AllSound'
<1>1. Fanout2' = Fanout2
  BY DEF SteadyBut, Fanout2, Skip
<1>2. \A x \in ToSet(Own') \cup ToSet(skew_queue') : Sound(x)
  BY DEF AllSound
<1>3. ASSUME NEW h \in Builders, pc'[h] \in {"cluster", "emit"}
      PROVE  Sound(task'[h]) /\ (pc'[h] = "emit" => next'[h] \in 0 .. Fanout2' - 1)
  <2>1. CASE h \in T
    BY <1>1, <1>3, <2>1
  <2>2. CASE h \notin T
    BY <1>1, <1>3, <2>2 DEF AllSound, SteadyBut
  <2> QED BY <2>1, <2>2
<1> QED BY <1>2, <1>3 DEF AllSound, Sound

(* The types of all that is partitioned.                                   *)
LEMMA PlacedTypes ==
    ASSUME Plain, build \in Builds, Placed
    PROVE  /\ Held \in [Holders -> PlainTasks] /\ Own \in Seq(PlainTasks)
           /\ Final \in SUBSET PlainTasks /\ skew_queue \in Seq(PlainTasks)
           /\ Margin \in Nat /\ Margin \in Int
  BY HeldPlain, MarginFacts DEF Placed, Plain, PlainQueues

(* ... and what is to be shown of them behind a step.                      *)
LEMMA PlacedNext ==
    ASSUME Plain', build \in Builds, build' = build, AllSound'
    PROVE  /\ Held' \in [Holders' -> PlainTasks]
           /\ Separate(Own', skew_queue', Held', Final', Margin) => Placed'
<1>1. (build \in Builds)' /\ Margin' = Margin
  BY DEF Margin, Fanout2, Skip
<1>2. (Held \in [Holders -> PlainTasks])'
  BY <1>1, HeldPlain, PTL
<1>3. Separate(Own', skew_queue', Held', Final', Margin) =>
          Separate(Own, skew_queue, Held, Final, Margin)'
  BY <1>1 DEF Separate, Apart, Beyond, Fitting, Spaced, Far, Beside, Fit, Clear, EndOf
<1> QED BY <1>2, <1>3 DEF Placed

(* A thread takes a task of its own to partition.                          *)
LEMMA PopPlaced ==
    ASSUME FitInv, Plain', Emptied, Placed, NEW t \in Builders, PopPart(t), part_queue # <<>>
    PROVE  Placed'
<1>0. /\ pc[t] = "pop" /\ pc' = [pc EXCEPT ![t] = "cluster"]
      /\ task' = [task EXCEPT ![t] = Head(part_queue)] /\ part_queue' = Tail(part_queue)
      /\ UNCHANGED <<build, r, s, mem, skew_queue, join_queue, skewtask, part, next, ppc, ptask>>
  BY DEF PopPart, Goto, inputs, prober
<1>1. Plain /\ PhaseInv /\ build \in Builds /\ pc \in [Builders -> BuildPC] /\ 0 \in Builders
  BY PhjAssumption DEF FitInv, PhaseInv, Builders
<1>2. pc[0] \in SecondPhase
  BY <1>0, <1>1, AllInSecond DEF SecondPhase
<1>3. Parting
  <2>1. build.passes = 2
    BY <1>0 DEF FitInv, InOrder
  <2>2. pc[0] # "shared"
    BY <2>1 DEF Emptied
  <2>3. part[0] = "first"
    BY <1>1, <1>2, <2>2 DEF PhaseInv, Turns, SecondPhase
  <2> QED BY <2>1, <2>3 DEF Parting
<1>4. Own = part_queue /\ Own' = Tail(Own) /\ Own # <<>>
  BY <1>0, <1>3 DEF Own, Parting
<1>5. /\ Held \in [Holders -> PlainTasks] /\ Own \in Seq(PlainTasks)
      /\ Final \in SUBSET PlainTasks /\ skew_queue \in Seq(PlainTasks) /\ Margin \in Int
  BY <1>1, PlacedTypes
<1>6. /\ Head(Own) \in PlainTasks /\ Head(Own) \in ToSet(Own)
      /\ ToSet(Own') \subseteq ToSet(Own)
  BY <1>4, <1>5, PoppedFacts
<1>7. task \in [Builders -> PlainTasks \cup {NULL}]
  BY <1>1 DEF Plain, PlainLocal
<1>8. SteadyBut({t})
  BY <1>0, <1>1, <1>7 DEF SteadyBut, InSkew
<1>9. AllSound'
  <2>1. Sound(Head(Own)) /\ (skewtask' # NULL => Sound(skewtask')) /\ AllSound
    BY <1>0, <1>6 DEF Placed, AllSound
  <2>2. pc'[t] = "cluster" /\ task'[t] = Head(Own)
    BY <1>0, <1>1, <1>4, <1>7
  <2>3. \A h \in Builders : h \in {t} /\ pc'[h] \in {"cluster", "emit"} =>
               Sound(task'[h]) /\ (pc'[h] = "emit" => next'[h] \in 0 .. Fanout2 - 1)
    BY <2>1, <2>2
  <2>4. ToSet(Own') \cup ToSet(skew_queue') \subseteq ToSet(Own) \cup ToSet(skew_queue)
    BY <1>0, <1>6
  <2> QED BY <1>8, <2>1, <2>3, <2>4, SoundKept
<1>10. Holders' = Holders \cup {t} /\ t \notin Holders
  <2>1. InSkew' <=> InSkew
    BY <1>0, <1>1 DEF InSkew
  <2>2. t \notin Holders
    BY <1>0 DEF Holders, All, Builders
  <2> QED BY <1>0, <1>1, <2>1, <2>2 DEF Holders
<1>11. Taking(Own, Held, Held', t)
  <2>1. \A h \in Holders : Held'[h] = Held[h]
    <3>1. \A h \in Holders' : h \notin {t} => h \in Holders /\ Held'[h] = Held[h]
      BY <1>1, <1>8, SteadyHeld DEF Placed
    <3> QED BY <1>10, <3>1
  <2>2. Held'[t] = Head(Own)
    <3>1. pc'[t] = "cluster" /\ task'[t] = Head(Own) /\ t # All
      BY <1>0, <1>1, <1>4, <1>7 DEF All, Builders
    <3> QED BY <1>10, <3>1 DEF Held, Left
  <2>3. DOMAIN Held = Holders /\ DOMAIN Held' = Holders'
    BY DEF Held
  <2> QED BY <1>10, <2>1, <2>2, <2>3 DEF Taking
<1>12. Final' = Final
  BY <1>0, <1>3 DEF Final, Parting, JoinTasks, Joining
<1>13. Separate(Own, skew_queue, Held, Final, Margin)
  BY DEF Placed
<1> HIDE DEF Own, Held, Holders, Final, Margin, Placed
<1>14. Apart(Tail(Own), skew_queue, Held', Margin) /\ Beyond(Final, Tail(Own), skew_queue, Held', Margin)
  BY <1>4, <1>5, <1>11, <1>13, TakeOwn DEF Separate
<1>15. Separate(Own', skew_queue', Held', Final', Margin)
  BY <1>0, <1>4, <1>12, <1>13, <1>14 DEF Separate
<1> QED BY <1>0, <1>1, <1>9, <1>15, PlacedNext

-----------------------------------------------------------------------------
(* One who holds a task gives some of it up, for new join tasks.           *)
LEMMA ShrinkPlaced ==
    ASSUME Plain, Plain', build \in Builds, Placed, NEW t, SteadyBut({t}), AllSound',
           Own' = Own, UNCHANGED skew_queue, t \in Holders,
           t \in Holders' => Inside(Held'[t], Held[t], Margin),
           NEW new \in SUBSET PlainTasks, Fitting(new), \A y \in new : Within(y, Held[t]),
           \A y \in new : t \in Holders' => Beside(y, Held'[t], Margin),
           Final' = Final \cup new
    PROVE  Placed'
<1>1. /\ Held \in [Holders -> PlainTasks] /\ Own \in Seq(PlainTasks)
      /\ Final \in SUBSET PlainTasks /\ skew_queue \in Seq(PlainTasks)
      /\ Margin \in Int /\ Margin \in Nat
  BY PlacedTypes
<1>2. build' = build
  BY DEF SteadyBut
<1>3. Held' \in [Holders' -> PlainTasks]
  BY <1>2, PlacedNext
<1>4. \A h \in Holders' : h # t => h \in Holders /\ Held'[h] = Held[h]
  BY SteadyHeld DEF Placed
<1>5. Holders' \in SUBSET Holders
  BY <1>4
<1>6. \A k \in Holders' : Inside(Held'[k], Held[k], Margin)
  <2>1. ASSUME NEW k \in Holders', k # t PROVE Inside(Held'[k], Held[k], Margin)
    <3>1. Held[k] \in PlainTasks /\ Held'[k] = Held[k]
      BY <1>1, <1>4, <2>1
    <3> QED BY <1>1, <3>1, InsideSelf
  <2> QED BY <2>1
<1>7. Separate(Own, skew_queue, Held, Final, Margin)
  BY DEF Placed
<1> HIDE DEF Own, Held, Holders, Final, Margin, Placed
<1>8. Separate(Own, skew_queue, Held', Final \cup new, Margin)
  BY <1>1, <1>3, <1>5, <1>6, <1>7, SeparateMore
<1>9. Separate(Own', skew_queue', Held', Final', Margin)
  BY <1>8
<1> QED BY <1>2, <1>9, PlacedNext

(* The second pass does not write where it reads.                          *)
LEMMA ClusterKeepsTmp ==
    ASSUME MemThere, NEW x, x.R.arr = "tmp" /\ x.S.arr = "tmp", NEW X \in Rels
    PROVE  Clustered(x, X)["tmp"] = mem[X]["tmp"]
<1>1. x[X].arr = "tmp" /\ Other("tmp") = Back /\ Back # "tmp"
  BY DEF Rels, Other, Back
<1>2. X \in DOMAIN mem /\ "tmp" \in DOMAIN mem[X]
  BY DEF MemThere
<1>3. \A v : [mem EXCEPT ![X][Back] = v][X]["tmp"] = mem[X]["tmp"]
  BY <1>1, <1>2
<1>4. \A moves, lost : Stored(X, Back, moves, lost)[X]["tmp"] = mem[X]["tmp"]
  BY <1>1, <1>2 DEF Stored
<1> HIDE DEF Stored
<1> QED BY <1>1, <1>4 DEF Clustered, LinedAndRested, Scattered

(* A thread partitions its task.                                           *)
LEMMA ClusterPlaced ==
    ASSUME FitInv, Plain', MemThere, Placed, NEW t \in Builders, Cluster(t)
    PROVE  Placed'
<1>0. /\ pc[t] = "cluster" /\ pc' = [pc EXCEPT ![t] = "emit"]
      /\ next' = [next EXCEPT ![t] = 0]
      /\ UNCHANGED <<build, r, s, part_queue, skew_queue, join_queue, skewtask, part, task, ppc, ptask>>
  BY DEF Cluster, Goto, inputs, prober, queues
<1>1. Plain /\ PhaseInv /\ build \in Builds /\ pc \in [Builders -> BuildPC]
      /\ next \in [Builders -> Nat]
  BY DEF FitInv, PhaseInv, Plain, PlainLocal
<1> PICK x : x = task[t]
  OBVIOUS
<1>2. x \in PlainTasks /\ Sound(x)
  BY <1>0, <1>1 DEF Plain, PlainLocal, Placed, AllSound
<1>3. \A X \in Rels : mem'[X]["tmp"] = mem[X]["tmp"]
  <2>1. ASSUME NEW X \in Rels PROVE mem'[X]["tmp"] = mem[X]["tmp"]
    <3>1. x.R.arr = "tmp" /\ x.S.arr = "tmp"
      BY <1>2 DEF Sound, Rels
    <3>2. Clustered(x, X)["tmp"] = mem[X]["tmp"]
      BY <3>1, ClusterKeepsTmp
    <3>3. mem'[X] = IF X \in SecondRels THEN Clustered(x, X) ELSE mem[X]
      BY DEF Cluster
    <3> QED BY <3>2, <3>3
  <2> QED BY <2>1
<1>4. SteadyBut({t})
  BY <1>0, <1>1, <1>3 DEF SteadyBut, InSkew
<1>5. Own' = Own /\ Final' = Final
  BY <1>0 DEF Own, Final, Parting, JoinTasks, Joining
<1>6. Fanout2 \in Nat \ {0} /\ 0 \in 0 .. Fanout2 - 1
  BY <1>1, MarginFacts
<1>7. task'[t] = x /\ next'[t] = 0 /\ pc'[t] = "emit"
  BY <1>0, <1>1
<1>8. AllSound'
  <2>1. /\ ToSet(Own') \cup ToSet(skew_queue') \subseteq ToSet(Own) \cup ToSet(skew_queue)
        /\ skewtask' # NULL => Sound(skewtask')
    BY <1>0, <1>5 DEF Placed, AllSound
  <2>2. \A h \in Builders : h \in {t} /\ pc'[h] \in {"cluster", "emit"} =>
               Sound(task'[h]) /\ (pc'[h] = "emit" => next'[h] \in 0 .. Fanout2 - 1)
    BY <1>2, <1>6, <1>7
  <2>3. AllSound
    BY DEF Placed
  <2> QED BY <1>4, <2>1, <2>2, <2>3, SoundKept
<1>9. t \in Holders /\ t # All
  BY <1>0 DEF Holders, All, Builders
<1>10. Held[t] = x
  BY <1>0, <1>9 DEF Held, Left
<1>11. t \in Holders' => Held'[t] = LeftOf(x, 0)
  <2>1. LeftOf(x, 0)' = LeftOf(x, 0)
    BY <1>0, <1>2, <1>3, LeftStays
  <2>2. Left(t)' = LeftOf(x, 0)'
    BY <1>7 DEF Left
  <2> QED BY <1>9, <2>1, <2>2 DEF Held
<1>12. Inside(LeftOf(x, 0), x, Margin)
  BY <1>1, <1>2, <1>6, LeftFacts
<1>13. Fitting({})
  BY DEF Fitting
<1> HIDE DEF Own, Held, Holders, Final, Margin, Placed, LeftOf
<1>14. Final' = Final \cup {}
  BY <1>5
<1> QED BY <1>0, <1>1, <1>4, <1>5, <1>8, <1>9, <1>10, <1>11, <1>12, <1>13, <1>14, ShrinkPlaced

(* It makes a join task of the next partition.                             *)
LEMMA EmitPlaced ==
    ASSUME FitInv, Plain', Symmetric, Placed, NEW t \in Builders, Emit(t)
    PROVE  Placed'
<1>0. /\ pc[t] = "emit" /\ next' = [next EXCEPT ![t] = @ + 1]
      /\ pc' = [pc EXCEPT ![t] = IF next[t] = Fanout2 - 1 THEN "pop" ELSE "emit"]
      /\ UNCHANGED <<build, r, s, mem, part_queue, skew_queue, skewtask, part, task, ppc, ptask>>
  BY DEF Emit, Goto, inputs, prober
<1>1. Plain /\ PhaseInv /\ build \in Builds /\ pc \in [Builders -> BuildPC]
      /\ next \in [Builders -> Nat] /\ join_queue \in Seq(PlainTasks)
  BY DEF FitInv, PhaseInv, Plain, PlainLocal, PlainQueues
<1> PICK x : x = task[t]
  OBVIOUS
<1> PICK p : p = next[t]
  OBVIOUS
<1>2. x \in PlainTasks /\ Sound(x) /\ p \in Bins /\ p \in Nat
  BY <1>0, <1>1 DEF Plain, PlainLocal, Placed, AllSound, Bins
<1> DEFINE y == ClusterTask(x, p)
<1>3. /\ y \in PlainTasks /\ Inside(LeftOf(x, p + 1), LeftOf(x, p), Margin)
      /\ Within(y, LeftOf(x, p)) /\ Beside(y, LeftOf(x, p + 1), Margin)
  BY <1>1, <1>2, EmitRoom
<1>4. SteadyBut({t})
  BY <1>0, <1>1 DEF SteadyBut, InSkew
<1> DEFINE new == IF Joinable(y) THEN {y} ELSE {}
<1>5. ToSet(join_queue') = ToSet(join_queue) \cup new
  <2>1. CASE Joinable(y)
    <3> PICK one : one = <<y>>
      OBVIOUS
    <3>1. join_queue' = Pushed(join_queue, one)
      BY <2>1 DEF Emit
    <3>2. one \in Seq(PlainTasks) /\ ToSet(one) = {y}
      BY <1>3 DEF ToSet
    <3>3. join_queue \in Seq(PlainTasks)
      BY <1>1
    <3> HIDE DEF y, new
    <3>4. /\ Pushed(join_queue, one) \in Seq(PlainTasks)
          /\ ToSet(Pushed(join_queue, one)) = ToSet(join_queue) \cup ToSet(one)
      BY <3>2, <3>3, PushedFacts
    <3> QED BY <2>1, <3>1, <3>2, <3>4 DEF new
  <2>2. CASE ~Joinable(y)
    <3>1. join_queue' = join_queue
      BY <2>2 DEF Emit
    <3> QED BY <2>2, <3>1
  <2> QED BY <2>1, <2>2
<1>6. Own' = Own /\ Final' = Final \cup new
  BY <1>0, <1>5 DEF Own, Final, Parting, JoinTasks, Joining
<1>7. task'[t] = x /\ next'[t] = p + 1 /\ pc'[t] \in {"pop", "emit"}
      /\ (pc'[t] = "emit" => p + 1 \in Bins)
  <2>1. pc'[t] = IF p = Fanout2 - 1 THEN "pop" ELSE "emit"
    BY <1>0, <1>1
  <2>2. Fanout2 \in Nat
    BY <1>1, MarginFacts
  <2> QED BY <1>0, <1>1, <1>2, <2>1, <2>2 DEF Bins
<1>8. AllSound'
  <2>1. /\ ToSet(Own') \cup ToSet(skew_queue') \subseteq ToSet(Own) \cup ToSet(skew_queue)
        /\ skewtask' # NULL => Sound(skewtask')
    BY <1>0, <1>6 DEF Placed, AllSound
  <2>2. \A h \in Builders : h \in {t} /\ pc'[h] \in {"cluster", "emit"} =>
               Sound(task'[h]) /\ (pc'[h] = "emit" => next'[h] \in 0 .. Fanout2 - 1)
    BY <1>2, <1>7 DEF Bins
  <2>3. AllSound
    BY DEF Placed
  <2> QED BY <1>4, <2>1, <2>2, <2>3, SoundKept
<1>9. t \in Holders /\ t # All
  BY <1>0 DEF Holders, All, Builders
<1>10. Held[t] = LeftOf(x, p)
  BY <1>0, <1>9 DEF Held, Left
<1>11. t \in Holders' => Held'[t] = LeftOf(x, p + 1)
  <2>1. LeftOf(x, p + 1)' = LeftOf(x, p + 1)
    BY <1>0, <1>2, LeftStays
  <2>2. t \in Holders' => pc'[t] = "emit"
    BY <1>7, <1>9 DEF Holders
  <2>3. pc'[t] = "emit" => Left(t)' = LeftOf(x, p + 1)'
    BY <1>7 DEF Left
  <2> QED BY <1>9, <2>1, <2>2, <2>3 DEF Held
<1>12. Fitting(new)
  <2>1. \A a, b \in new : a = b
    OBVIOUS
  <2> QED BY <2>1 DEF Fitting, Fit
<1> HIDE DEF Own, Held, Holders, Final, Margin, Placed, LeftOf
<1>13. new \in SUBSET PlainTasks /\ \A z \in new : z = y
  BY <1>3
<1> HIDE DEF y, new
<1> QED BY <1>0, <1>1, <1>3, <1>4, <1>6, <1>8, <1>9, <1>10, <1>11, <1>12, <1>13, ShrinkPlaced

-----------------------------------------------------------------------------
(* Thread 0 takes a task for all to partition.                             *)
LEMMA FetchPlaced ==
    ASSUME FitInv, Plain', Placed, FetchSkew(0)
    PROVE  Placed'
<1>0. /\ pc[0] = "fetch" /\ pc' = [pc EXCEPT ![0] = "fetched"]
      /\ UNCHANGED <<build, r, s, mem, part_queue, join_queue, part, task, next, ppc, ptask>>
  BY DEF FetchSkew, Goto, inputs, prober, local
<1>1. Plain /\ build \in Builds /\ pc \in [Builders -> BuildPC] /\ 0 \in Builders
  BY PhjAssumption DEF FitInv, PhaseInv, Builders
<1>2. Own' = Own /\ Final' = Final
  BY <1>0 DEF Own, Final, Parting, JoinTasks, Joining
<1>3. CASE skew_queue = <<>>
  <2>1. skewtask' = NULL /\ skew_queue' = skew_queue
    BY <1>3 DEF FetchSkew
  <2>2. Steady
    BY <1>0, <1>1, <2>1 DEF Steady, SteadyBut, InSkew
  <2>3. Final' \subseteq Final /\ skewtask' \in {skewtask, NULL}
    BY <1>2, <2>1
  <2> QED BY <1>1, <1>2, <2>1, <2>2, <2>3, SteadyKeeps
<1>4. CASE skew_queue # <<>>
  <2> PICK x : x = Head(skew_queue)
    OBVIOUS
  <2>1. skewtask' = x /\ skew_queue' = Tail(skew_queue)
    BY <1>4 DEF FetchSkew
  <2>2. /\ Held \in [Holders -> PlainTasks] /\ Own \in Seq(PlainTasks)
        /\ Final \in SUBSET PlainTasks /\ skew_queue \in Seq(PlainTasks) /\ Margin \in Int
    BY <1>1, PlacedTypes
  <2>3. /\ x \in PlainTasks /\ Tail(skew_queue) \in Seq(PlainTasks)
        /\ ToSet(skew_queue) = {x} \cup ToSet(Tail(skew_queue))
    BY <1>4, <2>2, PoppedFacts
  <2>4. SteadyBut({All})
    BY <1>0, <1>1 DEF SteadyBut
  <2>5. AllSound'
    <3>1. AllSound /\ Sound(x)
      BY <2>3 DEF Placed, AllSound
    <3>2. /\ ToSet(Own') \cup ToSet(skew_queue') \subseteq ToSet(Own) \cup ToSet(skew_queue)
          /\ skewtask' # NULL => Sound(skewtask')
      BY <1>2, <2>1, <2>3, <3>1
    <3>3. \A h \in Builders : h \notin {All}
      BY DEF Builders, All
    <3> QED BY <2>4, <3>1, <3>2, <3>3, SoundKept
  <2>6. All \notin Holders
    BY <1>0 DEF Holders, InSkew, Builders, All
  <2> DEFINE H    == Holders \cup {All}
             more == [h \in H |-> IF h = All THEN x ELSE Held[h]]
  <2>7. Taking(skew_queue, Held, more, All)
    <3>1. DOMAIN Held = Holders
      BY DEF Held
    <3> QED BY <2>6, <3>1 DEF Taking
  <2>8. more \in [H -> PlainTasks]
    BY <2>2, <2>3
  <2>9. \A h \in Holders' : h \in H /\ Held'[h] = more[h]
    <3>1. \A h \in Holders' : h \notin {All} => h \in Holders /\ Held'[h] = Held[h]
      BY <1>1, <2>4, SteadyHeld DEF Placed
    <3>2. All \in Holders' => Held'[All] = x
      BY <2>1 DEF Held
    <3> QED BY <3>1, <3>2
  <2>10. Held' \in [Holders' -> PlainTasks]
    BY <1>0, <1>1, <2>5, PlacedNext
  <2>11. Separate(Own, skew_queue, Held, Final, Margin)
    BY DEF Placed
  <2> HIDE DEF Own, Held, Holders, Final, Margin, Placed, H, more
  <2>12. /\ Apart(Own, Tail(skew_queue), more, Margin)
         /\ Beyond(Final, Own, Tail(skew_queue), more, Margin)
    BY <1>4, <2>2, <2>7, <2>11, TakeSkew DEF Separate
  <2>13. Separate(Own, Tail(skew_queue), more, Final, Margin)
    BY <2>11, <2>12 DEF Separate
  <2>14. \A h \in Holders' : Inside(Held'[h], more[h], Margin)
    <3>1. ASSUME NEW h \in Holders' PROVE Inside(Held'[h], more[h], Margin)
      <4>1. more[h] \in PlainTasks /\ Held'[h] = more[h]
        BY <2>8, <2>9
      <4> QED BY <2>2, <4>1, InsideSelf
    <3> QED BY <3>1
  <2>15. Holders' \in SUBSET H /\ Final \in SUBSET Final
    BY <2>9
  <2>16. Separate(Own, Tail(skew_queue), Held', Final, Margin)
    <3> PICK tail : tail = Tail(skew_queue)
      OBVIOUS
    <3> PICK less : less = Held'
      OBVIOUS
    <3>1. tail \in Seq(PlainTasks) /\ Separate(Own, tail, more, Final, Margin)
      BY <2>3, <2>13
    <3>2. less \in [Holders' -> PlainTasks] /\ \A h \in Holders' : Inside(less[h], more[h], Margin)
      BY <2>10, <2>14
    <3>3. Separate(Own, tail, less, Final, Margin)
      BY <2>2, <2>8, <2>15, <3>1, <3>2, SeparateLess
    <3> QED BY <3>3
  <2>17. Separate(Own', skew_queue', Held', Final', Margin)
    BY <1>2, <2>1, <2>16
  <2> QED BY <1>0, <1>1, <2>5, <2>17, PlacedNext
<1> QED BY <1>3, <1>4

(* Thread 0 makes the tasks of a skew task.                                *)
LEMMA MakeSkewPlaced ==
    ASSUME FitInv, Plain', Symmetric, HistBounded, Placed, MakeSkewTasks(0)
    PROVE  Placed'
<1>0. /\ pc[0] = "skewtasks" /\ pc' = [pc EXCEPT ![0] = "fetch"]
      /\ UNCHANGED <<build, r, s, mem, skew_queue, skewtask, part, task, next, ppc, ptask>>
  BY DEF MakeSkewTasks, Goto, inputs, prober
<1>1. /\ Plain /\ PhaseInv /\ build \in Builds /\ pc \in [Builders -> BuildPC] /\ 0 \in Builders
      /\ AllSound
  BY PhjAssumption DEF FitInv, PhaseInv, Builders, Placed
<1>2. PICK new \in SUBSET PlainTasks :
          /\ ToSet(join_queue') \cup ToSet(part_queue')
                 = ToSet(join_queue) \cup ToSet(part_queue) \cup new
          /\ \A y \in new : Within(y, skewtask)
          /\ Fitting(new)
  BY <1>1, MakeSkewTasksRooms
<1>3. part[0] = "skew" /\ skewtask # NULL
  BY <1>0, <1>1 DEF PhaseInv, Turns, SkewKnown
<1>4. Own' = Own /\ Final' = Final \cup new
  BY <1>0, <1>2, <1>3 DEF Own, Final, Parting, JoinTasks, Joining
<1>5. SteadyBut({All})
  BY <1>0, <1>1 DEF SteadyBut
<1>6. AllSound'
  <2>1. /\ ToSet(Own') \cup ToSet(skew_queue') \subseteq ToSet(Own) \cup ToSet(skew_queue)
        /\ skewtask' # NULL => Sound(skewtask')
    BY <1>0, <1>1, <1>4 DEF AllSound
  <2>2. \A h \in Builders : h \notin {All}
    BY DEF Builders, All
  <2> QED BY <1>1, <1>5, <2>1, <2>2, SoundKept
<1>7. All \in Holders /\ All \notin Holders'
  <2>1. InSkew /\ ~InSkew' /\ All \notin Builders
    BY <1>0, <1>1, <1>3 DEF InSkew, All, Builders
  <2> QED BY <2>1 DEF Holders
<1>8. Held[All] = skewtask
  BY <1>7 DEF Held
<1> HIDE DEF Own, Held, Holders, Final, Margin, Placed
<1> QED BY <1>0, <1>1, <1>2, <1>4, <1>5, <1>6, <1>7, <1>8, ShrinkPlaced

(* Thread 0 makes the first tasks.                                         *)
LEMMA MakeTasksPlaced ==
    ASSUME FitInv, Plain', Symmetric, Emptied, MakeTasks(0)
    PROVE  Placed'
<1>0. /\ pc[0] = "tasks" /\ pc' = [pc EXCEPT ![0] = "queued"]
      /\ UNCHANGED <<build, join_queue, skewtask, part, task, next, ppc, ptask>>
  BY DEF MakeTasks, Goto, inputs, prober
<1>1. /\ Plain /\ PhaseInv /\ build \in Builds /\ pc \in [Builders -> BuildPC] /\ 0 \in Builders
  BY PhjAssumption DEF FitInv, PhaseInv, Builders
<1>2. part[0] = "first"
  BY <1>0, <1>1 DEF PhaseInv, Turns
<1>3. part_queue = <<>> /\ skew_queue = <<>> /\ join_queue = <<>> /\ skewtask = NULL
  BY <1>0, <1>2 DEF Emptied, Early
<1>4. /\ Spaced(part_queue', Margin) /\ Spaced(skew_queue', Margin)
      /\ \A x \in ToSet(part_queue'), y \in ToSet(skew_queue') : Far(x, y, Margin)
      /\ \A x \in ToSet(part_queue') \cup ToSet(skew_queue') : Sound(x)
  BY <1>1, <1>3, MakeTasksRooms
<1>5. \A t \in Builders : pc'[t] \notin {"cluster", "emit"}
  <2>1. \A t \in Builders : pc[t] \notin SecondPhase
    BY <1>0, <1>1, AllInSecond DEF SecondPhase
  <2> QED BY <1>0, <1>1, <2>1 DEF SecondPhase
<1>6. Holders' = {}
  BY <1>0, <1>3, <1>5 DEF Holders, InSkew
<1>7. JoinTasks' = {}
  <2>1. Unspawned
    BY <1>0, <1>1 DEF FitInv, InOrder
  <2>2. JoinTasks' = JoinTasks
    BY <1>0 DEF JoinTasks, Joining
  <2>3. JoinTasks = ToSet(join_queue)
    BY <2>1, JoinTasksUnspawned
  <2> QED BY <1>3, <2>2, <2>3 DEF ToSet
<1>8. AllSound'
  <2>1. ToSet(Own') \subseteq ToSet(part_queue')
    BY DEF Own, ToSet
  <2>2. skewtask' = NULL
    BY <1>0, <1>3
  <2> QED BY <1>4, <1>5, <2>1, <2>2 DEF AllSound, Sound
<1>9. /\ part_queue' \in Seq(PlainTasks) /\ skew_queue' \in Seq(PlainTasks)
      /\ Margin \in Int /\ Margin \in Nat /\ Pad \in Nat /\ Pad <= Margin
  BY <1>1, MarginFacts DEF Plain, PlainQueues
<1>10. DOMAIN Held' = {}
  BY <1>6 DEF Held
<1>11. CASE build.passes = 2
  <2>1. Own' = part_queue' /\ Final' = {}
    BY <1>0, <1>2, <1>7, <1>11 DEF Own, Final, Parting
  <2>2. Separate(Own', skew_queue', Held', Final', Margin)
    BY <1>4, <1>10, <2>1 DEF Separate, Apart, Beyond, Fitting
  <2> QED BY <1>0, <1>1, <1>8, <2>2, PlacedNext
<1>12. CASE build.passes # 2
  <2>1. Own' = <<>> /\ Final' = ToSet(part_queue') /\ ToSet(Own') = {}
    BY <1>0, <1>7, <1>12 DEF Own, Final, Parting, ToSet
  <2>2. Fitting(Final')
    BY <1>4, <1>9, <2>1, SpacedFits
  <2>3. ASSUME NEW y \in ToSet(part_queue'), NEW x \in ToSet(skew_queue')
        PROVE  Beside(y, x, Margin)
    <3>1. y \in PlainTasks /\ x \in PlainTasks
      BY <1>9 DEF ToSet
    <3>2. Within(y, y)
      BY <1>9, <3>1, TaskNumbers DEF Within, Inner, EndOf
    <3> QED BY <1>4, <1>9, <3>1, <3>2, WithinFacts
  <2>4. Spaced(Own', Margin)
    BY <2>1 DEF Spaced
  <2>5. Separate(Own', skew_queue', Held', Final', Margin)
    BY <1>4, <1>10, <2>1, <2>2, <2>3, <2>4 DEF Separate, Apart, Beyond
  <2> QED BY <1>0, <1>1, <1>8, <2>5, PlacedNext
<1> QED BY <1>11, <1>12

-----------------------------------------------------------------------------
(* A step that neither takes nor makes tasks.                              *)
LEMMA QuietPlaced ==
    ASSUME FitInv, Plain', Placed, NEW t \in Builders, Quiet(t)
    PROVE  Placed'
<1>1. Plain /\ PhaseInv /\ build \in Builds /\ pc \in [Builders -> BuildPC] /\ 0 \in Builders
  BY PhjAssumption DEF FitInv, PhaseInv, Builders
<1>2. /\ UNCHANGED <<build, queues, skewtask, local, prober>>
      /\ pc[t] \in QuietPlaces /\ \E c \in QuietPlaces : pc' = [pc EXCEPT ![t] = c]
  BY QuietSteps DEF QuietStep
<1>3. UNCHANGED <<r, s>>
  BY DEF Quiet, Memset, Zero, Partition, Look, Count, Scatter, StoreLines, StoreRests, inputs
<1>4. \A h \in Builders : pc'[h] \notin {"cluster", "emit"}
  <2>1. \A h \in Builders : pc[h] \notin SecondPhase
    BY <1>1, <1>2, AllInSecond DEF QuietPlaces, SecondPhase
  <2>2. \A h \in Builders : pc'[h] = pc[h] \/ pc'[h] \in QuietPlaces
    BY <1>1, <1>2
  <2> QED BY <2>1, <2>2 DEF QuietPlaces, SecondPhase
<1>5. InSkew' => InSkew
  <2>1. pc[0] = "fetch" => pc'[0] = "fetch"
    BY <1>1, <1>2 DEF QuietPlaces
  <2> QED BY <1>2, <2>1 DEF InSkew
<1>6. Steady
  BY <1>2, <1>3, <1>4, <1>5 DEF Steady, SteadyBut
<1>7. UNCHANGED <<build, part_queue, join_queue, skew_queue, part, ppc, ptask>>
  BY <1>2 DEF queues, local, prober
<1>8. Own' = Own /\ Final' \subseteq Final
  BY <1>7 DEF Own, Final, Parting, JoinTasks, Joining
<1>9. skewtask' \in {skewtask, NULL}
  BY <1>2
<1> QED BY <1>1, <1>6, <1>7, <1>8, <1>9, SteadyKeeps

(* Thread 0 moves the pieces to the other queue.                           *)
LEMMA DrainPlaced ==
    ASSUME FitInv, Plain', Placed, DrainParts(0)
    PROVE  Placed'
<1>0. /\ pc[0] = "drain" /\ pc' = [pc EXCEPT ![0] = "drained"]
      /\ UNCHANGED <<build, r, s, mem, skew_queue, skewtask, part, task, next, ppc, ptask>>
  BY DEF DrainParts, Goto, inputs, local, prober
<1>1. Plain /\ PhaseInv /\ build \in Builds /\ pc \in [Builders -> BuildPC] /\ 0 \in Builders
  BY PhjAssumption DEF FitInv, PhaseInv, Builders
<1>2. Steady
  BY <1>0, <1>1 DEF Steady, SteadyBut, InSkew
<1>3. part[0] = "skew"
  BY <1>0, <1>1 DEF PhaseInv, Turns
<1>4. Own' = Own
  BY <1>0, <1>3 DEF Own, Parting
<1>5. part_queue' = <<>> /\ ToSet(join_queue') = ToSet(join_queue) \cup ToSet(part_queue)
  BY <1>1, DrainFacts
<1>6. Final' \subseteq Final
  <2>1. ToSet(part_queue') = {}
    BY <1>5 DEF ToSet
  <2> QED BY <1>0, <1>3, <1>5, <2>1 DEF Final, Parting, JoinTasks, Joining
<1> QED BY <1>0, <1>1, <1>2, <1>4, <1>6, SteadyKeeps

(* A thread is done with the second pass.                                  *)
LEMMA ShareMaxPlaced ==
    ASSUME FitInv, Plain', Placed, NEW t \in Builders, ShareMax(t)
    PROVE  Placed'
<1>0. /\ pc[t] = "share" /\ pc' = [pc EXCEPT ![t] = "shared"]
      /\ part' \in {part, [part EXCEPT ![t] = "skew"]}
      /\ UNCHANGED <<build, r, s, mem, queues, skewtask, task, next, ppc, ptask>>
  BY DEF ShareMax, Goto, inputs, prober
<1>1. /\ Plain /\ PhaseInv /\ build \in Builds /\ pc \in [Builders -> BuildPC] /\ 0 \in Builders
      /\ part \in [Builders -> {"first", "skew"}]
  BY PhjAssumption DEF FitInv, PhaseInv, Builders
<1>2. Steady
  BY <1>0, <1>1 DEF Steady, SteadyBut, InSkew
<1>3. Parting' = Parting \/ (Parting /\ ~Parting' /\ part_queue = <<>>)
  <2>1. CASE t = 0
    <3>1. build.passes = 2 => part_queue = <<>>
      BY <1>0, <2>1 DEF FitInv, InOrder
    <3>2. part'[0] \in {part[0], "skew"}
      BY <1>0, <1>1, <2>1
    <3> QED BY <1>0, <3>1, <3>2 DEF Parting
  <2>2. CASE t # 0
    BY <1>0, <1>1, <2>2 DEF Parting
  <2> QED BY <2>1, <2>2
<1>4. UNCHANGED <<part_queue, skew_queue, join_queue>>
  BY <1>0 DEF queues
<1>5. Own' = Own
  BY <1>3, <1>4 DEF Own
<1>6. Final' \subseteq Final
  <2>1. part_queue = <<>> => ToSet(part_queue) = {}
    BY DEF ToSet
  <2> QED BY <1>0, <1>3, <1>4, <2>1 DEF Final, JoinTasks, Joining
<1>7. skewtask' \in {skewtask, NULL}
  BY <1>0
<1> QED BY <1>1, <1>2, <1>4, <1>5, <1>6, <1>7, SteadyKeeps

(* Every step of a build thread keeps all apart.                           *)
LEMMA PlacedStep ==
    ASSUME FitInv, Plain', RoomInv, Symmetric, NEW t \in Builders, Buildpart(t)
    PROVE  Placed'
<1>0. /\ Plain /\ PhaseInv /\ build \in Builds /\ pc \in [Builders -> BuildPC] /\ 0 \in Builders
      /\ Placed /\ MemThere /\ Emptied /\ HistBounded
  BY PhjAssumption DEF FitInv, PhaseInv, Builders, RoomInv, Placed
<1>1. ASSUME NEW c, c \notin {"cluster", "emit"}, pc' = [pc EXCEPT ![t] = c],
             pc[t] = "fetch" => t # 0,
             UNCHANGED <<build, r, s, mem, part_queue, skew_queue, join_queue, skewtask, part,
                         task, next, ppc, ptask>>
      PROVE  Placed'
  <2>1. InSkew' => InSkew /\ skewtask' = skewtask
    BY <1>0, <1>1 DEF InSkew
  <2>2. Steady
    BY <1>0, <1>1, <2>1 DEF Steady, SteadyBut
  <2>3. Own' = Own /\ Final' \subseteq Final
    BY <1>1 DEF Own, Final, Parting, JoinTasks, Joining
  <2>4. skewtask' \in {skewtask, NULL} /\ skew_queue' = skew_queue
    BY <1>1
  <2> QED BY <1>0, <2>2, <2>3, <2>4, SteadyKeeps
<1>2. CASE Quiet(t)
  BY <1>0, <1>2, QuietPlaced
<1>3. CASE MakeTasks(t)
  <2>1. t = 0 => Placed'
    BY <1>0, <1>3, MakeTasksPlaced
  <2>2. CASE t # 0
    BY <1>1, <1>3, <2>2 DEF MakeTasks, Goto, inputs, prober
  <2> QED BY <2>1, <2>2
<1>4. CASE StartSecondPass(t)
  BY <1>1, <1>4 DEF StartSecondPass, Goto, inputs, prober, queues
<1>5. CASE PopPart(t)
  <2>1. CASE part_queue # <<>>
    BY <1>0, <1>5, <2>1, PopPlaced
  <2>2. CASE part_queue = <<>>
    BY <1>1, <1>5, <2>2 DEF PopPart, Goto, inputs, prober
  <2> QED BY <2>1, <2>2
<1>6. CASE Cluster(t)
  BY <1>0, <1>6, ClusterPlaced
<1>7. CASE Emit(t)
  BY <1>0, <1>7, EmitPlaced
<1>8. CASE ShareMax(t)
  BY <1>0, <1>8, ShareMaxPlaced
<1>9. CASE FetchSkew(t)
  <2>1. t = 0 => Placed'
    BY <1>0, <1>9, FetchPlaced
  <2>2. CASE t # 0
    BY <1>1, <1>9, <2>2 DEF FetchSkew, Goto, inputs, local, prober
  <2> QED BY <2>1, <2>2
<1>10. CASE MakeSkewTasks(t)
  <2>1. t = 0 => Placed'
    BY <1>0, <1>10, MakeSkewPlaced
  <2>2. CASE t # 0
    BY <1>1, <1>10, <2>2 DEF MakeSkewTasks, Goto, inputs, prober
  <2> QED BY <2>1, <2>2
<1>11. CASE DrainParts(t)
  <2>1. t = 0 => Placed'
    BY <1>0, <1>11, DrainPlaced
  <2>2. CASE t # 0
    BY <1>1, <1>11, <2>2 DEF DrainParts, Goto, inputs, local, prober
  <2> QED BY <2>1, <2>2
<1>12. CASE FindMax(t)
  BY <1>1, <1>12 DEF FindMax, Goto, inputs, prober, queues
<1> QED BY <1>2, <1>3, <1>4, <1>5, <1>6, <1>7, <1>8, <1>9, <1>10, <1>11, <1>12, BuildpartCases

(* So does a barrier that opens.                                           *)
LEMMA ReleasePlaced ==
    ASSUME FitInv, Plain', Placed, Release
    PROVE  Placed'
<1>0. /\ Plain /\ build \in Builds /\ 0 \in Builders
      /\ UNCHANGED <<build, r, s, mem, part_queue, skew_queue, join_queue, skewtask, part,
                     task, next, ppc, ptask>>
      /\ pc[0] \in DOMAIN AfterBarrier /\ pc' = [t \in Builders |-> AfterBarrier[pc[0]]]
  BY PhjAssumption DEF FitInv, PhaseInv, Builders, Release, Open, inputs, queues, local, prober
<1>1. AfterBarrier[pc[0]] \notin {"cluster", "emit"} /\ pc[0] # "fetch"
  BY <1>0, BarrierFacts
<1>2. \A t \in Builders : pc'[t] \notin {"cluster", "emit"}
  BY <1>0, <1>1
<1>3. Steady
  BY <1>0, <1>1, <1>2 DEF Steady, SteadyBut, InSkew
<1>4. Own' = Own /\ Final' \subseteq Final
  BY <1>0 DEF Own, Final, Parting, JoinTasks, Joining
<1> QED BY <1>0, <1>3, <1>4, SteadyKeeps

(* So does all that comes when the build threads are done.                 *)
LEMMA OthersPlaced ==
    ASSUME FitInv, Plain', Placed,
           \/ \E p \in Probers : Probejoin(p)
           \/ SpawnProbers \/ ReleaseProbe \/ Collect \/ Terminated \/ UNCHANGED vars
    PROVE  Placed'
<1>0. Plain /\ build \in Builds /\ build.passes \in {1, 2} /\ 0 \in Builders
  BY PhjAssumption DEF FitInv, PhaseInv, Builders
<1>1. UNCHANGED <<build, r, s, skew_queue, skewtask, pc, part, task, next>>
  <2>1. UNCHANGED <<inputs, builder, skew_queue>>
    <3>1. CASE UNCHANGED vars
      BY <3>1 DEF vars, queues
    <3> QED BY <3>1, OtherSteps
  <2> QED BY <2>1 DEF inputs, builder, local
<1>2. (\A t \in Builders : pc[t] \notin {"cluster", "emit"}) \/ mem' = mem
  <2>1. CASE Unspawned
    <3>1. ASSUME NEW p \in Probers, Probejoin(p) PROVE FALSE
      BY <2>1, <3>1 DEF Unspawned, Probejoin, Wipe, PopJoin, BuildTable, Reorder, ProbeTable
    <3>2. mem' = mem
      BY <3>1 DEF SpawnProbers, ReleaseProbe, Collect, Terminated, vars
    <3> QED BY <3>2
  <2>2. CASE ~Unspawned
    BY <2>2 DEF FitInv, InOrder
  <2> QED BY <2>1, <2>2
<1>3. Steady
  BY <1>1, <1>2 DEF Steady, SteadyBut, InSkew
<1>4. CASE SpawnProbers
  <2>1. /\ Unspawned /\ JoinTasks' = ToSet(IF build.passes = 1 THEN part_queue ELSE join_queue)
    BY <1>0, <1>4, SpawnFacts
  <2>2. IF build.passes = 1 THEN join_queue' = part_queue /\ part_queue' = join_queue
        ELSE UNCHANGED <<join_queue, part_queue>>
    BY <1>4 DEF SpawnProbers
  <2>3. JoinTasks = ToSet(join_queue)
    BY <2>1, JoinTasksUnspawned
  <2>4. Own' = Own
    BY <1>0, <1>1, <2>2 DEF Own, Parting
  <2>5. Final' \subseteq Final
    BY <1>0, <1>1, <2>1, <2>2, <2>3 DEF Final, Parting
  <2> QED BY <1>0, <1>1, <1>3, <2>4, <2>5, SteadyKeeps
<1>5. CASE ~SpawnProbers
  <2>1. part_queue' = part_queue /\ JoinTasks' \subseteq JoinTasks
    BY <1>0, <1>5, OthersTake DEF Takes
  <2>2. Own' = Own /\ Final' \subseteq Final
    BY <1>1, <2>1 DEF Own, Final, Parting
  <2> QED BY <1>0, <1>1, <1>3, <2>2, SteadyKeeps
<1> QED BY <1>4, <1>5

-----------------------------------------------------------------------------
(* Only thread 0 fetches skew tasks, when nobody uses one.                 *)
LEMMA SkewTaskKept ==
    ASSUME FitInv, NEW t \in Builders, Buildpart(t), skewtask' # skewtask
    PROVE  /\ t = 0 /\ pc[0] = "fetch" /\ FetchSkew(0)
           /\ \A u \in Builders : pc[u] \in {"skewtasks", "fetch", "fetched"}
<1>1. t = 0 /\ pc[0] = "fetch" /\ 0 \in Builders
  BY StepAdvances, PhjAssumption DEF Advance, Builders
<1>2. FetchSkew(0)
  <2>1. ~Quiet(0)
    BY <1>1, QuietSteps DEF QuietStep, QuietPlaces
  <2>2. /\ ~MakeTasks(0) /\ ~StartSecondPass(0) /\ ~PopPart(0) /\ ~Cluster(0) /\ ~Emit(0)
        /\ ~ShareMax(0) /\ ~MakeSkewTasks(0) /\ ~DrainParts(0) /\ ~FindMax(0)
    BY <1>1 DEF MakeTasks, StartSecondPass, PopPart, Cluster, Emit, ShareMax, MakeSkewTasks,
                DrainParts, FindMax
  <2> QED BY <1>1, <2>1, <2>2, BuildpartCases
<1>3. PICK P \in Phases : \A u \in Builders : pc[u] \in P
  BY DEF FitInv, PhaseInv, SamePhase
<1>4. P = {"skewtasks", "fetch", "fetched"}
  <2>1. pc[0] \in P
    BY <1>1, <1>3
  <2>2. P \notin ScatterPhases
    BY <1>1, <2>1 DEF ScatterPhases, AfterR, AfterS
  <2> QED BY <1>1, <2>1, <2>2 DEF Phases, SecondPhase, LookPhase
<1> QED BY <1>1, <1>2, <1>3, <1>4

(* Nobody counts while thread 0 makes the tasks of a skew task.            *)
LEMMA NobodyCounts ==
    ASSUME FitInv, pc[0] = "skewtasks", NEW t \in Builders
    PROVE  pc[t] \in {"skewtasks", "fetch", "fetched"}
<1>1. PICK P \in Phases : \A u \in Builders : pc[u] \in P
  BY DEF FitInv, PhaseInv, SamePhase
<1>2. pc[0] \in P
  BY <1>1, PhjAssumption DEF Builders
<1>3. P \notin ScatterPhases
  BY <1>2 DEF ScatterPhases, AfterR, AfterS
<1>4. P = {"skewtasks", "fetch", "fetched"}
  BY <1>2, <1>3 DEF Phases, SecondPhase, LookPhase
<1> QED BY <1>1, <1>4

(* What a thread counts in its share is no more than that.                 *)
LEMMA CountBounded ==
    ASSUME FitInv, AllSound, NEW t \in Builders, NEW X \in Rels, Count(t, X),
           part[t] = "skew", hist[X][t] = NoCounts
    PROVE  SumFunctionOnSet(hist'[X][t], Bins)
               <= Cardinality(Share(skewtask[X].num, BuildNum, t))
<1>0. /\ Plain /\ PhaseInv /\ build \in Builds
      /\ hist \in [Rels -> [Builders -> [0 .. 2^RadixBits - 1 -> Nat]]]
  BY DEF FitInv, PhaseInv, Plain, PlainHist
<1>1. skewtask # NULL
  <2>1. X = "R" \/ X = "S"
    BY DEF Rels
  <2>2. pc[t] \in Partitioning
    BY <2>1 DEF Count, Partitioning
  <2> QED BY <1>0, <2>2 DEF PhaseInv, SkewKnown
<1>2. skewtask[X].num \in Nat
  BY <1>1 DEF AllSound, Sound
<1> DEFINE m == Cardinality(Share(skewtask[X].num, BuildNum, t))
           n(p) == CountIn(X, Source(t, X), Fanout2, Skip, p)
<1>3. m \in Nat
  <2>1. IsFiniteSet(Share(skewtask[X].num, BuildNum, t))
    BY <1>2, ShareBounds, PhjAssumption DEF Builders
  <2> QED BY <2>1, FS_CardinalityType
<1>4. Source(t, X).num = m /\ "regions" \notin DOMAIN Source(t, X)
  BY DEF Source, ShareOf, Whole, Room
<1>5. \A p : n(p) \in Nat
  BY <1>3, <1>4, CountInNat
<1>6. Fanout2 \in Nat /\ Fanout2 <= 2^RadixBits /\ 2^RadixBits \in Nat
  BY <1>0, FanoutFacts
<1>7. hist' = [hist EXCEPT ![X][t] = [p \in DOMAIN NoCounts |-> @[p] + n(p)]]
  BY DEF Count, Fanout, SkipOf
<1> HIDE DEF n, m
<1>8. hist'[X][t] = [p \in DOMAIN NoCounts |-> NoCounts[p] + n(p)]
  BY <1>0, <1>7
<1>9. \A p \in 0 .. Fanout2 - 1 : hist'[X][t][p] = n(p)
  BY <1>5, <1>6, <1>8 DEF NoCounts
<1>10. SumFunctionOnSet(hist'[X][t], 0 .. Fanout2 - 1) <= Source(t, X).num
  <2> PICK c : c = hist'[X][t]
    OBVIOUS
  <2> PICK room : room = Source(t, X)
    OBVIOUS
  <2>1. \A p \in 0 .. Fanout2 - 1 : c[p] = CountIn(X, room, Fanout2, Skip, p)
    BY <1>9 DEF n
  <2>2. room.num \in Nat /\ "regions" \notin DOMAIN room
    BY <1>3, <1>4
  <2>3. SumFunctionOnSet(c, 0 .. Fanout2 - 1) <= room.num
    BY <1>6, <2>1, <2>2, CountInSum
  <2> QED BY <2>3
<1> QED BY <1>4, <1>10 DEF m, Bins

(* What a step does to the histograms.                                     *)
HistEffects(t) ==
    \/ /\ UNCHANGED hist
       /\ \A X \in Rels :
              /\ pc'[t] \in Uncounted(X) => pc[t] \in Uncounted(X)
              /\ pc'[t] \in Counted(X) => pc[t] \in Counted(X)
    \/ /\ pc[t] = "zero" /\ pc'[t] = "zeroed"
       /\ \A X \in Rels : /\ hist'[X][t] = NoCounts
                          /\ \A u \in Builders \ {t} : hist'[X][u] = hist[X][u]
    \/ \E X \in Rels :
           /\ Count(t, X) /\ pc'[t] = IF X = "R" THEN "countedR" ELSE "countedS"
           /\ \A Y \in Rels : \A u \in Builders : <<Y, u>> # <<X, t>> => hist'[Y][u] = hist[Y][u]

(* No other step counts.                                                   *)
LEMMA HistStepEffects ==
    ASSUME FitInv, Symmetric, NEW t \in Builders, Buildpart(t)
    PROVE  HistEffects(t)
<1>0. /\ Plain /\ PhaseInv /\ build \in Builds /\ pc \in [Builders -> BuildPC]
      /\ hist \in [Rels -> [Builders -> [0 .. 2^RadixBits - 1 -> Nat]]]
  BY DEF FitInv, PhaseInv, Plain, PlainHist
<1>1. CASE Zero(t)
  <2>1. hist' = [X \in Rels |-> [hist[X] EXCEPT ![t] = NoCounts]]
    BY <1>0, <1>1, SymmetricFacts DEF Zero
  <2>2. pc[t] = "zero" /\ pc'[t] = "zeroed"
    BY <1>0, <1>1 DEF Zero, Goto
  <2>3. \A X \in Rels : /\ hist'[X][t] = NoCounts
                        /\ \A u \in Builders \ {t} : hist'[X][u] = hist[X][u]
    BY <1>0, <2>1
  <2> QED BY <2>2, <2>3 DEF HistEffects
<1>2. ASSUME NEW X \in Rels, Count(t, X) PROVE HistEffects(t)
  <2>1. hist' = [hist EXCEPT ![X][t] = [p \in DOMAIN NoCounts |->
                   @[p] + CountIn(X, Source(t, X), Fanout(t), SkipOf(t), p)]]
    BY <1>2 DEF Count
  <2>2. pc'[t] = IF X = "R" THEN "countedR" ELSE "countedS"
    BY <1>0, <1>2 DEF Count, Goto, Rels
  <2>3. \A Y \in Rels : \A u \in Builders : <<Y, u>> # <<X, t>> => hist'[Y][u] = hist[Y][u]
    BY <1>0, <2>1
  <2> QED BY <1>2, <2>2, <2>3 DEF HistEffects
<1>3. ASSUME UNCHANGED hist, pc[t] \notin {"zero", "countR", "countS"} PROVE HistEffects(t)
  <2>1. PICK c \in BuildPC : pc' = [pc EXCEPT ![t] = c] /\ PcStep(t, c)
    BY StepAdvances DEF Advance
  <2>2. pc'[t] = c
    BY <1>0, <2>1
  <2>3. "S" \in SecondRels
    BY <1>0, SymmetricFacts DEF Rels
  <2>4. ASSUME NEW X \in Rels
        PROVE  /\ c \in Uncounted(X) => pc[t] \in Uncounted(X)
               /\ c \in Counted(X) => pc[t] \in Counted(X)
    <3>1. CASE X = "R"
      BY <1>3, <2>1, <2>3, <3>1 DEF PcStep, Uncounted, Counted
    <3>2. CASE X = "S"
      BY <1>3, <2>1, <2>3, <3>2 DEF PcStep, Uncounted, Counted
    <3> QED BY <3>1, <3>2 DEF Rels
  <2> QED BY <1>3, <2>2, <2>4 DEF HistEffects
<1>4. Memset(t) \/ Look(t) => HistEffects(t)
  BY <1>3 DEF Memset, Look
<1>5. ASSUME NEW X \in Rels, Scatter(t, X) \/ StoreLines(t, X) \/ StoreRests(t, X)
      PROVE  HistEffects(t)
  BY <1>3, <1>5 DEF Scatter, StoreLines, StoreRests, Rels
<1>6. \/ MakeTasks(t) \/ StartSecondPass(t) \/ PopPart(t) \/ Cluster(t) \/ Emit(t)
      \/ ShareMax(t) \/ FetchSkew(t) \/ MakeSkewTasks(t) \/ DrainParts(t) \/ FindMax(t)
      => HistEffects(t)
  BY <1>3 DEF MakeTasks, StartSecondPass, PopPart, Cluster, Emit, ShareMax, FetchSkew, MakeSkewTasks,
         DrainParts, FindMax
<1> QED BY <1>1, <1>2, <1>4, <1>5, <1>6, BuildpartCases DEF Quiet, Partition

(* The counts stay bounded.                                                *)
LEMMA HistBoundedStep ==
    ASSUME FitInv, Symmetric, AllSound, HistBounded, NEW t \in Builders, Buildpart(t)
    PROVE  HistBounded'
<1>0. /\ Plain /\ PhaseInv /\ pc \in [Builders -> BuildPC] /\ part \in [Builders -> {"first", "skew"}]
      /\ 0 \in Builders
  BY PhjAssumption DEF FitInv, PhaseInv, Builders
<1>1. PICK c \in BuildPC : pc' = [pc EXCEPT ![t] = c] /\ PcStep(t, c)
  BY StepAdvances DEF Advance
<1>2. c # "skewtasks" /\ pc'[t] = c /\ build' = build
  BY <1>0, <1>1, StepAdvances DEF PcStep, Advance
<1>3. Bins' = Bins /\ \A X : Uncounted(X)' = Uncounted(X) /\ Counted(X)' = Counted(X)
  BY <1>2 DEF Bins, Fanout2, Skip, Uncounted, Counted
<1>4. CASE skewtask' # skewtask
  <2>1. /\ t = 0 /\ pc[0] = "fetch" /\ FetchSkew(0)
        /\ \A u \in Builders : pc[u] \in {"skewtasks", "fetch", "fetched"}
    BY <1>4, SkewTaskKept
  <2>2. pc' = [pc EXCEPT ![0] = "fetched"]
    BY <2>1 DEF FetchSkew, Goto
  <2>3. \A u \in Builders : pc'[u] \in {"skewtasks", "fetch", "fetched"} /\ pc'[0] = "fetched"
    BY <1>0, <2>1, <2>2
  <2> QED BY <1>0, <2>3 DEF HistBounded, Uncounted, Counted
<1>5. CASE skewtask' = skewtask
  <2>1. HistEffects(t)
    BY HistStepEffects
  <2>2. ASSUME NEW u \in Builders, NEW X \in Rels, hist'[X][u] = hist[X][u], Bounded(u, X)
        PROVE  Bounded(u, X)'
    BY <1>3, <1>5, <2>2 DEF Bounded
  <2>3. ASSUME NEW u \in Builders, u # t PROVE pc'[u] = pc[u] /\ part'[u] = part[u]
    BY <1>0, <1>1, <2>3, StepAdvances DEF Advance
  <2>4. pc[t] = "share" => c = "shared"
    BY <1>1 DEF PcStep
  <2>5. ASSUME part'[t] = "skew", \E X \in Rels : c \in Uncounted(X) \cup Counted(X)
        PROVE  part[t] = "skew"
    <3>1. pc[t] # "share"
      BY <2>4, <2>5 DEF Uncounted, Counted
    <3> QED BY <2>5, <3>1, StepAdvances DEF Advance
  <2>6. ASSUME NEW u \in Builders, NEW X \in Rels, part'[u] = "skew"
        PROVE  /\ pc'[u] \in Uncounted(X) => hist'[X][u] = NoCounts
               /\ pc'[u] \in Counted(X) => Bounded(u, X)'
    <3>1. CASE u # t
      <4>1. hist'[X][u] = hist[X][u]
        BY <2>1, <3>1 DEF HistEffects
      <4> QED BY <2>2, <2>3, <2>6, <3>1, <4>1 DEF HistBounded
    <3>2. CASE u = t /\ part[t] = "skew"
      <4>1. CASE /\ UNCHANGED hist
                 /\ \A Y \in Rels :
                        /\ pc'[t] \in Uncounted(Y) => pc[t] \in Uncounted(Y)
                        /\ pc'[t] \in Counted(Y) => pc[t] \in Counted(Y)
        BY <2>2, <3>2, <4>1 DEF HistBounded
      <4>2. CASE /\ pc[t] = "zero" /\ pc'[t] = "zeroed"
                 /\ \A Y \in Rels : hist'[Y][t] = NoCounts
        BY <3>2, <4>2 DEF Counted
      <4>3. ASSUME NEW Y \in Rels, Count(t, Y), pc'[t] = IF Y = "R" THEN "countedR" ELSE "countedS",
                   \A Z \in Rels : \A v \in Builders : <<Z, v>> # <<Y, t>> => hist'[Z][v] = hist[Z][v]
            PROVE  /\ pc'[u] \in Uncounted(X) => hist'[X][u] = NoCounts
                   /\ pc'[u] \in Counted(X) => Bounded(u, X)'
        <5>0. pc[t] = IF Y = "R" THEN "countR" ELSE "countS"
          BY <4>3 DEF Count, Rels
        <5>1. CASE X = Y
          <6>1. pc[t] \in Uncounted(Y) /\ pc'[t] \notin Uncounted(Y)
            BY <4>3, <5>0 DEF Uncounted, Rels
          <6>2. hist[Y][t] = NoCounts
            BY <3>2, <6>1 DEF HistBounded
          <6>3. SumFunctionOnSet(hist'[Y][t], Bins) <= Cardinality(Share(skewtask[Y].num, BuildNum, t))
            BY <3>2, <4>3, <6>2, CountBounded
          <6>4. Bounded(u, X)'
            BY <1>3, <1>5, <3>2, <5>1, <6>3 DEF Bounded
          <6> QED BY <3>2, <5>1, <6>1, <6>4
        <5>2. CASE X # Y
          <6>1. hist'[X][t] = hist[X][t]
            BY <4>3, <5>2
          <6>2. /\ pc'[t] \in Uncounted(X) => pc[t] \in Uncounted(X)
                /\ pc'[t] \in Counted(X) => pc[t] \in Counted(X)
            BY <4>3, <5>0, <5>2 DEF Uncounted, Counted, Rels
          <6> QED BY <2>2, <3>2, <6>1, <6>2 DEF HistBounded
        <5> QED BY <5>1, <5>2
      <4> QED BY <2>1, <4>1, <4>2, <4>3 DEF HistEffects
    <3>3. CASE u = t /\ part[t] # "skew"
      BY <1>2, <2>5, <2>6, <3>3
    <3> QED BY <3>1, <3>2, <3>3
  <2>7. ASSUME pc'[0] = "skewtasks", NEW u \in Builders, NEW X \in Rels PROVE Bounded(u, X)'
    <3>1. t # 0 /\ pc[0] = "skewtasks"
      BY <1>0, <1>1, <1>2, <2>7
    <3>2. pc[t] \in {"skewtasks", "fetch", "fetched"}
      BY <3>1, NobodyCounts
    <3>3. UNCHANGED hist
      BY <2>1, <3>2 DEF HistEffects, Count, Rels
    <3> QED BY <2>2, <3>1, <3>3 DEF HistBounded
  <2> QED BY <1>3, <2>6, <2>7 DEF HistBounded
<1> QED BY <1>4, <1>5

-----------------------------------------------------------------------------
(* The arrays stay there.                                                  *)
LEMMA StoredThere ==
    ASSUME MemThere, NEW Y \in Rels, NEW X \in Rels
    PROVE  \A a, moves, lost : /\ X \in DOMAIN Stored(Y, a, moves, lost)
                               /\ "tmp" \in DOMAIN Stored(Y, a, moves, lost)[X]
<1>1. \A Z \in Rels : Z \in DOMAIN mem /\ "tmp" \in DOMAIN mem[Z]
  BY DEF MemThere
<1>2. \A a, v : LET new == [mem EXCEPT ![Y][a] = v]
                IN  X \in DOMAIN new /\ "tmp" \in DOMAIN new[X]
  BY <1>1
<1> QED BY <1>2 DEF Stored

(* ... whatever a build thread does.                                       *)
LEMMA MemThereStep ==
    ASSUME MemThere, NEW t \in Builders, Buildpart(t) PROVE MemThere'
<1>1. CASE UNCHANGED mem
  BY <1>1 DEF MemThere
<1>2. CASE Memset(t)
  <2>1. \A X \in Rels : X \in DOMAIN mem' /\ DOMAIN mem'[X] = DOMAIN mem[X]
    BY <1>2 DEF Memset
  <2> QED BY <2>1 DEF MemThere
<1>3. ASSUME NEW Y \in Rels, Scatter(t, Y) \/ StoreLines(t, Y) \/ StoreRests(t, Y)
      PROVE  MemThere'
  <2>1. \E a, moves, lost : mem' = Stored(Y, a, moves, lost)
    <3> HIDE DEF Stored
    <3>1. Scatter(t, Y) =>
              mem' = Stored(Y, Target(t, Y),
                            Moves(Y, Source(t, Y), Starts(t, Y), Fanout(t), SkipOf(t)), {})
      BY DEF Scatter, Scattered
    <3>2. \A lines : lines = InLines(Moves(Y, Source(t, Y), Starts(t, Y), Fanout(t), SkipOf(t)))
              /\ StoreLines(t, Y) =>
                 mem' = Stored(Y, Target(t, Y), lines, UNION {LineOf(m.to) : m \in lines})
      BY DEF StoreLines, Lined
    <3>3. \A all : all = Moves(Y, Source(t, Y), Starts(t, Y), Fanout(t), SkipOf(t))
              /\ StoreRests(t, Y) =>
                 mem' = Stored(Y, Target(t, Y), all \ InLines(all), {})
      BY DEF StoreRests, Rested
    <3> QED BY <1>3, <3>1, <3>2, <3>3
  <2>2. \A X \in Rels : X \in DOMAIN mem' /\ "tmp" \in DOMAIN mem'[X]
    BY <2>1, StoredThere
  <2> QED BY <2>2 DEF MemThere
<1>4. CASE Cluster(t)
  <2>1. \A X \in Rels : X \in DOMAIN mem'
    BY <1>4 DEF Cluster
  <2>2. ASSUME NEW X \in Rels PROVE "tmp" \in DOMAIN mem'[X]
    <3>1. \A x : "tmp" \in DOMAIN Clustered(x, X)
      <4> HIDE DEF Stored
      <4> QED BY StoredThere DEF Clustered, LinedAndRested, Scattered
    <3>2. mem'[X] = IF X \in SecondRels THEN Clustered(task[t], X) ELSE mem[X]
      BY <1>4 DEF Cluster
    <3> QED BY <3>1, <3>2 DEF MemThere
  <2> QED BY <2>1, <2>2 DEF MemThere
<1>5. Zero(t) \/ Look(t) \/ (\E X \in Rels : Count(t, X)) => UNCHANGED mem
  BY DEF Zero, Look, Count
<1>6. \/ MakeTasks(t) \/ StartSecondPass(t) \/ PopPart(t) \/ Emit(t)
      \/ ShareMax(t) \/ FetchSkew(t) \/ MakeSkewTasks(t) \/ DrainParts(t) \/ FindMax(t)
      => UNCHANGED mem
  BY DEF MakeTasks, StartSecondPass, PopPart, Emit, ShareMax, FetchSkew, MakeSkewTasks,
         DrainParts, FindMax
<1> QED BY <1>1, <1>2, <1>3, <1>4, <1>5, <1>6, BuildpartCases DEF Quiet, Partition

(* When which queue changes.                                               *)
LEMMA QueuesKept ==
    ASSUME NEW t \in Builders, Buildpart(t)
    PROVE  /\ pc[t] \notin {"tasks", "pop", "emit", "skewtasks", "drain", "fetch"} =>
                  UNCHANGED queues
           /\ t # 0 /\ pc[t] \notin {"pop", "emit"} => UNCHANGED queues
<1>1. Quiet(t) => UNCHANGED queues
  BY QuietSteps DEF QuietStep
<1>2. /\ StartSecondPass(t) \/ Cluster(t) \/ ShareMax(t) \/ FindMax(t) => UNCHANGED queues
      /\ MakeTasks(t) => pc[t] = "tasks" /\ (t # 0 => UNCHANGED queues)
      /\ PopPart(t) => pc[t] = "pop"
      /\ Emit(t) => pc[t] = "emit"
      /\ FetchSkew(t) => pc[t] = "fetch" /\ (t # 0 => UNCHANGED queues)
      /\ MakeSkewTasks(t) => pc[t] = "skewtasks" /\ (t # 0 => UNCHANGED queues)
      /\ DrainParts(t) => pc[t] = "drain" /\ (t # 0 => UNCHANGED queues)
  BY DEF StartSecondPass, Cluster, ShareMax, FindMax, MakeTasks, PopPart, Emit, FetchSkew,
         MakeSkewTasks, DrainParts, queues
<1> QED BY <1>1, <1>2, BuildpartCases

(* The queues are as the phases have them.                                 *)
LEMMA EmptiedStep ==
    ASSUME FitInv, Emptied, NEW t \in Builders, Buildpart(t) PROVE Emptied'
<1>0. /\ Plain /\ PhaseInv /\ pc \in [Builders -> BuildPC] /\ part \in [Builders -> {"first", "skew"}]
      /\ 0 \in Builders /\ build \in Builds
  BY PhjAssumption DEF FitInv, PhaseInv, Builders
<1>1. PICK c \in BuildPC : pc' = [pc EXCEPT ![t] = c] /\ PcStep(t, c)
  BY StepAdvances DEF Advance
<1>2. build' = build /\ (part'[0] = "first" => part[0] = "first")
      /\ (pc[0] # "share" \/ t # 0 => part'[0] = part[0])
  BY <1>0, StepAdvances DEF Advance
<1>3. ASSUME part'[0] = "first", pc'[0] \in Early
      PROVE  part_queue' = <<>> /\ skew_queue' = <<>> /\ join_queue' = <<>>
  <2>1. CASE t = 0
    <3>1. pc'[0] = c
      BY <1>0, <1>1, <2>1
    <3>2. pc[0] # "look"
      BY <1>0, <1>2, <1>3 DEF PhaseInv, Turns
    <3>3. pc[0] \in Early /\ pc[0] # "tasks"
      BY <1>1, <1>3, <2>1, <3>1, <3>2 DEF PcStep, Early
    <3>4. UNCHANGED queues
      BY <2>1, <3>3, QueuesKept DEF Early
    <3> QED BY <1>2, <1>3, <3>3, <3>4 DEF Emptied, queues
  <2>2. CASE t # 0
    <3>1. pc'[0] = pc[0]
      BY <1>0, <1>1, <2>2
    <3>2. pc[t] \notin SecondPhase
      <4>1. pc[0] \notin SecondPhase
        BY <1>3, <3>1 DEF Early, SecondPhase
      <4> QED BY <1>0, <4>1, AllInSecond
    <3>3. UNCHANGED queues
      BY <2>2, <3>2, QueuesKept DEF SecondPhase
    <3> QED BY <1>2, <1>3, <3>1, <3>3 DEF Emptied, queues
  <2> QED BY <2>1, <2>2
<1>4. ASSUME build'.passes = 2, pc'[0] \in {"share", "shared"}
      PROVE  part_queue' = <<>>
  <2>1. QueueEffects(t)
    BY <1>0, StepEffects
  <2>2. CASE t = 0
    <3>1. pc'[0] = c /\ pc'[t] = c
      BY <1>0, <1>1, <2>2
    <3>2. c = "share" \/ pc[0] = "share"
      BY <1>1, <1>4, <2>2, <3>1 DEF PcStep
    <3>3. pc[0] = "share" => part_queue = <<>>
      BY <1>2, <1>4 DEF FitInv, InOrder
    <3> QED BY <2>1, <2>2, <3>1, <3>2, <3>3 DEF QueueEffects
  <2>3. CASE t # 0
    <3>1. pc'[0] = pc[0]
      BY <1>0, <1>1, <2>3
    <3>2. part_queue = <<>>
      BY <1>2, <1>4, <3>1 DEF Emptied
    <3> QED BY <2>1, <2>3, <3>2 DEF QueueEffects
  <2> QED BY <2>2, <2>3
<1>5. ASSUME part'[0] = "first" \/ pc'[0] \in SecondPhase
      PROVE  skewtask' = NULL
  <2>1. part[0] = "first" \/ pc[0] \in SecondPhase
    <3>1. CASE part'[0] = "first"
      BY <1>2, <3>1
    <3>2. CASE pc'[0] \in SecondPhase /\ t = 0
      <4>1. pc'[0] = c
        BY <1>0, <1>1, <3>2
      <4> QED BY <1>1, <3>2, <4>1 DEF PcStep, SecondPhase
    <3>3. CASE pc'[0] \in SecondPhase /\ t # 0
      BY <1>0, <1>1, <3>3
    <3> QED BY <1>5, <3>1, <3>2, <3>3
  <2>2. skewtask = NULL
    BY <2>1 DEF Emptied
  <2>3. CASE skewtask' = skewtask
    BY <2>2, <2>3
  <2>4. CASE skewtask' # skewtask
    <3>1. pc[0] = "fetch"
      BY <2>4, SkewTaskKept
    <3> QED BY <1>0, <2>1, <3>1 DEF PhaseInv, Turns, SecondPhase
  <2> QED BY <2>3, <2>4
<1> QED BY <1>3, <1>4, <1>5 DEF Emptied, Early, SecondPhase

(* What a barrier that opens keeps.                                        *)
LEMMA RoomRelease ==
    ASSUME FitInv, Plain', Symmetric, RoomInv, Release PROVE RoomInv'
<1>0. /\ PhaseInv /\ Placed /\ MemThere /\ Emptied /\ HistBounded /\ 0 \in Builders /\ build \in Builds
      /\ UNCHANGED <<build, mem, queues, hist, skewtask, part>>
      /\ pc[0] \in DOMAIN AfterBarrier /\ pc' = [t \in Builders |-> AfterBarrier[pc[0]]]
      /\ \A t \in Builders : pc[t] = pc[0]
  BY PhjAssumption DEF FitInv, PhaseInv, Builders, RoomInv, Placed, Release, Open, inputs, local
<1>1. Placed'
  BY <1>0, ReleasePlaced
<1>2. MemThere'
  BY <1>0 DEF MemThere
<1> DEFINE c == AfterBarrier[pc[0]]
<1>3. \A t \in Builders : pc'[t] = c
  BY <1>0
<1>4. pc[0] \in {"ready", "zeroed", "countedR", "countedS", "linedR", "linedS", "parted", "queued",
                 "shared", "fetched", "skewed", "drained", "maxed"}
  BY <1>0, BarrierFacts
<1>5. Emptied'
  <2>1. part[0] = "first" /\ c \in Early => pc[0] \in Early
    BY <1>0, <1>4, BarrierFacts DEF Early, PhaseInv, Turns
  <2>2. build.passes = 2 => c \notin {"share", "shared"}
    BY <1>4, BarrierFacts
  <2>3. c \in SecondPhase => part[0] = "first"
    BY <1>0, <1>4, BarrierFacts DEF SecondPhase, PhaseInv, Turns
  <2> HIDE DEF c
  <2> QED BY <1>0, <1>3, <2>1, <2>2, <2>3 DEF Emptied, queues, Early, SecondPhase
<1>6. HistBounded'
  <2>1. Bins' = Bins /\ \A X : Uncounted(X)' = Uncounted(X) /\ Counted(X)' = Counted(X)
    BY <1>0 DEF Bins, Fanout2, Skip, Uncounted, Counted
  <2>2. \A t \in Builders, X \in Rels : Bounded(t, X)' <=> Bounded(t, X)
    BY <1>0, <2>1 DEF Bounded
  <2>3. ASSUME NEW X \in Rels
        PROVE  /\ c \in Uncounted(X) => pc[0] \in Uncounted(X)
               /\ c \in Counted(X) => pc[0] \in Counted(X)
    <3>1. X = "R" \/ X = "S"
      BY DEF Rels
    <3> QED BY <1>4, <3>1, BarrierFacts DEF Uncounted, Counted
  <2>4. ASSUME c = "skewtasks", NEW t \in Builders, NEW X \in Rels PROVE Bounded(t, X)
    <3>1. pc[0] = "skewed"
      BY <1>4, <2>4, BarrierFacts
    <3>2. pc[t] = "skewed" /\ part[t] = "skew"
      BY <1>0, <3>1 DEF PhaseInv, Turns
    <3>3. pc[t] \in Counted(X)
      BY <3>2 DEF Counted
    <3> QED BY <1>0, <3>2, <3>3 DEF HistBounded
  <2> HIDE DEF c
  <2>5. ASSUME NEW t \in Builders, NEW X \in Rels, part'[t] = "skew"
        PROVE  /\ pc'[t] \in Uncounted(X) => hist'[X][t] = NoCounts
               /\ pc'[t] \in Counted(X) => Bounded(t, X)'
    BY <1>0, <1>3, <2>2, <2>3, <2>5 DEF HistBounded
  <2>6. pc'[0] = "skewtasks" => \A t \in Builders, X \in Rels : Bounded(t, X)'
    BY <1>0, <1>3, <2>2, <2>4
  <2> QED BY <2>1, <2>5, <2>6 DEF HistBounded
<1> QED BY <1>1, <1>2, <1>5, <1>6 DEF RoomInv, Placed

(* What comes when the build threads are done keeps it, too.               *)
LEMMA RoomOthers ==
    ASSUME FitInv, Plain', RoomInv,
           \/ \E p \in Probers : Probejoin(p)
           \/ SpawnProbers \/ ReleaseProbe \/ Collect \/ Terminated \/ UNCHANGED vars
    PROVE  RoomInv'
<1>0. /\ Placed /\ MemThere /\ Emptied /\ HistBounded /\ 0 \in Builders /\ Plain
  BY PhjAssumption DEF FitInv, Builders, RoomInv, Placed
<1>1. Placed'
  BY <1>0, OthersPlaced
<1>2. UNCHANGED <<build, skew_queue, skewtask, pc, part, hist>>
  <2>1. UNCHANGED <<inputs, builder, skew_queue>>
    <3>1. CASE UNCHANGED vars
      BY <3>1 DEF vars, queues
    <3> QED BY <3>1, OtherSteps
  <2> QED BY <2>1 DEF inputs, builder, local
<1>3. MemThere'
  <2>1. CASE mem' = mem
    BY <1>0, <2>1 DEF MemThere
  <2>2. ASSUME NEW p \in Probers, Reorder(p) PROVE MemThere'
    <3>1. PICK a, v : mem' = [mem EXCEPT !.R[a] = v]
      BY <2>2 DEF Reorder
    <3> QED BY <1>0, <3>1 DEF MemThere, Rels
  <2>3. (\E p \in Probers : Reorder(p)) \/ mem' = mem
    BY DEF Probejoin, Wipe, PopJoin, BuildTable, ProbeTable, SpawnProbers, ReleaseProbe, Collect,
           Terminated, vars
  <2> QED BY <2>1, <2>2, <2>3
<1>4. (UNCHANGED <<part_queue, join_queue>>) \/ pc[0] = "exit"
  <2>1. CASE SpawnProbers
    BY <1>0, <2>1, SpawnFacts
  <2>2. CASE ~SpawnProbers
    <3>1. Takes
      BY <1>0, <2>2, OthersTake
    <3>2. ~Unspawned => pc[0] = "exit"
      BY <1>0 DEF FitInv, InOrder
    <3> QED BY <3>1, <3>2 DEF Takes
  <2> QED BY <2>1, <2>2
<1>5. Emptied'
  BY <1>0, <1>2, <1>4 DEF Emptied, Early, SecondPhase
<1>6. HistBounded'
  BY <1>0, <1>2 DEF HistBounded, Bounded, Bins, Fanout2, Skip, Uncounted, Counted
<1> QED BY <1>1, <1>3, <1>5, <1>6 DEF RoomInv, Placed

(* The invariant holds in the beginning.                                   *)
LEMMA RoomInit == Init => RoomInv
<1> SUFFICES ASSUME Init PROVE RoomInv
  OBVIOUS
<1>0. /\ pc = [t \in Builders |-> "memset"] /\ part = [t \in Builders |-> "first"]
      /\ part_queue = <<>> /\ skew_queue = <<>> /\ join_queue = <<>> /\ skewtask = NULL
      /\ ppc = [p \in Probers |-> "idle"] /\ 0 \in Builders
  BY PhjAssumption DEF Init, Load, LoadInto, Pool, Builders
<1>1. MemThere
  BY DEF Init, Load, LoadInto, MemThere
<1>2. Emptied
  BY <1>0 DEF Emptied
<1>3. HistBounded
  BY <1>0 DEF HistBounded
<1>4. ToSet(part_queue) = {} /\ ToSet(skew_queue) = {} /\ ToSet(join_queue) = {} /\ ToSet(Own) = {}
  BY <1>0 DEF ToSet, Own
<1>5. AllSound
  BY <1>0, <1>4 DEF AllSound
<1>6. JoinTasks = {}
  BY <1>0, <1>4 DEF JoinTasks, Joining
<1>7. Final = {} /\ Own = <<>>
  BY <1>0, <1>4, <1>6 DEF Final, Own
<1>8. Holders = {}
  BY <1>0 DEF Holders, InSkew
<1>9. DOMAIN Held = {}
  BY <1>8 DEF Held
<1>10. Separate(Own, skew_queue, Held, Final, Margin)
  BY <1>0, <1>4, <1>7, <1>9 DEF Separate, Apart, Beyond, Fitting, Spaced
<1> QED BY <1>1, <1>2, <1>3, <1>5, <1>10 DEF RoomInv

(* It is kept by every step.                                               *)
LEMMA RoomNext ==
    ASSUME Symmetric, FitInv, FitInv', RoomInv, [Next]_vars PROVE RoomInv'
<1>0. Plain'
  BY DEF FitInv
<1>1. ASSUME NEW t \in Builders, Buildpart(t) PROVE RoomInv'
  <2>1. Placed'
    BY <1>0, <1>1, PlacedStep
  <2>2. MemThere'
    BY <1>1, MemThereStep DEF RoomInv
  <2>3. Emptied'
    BY <1>1, EmptiedStep DEF RoomInv
  <2>4. HistBounded'
    BY <1>1, HistBoundedStep DEF RoomInv
  <2> QED BY <2>1, <2>2, <2>3, <2>4 DEF RoomInv, Placed
<1>2. Release => RoomInv'
  BY <1>0, RoomRelease
<1>3. (\E p \in Probers : Probejoin(p)) \/ SpawnProbers \/ ReleaseProbe \/ Collect \/ Terminated
        \/ UNCHANGED vars => RoomInv'
  BY <1>0, RoomOthers
<1> QED BY <1>1, <1>2, <1>3 DEF Next, Main

(* Rooms with nothing in common but what is clear.                         *)
LEMMA ClearDisjoint ==
    ASSUME NEW a \in PlainRooms, NEW b \in PlainRooms, NEW m \in Int, Clear(a, m, b, m)
    PROVE  (a.base .. a.base + a.num + m - 1) \cap (b.base .. b.base + b.num + m - 1) = {}
<1>1. a.base \in Int /\ a.num \in Int /\ b.base \in Int /\ b.num \in Int
  BY DEF PlainRooms
<1> QED BY <1>1 DEF Clear, EndOf

(* The join tasks are among those that are kept apart.                     *)
LEMMA FitApart ==
    ASSUME FitInv, RoomInv PROVE RoomsApart
<1>0. Plain /\ build \in Builds /\ Placed /\ Pad \in Int
  BY PhjAssumption DEF FitInv, PhaseInv, RoomInv, Placed
<1>1. Final \in SUBSET PlainTasks /\ Fitting(Final) /\ JoinTasks \subseteq Final
  BY <1>0, PlacedTypes DEF Placed, Separate, Final
<1>2. ASSUME NEW x \in JoinTasks, NEW y \in JoinTasks
      PROVE  /\ x.R = y.R \/ (x.R.base .. x.R.base + x.R.num + Pad - 1)
                                   \cap (y.R.base .. y.R.base + y.R.num + Pad - 1) = {}
             /\ x = y \/ (x.S.base .. x.S.base + x.S.num - 1)
                              \cap (y.S.base .. y.S.base + y.S.num - 1) = {}
  <2>1. /\ x.R \in PlainRooms /\ x.S \in PlainRooms /\ y.R \in PlainRooms /\ y.S \in PlainRooms
    BY <1>1, TaskNumbers
  <2>2. Fit(x, y)
    BY <1>1 DEF Fitting
  <2>3. Clear(x.S, 0, y.S, 0) =>
            (x.S.base .. x.S.base + x.S.num + 0 - 1) \cap (y.S.base .. y.S.base + y.S.num + 0 - 1) = {}
    BY <2>1, ClearDisjoint
  <2>4. x.S.base + x.S.num + 0 - 1 = x.S.base + x.S.num - 1
        /\ y.S.base + y.S.num + 0 - 1 = y.S.base + y.S.num - 1
    BY <2>1 DEF PlainRooms
  <2>5. Clear(x.R, Pad, y.R, Pad) =>
            (x.R.base .. x.R.base + x.R.num + Pad - 1) \cap (y.R.base .. y.R.base + y.R.num + Pad - 1) = {}
    BY <1>0, <2>1, ClearDisjoint
  <2> QED BY <2>2, <2>3, <2>4, <2>5 DEF Fit
<1> QED BY <1>2 DEF RoomsApart

(* The kernels of two join tasks never write to the same place, whoever    *)
(* made the tasks and when, in every build that partitions both relations  *)
(* alike: no thread overwrites an R room, or the place for its copy, that  *)
(* another one works with, and no tuple of S is in two tasks               *)
(* (phj.c:472-478, 1595-1614, 905).                                        *)
THEOREM RoomsStayApart ==
    ASSUME Symmetric PROVE Spec => []RoomsApart
<1>1. Init => FitInv /\ RoomInv
  BY FitInit, RoomInit
<1>2. FitInv /\ RoomInv /\ [Next]_vars => (FitInv /\ RoomInv)'
  BY FitNext, RoomNext
<1>3. FitInv /\ RoomInv => RoomsApart
  BY FitApart
<1> QED BY <1>1, <1>2, <1>3, PTL DEF Spec

(***************************************************************************)
(* Layer 4, to begin with: copying.                                        *)
(*                                                                         *)
(* A job is the copying of a piece of a room into a room in parts, from a  *)
(* histogram that counts each part.  It copies each tuple to a place of    *)
(* its own (WaysToCopy), and what another thread with the same job has     *)
(* copied stays there.                                                     *)
(***************************************************************************)

(* A room whose places all hold tuples, each another one.                  *)
Filled(X, room) ==
    /\ \A k \in Rows(room.num) :
           /\ room.base + k \in Cells(X) /\ room.base + k \in DOMAIN mem[X][room.arr]
           /\ At(X, room, k) \in Rows(Size[X])
    /\ \A j, k \in Rows(room.num) : At(X, room, j) = At(X, room, k) => j = k

(* Its tuples are at all its places.                                       *)
LEMMA FilledFacts ==
    ASSUME NEW X, NEW room, "regions" \notin DOMAIN room, Filled(X, room)
    PROVE  /\ Places(X, room) = Rows(room.num)
           /\ RowsAt(X, room) = {At(X, room, k) : k \in Rows(room.num)}
           /\ RowsAt(X, room) \subseteq Rows(Size[X])
<1>1. Places(X, room) = Rows(room.num)
  BY DEF Filled, Places, Spread
<1> QED BY <1>1 DEF RowsAt, Filled

(* Two piles of numbers, one of them shifted.                              *)
LEMMA Shifted ==
    ASSUME NEW S \in SUBSET Int, NEW T \in SUBSET Int, NEW b \in Int, IsFiniteSet(S),
           \A i \in Int : i \in T <=> i + b \in S
    PROVE  IsFiniteSet(T) /\ Cardinality(T) = Cardinality(S)
<1> DEFINE g == [x \in S |-> x - b]
<1>1. g \in [S -> T]
  BY SMT
<1>2. \A x, y \in S : g[x] = g[y] => x = y
  BY SMT
<1>3. \A z \in T : \E x \in S : g[x] = z
  <2>1. ASSUME NEW z \in T PROVE z + b \in S /\ g[z + b] = z
    BY SMT
  <2> QED BY <2>1
<1> HIDE DEF g
<1>4. g \in Bijection(S, T)
  BY <1>1, <1>2, <1>3 DEF Bijection, Injection, Surjection, IsInjective
<1>5. ExistsBijection(S, T)
  BY <1>4 DEF ExistsBijection
<1> QED BY <1>5, FS_Bijection

(* The radix of a key.                                                     *)
LEMMA RadixRange ==
    ASSUME NEW key \in Nat, NEW fanout \in Nat \ {0}, NEW skip \in Nat
    PROVE  Radix(key, fanout, skip) \in 0 .. fanout - 1
<1>1. 2^skip \in Nat \ {0}
  BY PowerOfTwo
<1> PICK m \in Nat \ {0} : m = 2^skip
  BY <1>1
<1>2. key \div m \in Nat
  BY DivFacts
<1> QED BY <1>2, ModFacts DEF Radix

(* The inputs, and the keys of their tuples.                               *)
Loads == r \in RInputs /\ s \in SInputs

(* Keys are natural numbers.                                               *)
LEMMA KeyFacts ==
    ASSUME Loads, NEW X \in Rels, NEW i \in Rows(Size[X])
    PROVE  KeyOf(X, i) \in Nat
<1>1. r \in [Rows(NR) -> Keys] /\ s \in [Rows(NS) -> Keys] /\ Keys \subseteq Nat
  BY PhjAssumption DEF Loads
<1>2. CASE X = "R"
  BY <1>1, <1>2 DEF KeyOf, Size
<1>3. CASE X = "S"
  BY <1>1, <1>3 DEF KeyOf, Size
<1> QED BY <1>2, <1>3 DEF Rels

-----------------------------------------------------------------------------
(* Copying: which room `from' of how many tuples n, their hashes, what is  *)
(* between two partitions, where the first begins, and which of the tuples *)
(* this copier has, from b on and before e.                                *)
IsJob(g, f) ==
    /\ Layout(g.n, f, g.pad, g.hash) /\ g.base \in Int
    /\ g.b \in 0 .. g.n /\ g.e \in 0 .. g.n /\ g.b <= g.e
    /\ Pad <= g.pad

(* Where partition p has its tuple i and those behind it, and tuple k goes *)
(* to.  If the line does not reach over the end of the copier's room, it   *)
(* is stored whole.                                                        *)
StartAt(g, p, i) == g.base + PlaceIn(g.hash, g.pad, p, i)
Dest(g, k)       == StartAt(g, g.hash[k], k)
InLine(g, k)     == Max(LineOf(Dest(g, k))) < StartAt(g, g.hash[k], g.e)

RoomIn(g, p) == [p |-> p, begin |-> StartAt(g, p, g.b), end |-> StartAt(g, p, g.e)]
MoveOf(X, g, k) == [tuple |-> At(X, g.from, k), to |-> Dest(g, k), room |-> RoomIn(g, g.hash[k])]

Hashes(X, room, f, skip) == [k \in Rows(room.num) |-> HashAt(X, room, k, f, skip)]
StartsOf(g, f)    == [p \in 0 .. f - 1 |-> StartAt(g, p, g.b)]
Piece(room, b, e) == Room(room.arr, room.base + b, e - b)

(* A job that fits to a room.                                              *)
JobFor(g, X, f, skip) ==
    /\ IsJob(g, f) /\ g.from \in PlainRooms /\ g.n = g.from.num
    /\ Filled(X, g.from) /\ g.hash = Hashes(X, g.from, f, skip)

(* The hashes of a room's tuples.                                          *)
LEMMA HashesLayout ==
    ASSUME Loads, NEW X \in Rels, NEW room, room.num \in Nat, Filled(X, room),
           NEW f \in Nat \ {0}, NEW skip \in Nat, NEW pad \in Nat
    PROVE  Layout(room.num, f, pad, Hashes(X, room, f, skip))
<1>1. ASSUME NEW k \in Rows(room.num) PROVE HashAt(X, room, k, f, skip) \in 0 .. f - 1
  <2>1. At(X, room, k) \in Rows(Size[X])
    BY DEF Filled
  <2> QED BY <2>1, KeyFacts, RadixRange DEF HashAt
<1> QED BY <1>1 DEF Layout, Hashes

(* What a piece of a room holds.                                           *)
LEMMA PieceFacts ==
    ASSUME NEW X, NEW g, NEW f, NEW skip, JobFor(g, X, f, skip)
    PROVE  /\ Piece(g.from, g.b, g.e) \in PlainRooms
           /\ Places(X, Piece(g.from, g.b, g.e)) = 0 .. (g.e - g.b) - 1
           /\ \A k \in 0 .. (g.e - g.b) - 1 :
                  /\ g.b + k \in Rows(g.n)
                  /\ At(X, Piece(g.from, g.b, g.e), k) = At(X, g.from, g.b + k)
                  /\ HashAt(X, Piece(g.from, g.b, g.e), k, f, skip) = g.hash[g.b + k]
<1> DEFINE q == Piece(g.from, g.b, g.e)
<1>1. /\ g.from \in PlainRooms /\ g.b \in 0 .. g.n /\ g.e \in 0 .. g.n /\ g.b <= g.e /\ g.n \in Nat
      /\ g.n = g.from.num /\ Filled(X, g.from)
  BY DEF JobFor, IsJob, Layout
<1>2. /\ q \in PlainRooms /\ q.arr = g.from.arr /\ q.base = g.from.base + g.b /\ q.num = g.e - g.b
      /\ "regions" \notin DOMAIN q /\ q.base \in Int /\ g.from.base \in Int
  <2>1. g.from.arr \in {"org", "tmp", "ext"} /\ g.from.base \in Int
    BY <1>1, RoomFacts
  <2>2. g.from.base + g.b \in Int /\ g.e - g.b \in Int
    BY <1>1, <2>1
  <2> PICK a \in {"org", "tmp", "ext"} : a = g.from.arr
    BY <2>1
  <2> PICK base \in Int : base = g.from.base + g.b
    BY <2>2
  <2> PICK n \in Int : n = g.e - g.b
    BY <2>2
  <2>3. q = Room(a, base, n)
    BY DEF Piece
  <2> HIDE DEF q
  <2>4. q \in PlainRooms /\ q.arr = a /\ q.base = base /\ q.num = n
    BY <2>3 DEF Room, PlainRooms
  <2>5. "regions" \notin DOMAIN q
    BY <2>4, RoomFacts
  <2> QED BY <2>1, <2>4, <2>5
<1> HIDE DEF q
<1>3. ASSUME NEW k \in 0 .. (g.e - g.b) - 1
      PROVE  /\ g.b + k \in Rows(g.n)
             /\ At(X, q, k) = At(X, g.from, g.b + k)
             /\ At(X, q, k) \in Rows(Size[X])
             /\ HashAt(X, q, k, f, skip) = g.hash[g.b + k]
  <2>1. g.b + k \in Rows(g.n)
    BY <1>1 DEF Rows
  <2>2. q.base + k = g.from.base + (g.b + k)
    BY <1>1, <1>2
  <2>3. At(X, q, k) = At(X, g.from, g.b + k)
    BY <1>2, <2>2 DEF At
  <2>4. At(X, g.from, g.b + k) \in Rows(Size[X])
    BY <1>1, <2>1 DEF Filled
  <2>5. g.hash[g.b + k] = HashAt(X, g.from, g.b + k, f, skip)
    BY <1>1, <2>1 DEF JobFor, Hashes
  <2> QED BY <2>1, <2>3, <2>4, <2>5 DEF HashAt
<1>4. Places(X, q) = 0 .. (g.e - g.b) - 1
  <2>1. Spread(X, q) = 0 .. (g.e - g.b) - 1
    BY <1>2 DEF Spread, Rows
  <2> QED BY <1>3, <2>1 DEF Places
<1> QED BY <1>2, <1>3, <1>4 DEF q

(* The tuples of one partition that are counted one by one.                *)
LEMMA CountUp ==
    ASSUME NEW g, NEW f, IsJob(g, f), NEW p \in 0 .. f - 1,
           NEW j \in 0 .. g.n, g.b <= j,
           NEW T, T = {k \in 0 .. (j - g.b) - 1 : g.hash[g.b + k] = p}
    PROVE  /\ Cardinality(T) \in Nat
           /\ StartAt(g, p, g.b) + Cardinality(T) = StartAt(g, p, j)
<1>0. /\ g.n \in Nat /\ p \in Nat /\ g.b \in 0 .. g.n /\ g.base \in Int
      /\ g.hash \in [Rows(g.n) -> Nat] /\ Layout(g.n, f, g.pad, g.hash)
  <2>1. Layout(g.n, f, g.pad, g.hash)
    BY DEF IsJob
  <2> QED BY <2>1, LayoutFacts DEF IsJob
<1> DEFINE S == Slice(g.hash, p, g.b, j)
<1>1. IsFiniteSet(S) /\ Below(g.hash, p, j) = Below(g.hash, p, g.b) + Cardinality(S)
  BY <1>0, BelowCount
<1>2. S \in SUBSET Int /\ T \in SUBSET Int
  BY <1>0 DEF Slice
<1>3. \A i \in Int : i \in T <=> i + g.b \in S
  BY <1>0 DEF Slice
<1> HIDE DEF S
<1>4. Cardinality(T) = Cardinality(S) /\ Cardinality(S) \in Nat
  <2> PICK b \in Int : b = g.b
    BY <1>0
  <2>1. \A i \in Int : i \in T <=> i + b \in S
    BY <1>3
  <2>2. Cardinality(T) = Cardinality(S)
    BY <1>1, <1>2, <2>1, Shifted
  <2> QED BY <1>1, <2>2, FS_CardinalityType
<1>5. Below(g.hash, p, j) \in Int /\ Below(g.hash, p, g.b) \in Int /\ p * g.pad \in Int
  <2>1. Below(g.hash, p, j) \in 0 .. g.n /\ Below(g.hash, p, g.b) \in 0 .. g.n
    <3> PICK n \in Nat : n = g.n
      BY <1>0
    <3> PICK h \in [Rows(n) -> Nat] : h = g.hash
      BY <1>0
    <3>1. j \in Int /\ g.b \in Int
      BY <1>0
    <3> QED BY <1>0, <3>1, BelowType
  <2>2. p * g.pad \in Int
    BY <1>0 DEF Layout
  <2> QED BY <1>0, <2>1, <2>2
<1> QED BY <1>0, <1>1, <1>4, <1>5 DEF StartAt, PlaceIn

(* Copying takes each tuple to its place.                                  *)
LEMMA MovesAre ==
    ASSUME NEW X, NEW g, NEW f, NEW skip, JobFor(g, X, f, skip),
           NEW start, start = [p \in 0 .. f - 1 |-> StartAt(g, p, g.b)]
    PROVE  Moves(X, Piece(g.from, g.b, g.e), start, f, skip) =
               {MoveOf(X, g, k) : k \in g.b .. g.e - 1}
<1> DEFINE q == Piece(g.from, g.b, g.e)
           P == 0 .. (g.e - g.b) - 1
           h(k) == HashAt(X, q, k, f, skip)
           nth(k) == Cardinality({j \in Places(X, q) : j < k /\ h(j) = h(k)})
           room(p) == [p |-> p, begin |-> start[p], end |-> start[p] + CountIn(X, q, f, skip, p)]
           moves(v) == {[tuple |-> At(X, q, k), to |-> v.begin + nth(k), room |-> v] :
                            k \in {i \in Places(X, q) : h(i) = v.p}}
<1>0. /\ IsJob(g, f) /\ g.n \in Nat /\ g.b \in 0 .. g.n /\ g.e \in 0 .. g.n /\ g.b <= g.e
      /\ f \in Nat \ {0}
      /\ \A k \in Rows(g.n) : g.hash[k] \in 0 .. f - 1
  BY DEF JobFor, IsJob, Layout
<1>1. /\ Places(X, q) = P
      /\ \A k \in P : /\ g.b + k \in Rows(g.n)
                      /\ At(X, q, k) = At(X, g.from, g.b + k)
                      /\ h(k) = g.hash[g.b + k]
  BY PieceFacts
<1> HIDE DEF q, h
<1>2. ASSUME NEW p \in 0 .. f - 1 PROVE room(p) = RoomIn(g, p)
  <2>1. CountIn(X, q, f, skip, p) = Cardinality({k \in P : g.hash[g.b + k] = p})
    <3>1. {k \in Places(X, q) : h(k) = p} = {k \in P : g.hash[g.b + k] = p}
      BY <1>1
    <3> QED BY <3>1 DEF CountIn, h
  <2>2. StartAt(g, p, g.b) + Cardinality({k \in P : g.hash[g.b + k] = p}) = StartAt(g, p, g.e)
    BY <1>0, CountUp
  <2>3. start[p] = StartAt(g, p, g.b)
    OBVIOUS
  <2> QED BY <2>1, <2>2, <2>3 DEF RoomIn
<1>3. ASSUME NEW k \in P
      PROVE  /\ g.hash[g.b + k] \in 0 .. f - 1
             /\ RoomIn(g, g.hash[g.b + k]).begin + nth(k) = Dest(g, g.b + k)
  <2> DEFINE p == g.hash[g.b + k]
             T == {j \in 0 .. ((g.b + k) - g.b) - 1 : g.hash[g.b + j] = p}
  <2>1. p \in 0 .. f - 1 /\ g.b + k \in Rows(g.n)
    BY <1>0, <1>1
  <2>2. g.b + k \in 0 .. g.n /\ g.b <= g.b + k
    BY <1>0
  <2>3. StartAt(g, p, g.b) + Cardinality(T) = StartAt(g, p, g.b + k)
    <3> HIDE DEF p
    <3> QED BY <1>0, <2>1, <2>2, CountUp
  <2>4. {j \in Places(X, q) : j < k /\ h(j) = h(k)} = T
    <3>1. \A j : j \in P /\ j < k <=> j \in 0 .. ((g.b + k) - g.b) - 1
      BY <1>0
    <3>2. \A j \in P : h(j) = g.hash[g.b + j]
      BY <1>1
    <3>3. h(k) = p
      BY <1>1
    <3> HIDE DEF p, P
    <3> QED BY <1>1, <3>1, <3>2, <3>3
  <2>5. nth(k) = Cardinality(T)
    BY <2>4
  <2> HIDE DEF T, nth
  <2> QED BY <2>1, <2>3, <2>5 DEF RoomIn, Dest
<1> HIDE DEF nth
<1>4. Moves(X, q, start, f, skip) = UNION {moves(v) : v \in {room(p) : p \in 0 .. f - 1}}
  BY DEF Moves, nth, h
<1>5. {room(p) : p \in 0 .. f - 1} = {RoomIn(g, p) : p \in 0 .. f - 1}
  BY <1>2
<1> HIDE DEF room, P
<1>6. ASSUME NEW m \in Moves(X, q, start, f, skip) PROVE \E k \in g.b .. g.e - 1 : m = MoveOf(X, g, k)
  <2>1. PICK p \in 0 .. f - 1 : m \in moves(RoomIn(g, p))
    BY <1>4, <1>5
  <2>2. PICK k \in P : /\ h(k) = p
                       /\ m = [tuple |-> At(X, q, k), to |-> RoomIn(g, p).begin + nth(k),
                               room |-> RoomIn(g, p)]
    BY <1>1, <2>1 DEF RoomIn
  <2>3. g.hash[g.b + k] = p
    BY <1>1, <2>2
  <2>4. m = MoveOf(X, g, g.b + k)
    BY <1>1, <1>3, <2>2, <2>3 DEF MoveOf
  <2>5. g.b + k \in g.b .. g.e - 1
    BY <1>0 DEF P
  <2> QED BY <2>4, <2>5
<1>7. ASSUME NEW i \in g.b .. g.e - 1 PROVE MoveOf(X, g, i) \in Moves(X, q, start, f, skip)
  <2> DEFINE k == i - g.b
             p == g.hash[i]
  <2>1. k \in P /\ g.b + k = i
    BY <1>0 DEF P
  <2>2. p \in 0 .. f - 1 /\ h(k) = p /\ RoomIn(g, p).p = p
    BY <1>1, <1>3, <2>1 DEF RoomIn
  <2>3. MoveOf(X, g, i) = [tuple |-> At(X, q, k), to |-> RoomIn(g, p).begin + nth(k),
                           room |-> RoomIn(g, p)]
    BY <1>1, <1>3, <2>1 DEF MoveOf
  <2> HIDE DEF k, p
  <2>4. MoveOf(X, g, i) \in moves(RoomIn(g, p))
    BY <1>1, <2>1, <2>2, <2>3
  <2> HIDE DEF moves
  <2>5. RoomIn(g, p) \in {RoomIn(g, o) : o \in 0 .. f - 1}
    BY <2>2
  <2> QED BY <1>4, <1>5, <2>4, <2>5
<1> HIDE DEF moves
<1> QED BY <1>6, <1>7 DEF q

-----------------------------------------------------------------------------
(* An array after some moves, and some cells in which nothing is left.     *)
After(old, moves, lost) ==
    [c \in {m.to : m \in moves} \cup lost \cup DOMAIN old |->
        IF c \in {m.to : m \in moves} \cup lost
        THEN IF c \in {m.to : m \in moves} THEN (CHOOSE m \in moves : m.to = c).tuple ELSE Garbage
        ELSE old[c]]

(* Each tuple is where it was moved to, and other cells are as they were.  *)
LEMMA AfterFacts ==
    ASSUME NEW old, NEW moves, NEW lost,
           \A m, k \in moves : m.to = k.to => m.tuple = k.tuple
    PROVE  /\ \A m \in moves : /\ m.to \in DOMAIN After(old, moves, lost)
                               /\ After(old, moves, lost)[m.to] = m.tuple
           /\ \A c \in DOMAIN old :
                  /\ c \in DOMAIN After(old, moves, lost)
                  /\ (\A m \in moves : m.to # c) /\ c \notin lost =>
                         After(old, moves, lost)[c] = old[c]
<1> PICK to : to = {m.to : m \in moves}
  OBVIOUS
<1> PICK out : out = After(old, moves, lost)
  OBVIOUS
<1>1. out = [c \in to \cup lost \cup DOMAIN old |->
                IF c \in to \cup lost
                THEN IF c \in to THEN (CHOOSE m \in moves : m.to = c).tuple ELSE Garbage
                ELSE old[c]]
  BY DEF After
<1>2. ASSUME NEW m \in moves PROVE m.to \in DOMAIN out /\ out[m.to] = m.tuple
  <2> PICK c : c = m.to
    OBVIOUS
  <2>1. (CHOOSE k \in moves : k.to = c) \in moves /\ (CHOOSE k \in moves : k.to = c).to = c
    OBVIOUS
  <2>2. c \in to
    OBVIOUS
  <2>3. c \in DOMAIN out /\ out[c] = (CHOOSE k \in moves : k.to = c).tuple
    BY <1>1, <2>2
  <2> QED BY <2>1, <2>3
<1>3. \A c \in DOMAIN old : c \in DOMAIN out /\ ((\A m \in moves : m.to # c) /\ c \notin lost => out[c] = old[c])
  BY <1>1
<1> QED BY <1>2, <1>3

(* The other arrays are as they were.                                      *)
LEMMA StoredFacts ==
    ASSUME NEW X \in DOMAIN mem, NEW target \in DOMAIN mem[X], NEW moves, NEW lost,
           NEW out, out = Stored(X, target, moves, lost)
    PROVE  /\ DOMAIN out = DOMAIN mem /\ DOMAIN out[X] = DOMAIN mem[X]
           /\ \A Y : Y \in DOMAIN mem /\ Y # X => out[Y] = mem[Y]
           /\ \A a : a \in DOMAIN mem[X] /\ a # target => out[X][a] = mem[X][a]
           /\ out[X][target] = After(mem[X][target], moves, lost)
<1>1. out = [mem EXCEPT ![X][target] = After(mem[X][target], moves, lost)]
  BY DEF Stored, After
<1> QED BY <1>1
-----------------------------------------------------------------------------
(* A cell is in its line, and all cells of a line have the same line.      *)
LEMMA LineFacts ==
    ASSUME NEW c \in Int
    PROVE  /\ c \in LineOf(c) /\ Max(LineOf(c)) \in Int /\ c <= Max(LineOf(c))
           /\ \A d \in LineOf(c) : /\ d \in Int /\ c - Pad < d /\ d <= Max(LineOf(c))
                                   /\ Max(LineOf(d)) = Max(LineOf(c))
<1>1. Pad \in Nat \ {0}
  BY PhjAssumption
<1>2. c % Pad \in 0 .. Pad - 1 /\ c = Pad * (c \div Pad) + (c % Pad) /\ c \div Pad \in Int
  BY <1>1, ModFacts
<1> PICK q \in Int : q = c \div Pad
  BY <1>2
<1> PICK a \in Int : a = c - (c % Pad)
  BY <1>1, <1>2
<1>3. a = Pad * q /\ a <= c /\ c <= a + Pad - 1 /\ LineOf(c) = a .. a + Pad - 1
  BY <1>1, <1>2 DEF LineOf
<1>4. IsFiniteSet(LineOf(c)) /\ LineOf(c) \subseteq Int /\ LineOf(c) # {}
  <2>1. a \in Int /\ a + Pad - 1 \in Int
    BY <1>1
  <2> QED BY <1>3, <2>1, FS_Interval
<1>5. Max(LineOf(c)) \in LineOf(c) /\ \A x \in LineOf(c) : x <= Max(LineOf(c))
  BY <1>4, MaxFacts
<1>6. ASSUME NEW d \in LineOf(c) PROVE LineOf(d) = LineOf(c)
  <2>1. d - a \in 0 .. Pad - 1 /\ d \in Int
    BY <1>1, <1>3
  <2>2. (Pad * q + (d - a)) % Pad = d - a
    BY <1>1, <2>1, ModUnique
  <2>3. d % Pad = d - a
    BY <1>3, <2>1, <2>2
  <2>4. d - (d % Pad) = a
    BY <1>1, <2>1, <2>3
  <2> QED BY <1>3, <2>4 DEF LineOf
<1> QED BY <1>1, <1>3, <1>4, <1>5, <1>6

(* Where the partitions of a job begin, and the tuples in them go.         *)
LEMMA StartFacts ==
    ASSUME NEW g, NEW f, IsJob(g, f)
    PROVE  /\ g.n \in Nat /\ g.base \in Int /\ f \in Nat \ {0} /\ g.pad \in Nat
           /\ Pad \in Nat \ {0} /\ Pad <= g.pad /\ (f - 1) * g.pad \in Nat
           /\ \A p \in 0 .. f - 1 : \A i \in 0 .. g.n :
                  /\ StartAt(g, p, i) \in Int /\ g.base <= StartAt(g, p, i)
                  /\ StartAt(g, p, i) <= g.base + g.n + (f - 1) * g.pad
                  /\ \A j \in 0 .. g.n : i <= j => StartAt(g, p, i) <= StartAt(g, p, j)
                  /\ \A o \in 0 .. f - 1 : \A j \in 0 .. g.n :
                         p < o => StartAt(g, p, i) + g.pad <= StartAt(g, o, j)
           /\ \A k \in Rows(g.n) :
                  /\ k \in 0 .. g.n /\ k + 1 \in 0 .. g.n
                  /\ g.hash[k] \in 0 .. f - 1 /\ Dest(g, k) \in Int
                  /\ Dest(g, k) + 1 = StartAt(g, g.hash[k], k + 1)
                  /\ Dest(g, k) = StartAt(g, g.hash[k], k)
                  /\ \A j \in Rows(g.n) : Dest(g, k) = Dest(g, j) => k = j
<1>1. Layout(g.n, f, g.pad, g.hash) /\ g.base \in Int /\ Pad \in Nat \ {0} /\ Pad <= g.pad
  BY PhjAssumption DEF IsJob
<1> PICK n, h, pad, base : n = g.n /\ h = g.hash /\ pad = g.pad /\ base = g.base
  OBVIOUS
<1>2. Layout(n, f, pad, h) /\ base \in Int
  BY <1>1
<1>3. /\ n \in Nat /\ f \in Nat \ {0} /\ pad \in Nat
      /\ \A k \in Rows(n) : h[k] \in 0 .. f - 1 /\ k \in 0 .. n /\ k + 1 \in 0 .. n
  BY <1>2, LayoutFacts
<1>4. \A p \in 0 .. f - 1 : \A i \in 0 .. n :
          /\ PlaceIn(h, pad, p, i) \in Nat /\ (f - 1) * pad \in Nat
          /\ PlaceIn(h, pad, p, i) <= n + (f - 1) * pad
  BY <1>2, PlaceInType
<1>5. \A p \in 0 .. f - 1 : \A i, j \in 0 .. n : i <= j => PlaceIn(h, pad, p, i) <= PlaceIn(h, pad, p, j)
  BY <1>2, PlaceInMono
<1>6. \A p, o \in 0 .. f - 1 : \A i, j \in 0 .. n : p < o => PlaceIn(h, pad, p, i) + pad <= PlaceIn(h, pad, o, j)
  BY <1>2, PlaceInGap
<1>7. \A k \in Rows(n) : PlaceIn(h, pad, h[k], k + 1) = PlaceIn(h, pad, h[k], k) + 1
  BY <1>2, <1>3, PlaceInStep
<1>8. \A k, j \in Rows(n) : PlaceIn(h, pad, h[k], k) = PlaceIn(h, pad, h[j], j) => k = j
  BY <1>2, PlaceInOwn
<1>9. \A p, i : StartAt(g, p, i) = base + PlaceIn(h, pad, p, i)
  BY DEF StartAt
<1>10. \A k : Dest(g, k) = base + PlaceIn(h, pad, h[k], k)
  BY <1>9 DEF Dest
<1>11. (f - 1) * pad \in Nat
  BY <1>3
<1> HIDE DEF StartAt
<1>12. ASSUME NEW p \in 0 .. f - 1, NEW i \in 0 .. n
       PROVE  /\ StartAt(g, p, i) \in Int /\ base <= StartAt(g, p, i)
              /\ StartAt(g, p, i) <= base + n + (f - 1) * pad
              /\ \A j \in 0 .. n : i <= j => StartAt(g, p, i) <= StartAt(g, p, j)
              /\ \A o \in 0 .. f - 1 : \A j \in 0 .. n :
                         p < o => StartAt(g, p, i) + pad <= StartAt(g, o, j)
  <2>1. /\ PlaceIn(h, pad, p, i) \in Nat /\ PlaceIn(h, pad, p, i) <= n + (f - 1) * pad
    BY <1>4
  <2>2. StartAt(g, p, i) \in Int /\ base <= StartAt(g, p, i) /\ StartAt(g, p, i) <= base + n + (f - 1) * pad
    BY <1>2, <1>3, <1>9, <1>11, <2>1
  <2>3. ASSUME NEW j \in 0 .. n, i <= j PROVE StartAt(g, p, i) <= StartAt(g, p, j)
    BY <1>2, <1>4, <1>5, <1>9, <2>3
  <2>4. ASSUME NEW o \in 0 .. f - 1, NEW j \in 0 .. n, p < o
        PROVE  StartAt(g, p, i) + pad <= StartAt(g, o, j)
    BY <1>2, <1>3, <1>4, <1>6, <1>9, <2>4
  <2> QED BY <2>2, <2>3, <2>4
<1>13. ASSUME NEW k \in Rows(n)
       PROVE  /\ Dest(g, k) \in Int /\ Dest(g, k) + 1 = StartAt(g, h[k], k + 1)
              /\ Dest(g, k) = StartAt(g, h[k], k)
              /\ \A j \in Rows(n) : Dest(g, k) = Dest(g, j) => k = j
  <2>1. PlaceIn(h, pad, h[k], k) \in Nat /\ PlaceIn(h, pad, h[k], k + 1) = PlaceIn(h, pad, h[k], k) + 1
    BY <1>3, <1>4, <1>7
  <2>2. Dest(g, k) \in Int /\ Dest(g, k) + 1 = StartAt(g, h[k], k + 1) /\ Dest(g, k) = StartAt(g, h[k], k)
    BY <1>2, <1>9, <1>10, <2>1
  <2>3. ASSUME NEW j \in Rows(n), Dest(g, k) = Dest(g, j) PROVE k = j
    <3>1. PlaceIn(h, pad, h[j], j) \in Nat
      BY <1>3, <1>4
    <3> QED BY <1>2, <1>8, <1>10, <2>1, <2>3, <3>1
  <2> QED BY <2>2, <2>3
<1> QED BY <1>1, <1>3, <1>11, <1>12, <1>13

(* A line that is stored whole reaches less than a line in front of the    *)
(* copier's room, and in the room it has nothing but the copier's tuples.  *)
LEMMA LineInRoom ==
    ASSUME NEW g, NEW f, IsJob(g, f), NEW k \in g.b .. g.e - 1, InLine(g, k),
           NEW p, p = g.hash[k], NEW c \in LineOf(Dest(g, k))
    PROVE  /\ c \in Int /\ k \in Rows(g.n) /\ p \in 0 .. f - 1
           /\ StartAt(g, p, g.b) - Pad < c /\ c < StartAt(g, p, g.e)
           /\ Max(LineOf(c)) = Max(LineOf(Dest(g, k)))
           /\ StartAt(g, p, g.b) <= c =>
                  \E i \in g.b .. g.e - 1 : Dest(g, i) = c /\ InLine(g, i)
<1>1. /\ g.b \in 0 .. g.n /\ g.e \in 0 .. g.n /\ g.b <= g.e /\ g.n \in Nat
      /\ Layout(g.n, f, g.pad, g.hash) /\ g.base \in Int
  BY StartFacts DEF IsJob
<1>2. k \in Rows(g.n) /\ k \in 0 .. g.n /\ g.b <= k
  BY <1>1 DEF Rows
<1>3. /\ p \in 0 .. f - 1 /\ Dest(g, k) \in Int /\ Dest(g, k) = StartAt(g, p, k)
      /\ StartAt(g, p, g.b) <= StartAt(g, p, k)
      /\ StartAt(g, p, g.b) \in Int /\ StartAt(g, p, g.e) \in Int /\ Pad \in Nat
  BY <1>1, <1>2, StartFacts
<1>4. /\ c \in Int /\ Dest(g, k) - Pad < c /\ c <= Max(LineOf(Dest(g, k)))
      /\ Max(LineOf(c)) = Max(LineOf(Dest(g, k))) /\ Max(LineOf(Dest(g, k))) \in Int
  BY <1>3, LineFacts
<1>5. Max(LineOf(Dest(g, k))) < StartAt(g, p, g.e)
  BY DEF InLine
<1>6. StartAt(g, p, g.b) - Pad < c /\ c < StartAt(g, p, g.e)
  BY <1>3, <1>4, <1>5
<1>7. ASSUME StartAt(g, p, g.b) <= c
      PROVE  \E i \in g.b .. g.e - 1 : Dest(g, i) = c /\ InLine(g, i)
  <2> PICK n, h, pad, base, b, e : /\ n = g.n /\ h = g.hash /\ pad = g.pad /\ base = g.base
                                   /\ b = g.b /\ e = g.e
    OBVIOUS
  <2>1. PlaceIn(h, pad, p, b) <= c - base /\ c - base < PlaceIn(h, pad, p, e)
    <3>1. base + PlaceIn(h, pad, p, b) <= c /\ c < base + PlaceIn(h, pad, p, e)
      BY <1>6, <1>7 DEF StartAt
    <3>2. PlaceIn(h, pad, p, b) \in Nat /\ PlaceIn(h, pad, p, e) \in Nat
      BY <1>1, <1>3, PlaceInType
    <3> QED BY <1>1, <1>4, <3>1, <3>2
  <2>2. c - base \in Int /\ Layout(n, f, pad, h) /\ b \in 0 .. n /\ e \in 0 .. n
    BY <1>1, <1>4
  <2>3. PICK i \in Rows(n) : b <= i /\ i < e /\ h[i] = p /\ PlaceIn(h, pad, p, i) = c - base
    BY <1>3, <2>1, <2>2, PlaceInOnto
  <2>4. Dest(g, i) = c
    BY <1>1, <1>4, <2>3 DEF Dest, StartAt
  <2>5. InLine(g, i)
    BY <1>4, <1>5, <2>3, <2>4 DEF InLine
  <2>6. i \in g.b .. g.e - 1
    BY <1>1, <2>3 DEF Rows
  <2> QED BY <2>4, <2>5, <2>6
<1> QED BY <1>2, <1>3, <1>4, <1>6, <1>7
-----------------------------------------------------------------------------
(* Storing the tuples K of a job in array a, and whole lines for those of  *)
(* L, which are none or all that are stored this way.                      *)
Storing(X, g, a, K, L) ==
    Stored(X, a, {MoveOf(X, g, k) : k \in K}, UNION {LineOf(Dest(g, k)) : k \in L})
Span(g)  == g.b .. g.e - 1
Lines(g) == {k \in Span(g) : InLine(g, k)}

(* A tuple of another copier that is stored with a whole line.             *)
Foreign(g, k) ==
    \E i, j \in 0 .. g.n : /\ i <= k /\ k < j /\ (j <= g.b \/ g.e <= i)
                           /\ Max(LineOf(Dest(g, k))) < StartAt(g, g.hash[k], j)

(* A whole line does not hit the tuples that others have stored so.        *)
LEMMA ForeignSafe ==
    ASSUME NEW g, NEW f, IsJob(g, f), NEW k \in g.b .. g.e - 1, InLine(g, k),
           NEW m \in Rows(g.n), Foreign(g, m)
    PROVE  Dest(g, m) \notin LineOf(Dest(g, k))
<1> SUFFICES ASSUME Dest(g, m) \in LineOf(Dest(g, k)) PROVE FALSE
  OBVIOUS
<1> PICK p : p = g.hash[k]
  OBVIOUS
<1> PICK o : o = g.hash[m]
  OBVIOUS
<1>1. /\ k \in Rows(g.n) /\ p \in 0 .. f - 1
      /\ StartAt(g, p, g.b) - Pad < Dest(g, m) /\ Dest(g, m) < StartAt(g, p, g.e)
      /\ Max(LineOf(Dest(g, m))) = Max(LineOf(Dest(g, k)))
  BY LineInRoom
<1>2. PICK i, j \in 0 .. g.n : /\ i <= m /\ m < j /\ (j <= g.b \/ g.e <= i)
                               /\ Max(LineOf(Dest(g, m))) < StartAt(g, o, j)
  BY DEF Foreign
<1>3. g.b \in 0 .. g.n /\ g.e \in 0 .. g.n /\ g.b <= g.e /\ g.n \in Nat /\ Pad \in Nat /\ g.pad \in Nat
      /\ Pad <= g.pad
  BY StartFacts DEF IsJob
<1>4. /\ o \in 0 .. f - 1 /\ Dest(g, m) \in Int /\ m \in 0 .. g.n /\ m + 1 \in 0 .. g.n
      /\ Dest(g, m) = StartAt(g, o, m) /\ Dest(g, m) + 1 = StartAt(g, o, m + 1)
      /\ Dest(g, k) \in Int /\ Dest(g, k) = StartAt(g, p, k) /\ k \in 0 .. g.n
  BY <1>1, StartFacts
<1>5. \A x \in 0 .. f - 1 : \A y \in 0 .. g.n :
          /\ StartAt(g, x, y) \in Int
          /\ \A z \in 0 .. g.n : y <= z => StartAt(g, x, y) <= StartAt(g, x, z)
          /\ \A v \in 0 .. f - 1 : \A z \in 0 .. g.n :
                         x < v => StartAt(g, x, y) + g.pad <= StartAt(g, v, z)
  BY StartFacts
<1>6. /\ Max(LineOf(Dest(g, k))) \in Int /\ Dest(g, k) <= Max(LineOf(Dest(g, k)))
      /\ Dest(g, m) <= Max(LineOf(Dest(g, m)))
  BY <1>4, LineFacts
<1>7. Max(LineOf(Dest(g, k))) < StartAt(g, p, g.e)
  BY DEF InLine
<1>8. o \in Int /\ p \in Int /\ f \in Nat
  BY <1>1, <1>4, StartFacts
<1>9. o = p
  <2>1. CASE o < p
    <3>1. StartAt(g, o, m + 1) + g.pad <= StartAt(g, p, g.b)
      BY <1>1, <1>3, <1>4, <1>5, <2>1
    <3>2. StartAt(g, p, g.b) \in Int
      BY <1>1, <1>3, <1>5
    <3> QED BY <1>1, <1>3, <1>4, <3>1, <3>2
  <2>2. CASE p < o
    <3>1. StartAt(g, p, g.e) + g.pad <= StartAt(g, o, m)
      BY <1>1, <1>3, <1>4, <1>5, <2>2
    <3>2. StartAt(g, p, g.e) \in Int
      BY <1>1, <1>3, <1>5
    <3> QED BY <1>1, <1>3, <1>4, <3>1, <3>2
  <2> QED BY <1>8, <2>1, <2>2
<1>10. CASE j <= g.b
  <2>1. StartAt(g, p, j) <= StartAt(g, p, g.b) /\ StartAt(g, p, g.b) <= StartAt(g, p, k)
        /\ StartAt(g, p, j) \in Int /\ StartAt(g, p, g.b) \in Int
    <3>1. g.b <= k
      BY <1>3
    <3> QED BY <1>1, <1>3, <1>4, <1>5, <1>10, <3>1
  <2> QED BY <1>1, <1>2, <1>4, <1>6, <1>9, <2>1
<1>11. CASE g.e <= i
  <2>1. StartAt(g, p, g.e) <= StartAt(g, p, m) /\ StartAt(g, p, g.e) \in Int
    <3>1. g.e <= m
      BY <1>2, <1>3, <1>4, <1>11
    <3> QED BY <1>1, <1>3, <1>4, <1>5, <3>1
  <2> QED BY <1>1, <1>4, <1>9, <2>1
<1> QED BY <1>2, <1>10, <1>11

(* What is in the arrays when the tuples K of a job are stored, and the    *)
(* lines of L.                                                             *)
Copied(X, g, f, a, K, L, out) ==
    /\ DOMAIN out = DOMAIN mem /\ DOMAIN out[X] = DOMAIN mem[X]
    /\ \A Y : Y \in DOMAIN mem /\ Y # X => out[Y] = mem[Y]
    /\ \A b : b \in DOMAIN mem[X] /\ b # a => out[X][b] = mem[X][b]
    /\ \A k \in K : /\ Dest(g, k) \in DOMAIN out[X][a]
                    /\ out[X][a][Dest(g, k)] = At(X, g.from, k)
    /\ \A c \in DOMAIN mem[X][a] :
           /\ c \in DOMAIN out[X][a]
           /\ c \in Int /\ (c <= g.base - Pad \/ c >= g.base + g.n + f * g.pad) =>
                  out[X][a][c] = mem[X][a][c]
    /\ \A k \in Rows(g.n) \ K :
           Dest(g, k) \in DOMAIN mem[X][a] /\ (L = {} \/ Foreign(g, k)) =>
                  out[X][a][Dest(g, k)] = mem[X][a][Dest(g, k)]

(* What is stored, and what is not touched.                                *)
LEMMA CopyFacts ==
    ASSUME NEW g, NEW f, IsJob(g, f), NEW X \in DOMAIN mem, NEW a \in DOMAIN mem[X],
           NEW K \in SUBSET Span(g), NEW L \in SUBSET K, L = {} \/ L = Lines(g),
           NEW out, out = Storing(X, g, a, K, L)
    PROVE  Copied(X, g, f, a, K, L, out)
<1> DEFINE moves == {MoveOf(X, g, k) : k \in K}
           lost == UNION {LineOf(Dest(g, k)) : k \in L}
<1>1. /\ DOMAIN out = DOMAIN mem /\ DOMAIN out[X] = DOMAIN mem[X]
      /\ \A Y : Y \in DOMAIN mem /\ Y # X => out[Y] = mem[Y]
      /\ \A b : b \in DOMAIN mem[X] /\ b # a => out[X][b] = mem[X][b]
      /\ out[X][a] = After(mem[X][a], moves, lost)
  <2>1. out = Stored(X, a, moves, lost)
    BY DEF Storing
  <2> HIDE DEF moves, lost
  <2> QED BY <2>1, StoredFacts
<1>2. K \subseteq Rows(g.n) /\ L \subseteq g.b .. g.e - 1 /\ \A k \in L : InLine(g, k)
  BY DEF IsJob, Rows, Lines, Layout, Span
<1>3. \A k, j \in Rows(g.n) : Dest(g, k) = Dest(g, j) => k = j
  BY StartFacts
<1>4. \A m \in moves : \E k \in K : m = MoveOf(X, g, k) /\ m.to = Dest(g, k) /\ m.tuple = At(X, g.from, k)
  BY DEF MoveOf
<1>5. ASSUME NEW k \in K PROVE \E m \in moves : m.to = Dest(g, k) /\ m.tuple = At(X, g.from, k)
  <2>1. MoveOf(X, g, k) \in moves
    OBVIOUS
  <2>2. MoveOf(X, g, k).to = Dest(g, k) /\ MoveOf(X, g, k).tuple = At(X, g.from, k)
    BY DEF MoveOf
  <2> QED BY <2>1, <2>2
<1>6. \A m, k \in moves : m.to = k.to => m.tuple = k.tuple
  BY <1>2, <1>3, <1>4
<1>7. \A c : c \in lost <=> \E k \in L : c \in LineOf(Dest(g, k))
  OBVIOUS
<1> HIDE DEF moves, lost
<1>8. /\ \A m \in moves : m.to \in DOMAIN out[X][a] /\ out[X][a][m.to] = m.tuple
      /\ \A c \in DOMAIN mem[X][a] :
            /\ c \in DOMAIN out[X][a]
            /\ (\A m \in moves : m.to # c) /\ c \notin lost => out[X][a][c] = mem[X][a][c]
  BY <1>1, <1>6, AfterFacts
<1>9. \A k \in K : Dest(g, k) \in DOMAIN out[X][a] /\ out[X][a][Dest(g, k)] = At(X, g.from, k)
  BY <1>5, <1>8
<1>10. ASSUME NEW c \in DOMAIN mem[X][a], c \in Int,
              c <= g.base - Pad \/ c >= g.base + g.n + f * g.pad
       PROVE  out[X][a][c] = mem[X][a][c]
  <2>1. /\ g.n \in Nat /\ g.base \in Int /\ f \in Nat \ {0} /\ g.pad \in Nat
        /\ Pad \in Nat \ {0} /\ Pad <= g.pad /\ (f - 1) * g.pad \in Nat
    BY StartFacts
  <2>2. f * g.pad = (f - 1) * g.pad + g.pad
    <3> PICK pad \in Nat : pad = g.pad
      BY <2>1
    <3>1. f * pad = (f - 1) * pad + pad
      BY <2>1
    <3> QED BY <3>1
  <2>3. PICK z \in Nat : z = (f - 1) * g.pad
    BY <2>1
  <2>4. c <= g.base - Pad \/ c >= g.base + g.n + z + g.pad
    BY <1>10, <2>1, <2>2, <2>3
  <2>5. ASSUME NEW k \in K PROVE Dest(g, k) # c
    <3>1. k \in Rows(g.n)
      BY <1>2
    <3>2. k + 1 \in 0 .. g.n /\ k \in 0 .. g.n /\ g.hash[k] \in 0 .. f - 1 /\ Dest(g, k) \in Int
          /\ Dest(g, k) + 1 = StartAt(g, g.hash[k], k + 1) /\ Dest(g, k) = StartAt(g, g.hash[k], k)
      BY <3>1, StartFacts
    <3>3. g.base <= Dest(g, k) /\ Dest(g, k) + 1 <= g.base + g.n + z
      BY <2>3, <3>2, StartFacts
    <3> QED BY <2>1, <2>4, <3>2, <3>3
  <2>6. ASSUME NEW k \in L PROVE c \notin LineOf(Dest(g, k))
    <3> PICK p : p = g.hash[k]
      OBVIOUS
    <3> SUFFICES ASSUME c \in LineOf(Dest(g, k)) PROVE FALSE
      OBVIOUS
    <3>1. /\ p \in 0 .. f - 1 /\ StartAt(g, p, g.b) - Pad < c /\ c < StartAt(g, p, g.e)
      BY <1>2, LineInRoom
    <3>2. g.b \in 0 .. g.n /\ g.e \in 0 .. g.n
      BY DEF IsJob
    <3>3. /\ g.base <= StartAt(g, p, g.b) /\ StartAt(g, p, g.e) <= g.base + g.n + z
          /\ StartAt(g, p, g.b) \in Int /\ StartAt(g, p, g.e) \in Int
      BY <2>3, <3>1, <3>2, StartFacts
    <3> QED BY <1>10, <2>1, <2>4, <3>1, <3>3
  <2> QED BY <1>4, <1>7, <1>8, <2>5, <2>6
<1>11. ASSUME NEW k \in Rows(g.n) \ K, Dest(g, k) \in DOMAIN mem[X][a], L = {} \/ Foreign(g, k)
       PROVE  out[X][a][Dest(g, k)] = mem[X][a][Dest(g, k)]
  <2>1. \A m \in moves : m.to # Dest(g, k)
    BY <1>2, <1>3, <1>4
  <2>2. Dest(g, k) \notin lost
    BY <1>2, <1>7, <1>11, ForeignSafe
  <2> QED BY <1>8, <1>11, <2>1, <2>2
<1> QED BY <1>1, <1>8, <1>9, <1>10, <1>11 DEF Copied

(* Each way of copying stores some of the tuples, and whole lines or not.  *)
Ways(X, g, f, skip, a, start, room) ==
    /\ Scattered(X, room, a, start, f, skip) = Storing(X, g, a, Span(g), {})
    /\ Lined(X, room, a, start, f, skip) = Storing(X, g, a, Lines(g), Lines(g))
    /\ Rested(X, room, a, start, f, skip) = Storing(X, g, a, Span(g) \ Lines(g), {})
    /\ LinedAndRested(X, room, a, start, f, skip) = Storing(X, g, a, Span(g), Lines(g))

(* A thread that copies its piece stores what its job says.                *)
LEMMA WaysToCopy ==
    ASSUME NEW X, NEW g, NEW f, NEW skip, JobFor(g, X, f, skip), NEW a,
           NEW start, start = StartsOf(g, f),
           NEW room, room = Piece(g.from, g.b, g.e)
    PROVE  Ways(X, g, f, skip, a, start, room)
<1> DEFINE all == {MoveOf(X, g, k) : k \in Span(g)}
           lines == {MoveOf(X, g, k) : k \in Lines(g)}
           rests == {MoveOf(X, g, k) : k \in Span(g) \ Lines(g)}
           lost == UNION {LineOf(Dest(g, k)) : k \in Lines(g)}
<1>1. Moves(X, room, start, f, skip) = all
  BY MovesAre DEF StartsOf, Span
<1>2. \A k : /\ MoveOf(X, g, k).to = Dest(g, k)
             /\ MoveOf(X, g, k).room.end = StartAt(g, g.hash[k], g.e)
  BY DEF MoveOf, RoomIn
<1>3. \A k \in Span(g) :
          k \in Lines(g) <=> Max(LineOf(MoveOf(X, g, k).to)) < MoveOf(X, g, k).room.end
  BY <1>2 DEF Lines, InLine
<1>4. InLines(all) = lines
  <2>1. ASSUME NEW m \in InLines(all) PROVE m \in lines
    <3>1. PICK k \in Span(g) : m = MoveOf(X, g, k)
      BY DEF InLines
    <3>2. k \in Lines(g)
      BY <1>3, <3>1 DEF InLines
    <3> QED BY <3>1, <3>2
  <2>2. ASSUME NEW m \in lines PROVE m \in InLines(all)
    <3>1. PICK k \in Lines(g) : m = MoveOf(X, g, k)
      OBVIOUS
    <3>2. k \in Span(g)
      BY DEF Lines
    <3>3. m \in all
      BY <3>1, <3>2
    <3> QED BY <1>3, <3>1, <3>2, <3>3 DEF InLines
  <2> QED BY <2>1, <2>2
<1>5. all \ lines = rests
  <2>1. ASSUME NEW m \in all \ lines PROVE m \in rests
    OBVIOUS
  <2>2. ASSUME NEW m \in rests PROVE m \in all \ lines
    <3>1. PICK k \in Span(g) \ Lines(g) : m = MoveOf(X, g, k)
      OBVIOUS
    <3>2. m \in all
      BY <3>1
    <3>3. m \notin InLines(all)
      BY <1>3, <3>1 DEF InLines
    <3> QED BY <1>4, <3>2, <3>3
  <2> QED BY <2>1, <2>2
<1>6. UNION {LineOf(m.to) : m \in lines} = lost
  <2>1. {LineOf(m.to) : m \in lines} = {LineOf(Dest(g, k)) : k \in Lines(g)}
    <3>1. \A k : LineOf(MoveOf(X, g, k).to) = LineOf(Dest(g, k))
      BY <1>2
    <3> HIDE DEF MoveOf, LineOf
    <3> QED BY <3>1
  <2> QED BY <2>1
<1>7. UNION {LineOf(Dest(g, k)) : k \in {}} = {}
  OBVIOUS
<1> HIDE DEF all, lines, rests, lost
<1>8. Scattered(X, room, a, start, f, skip) = Stored(X, a, all, {})
  BY <1>1 DEF Scattered
<1>9. Lined(X, room, a, start, f, skip) = Stored(X, a, lines, lost)
  BY <1>1, <1>4, <1>6 DEF Lined
<1>10. Rested(X, room, a, start, f, skip) = Stored(X, a, rests, {})
  BY <1>1, <1>4, <1>5 DEF Rested
<1>11. LinedAndRested(X, room, a, start, f, skip) = Stored(X, a, all, lost)
  BY <1>1, <1>4, <1>6 DEF LinedAndRested
<1>12. Storing(X, g, a, Span(g), {}) = Stored(X, a, all, {})
  BY <1>7, Zenon DEF Storing, all
<1>13. Storing(X, g, a, Lines(g), Lines(g)) = Stored(X, a, lines, lost)
  BY Zenon DEF Storing, lines, lost
<1>14. Storing(X, g, a, Span(g) \ Lines(g), {}) = Stored(X, a, rests, {})
  BY <1>7, Zenon DEF Storing, rests
<1>15. Storing(X, g, a, Span(g), Lines(g)) = Stored(X, a, all, lost)
  BY Zenon DEF Storing, all, lost
<1> QED BY <1>8, <1>9, <1>10, <1>11, <1>12, <1>13, <1>14, <1>15 DEF Ways

(* What a copier counts of its tuples is what it has room for.             *)
LEMMA CountIs ==
    ASSUME NEW X, NEW g, NEW f, NEW skip, JobFor(g, X, f, skip), NEW p \in 0 .. f - 1
    PROVE  CountIn(X, Piece(g.from, g.b, g.e), f, skip, p) = StartAt(g, p, g.e) - StartAt(g, p, g.b)
<1> DEFINE q == Piece(g.from, g.b, g.e)
           P == 0 .. (g.e - g.b) - 1
           h(k) == HashAt(X, q, k, f, skip)
<1>1. IsJob(g, f) /\ g.e \in 0 .. g.n /\ g.b \in 0 .. g.n /\ g.b <= g.e
  BY DEF JobFor, IsJob
<1>2. Places(X, q) = P /\ \A k \in P : h(k) = g.hash[g.b + k]
  BY PieceFacts
<1> HIDE DEF q, h
<1>3. CountIn(X, q, f, skip, p) = Cardinality({k \in P : g.hash[g.b + k] = p})
  <2>1. {k \in Places(X, q) : h(k) = p} = {k \in P : g.hash[g.b + k] = p}
    BY <1>2
  <2> QED BY <2>1 DEF CountIn, h
<1> PICK T : T = {k \in P : g.hash[g.b + k] = p}
  OBVIOUS
<1>4. Cardinality(T) \in Nat /\ StartAt(g, p, g.b) + Cardinality(T) = StartAt(g, p, g.e)
  BY <1>1, CountUp
<1>5. StartAt(g, p, g.b) \in Int /\ StartAt(g, p, g.e) \in Int
  BY <1>1, StartFacts
<1> QED BY <1>3, <1>4, <1>5 DEF q

(* A sum of differences.                                                   *)
LEMMA Telescope ==
    ASSUME NEW h, NEW B, NEW n \in Nat, \A i \in 0 .. n : B[i] \in Int,
           \A i \in 0 .. n - 1 : h[i] = B[i + 1] - B[i]
    PROVE  SumFunctionOnSet(h, 0 .. n - 1) = B[n] - B[0]
<1> DEFINE T == {i \in Nat : i <= n => SumFunctionOnSet(h, 0 .. i - 1) = B[i] - B[0]}
<1>1. 0 \in T
  <2>1. 0 .. 0 - 1 = {} /\ SumFunctionOnSet(h, {}) = 0
    BY SumEmpty
  <2>2. B[0] \in Int
    OBVIOUS
  <2> QED BY <2>1, <2>2
<1>2. ASSUME NEW i \in Nat, i \in T PROVE i + 1 \in T
  <2> SUFFICES ASSUME i + 1 <= n PROVE SumFunctionOnSet(h, 0 .. (i + 1) - 1) = B[i + 1] - B[0]
    OBVIOUS
  <2>1. \A q \in 0 .. i : h[q] \in Int
    OBVIOUS
  <2>2. SumFunctionOnSet(h, 0 .. (i + 1) - 1) = SumFunctionOnSet(h, 0 .. i - 1) + h[i]
    BY <2>1, SumUpTo
  <2>3. SumFunctionOnSet(h, 0 .. i - 1) = B[i] - B[0] /\ h[i] = B[i + 1] - B[i]
    BY <1>2
  <2>4. B[i] \in Int /\ B[i + 1] \in Int /\ B[0] \in Int
    OBVIOUS
  <2> QED BY <2>2, <2>3, <2>4
<1>3. Nat \subseteq T
  <2> HIDE DEF T
  <2> QED BY <1>1, <1>2, NatSetInduction
<1> QED BY <1>3

(* Partition p of a job: the room it is copied to.                         *)
TargetRoom(g, a, p) == Room(a, StartAt(g, p, 0), StartAt(g, p, g.n) - StartAt(g, p, 0))
Arrived(X, g, a, k) ==
    /\ Dest(g, k) \in Cells(X) /\ Dest(g, k) \in DOMAIN mem[X][a]
    /\ mem[X][a][Dest(g, k)] = At(X, g.from, k)

(* When all of it has arrived, the room holds these tuples.                *)
LEMMA ArrivedFacts ==
    ASSUME NEW X, NEW g, NEW f, NEW skip, JobFor(g, X, f, skip), NEW a, NEW p \in 0 .. f - 1,
           \A k \in Rows(g.n) : g.hash[k] = p => Arrived(X, g, a, k)
    PROVE  /\ Filled(X, TargetRoom(g, a, p))
           /\ RowsAt(X, TargetRoom(g, a, p)) =
                  {i \in RowsAt(X, g.from) : Radix(KeyOf(X, i), f, skip) = p}
<1> PICK room : room = TargetRoom(g, a, p)
  OBVIOUS
<1>1. /\ IsJob(g, f) /\ g.n \in Nat /\ g.from \in PlainRooms /\ g.n = g.from.num
      /\ Filled(X, g.from) /\ g.hash = Hashes(X, g.from, f, skip)
  BY StartFacts DEF JobFor
<1>2. 0 \in 0 .. g.n /\ g.n \in 0 .. g.n
  BY <1>1
<1>3. StartAt(g, p, 0) \in Int /\ StartAt(g, p, g.n) \in Int
  BY <1>1, <1>2, StartFacts
<1>4. /\ room.arr = a /\ room.base = StartAt(g, p, 0) /\ "regions" \notin DOMAIN room
      /\ room.num = StartAt(g, p, g.n) - StartAt(g, p, 0) /\ room.num \in Int /\ room.base \in Int
  BY <1>3 DEF TargetRoom, Room
<1>5. ASSUME NEW j \in Rows(room.num)
      PROVE  \E k \in Rows(g.n) : g.hash[k] = p /\ Dest(g, k) = room.base + j
  <2>1. StartAt(g, p, 0) <= room.base + j /\ room.base + j < StartAt(g, p, g.n) /\ j \in Int
    BY <1>3, <1>4 DEF Rows
  <2> PICK n, h, pad, base : n = g.n /\ h = g.hash /\ pad = g.pad /\ base = g.base
    OBVIOUS
  <2> PICK c \in Int : c = room.base + j - base
    BY <1>1, <1>4, <2>1, StartFacts
  <2>2. Layout(n, f, pad, h) /\ base \in Int /\ n \in Nat
    BY <1>1 DEF IsJob
  <2>3. PlaceIn(h, pad, p, 0) <= c /\ c < PlaceIn(h, pad, p, n)
    <3>1. base + PlaceIn(h, pad, p, 0) <= room.base + j /\ room.base + j < base + PlaceIn(h, pad, p, n)
      BY <2>1 DEF StartAt
    <3>2. PlaceIn(h, pad, p, 0) \in Nat /\ PlaceIn(h, pad, p, n) \in Nat
      BY <1>2, <2>2, PlaceInType
    <3> QED BY <1>4, <2>1, <2>2, <3>1, <3>2
  <2>4. PICK k \in Rows(n) : 0 <= k /\ k < n /\ h[k] = p /\ PlaceIn(h, pad, p, k) = c
    BY <1>2, <2>2, <2>3, PlaceInOnto
  <2>5. Dest(g, k) = base + c
    BY <2>4 DEF Dest, StartAt
  <2> QED BY <1>4, <2>1, <2>2, <2>4, <2>5
<1>6. ASSUME NEW k \in Rows(g.n), g.hash[k] = p
      PROVE  /\ Dest(g, k) - room.base \in Rows(room.num)
             /\ room.base + (Dest(g, k) - room.base) = Dest(g, k)
             /\ At(X, room, Dest(g, k) - room.base) = At(X, g.from, k)
  <2>1. /\ k \in 0 .. g.n /\ k + 1 \in 0 .. g.n /\ Dest(g, k) \in Int
        /\ Dest(g, k) = StartAt(g, p, k) /\ Dest(g, k) + 1 = StartAt(g, p, k + 1)
    BY <1>1, <1>6, StartFacts
  <2>2. StartAt(g, p, 0) <= StartAt(g, p, k) /\ StartAt(g, p, k + 1) <= StartAt(g, p, g.n)
    BY <1>1, <1>2, <2>1, StartFacts
  <2>3. Dest(g, k) - room.base \in Rows(room.num) /\ room.base + (Dest(g, k) - room.base) = Dest(g, k)
    BY <1>3, <1>4, <2>1, <2>2 DEF Rows
  <2> QED BY <1>4, <1>6, <2>3 DEF At, Arrived
<1>7. ASSUME NEW j \in Rows(room.num)
      PROVE  \E k \in Rows(g.n) : /\ g.hash[k] = p /\ Dest(g, k) = room.base + j
                                  /\ At(X, room, j) = At(X, g.from, k)
                                  /\ At(X, room, j) \in Rows(Size[X])
                                  /\ room.base + j \in Cells(X) /\ room.base + j \in DOMAIN mem[X][room.arr]
  <2>1. PICK k \in Rows(g.n) : g.hash[k] = p /\ Dest(g, k) = room.base + j
    BY <1>5
  <2>2. Arrived(X, g, a, k)
    BY <2>1
  <2>3. At(X, room, j) = At(X, g.from, k)
    BY <1>4, <2>1, <2>2 DEF At, Arrived
  <2>4. At(X, g.from, k) \in Rows(Size[X])
    BY <1>1, <2>1 DEF Filled
  <2> QED BY <1>4, <2>1, <2>2, <2>3, <2>4 DEF Arrived
<1>8. ASSUME NEW i \in Rows(room.num), NEW j \in Rows(room.num), At(X, room, i) = At(X, room, j)
      PROVE  i = j
  <2>1. PICK k \in Rows(g.n) : Dest(g, k) = room.base + i /\ At(X, room, i) = At(X, g.from, k)
    BY <1>7
  <2>2. PICK m \in Rows(g.n) : Dest(g, m) = room.base + j /\ At(X, room, j) = At(X, g.from, m)
    BY <1>7
  <2>3. k = m
    BY <1>1, <1>8, <2>1, <2>2 DEF Filled
  <2>4. i \in Int /\ j \in Int
    BY <1>4 DEF Rows
  <2> QED BY <1>4, <2>1, <2>2, <2>3, <2>4
<1>9. Filled(X, room)
  BY <1>7, <1>8 DEF Filled
<1>10. /\ RowsAt(X, room) = {At(X, room, j) : j \in Rows(room.num)}
       /\ RowsAt(X, g.from) = {At(X, g.from, k) : k \in Rows(g.n)}
  <2>1. "regions" \notin DOMAIN g.from
    BY <1>1, RoomFacts
  <2> QED BY <1>1, <1>4, <1>9, <2>1, FilledFacts
<1>11. \A k \in Rows(g.n) : Radix(KeyOf(X, At(X, g.from, k)), f, skip) = g.hash[k]
  BY <1>1 DEF Hashes, HashAt
<1>12. ASSUME NEW i \in RowsAt(X, room)
       PROVE  i \in RowsAt(X, g.from) /\ Radix(KeyOf(X, i), f, skip) = p
  <2>1. PICK j \in Rows(room.num) : i = At(X, room, j)
    BY <1>10
  <2>2. PICK k \in Rows(g.n) : g.hash[k] = p /\ i = At(X, g.from, k)
    BY <1>7, <2>1
  <2> QED BY <1>10, <1>11, <2>2
<1>13. ASSUME NEW i \in RowsAt(X, g.from), Radix(KeyOf(X, i), f, skip) = p
       PROVE  i \in RowsAt(X, room)
  <2>1. PICK k \in Rows(g.n) : i = At(X, g.from, k)
    BY <1>10
  <2>2. g.hash[k] = p
    BY <1>11, <1>13, <2>1
  <2>3. i = At(X, room, Dest(g, k) - room.base) /\ Dest(g, k) - room.base \in Rows(room.num)
    BY <1>6, <2>1, <2>2
  <2> QED BY <1>10, <2>3
<1>14. RowsAt(X, room) = {i \in RowsAt(X, g.from) : Radix(KeyOf(X, i), f, skip) = p}
  BY <1>12, <1>13
<1> QED BY <1>9, <1>14
-----------------------------------------------------------------------------
(* radix_cluster partitions a room on its own.                             *)
ClusterJob(X, room) ==
    [n |-> room.num, pad |-> Pad, hash |-> Hashes(X, room, Fanout2, Skip), base |-> room.base,
     b |-> 0, e |-> room.num, from |-> room]

(* A room in full is a piece of itself.                                    *)
LEMMA WholePiece ==
    ASSUME NEW room \in PlainRooms PROVE Piece(room, 0, room.num) = room
<1>1. room.base \in Int /\ room.num \in Int
  BY RoomFacts
<1>2. room.base + 0 = room.base /\ room.num - 0 = room.num
  BY <1>1
<1>3. room = [arr |-> room.arr, base |-> room.base, num |-> room.num]
  BY DEF PlainRooms
<1> QED BY <1>2, <1>3 DEF Piece, Room

(* The job of a thread that clusters a task of the second pass alone is    *)
(* one that fits the room the task is in.                                  *)
LEMMA ClusterJobFits ==
    ASSUME Loads, build \in Builds, NEW X \in Rels, NEW room \in PlainRooms, room.num \in Nat,
           Filled(X, room), NEW g, g = ClusterJob(X, room)
    PROVE  /\ JobFor(g, X, Fanout2, Skip) /\ IsJob(g, Fanout2)
           /\ g.n = room.num /\ g.base = room.base /\ g.b = 0 /\ g.e = room.num /\ g.pad = Pad
           /\ g.from = room /\ Piece(g.from, g.b, g.e) = room
           /\ g.hash = Hashes(X, room, Fanout2, Skip)
<1>1. /\ g.n = room.num /\ g.base = room.base /\ g.b = 0 /\ g.e = room.num /\ g.pad = Pad
      /\ g.from = room /\ g.hash = Hashes(X, room, Fanout2, Skip)
  BY DEF ClusterJob
<1>2. room.base \in Int /\ Pad \in Nat \ {0} /\ Fanout2 \in Nat \ {0} /\ Skip \in Nat
  BY PhjAssumption, RoomFacts, FanoutFacts
<1>3. Layout(room.num, Fanout2, Pad, Hashes(X, room, Fanout2, Skip))
  <2> PICK f \in Nat \ {0} : f = Fanout2
    BY <1>2
  <2> PICK skip \in Nat : skip = Skip
    BY <1>2
  <2> PICK pad \in Nat : pad = Pad
    BY <1>2
  <2>1. Layout(room.num, f, pad, Hashes(X, room, f, skip))
    BY HashesLayout
  <2> QED BY <2>1
<1>4. IsJob(g, Fanout2)
  BY <1>1, <1>2, <1>3 DEF IsJob
<1> QED BY <1>1, <1>4, WholePiece DEF JobFor

(* How many tuples are of the partitions before p: a sum of counts.        *)
LEMMA CountsBelow ==
    ASSUME NEW n, NEW f, NEW pad, NEW hashes, Layout(n, f, pad, hashes), NEW p \in 0 .. f - 1,
           NEW c, \A q \in 0 .. p - 1 : c[q] = Below(hashes, q, n) - Below(hashes, q, 0)
    PROVE  SumFunctionOnSet(c, 0 .. p - 1) = Below(hashes, p, 0)
<1> DEFINE B == [q \in 0 .. p |-> Below(hashes, q, 0)]
<1>1. n \in Nat /\ p \in Nat /\ hashes \in [Rows(n) -> Nat]
  BY LayoutFacts
<1>2. \A q \in 0 .. p : B[q] \in Int
  <2>1. ASSUME NEW q \in 0 .. p PROVE Below(hashes, q, 0) \in Int
    <3>1. q \in Nat /\ 0 \in Int
      BY <1>1
    <3>2. Below(hashes, q, 0) \in 0 .. n
      BY <1>1, <3>1, BelowType
    <3> QED BY <1>1, <3>2
  <2> QED BY <2>1
<1>3. \A q \in 0 .. p - 1 : c[q] = B[q + 1] - B[q]
  <2>1. ASSUME NEW q \in 0 .. p - 1 PROVE c[q] = B[q + 1] - B[q]
    <3>1. q \in Nat /\ q + 1 \in 0 .. p /\ q \in 0 .. p
      BY <1>1
    <3>2. Below(hashes, q, n) = Below(hashes, q + 1, 0)
      BY <1>1, <3>1, BelowNext
    <3> QED BY <3>1, <3>2
  <2> QED BY <2>1
<1>4. B[0] = 0 /\ B[p] = Below(hashes, p, 0)
  <2>1. Below(hashes, 0, 0) = 0
    BY <1>1, BelowNext
  <2> QED BY <1>1, <2>1
<1>5. B[p] \in Int
  BY <1>1, <1>2
<1> HIDE DEF B
<1>6. SumFunctionOnSet(c, 0 .. p - 1) = B[p] - B[0]
  BY <1>1, <1>2, <1>3, Telescope
<1> QED BY <1>4, <1>5, <1>6

(* Its partitions are where the job has them.                              *)
LEMMA ClusterPlaces ==
    ASSUME Loads, build \in Builds, NEW X \in Rels, NEW x, x[X] \in PlainRooms, x[X].num \in Nat,
           Filled(X, x[X]), NEW g, g = ClusterJob(X, x[X]), NEW p \in 0 .. Fanout2 - 1
    PROVE  /\ x[X].base + ClusterOffset(x, X, p) = StartAt(g, p, 0)
           /\ CountIn(X, x[X], Fanout2, Skip, p) = StartAt(g, p, g.n) - StartAt(g, p, 0)
<1> PICK room \in PlainRooms : room = x[X]
  OBVIOUS
<1>1. /\ JobFor(g, X, Fanout2, Skip) /\ IsJob(g, Fanout2) /\ g.base = room.base
      /\ g.b = 0 /\ g.e = g.n /\ g.pad = Pad /\ Piece(g.from, g.b, g.e) = room
  BY ClusterJobFits
<1>2. ASSUME NEW q \in 0 .. Fanout2 - 1
      PROVE  CountIn(X, room, Fanout2, Skip, q) = StartAt(g, q, g.n) - StartAt(g, q, 0)
  BY <1>1, CountIs
<1> PICK n, h, base : n = g.n /\ h = g.hash /\ base = g.base
  OBVIOUS
<1>3. /\ Layout(n, Fanout2, Pad, h) /\ base \in Int /\ n \in Nat /\ base = room.base
      /\ Fanout2 \in Nat \ {0} /\ Pad \in Nat
  BY <1>1, StartFacts DEF IsJob
<1>4. \A q, i : StartAt(g, q, i) = base + PlaceIn(h, Pad, q, i)
  BY <1>1 DEF StartAt
<1>5. ASSUME NEW q \in 0 .. Fanout2 - 1
      PROVE  /\ CountIn(X, room, Fanout2, Skip, q) = Below(h, q, n) - Below(h, q, 0)
             /\ Below(h, q, n) \in Int /\ Below(h, q, 0) \in Int
  <2>1. 0 \in 0 .. n /\ n \in 0 .. n
    BY <1>3
  <2>2. Below(h, q, n) \in 0 .. n /\ Below(h, q, 0) \in 0 .. n
    BY <1>3, <2>1, PlaceInType
  <2>3. q * Pad \in Int
    BY <1>3
  <2> QED BY <1>2, <1>3, <1>4, <2>2, <2>3 DEF PlaceIn
<1> DEFINE c == [q \in 0 .. p - 1 |-> CountIn(X, room, Fanout2, Skip, q)]
<1>6. \A q \in 0 .. p - 1 : c[q] = Below(h, q, n) - Below(h, q, 0)
  BY <1>3, <1>5
<1>7. ClusterOffset(x, X, p) = SumFunctionOnSet(c, 0 .. p - 1) + p * Pad
  BY DEF ClusterOffset
<1> HIDE DEF c
<1>8. SumFunctionOnSet(c, 0 .. p - 1) = Below(h, p, 0)
  <2> PICK f : f = Fanout2
    OBVIOUS
  <2> PICK pad : pad = Pad
    OBVIOUS
  <2>1. Layout(n, f, pad, h) /\ p \in 0 .. f - 1
    BY <1>3
  <2> QED BY <1>6, <2>1, CountsBelow
<1>9. room.base + ClusterOffset(x, X, p) = StartAt(g, p, 0)
  BY <1>3, <1>4, <1>7, <1>8 DEF PlaceIn
<1> QED BY <1>2, <1>9

(* What radix_cluster stores, and the rooms that tasks are made of.        *)
ClusterCopies(x, X, g) ==
    \E L \in SUBSET Span(g) :
        /\ L = {} \/ L = Lines(g)
        /\ Clustered(x, X) = Storing(X, g, Other(x[X].arr), Span(g), L)[X]

ClusterMakes(x, X, g) ==
    \A p \in 0 .. Fanout2 - 1 : ClusterTask(x, p)[X] = TargetRoom(g, Other(x[X].arr), p)

(* That is a job like any other.                                           *)
LEMMA ClusterIs ==
    ASSUME Loads, build \in Builds, NEW X \in SecondRels, X \in Rels, NEW x, x[X] \in PlainRooms,
           x[X].num \in Nat, Filled(X, x[X]), NEW g, g = ClusterJob(X, x[X])
    PROVE  ClusterCopies(x, X, g) /\ ClusterMakes(x, X, g)
<1>1. /\ JobFor(g, X, Fanout2, Skip) /\ g.b = 0 /\ g.e = g.n /\ Piece(g.from, g.b, g.e) = x[X]
  BY ClusterJobFits
<1>2. ASSUME NEW p \in 0 .. Fanout2 - 1
      PROVE  /\ x[X].base + ClusterOffset(x, X, p) = StartAt(g, p, 0)
             /\ CountIn(X, x[X], Fanout2, Skip, p) = StartAt(g, p, g.n) - StartAt(g, p, 0)
  BY ClusterPlaces
<1>3. \E L \in SUBSET Span(g) :
          /\ L = {} \/ L = Lines(g)
          /\ Clustered(x, X) = Storing(X, g, Other(x[X].arr), Span(g), L)[X]
  <2> DEFINE to == [p \in 0 .. Fanout2 - 1 |-> x[X].base + ClusterOffset(x, X, p)]
             a == Other(x[X].arr)
  <2>1. to = [p \in 0 .. Fanout2 - 1 |-> StartAt(g, p, g.b)]
    BY <1>1, <1>2
  <2>2. Clustered(x, X) = IF build.swwcb THEN LinedAndRested(X, x[X], a, to, Fanout2, Skip)[X]
                          ELSE Scattered(X, x[X], a, to, Fanout2, Skip)[X]
    BY DEF Clustered
  <2> HIDE DEF to, a
  <2> PICK f : f = Fanout2
    OBVIOUS
  <2> PICK skip : skip = Skip
    OBVIOUS
  <2> PICK start : start = to
    OBVIOUS
  <2> PICK arr : arr = a
    OBVIOUS
  <2> PICK room : room = x[X]
    OBVIOUS
  <2>3. Ways(X, g, f, skip, arr, start, room)
    <3>1. JobFor(g, X, f, skip) /\ start = StartsOf(g, f)
      BY <1>1, <2>1 DEF StartsOf
    <3>2. room = Piece(g.from, g.b, g.e)
      BY <1>1
    <3> QED BY <3>1, <3>2, WaysToCopy
  <2>4. CASE build.swwcb
    <3>1. Lines(g) \in SUBSET Span(g)
      BY DEF Lines
    <3> QED BY <2>2, <2>3, <2>4, <3>1 DEF a, Ways
  <2>5. CASE ~build.swwcb
    <3>1. {} \in SUBSET Span(g)
      OBVIOUS
    <3> QED BY <2>2, <2>3, <2>5, <3>1 DEF a, Ways
  <2> QED BY <2>4, <2>5
<1>4. ASSUME NEW p \in 0 .. Fanout2 - 1
      PROVE  ClusterTask(x, p)[X] = TargetRoom(g, Other(x[X].arr), p)
  <2>1. ClusterTask(x, p)[X] = Room(Other(x[X].arr), x[X].base + ClusterOffset(x, X, p),
                                    CountIn(X, x[X], Fanout2, Skip, p))
    BY DEF ClusterTask, Task, Rels
  <2> QED BY <1>2, <2>1 DEF TargetRoom
<1> QED BY <1>3, <1>4 DEF ClusterCopies, ClusterMakes

-----------------------------------------------------------------------------
(* The share of thread t in what all partition together.                   *)
Job(t, X) ==
    [n |-> Whole(t, X).num, pad |-> Padding(t), base |-> Begin(t, X),
     hash |-> Hashes(X, Whole(t, X), Fanout(t), SkipOf(t)),
     b |-> ShareBegin(Whole(t, X).num, BuildNum, t), e |-> ShareEnd(Whole(t, X).num, BuildNum, t),
     from |-> Whole(t, X)]

(* It is loaded, or a task.                                                *)
Partitionable(t, X) ==
    /\ Loads /\ build \in Builds /\ part[t] \in {"first", "skew"}
    /\ part[t] = "skew" => skewtask \in PlainTasks
    /\ Whole(t, X).num \in Nat /\ Filled(X, Whole(t, X))

(* Whole and its parameters.                                               *)
LEMMA WholeFacts ==
    ASSUME NEW t \in Builders, NEW X \in Rels, Partitionable(t, X)
    PROVE  /\ Whole(t, X) \in PlainRooms /\ Whole(t, X).num \in Nat /\ Begin(t, X) \in Int
           /\ Begin(t, X) = Whole(t, X).base
           /\ Fanout(t) \in Nat \ {0} /\ Fanout(t) <= 2^RadixBits /\ SkipOf(t) \in Nat
           /\ Padding(t) \in Nat /\ Pad <= Padding(t) /\ BuildNum \in Nat \ {0}
<1>1. /\ Fanout1 \in Nat \ {0} /\ Fanout1 <= 2^RadixBits /\ Fanout2 \in Nat \ {0} /\ Fanout2 <= 2^RadixBits
      /\ Skip \in Nat /\ Pad \in Nat \ {0} /\ BuildNum \in Nat \ {0}
  BY FanoutFacts, PhjAssumption DEF Partitionable
<1>2. Margin \in Nat /\ Pad <= Margin
  BY MarginFacts DEF Partitionable
<1>3. CASE part[t] = "first"
  <2>1. Size[X] \in Int
    BY PhjAssumption DEF Size, Rels
  <2>2. Whole(t, X) = Room("org", 0, Size[X]) /\ Begin(t, X) = 0
    BY <1>3 DEF Whole, Begin
  <2>3. Whole(t, X) \in PlainRooms /\ Whole(t, X).base = 0
    BY <2>1, <2>2 DEF Room, PlainRooms
  <2> QED BY <1>1, <1>2, <1>3, <2>2, <2>3 DEF Fanout, SkipOf, Padding, Margin, Partitionable
<1>4. CASE part[t] = "skew"
  <2>1. Whole(t, X) = skewtask[X] /\ Begin(t, X) = skewtask[X].base
    BY <1>4 DEF Whole, Begin
  <2>2. skewtask[X] \in PlainRooms
    BY <1>4, RoomFacts DEF Partitionable
  <2>3. skewtask[X].base \in Int
    BY <2>2, RoomFacts
  <2> QED BY <1>1, <1>4, <2>1, <2>2, <2>3 DEF Fanout, SkipOf, Padding, Partitionable
<1> QED BY <1>3, <1>4 DEF Partitionable

(* The job of a thread fits, and its source is a piece of the whole.       *)
LEMMA JobFits ==
    ASSUME NEW t \in Builders, NEW X \in Rels, Partitionable(t, X), NEW g, g = Job(t, X)
    PROVE  /\ JobFor(g, X, Fanout(t), SkipOf(t)) /\ IsJob(g, Fanout(t))
           /\ g.n = Whole(t, X).num /\ g.base = Begin(t, X) /\ g.pad = Padding(t)
           /\ g.from = Whole(t, X) /\ Source(t, X) = Piece(g.from, g.b, g.e)
           /\ g.b = ShareBegin(g.n, BuildNum, t) /\ g.e = ShareEnd(g.n, BuildNum, t)
           /\ Share(g.n, BuildNum, t) = Span(g)
           /\ g.hash = Hashes(X, Whole(t, X), Fanout(t), SkipOf(t))
<1> PICK room : room = Whole(t, X)
  OBVIOUS
<1>1. /\ g.n = room.num /\ g.base = Begin(t, X) /\ g.pad = Padding(t) /\ g.from = room
      /\ g.b = ShareBegin(g.n, BuildNum, t) /\ g.e = ShareEnd(g.n, BuildNum, t)
      /\ g.hash = Hashes(X, room, Fanout(t), SkipOf(t))
  BY DEF Job
<1>2. /\ room \in PlainRooms /\ room.num \in Nat /\ Begin(t, X) \in Int
      /\ Fanout(t) \in Nat \ {0} /\ SkipOf(t) \in Nat
      /\ Padding(t) \in Nat /\ Pad <= Padding(t) /\ BuildNum \in Nat \ {0}
  BY WholeFacts
<1>3. Layout(room.num, Fanout(t), Padding(t), g.hash)
  <2> PICK f \in Nat \ {0} : f = Fanout(t)
    BY <1>2
  <2> PICK skip \in Nat : skip = SkipOf(t)
    BY <1>2
  <2> PICK pad \in Nat : pad = Padding(t)
    BY <1>2
  <2>1. Loads /\ Filled(X, room)
    BY DEF Partitionable
  <2>2. Layout(room.num, f, pad, Hashes(X, room, f, skip))
    BY <1>2, <2>1, HashesLayout
  <2> QED BY <1>1, <2>2
<1>4. /\ g.b \in 0 .. g.n /\ g.e \in 0 .. g.n /\ g.b <= g.e
      /\ Share(g.n, BuildNum, t) = Span(g)
  <2> PICK n \in Nat : n = g.n
    BY <1>1, <1>2
  <2>1. t \in 0 .. BuildNum - 1
    BY DEF Builders
  <2>2. /\ ShareBegin(n, BuildNum, t) \in 0 .. n /\ ShareEnd(n, BuildNum, t) \in 0 .. n
        /\ ShareBegin(n, BuildNum, t) <= ShareEnd(n, BuildNum, t)
        /\ Share(n, BuildNum, t) = ShareBegin(n, BuildNum, t) .. ShareEnd(n, BuildNum, t) - 1
    BY <1>2, <2>1, ShareBounds
  <2> QED BY <1>1, <2>2 DEF Span
<1>5. IsJob(g, Fanout(t))
  BY <1>1, <1>2, <1>3, <1>4 DEF IsJob
<1>6. JobFor(g, X, Fanout(t), SkipOf(t))
  BY <1>1, <1>2, <1>5 DEF JobFor, Partitionable
<1>7. Source(t, X) = Piece(g.from, g.b, g.e)
  <2>1. Cardinality(g.b .. g.e - 1) = g.e - g.b
    <3> PICK b \in Int, e \in Int : b = g.b /\ e = g.e /\ b <= e
      BY <1>1, <1>2, <1>4
    <3> PICK z \in Int : z = e - 1
      OBVIOUS
    <3>1. Cardinality(b .. z) = IF b > z THEN 0 ELSE z - b + 1
      BY FS_Interval
    <3> QED BY <3>1
  <2>2. Source(t, X) = Room(room.arr, room.base + ShareBegin(room.num, BuildNum, t),
                            Cardinality(Share(room.num, BuildNum, t)))
    BY DEF Source, ShareOf
  <2>3. ShareBegin(room.num, BuildNum, t) = g.b /\ Cardinality(Share(room.num, BuildNum, t)) = g.e - g.b
    BY <1>1, <1>4, <2>1 DEF Span
  <2>4. Piece(g.from, g.b, g.e) = Room(room.arr, room.base + g.b, g.e - g.b)
    BY <1>1 DEF Piece
  <2> QED BY <2>2, <2>3, <2>4
<1> QED BY <1>1, <1>4, <1>5, <1>6, <1>7
(* How many tuples of partition q the threads before v have: a sum of      *)
(* counts again.                                                           *)
LEMMA SharesBelow ==
    ASSUME NEW n, NEW f, NEW pad, NEW h, Layout(n, f, pad, h), NEW k \in Nat \ {0},
           NEW q \in 0 .. f - 1, NEW v \in 0 .. k, NEW c,
           \A u \in 0 .. v - 1 :
               c[u] = Below(h, q, ShareEnd(n, k, u)) - Below(h, q, ShareBegin(n, k, u))
    PROVE  /\ v < k => SumFunctionOnSet(c, 0 .. v - 1) = Below(h, q, ShareBegin(n, k, v)) - Below(h, q, 0)
           /\ v = k => SumFunctionOnSet(c, 0 .. v - 1) = Below(h, q, n) - Below(h, q, 0)
<1> DEFINE Cut(u) == IF u = k THEN n ELSE ShareBegin(n, k, u)
           B == [u \in 0 .. v |-> Below(h, q, Cut(u))]
<1>1. n \in Nat
  BY LayoutFacts
<1>2. ASSUME NEW u \in 0 .. k PROVE Cut(u) \in 0 .. n
  <2>1. u # k => u \in 0 .. k - 1
    OBVIOUS
  <2>2. u # k => ShareBegin(n, k, u) \in 0 .. n
    BY <1>1, <2>1, ShareBounds
  <2> QED BY <1>1, <2>2
<1>3. ASSUME NEW u \in 0 .. k - 1 PROVE Cut(u) = ShareBegin(n, k, u) /\ Cut(u + 1) = ShareEnd(n, k, u)
  <2>1. Cut(u) = ShareBegin(n, k, u)
    OBVIOUS
  <2>2. CASE u = k - 1
    BY <2>2 DEF ShareEnd
  <2>3. CASE u # k - 1
    BY <2>3 DEF ShareEnd, ShareBegin
  <2> QED BY <2>1, <2>2, <2>3
<1>4. Cut(0) = 0 /\ Cut(k) = n
  <2>1. n \div k \in Int
    BY <1>1, DivFacts
  <2>2. 0 * (n \div k) = 0
    BY <2>1
  <2> QED BY <2>2 DEF ShareBegin
<1> HIDE DEF Cut
<1>5. \A u \in 0 .. v : B[u] \in Int
  <2>1. ASSUME NEW u \in 0 .. v PROVE Below(h, q, Cut(u)) \in Int
    <3>1. u \in 0 .. k
      OBVIOUS
    <3> PICK i \in 0 .. n : i = Cut(u)
      BY <1>2, <3>1
    <3>2. Below(h, q, i) \in 0 .. n
      BY PlaceInType
    <3> QED BY <1>1, <3>2
  <2> QED BY <2>1
<1>6. \A u \in 0 .. v - 1 : c[u] = B[u + 1] - B[u]
  <2>1. ASSUME NEW u \in 0 .. v - 1 PROVE c[u] = B[u + 1] - B[u]
    <3>1. u \in 0 .. k - 1 /\ u \in 0 .. v /\ u + 1 \in 0 .. v
      OBVIOUS
    <3>2. B[u] = Below(h, q, ShareBegin(n, k, u)) /\ B[u + 1] = Below(h, q, ShareEnd(n, k, u))
      BY <1>3, <3>1
    <3> QED BY <3>2
  <2> QED BY <2>1
<1>7. B[v] = Below(h, q, Cut(v)) /\ B[0] = Below(h, q, 0)
  BY <1>4
<1> HIDE DEF B
<1>8. SumFunctionOnSet(c, 0 .. v - 1) = B[v] - B[0]
  <2>1. v \in Nat
    OBVIOUS
  <2> QED BY <1>5, <1>6, <2>1, Telescope
<1>9. v < k => Cut(v) = ShareBegin(n, k, v)
  BY <1>3
<1> QED BY <1>4, <1>7, <1>8, <1>9

(* The histogram of thread t holds what it has of each partition.          *)
Counts(t, X) ==
    \A p \in 0 .. Fanout(t) - 1 :
        hist[X][t][p] = StartAt(Job(t, X), p, Job(t, X).e) - StartAt(Job(t, X), p, Job(t, X).b)

(* All have counted.                                                       *)
AllCounted(t, X) == \A u \in Builders : part[u] = part[t] /\ Counts(u, X)

(* From the histograms of all, each thread finds where its rooms are.      *)
LEMMA OffsetIs ==
    ASSUME NEW t \in Builders, NEW X \in Rels, Partitionable(t, X), AllCounted(t, X),
           NEW g, g = Job(t, X), NEW p \in 0 .. Fanout(t) - 1
    PROVE  Offset(t, X, p) = PlaceIn(g.hash, g.pad, p, g.b)
<1> PICK f, n, h, pad, k : f = Fanout(t) /\ n = g.n /\ h = g.hash /\ pad = g.pad /\ k = BuildNum
  OBVIOUS
<1>1. /\ IsJob(g, f) /\ Layout(n, f, pad, h) /\ n \in Nat /\ f \in Nat \ {0} /\ pad \in Nat
      /\ pad = Padding(t) /\ g.b = ShareBegin(n, k, t) /\ g.base \in Int
  <2>1. IsJob(g, Fanout(t)) /\ g.b = ShareBegin(g.n, BuildNum, t) /\ g.pad = Padding(t)
    BY JobFits
  <2>2. IsJob(g, f)
    BY <2>1
  <2>3. g.n \in Nat /\ f \in Nat \ {0} /\ g.pad \in Nat /\ g.base \in Int
    BY <2>2, StartFacts
  <2> QED BY <2>1, <2>2, <2>3 DEF IsJob
<1>2. k \in Nat \ {0} /\ Builders = 0 .. k - 1
  BY PhjAssumption DEF Builders
<1>3. ASSUME NEW u \in Builders, NEW q \in 0 .. f - 1
      PROVE  /\ hist[X][u][q] = Below(h, q, ShareEnd(n, k, u)) - Below(h, q, ShareBegin(n, k, u))
             /\ hist[X][u][q] \in Int
  <2>1. part[u] = part[t] /\ Counts(u, X)
    BY DEF AllCounted
  <2>2. Fanout(u) = f /\ Padding(u) = pad /\ Begin(u, X) = Begin(t, X) /\ Whole(u, X) = Whole(t, X)
        /\ SkipOf(u) = SkipOf(t)
    BY <1>1, <2>1 DEF Fanout, Padding, Begin, Whole, SkipOf
  <2> PICK j : j = Job(u, X)
    OBVIOUS
  <2>3. /\ j.hash = h /\ j.pad = pad /\ j.base = g.base
        /\ j.b = ShareBegin(n, k, u) /\ j.e = ShareEnd(n, k, u)
    BY <2>2 DEF Job
  <2>4. /\ ShareBegin(n, k, u) \in 0 .. n /\ ShareEnd(n, k, u) \in 0 .. n
    BY <1>1, <1>2, ShareBounds
  <2>5. /\ Below(h, q, ShareBegin(n, k, u)) \in Int /\ Below(h, q, ShareEnd(n, k, u)) \in Int
    <3>1. /\ Below(h, q, ShareBegin(n, k, u)) \in 0 .. n /\ Below(h, q, ShareEnd(n, k, u)) \in 0 .. n
      BY <1>1, <2>4, PlaceInType
    <3> QED BY <1>1, <3>1
  <2>6. hist[X][u][q] = StartAt(j, q, j.e) - StartAt(j, q, j.b)
    BY <2>1, <2>2 DEF Counts
  <2>7. /\ StartAt(j, q, j.e) = g.base + (Below(h, q, ShareEnd(n, k, u)) + q * pad)
        /\ StartAt(j, q, j.b) = g.base + (Below(h, q, ShareBegin(n, k, u)) + q * pad)
    BY <2>3 DEF StartAt, PlaceIn
  <2>8. q * pad \in Int
    BY <1>1
  <2> QED BY <1>1, <2>5, <2>6, <2>7, <2>8
<1> DEFINE total(q) == SumFunctionOnSet([u \in Builders |-> hist[X][u][q]], Builders)
           c == [q \in 0 .. p - 1 |-> total(q)]
           d == [u \in 0 .. t - 1 |-> hist[X][u][p]]
<1>4. ASSUME NEW q \in 0 .. f - 1 PROVE total(q) = Below(h, q, n) - Below(h, q, 0)
  <2> DEFINE e == [u \in Builders |-> hist[X][u][q]]
  <2>1. \A u \in 0 .. k - 1 : e[u] = Below(h, q, ShareEnd(n, k, u)) - Below(h, q, ShareBegin(n, k, u))
    BY <1>2, <1>3
  <2>2. total(q) = SumFunctionOnSet(e, 0 .. k - 1) /\ k \in 0 .. k
    BY <1>2
  <2> HIDE DEF e, total
  <2>3. SumFunctionOnSet(e, 0 .. k - 1) = Below(h, q, n) - Below(h, q, 0)
    BY <1>1, <1>2, <2>1, <2>2, SharesBelow
  <2> QED BY <2>2, <2>3
<1>5. p \in 0 .. f - 1 /\ t \in 0 .. k /\ t < k
  BY <1>2
<1>6. \A q \in 0 .. p - 1 : c[q] = Below(h, q, n) - Below(h, q, 0)
  BY <1>1, <1>4, <1>5
<1>7. \A u \in 0 .. t - 1 : d[u] = Below(h, p, ShareEnd(n, k, u)) - Below(h, p, ShareBegin(n, k, u))
  BY <1>2, <1>3, <1>5
<1>8. Offset(t, X, p) = SumFunctionOnSet(c, 0 .. p - 1) + p * pad + SumFunctionOnSet(d, 0 .. t - 1)
  BY <1>1 DEF Offset
<1> HIDE DEF c, d
<1>9. SumFunctionOnSet(c, 0 .. p - 1) = Below(h, p, 0)
  BY <1>1, <1>5, <1>6, CountsBelow
<1>10. SumFunctionOnSet(d, 0 .. t - 1) = Below(h, p, ShareBegin(n, k, t)) - Below(h, p, 0)
  <2> PICK v : v = t
    OBVIOUS
  <2>1. v \in 0 .. k /\ v < k
    BY <1>5
  <2>2. \A u \in 0 .. v - 1 : d[u] = Below(h, p, ShareEnd(n, k, u)) - Below(h, p, ShareBegin(n, k, u))
    BY <1>7
  <2>3. /\ v < k => SumFunctionOnSet(d, 0 .. v - 1) = Below(h, p, ShareBegin(n, k, v)) - Below(h, p, 0)
        /\ v = k => SumFunctionOnSet(d, 0 .. v - 1) = Below(h, p, n) - Below(h, p, 0)
    BY <1>1, <1>2, <1>5, <2>1, <2>2, SharesBelow
  <2> QED BY <2>1, <2>3
<1>11. Below(h, p, ShareBegin(n, k, t)) \in Int /\ Below(h, p, 0) \in Int /\ p * pad \in Int
  <2>0. t \in 0 .. k - 1
    BY <1>2
  <2> PICK u : u = t
    OBVIOUS
  <2>a. n \in Nat /\ k \in Nat \ {0} /\ u \in 0 .. k - 1
    BY <1>1, <1>2, <2>0
  <2>b. ShareBegin(n, k, u) \in 0 .. n
    BY <2>a, ShareBeginInRange
  <2>1. ShareBegin(n, k, t) \in 0 .. n /\ 0 \in 0 .. n
    BY <1>1, <2>b
  <2>2. Below(h, p, ShareBegin(n, k, t)) \in 0 .. n /\ Below(h, p, 0) \in 0 .. n
    BY <1>1, <1>5, <2>1, PlaceInType
  <2> QED BY <1>1, <1>5, <2>2
<1> QED BY <1>1, <1>8, <1>9, <1>10, <1>11 DEF PlaceIn

(* So the rooms of a thread begin where its job has them, and it copies as *)
(* WaysToCopy says.                                                        *)
LEMMA SharesAre ==
    ASSUME NEW t \in Builders, NEW X \in Rels, Partitionable(t, X), AllCounted(t, X),
           NEW g, g = Job(t, X), NEW a
    PROVE  Ways(X, g, Fanout(t), SkipOf(t), a, Starts(t, X), Source(t, X))
<1>1. /\ JobFor(g, X, Fanout(t), SkipOf(t)) /\ g.base = Begin(t, X) /\ g.base \in Int
      /\ Source(t, X) = Piece(g.from, g.b, g.e)
  <2>1. /\ JobFor(g, X, Fanout(t), SkipOf(t)) /\ g.base = Begin(t, X)
        /\ Source(t, X) = Piece(g.from, g.b, g.e)
    BY JobFits
  <2> QED BY <2>1, WholeFacts
<1>2. \A p \in 0 .. Fanout(t) - 1 : Offset(t, X, p) = PlaceIn(g.hash, g.pad, p, g.b)
  BY OffsetIs
<1>3. Starts(t, X) = StartsOf(g, Fanout(t))
  BY <1>1, <1>2 DEF Starts, StartsOf, StartAt
<1> PICK f, skip, start, room : f = Fanout(t) /\ skip = SkipOf(t) /\ start = Starts(t, X)
                                /\ room = Source(t, X)
  OBVIOUS
<1>4. Ways(X, g, f, skip, a, start, room)
  <2>1. JobFor(g, X, f, skip) /\ start = StartsOf(g, f) /\ room = Piece(g.from, g.b, g.e)
    BY <1>1, <1>3
  <2> QED BY <2>1, WaysToCopy
<1> QED BY <1>4

(* The task of partition p that thread 0 makes has the rooms of the job.   *)
LEMMA PartTaskIs ==
    ASSUME Plain, PhaseInv, Symmetric, NEW X \in Rels, Partitionable(0, X), AllCounted(0, X),
           NEW total, total[X] = Whole(0, X).num, NEW p \in 0 .. Fanout(0) - 1,
           NEW g, g = Job(0, X), PartTask(0, total, p)[X] \in PlainRooms
    PROVE  PartTask(0, total, p)[X] = TargetRoom(g, Target(0, X), p)
<1>1. 0 \in Builders
  BY PhjAssumption DEF Builders
<1> PICK f, n, h, pad, base, room :
        /\ f = Fanout(0) /\ n = g.n /\ h = g.hash /\ pad = g.pad /\ base = g.base
        /\ room = PartTask(0, total, p)[X]
  OBVIOUS
<1>2. /\ IsJob(g, f) /\ Layout(n, f, pad, h) /\ n \in Nat /\ f \in Nat \ {0} /\ pad \in Nat
      /\ base \in Int /\ pad = Padding(0) /\ n = total[X] /\ base = Begin(0, X) /\ g.b = 0
  <2>1. /\ IsJob(g, Fanout(0)) /\ g.b = ShareBegin(g.n, BuildNum, 0) /\ g.pad = Padding(0)
        /\ g.n = Whole(0, X).num /\ g.base = Begin(0, X)
    BY <1>1, JobFits
  <2>2. IsJob(g, f)
    BY <2>1
  <2>3. g.n \in Nat /\ f \in Nat \ {0} /\ g.pad \in Nat /\ g.base \in Int
    BY <2>2, StartFacts
  <2>4. g.b = 0
    <3>1. BuildNum \in Nat \ {0}
      BY PhjAssumption
    <3>2. g.n \div BuildNum \in Int
      BY <2>3, <3>1, DivFacts
    <3> QED BY <2>1, <3>2 DEF ShareBegin
  <2> QED BY <2>1, <2>2, <2>3, <2>4 DEF IsJob
<1>3. \A q \in 0 .. f - 1 : Offset(0, X, q) = Below(h, q, 0) + q * pad
  <2>1. \A q \in 0 .. f - 1 : Offset(0, X, q) = PlaceIn(h, pad, q, g.b)
    BY <1>1, OffsetIs
  <2> QED BY <1>2, <2>1 DEF PlaceIn
<1>4. /\ room.arr = Target(0, X) /\ room.base = base + Offset(0, X, p)
      /\ room.num = PartNum(0, X, n, p)
  BY <1>2, PartRoom
<1>5. p \in 0 .. f - 1 /\ p \in Nat
  OBVIOUS
<1>6. \A q \in 0 .. f - 1 : Below(h, q, 0) \in Int /\ Below(h, q, n) \in Int /\ q * pad \in Int
  <2>1. \A q \in 0 .. f - 1 : Below(h, q, 0) \in 0 .. n /\ Below(h, q, n) \in 0 .. n
    BY <1>2, PlaceInType
  <2> QED BY <1>2, <2>1
<1>7. room.num = Below(h, p, n) - Below(h, p, 0)
  <2>1. h \in [Rows(n) -> Nat] /\ \A i \in Rows(n) : h[i] <= f - 1
    BY <1>2, LayoutFacts
  <2>2. CASE p = f - 1
    <3>1. \A i \in Rows(n) : h[i] <= p
      BY <2>1, <2>2
    <3>2. Below(h, p, n) = n
      BY <1>2, <1>5, <2>1, <3>1, BelowNext
    <3>3. room.num = n - Offset(0, X, p) + p * pad
      BY <1>2, <1>4, <2>2 DEF PartNum
    <3> QED BY <1>2, <1>3, <1>5, <1>6, <3>2, <3>3
  <2>3. CASE p # f - 1
    <3>1. p + 1 \in 0 .. f - 1
      BY <1>2, <1>5, <2>3
    <3>2. Below(h, p, n) = Below(h, p + 1, 0)
      BY <1>2, <1>5, <2>1, BelowNext
    <3>3. room.num = Offset(0, X, p + 1) - Offset(0, X, p) - pad
      BY <1>2, <1>4, <2>3 DEF PartNum
    <3>4. (p + 1) * pad = p * pad + pad
      BY <1>2, <1>5
    <3> QED BY <1>2, <1>3, <1>5, <1>6, <3>1, <3>2, <3>3, <3>4
  <2> QED BY <2>2, <2>3
<1>8. /\ StartAt(g, p, 0) = base + (Below(h, p, 0) + p * pad)
      /\ StartAt(g, p, n) = base + (Below(h, p, n) + p * pad)
  BY DEF StartAt, PlaceIn
<1>9. room.base = StartAt(g, p, 0) /\ room.num = StartAt(g, p, n) - StartAt(g, p, 0)
  BY <1>2, <1>3, <1>4, <1>5, <1>6, <1>7, <1>8
<1>10. room \in PlainRooms
  OBVIOUS
<1>11. room = Room(room.arr, room.base, room.num)
  BY <1>10 DEF PlainRooms, Room
<1> QED BY <1>4, <1>9, <1>11 DEF TargetRoom

-----------------------------------------------------------------------------
(***************************************************************************)
(* What a step leaves of a room.                                           *)
(***************************************************************************)

(* The tuples of a room are still there after a step.                      *)
Kept(X, room) ==
    \A k \in Rows(room.num) :
        /\ room.base + k \in Cells(X) => room.base + k \in Cells(X)'
        /\ room.base + k \in DOMAIN mem[X][room.arr] =>
               /\ room.base + k \in DOMAIN mem'[X][room.arr]
               /\ mem'[X][room.arr][room.base + k] = mem[X][room.arr][room.base + k]

(* So it is filled with the same rows.                                     *)
LEMMA KeptFacts ==
    ASSUME NEW X, NEW room \in PlainRooms, Filled(X, room), Kept(X, room)
    PROVE  /\ Filled(X, room)' /\ RowsAt(X, room)' = RowsAt(X, room)
           /\ \A k \in Rows(room.num) : At(X, room, k)' = At(X, room, k)
<1>1. \A k \in Rows(room.num) : At(X, room, k)' = At(X, room, k)
  BY DEF Kept, Filled, At
<1>2. \A k \in Rows(room.num) : /\ room.base + k \in Cells(X)'
                                /\ room.base + k \in DOMAIN mem'[X][room.arr]
  BY DEF Kept, Filled
<1>3. Filled(X, room)'
  BY <1>1, <1>2 DEF Filled
<1>4. "regions" \notin DOMAIN room
  BY DEF PlainRooms
<1>5. RowsAt(X, room) = {At(X, room, k) : k \in Rows(room.num)}
  BY <1>4, FilledFacts
<1>6. Spread(X, room)' = Rows(room.num)
  BY <1>4 DEF Spread
<1>7. \A k \in Rows(room.num) : At(X, room, k)' \in Rows(Size[X])
  BY <1>1 DEF Filled
<1>8. Places(X, room)' = Rows(room.num)
  BY <1>6, <1>7 DEF Places
<1>9. RowsAt(X, room)' = {At(X, room, k)' : k \in Rows(room.num)}
  BY <1>8 DEF RowsAt
<1> QED BY <1>1, <1>3, <1>5, <1>9

(* A job of a room that is left alone stays what it is.                    *)
LEMMA HashesKept ==
    ASSUME UNCHANGED <<r, s>>, NEW X, NEW room,
           \A k \in Rows(room.num) : At(X, room, k)' = At(X, room, k), NEW f, NEW skip
    PROVE  Hashes(X, room, f, skip)' = Hashes(X, room, f, skip)
  BY DEF Hashes, HashAt, KeyOf

(* A job stays what it is as long as the relations, the task and what is   *)
(* in its room do.                                                         *)
LEMMA JobKept ==
    ASSUME NEW t \in Builders, NEW X \in Rels, Partitionable(t, X), UNCHANGED <<build, r, s>>,
           part'[t] = part[t], part[t] = "skew" => skewtask' = skewtask,
           NEW room, room = Whole(t, X), Kept(X, room)
    PROVE  /\ Job(t, X)' = Job(t, X) /\ Partitionable(t, X)'
           /\ Target(t, X)' = Target(t, X) /\ Fanout(t)' = Fanout(t)
           /\ Whole(t, X)' = room
<1>1. Whole(t, X)' = room /\ room \in PlainRooms /\ Filled(X, room)
  <2>1. Whole(t, X)' = Whole(t, X)
    <3>1. part[t] = "first" \/ (part[t] = "skew" /\ part[t] # "first")
      BY DEF Partitionable
    <3> QED BY <3>1 DEF Whole
  <2> QED BY <2>1, WholeFacts DEF Partitionable
<1>2. /\ Fanout(t)' = Fanout(t) /\ SkipOf(t)' = SkipOf(t) /\ Padding(t)' = Padding(t)
      /\ Begin(t, X)' = Begin(t, X) /\ Target(t, X)' = Target(t, X)
  <2>1. Skip' = Skip
    BY DEF Skip
  <2>2. Fanout1' = Fanout1 /\ Fanout2' = Fanout2 /\ Back' = Back
    BY <2>1 DEF Fanout1, Fanout2, Back
  <2>3. \A a : Other(a)' = Other(a)
    BY <2>2 DEF Other
  <2>4. CASE part[t] = "first"
    BY <2>1, <2>2, <2>4 DEF Fanout, SkipOf, Padding, Begin, Target
  <2>5. CASE part[t] = "skew"
    BY <2>1, <2>2, <2>3, <2>5 DEF Fanout, SkipOf, Padding, Begin, Target
  <2> QED BY <2>4, <2>5 DEF Partitionable
<1>3. Filled(X, room)' /\ \A k \in Rows(room.num) : At(X, room, k)' = At(X, room, k)
  BY <1>1, KeptFacts
<1> PICK f, skip : f = Fanout(t) /\ skip = SkipOf(t)
  OBVIOUS
<1>4. Hashes(X, room, f, skip)' = Hashes(X, room, f, skip)
  BY <1>3, HashesKept
<1>5. Job(t, X)' = Job(t, X)
  BY <1>1, <1>2, <1>4 DEF Job
<1>6. Partitionable(t, X)'
  BY <1>1, <1>3 DEF Partitionable, Loads
<1> QED BY <1>1, <1>2, <1>5, <1>6

(* Counting makes the histogram of a job.                                  *)
LEMMA CountCounts ==
    ASSUME NEW t \in Builders, NEW X \in Rels, Partitionable(t, X), Count(t, X),
           hist[X][t] = NoCounts, X \in DOMAIN hist, t \in DOMAIN hist[X]
    PROVE  Counts(t, X)'
<1> PICK f, skip, g, room : f = Fanout(t) /\ skip = SkipOf(t) /\ g = Job(t, X) /\ room = Whole(t, X)
  OBVIOUS
<1>1. /\ JobFor(g, X, f, skip) /\ IsJob(g, f) /\ Source(t, X) = Piece(g.from, g.b, g.e)
      /\ f \in Nat \ {0} /\ f <= 2^RadixBits
  <2>1. JobFor(g, X, Fanout(t), SkipOf(t)) /\ IsJob(g, Fanout(t)) /\ Source(t, X) = Piece(g.from, g.b, g.e)
    BY JobFits
  <2> QED BY <2>1, WholeFacts
<1>2. UNCHANGED <<build, r, s, part, skewtask, mem>>
  BY DEF Count, inputs, local
<1>3. Kept(X, room)
  BY <1>2 DEF Kept, Cells
<1>4. Job(t, X)' = g /\ Fanout(t)' = f
  BY <1>2, <1>3, JobKept
<1>5. \A p \in 0 .. f - 1 : CountIn(X, Source(t, X), f, skip, p) = StartAt(g, p, g.e) - StartAt(g, p, g.b)
  BY <1>1, CountIs
<1>6. \A p \in 0 .. f - 1 : StartAt(g, p, g.e) \in Int /\ StartAt(g, p, g.b) \in Int
  <2>1. g.b \in 0 .. g.n /\ g.e \in 0 .. g.n
    BY <1>1 DEF IsJob
  <2> PICK b, e : b = g.b /\ e = g.e
    OBVIOUS
  <2>2. \A p \in 0 .. f - 1 : \A i \in 0 .. g.n : StartAt(g, p, i) \in Int
    BY <1>1, StartFacts
  <2> QED BY <2>1, <2>2
<1>7. \A p \in 0 .. f - 1 : hist'[X][t][p] = 0 + CountIn(X, Source(t, X), f, skip, p)
  <2>1. \A p \in 0 .. f - 1 : p \in DOMAIN NoCounts
    <3>1. 2^RadixBits \in Nat
      BY PhjAssumption, PowerOfTwo
    <3> QED BY <1>1, <3>1 DEF NoCounts
  <2>2. hist'[X][t] = [p \in DOMAIN NoCounts |-> NoCounts[p] + CountIn(X, Source(t, X), f, skip, p)]
    BY DEF Count
  <2>3. \A p \in DOMAIN NoCounts : NoCounts[p] = 0
    BY DEF NoCounts
  <2> QED BY <2>1, <2>2, <2>3
<1>8. \A p \in 0 .. f - 1 : hist'[X][t][p] = StartAt(g, p, g.e) - StartAt(g, p, g.b)
  BY <1>5, <1>6, <1>7
<1>9. \A p \in 0 .. f - 1 : (StartAt(Job(t, X), p, Job(t, X).e) - StartAt(Job(t, X), p, Job(t, X).b))'
                                = StartAt(g, p, g.e) - StartAt(g, p, g.b)
  BY <1>4 DEF StartAt
<1> QED BY <1>4, <1>8, <1>9 DEF Counts
=============================================================================
