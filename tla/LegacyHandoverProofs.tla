------------------------- MODULE LegacyHandoverProofs -------------------------
(***************************************************************************)
(* Theorems about LegacyHandover, for any number of processes, operations, *)
(* failed steps, crashes and attempts.                                     *)
(*                                                                         *)
(* That the migrator is alone rests on counting: a process has its lock    *)
(* because its gate counts activities, and an operation inside is one of   *)
(* those counted.                                                          *)
(***************************************************************************)
EXTENDS LegacyHandover, FiniteSetTheorems, TLAPS

(* ------------------------------- counting ------------------------------- *)

\* The activities a process is in, one per operation and level, and the threads
\* that still have to release its file lock.
Held(p) == {a \in Ops \X {1, 2} : Home[a[1]] = p /\ a[2] <= level[a[1]]}
Unlocking(p) == {o \in Ops : Home[o] = p /\ pc[o] = "unlocking"}

Types ==
    /\ gate \in [Procs -> [active : Nat, handle : BOOLEAN, maintenance : BOOLEAN,
                           retired : BOOLEAN]]
    /\ shared \in [Procs -> Nat]
    /\ pc \in [Ops -> {"new", "waiting", "locking", "checking", "in", "leaving", "unlocking",
                       "ended"}]
    /\ level \in [Ops -> 0 .. 2]

Levels == \A o \in Ops :
    /\ pc[o] \in {"checking", "in", "leaving"} => level[o] >= 1
    /\ pc[o] \in {"new", "waiting", "locking"} => level[o] < Depth(o)

ActivitiesCounted == \A p \in Procs : gate[p].active = Cardinality(Held(p))
LocksCounted == \A p \in Procs :
    /\ shared[p] = Cardinality(Unlocking(p)) + (IF gate[p].handle THEN 1 ELSE 0)
    /\ gate[p].handle => gate[p].active > 0

Counted == Types /\ Levels /\ ActivitiesCounted /\ LocksCounted

(* ------------------------- course of a migration ------------------------ *)

Alone == {"snapshot", "publish", "activate", "retire", "release"}
Adopting == Alone \union {"claim", "quiesce", "lock", "unmark", "reopen", "undo", "unpublish"}

\* No migration begins on a file that was moved or will be, and one that got
\* through has published a copy.
Course ==
    /\ step \in Adopting => ~ pending /\ ~ moved
    /\ pending => published
    /\ step \in {"activate", "retire", "move"} => published
    /\ step \in {"release", "unmark", "reopen"} => failed \/ published
    /\ exclusive => step \in Alone

(* ------------------------------ exclusion ------------------------------- *)

\* A process with activities has the lock, as long as the file is in its place;
\* while the migrator has it, no process does.
Covered ==
    /\ \A p \in Procs : ~ moved /\ gate[p].active > 0 => gate[p].handle
    /\ exclusive => \A p \in Procs : shared[p] = 0

LEMMA FiniteCounts ==
    /\ \A p \in Procs : IsFiniteSet(Held(p)) /\ IsFiniteSet(Unlocking(p))
    /\ \A p \in Procs : Cardinality(Held(p)) \in Nat /\ Cardinality(Unlocking(p)) \in Nat
<1>1. IsFiniteSet({1, 2})
  <2>1. IsFiniteSet({} \union {1})
    BY FS_EmptySet, FS_AddElement
  <2>2. IsFiniteSet(({} \union {1}) \union {2})
    BY <2>1, FS_AddElement
  <2> QED
    BY <2>2
<1>2. IsFiniteSet(Ops \X {1, 2})
  BY <1>1, FS_Product, HandoverAssumption
<1>3. ASSUME NEW p \in Procs
      PROVE  IsFiniteSet(Held(p)) /\ IsFiniteSet(Unlocking(p))
  <2>1. /\ Held(p) \in SUBSET (Ops \X {1, 2})
        /\ Unlocking(p) \in SUBSET Ops
    BY DEF Held, Unlocking
  <2> QED
    BY <1>2, <2>1, FS_Subset, HandoverAssumption
<1> QED
  BY <1>3, FS_CardinalityType

\* An operation inside is counted by its process, and one whose thread is at the
\* end of its last activity is the only one.
LEMMA InsideIsCounted ==
    ASSUME Counted, NEW o \in Ops, pc[o] \in {"checking", "in", "leaving"}
    PROVE  /\ gate[Home[o]].active >= 1
           /\ gate[Home[o]].active = 1 => level[o] = 1
<1> DEFINE p == Home[o]
           a == <<o, 1>>
           b == <<o, 2>>
<1>1. p \in Procs /\ level[o] \in 1 .. 2
  BY HandoverAssumption DEF Counted, Types, Levels
<1>2. IsFiniteSet(Held(p)) /\ Cardinality(Held(p)) = gate[p].active /\ a \in Held(p)
  BY <1>1, FiniteCounts DEF Counted, ActivitiesCounted, Held
<1>3. /\ IsFiniteSet(Held(p) \ {a})
      /\ Cardinality(Held(p) \ {a}) = Cardinality(Held(p)) - 1
  BY <1>2, FS_RemoveElement
<1>4. Cardinality(Held(p)) \in Nat /\ Cardinality(Held(p) \ {a}) \in Nat
  BY <1>2, <1>3, FS_CardinalityType
<1>5. ASSUME gate[p].active = 1
      PROVE  level[o] = 1
  <2>1. Cardinality(Held(p) \ {a}) = 0
    BY <1>2, <1>3, <1>5
  <2>2. Held(p) \ {a} = {}
    BY <2>1, <1>3, FS_EmptySet
  <2>3. b \notin Held(p)
    BY <2>2
  <2> QED
    BY <1>1, <2>3 DEF Held
<1> QED
  BY <1>2, <1>3, <1>4, <1>5
\* A step of a thread within its activities.
LEMMA CountedMoves ==
    ASSUME Counted, NEW o \in Ops, Ask(o) \/ Awake(o) \/ Recheck(o) \/ Write(o) \/ UseTarget(o)
    PROVE  Counted'
<1>1. /\ gate' = gate /\ shared' = shared /\ level' = level
      /\ pc[o] # "unlocking" /\ pc'[o] # "unlocking"
      /\ pc' = [pc EXCEPT ![o] = pc'[o]]
      /\ pc'[o] \in {"waiting", "locking", "leaving", "new", "in", "ended"}
      /\ pc'[o] \in {"leaving", "in"} => level[o] >= 1
      /\ pc'[o] \in {"new", "waiting", "locking"} => level[o] < Depth(o)
  BY DEF Counted, Types, Levels, Ask, Awake, Recheck, Write, UseTarget, Proceed, Refuse, Thread,
         OpOnly, NoWrite
<1>2. Types' /\ Levels'
  BY <1>1 DEF Counted, Types, Levels, Depth
<1>3. \A p \in Procs : Held(p)' = Held(p) /\ Unlocking(p)' = Unlocking(p)
  BY <1>1 DEF Counted, Types, Held, Unlocking
<1> QED
  BY <1>1, <1>2, <1>3 DEF Counted, ActivitiesCounted, LocksCounted

LEMMA CountedFileLock ==
    ASSUME Counted, NEW o \in Ops, FileLock(o)
    PROVE  Counted'
<1> DEFINE q == Home[o]
           first == gate[q].active = 0 /\ SourceExists
<1>1. q \in Procs /\ pc[o] = "locking" /\ level[o] \in 0 .. 1 /\ Types
  BY HandoverAssumption DEF Counted, Types, Levels, FileLock, Depth
<1>2. CASE UNCHANGED <<gate, shared, level>> /\ Refuse(o)
  <2>1. /\ pc' = [pc EXCEPT ![o] = pc'[o]]
        /\ pc'[o] \in {"ended", "leaving"} /\ (pc'[o] = "leaving" => level[o] >= 1)
    BY <1>1, <1>2 DEF Refuse, Thread, Types
  <2>2. Types' /\ Levels'
    BY <1>1, <1>2, <2>1 DEF Counted, Types, Levels, Depth
  <2>3. \A p \in Procs : Held(p)' = Held(p) /\ Unlocking(p)' = Unlocking(p)
    BY <1>1, <1>2, <2>1 DEF Types, Held, Unlocking
  <2> QED
    BY <1>2, <2>2, <2>3 DEF Counted, ActivitiesCounted, LocksCounted
<1>3. CASE /\ Thread(o, "checking")
           /\ gate' = [gate EXCEPT ![q].active = @ + 1, ![q].handle = @ \/ first]
           /\ shared' = [shared EXCEPT ![q] = IF first THEN @ + 1 ELSE @]
           /\ level' = [level EXCEPT ![o] = @ + 1]
  <2>1. Types'
    BY <1>1, <1>3 DEF Types, Thread
  <2>2. Levels'
    BY <1>1, <1>3 DEF Counted, Types, Levels, Thread, Depth
  <2>3. \A p \in Procs : Unlocking(p)' = Unlocking(p)
    BY <1>1, <1>3 DEF Types, Unlocking, Thread
  <2>4. \A p \in Procs \ {q} : Held(p)' = Held(p)
    BY <1>1, <1>3 DEF Types, Held
  <2>5. Held(q)' = Held(q) \union {<<o, level[o] + 1>>} /\ <<o, level[o] + 1>> \notin Held(q)
    BY <1>1, <1>3 DEF Types, Held
  <2>6. Cardinality(Held(q)') = Cardinality(Held(q)) + 1
    BY <1>1, <2>5, FiniteCounts, FS_AddElement
  <2>7. ActivitiesCounted'
    BY <1>1, <1>3, <2>4, <2>6 DEF Counted, Types, ActivitiesCounted
  <2>8. LocksCounted'
    BY <1>1, <1>3, <2>3, FiniteCounts DEF Counted, Types, LocksCounted
  <2> QED
    BY <2>1, <2>2, <2>7, <2>8 DEF Counted
<1> QED
  BY <1>2, <1>3 DEF FileLock
LEMMA CountedLeave ==
    ASSUME Counted, NEW o \in Ops, Leave(o)
    PROVE  Counted'
<1> DEFINE q == Home[o]
           last == gate[q].active = 1
           unlocks == last /\ gate[q].handle
<1>1. q \in Procs /\ pc[o] = "leaving" /\ level[o] \in 1 .. 2 /\ Types
  <2>1. pc[o] = "leaving"
    BY DEF Leave
  <2> QED
    BY <2>1, HandoverAssumption DEF Counted, Types, Levels
<1>2. gate[q].active >= 1 /\ (last => level[o] = 1)
  BY <1>1, InsideIsCounted
<1>3. /\ gate' = [gate EXCEPT ![q].active = @ - 1, ![q].handle = @ /\ ~ last]
      /\ level' = [level EXCEPT ![o] = @ - 1] /\ shared' = shared
      /\ pc' = [pc EXCEPT ![o] = IF unlocks THEN "unlocking"
                                 ELSE IF level[o] = 1 THEN "ended" ELSE "leaving"]
  BY DEF Leave, Thread
<1>4. Types'
  BY <1>1, <1>2, <1>3 DEF Types
<1>5. Levels'
  BY <1>1, <1>2, <1>3 DEF Counted, Types, Levels, Depth
<1>6. \A p \in Procs \ {q} : Held(p)' = Held(p) /\ Unlocking(p)' = Unlocking(p)
  BY <1>1, <1>3 DEF Types, Held, Unlocking
<1>7. Held(q)' = Held(q) \ {<<o, level[o]>>} /\ <<o, level[o]>> \in Held(q)
  BY <1>1, <1>3 DEF Types, Held
<1>8. Cardinality(Held(q)') = Cardinality(Held(q)) - 1
  BY <1>1, <1>7, FiniteCounts, FS_RemoveElement
<1>9. ActivitiesCounted'
  BY <1>1, <1>3, <1>6, <1>8 DEF Counted, Types, ActivitiesCounted
<1>10. LocksCounted'
  <2>1. CASE unlocks
    <3>1. Unlocking(q)' = Unlocking(q) \union {o} /\ o \notin Unlocking(q)
      BY <1>1, <1>3, <2>1 DEF Types, Unlocking
    <3>2. Cardinality(Unlocking(q)') = Cardinality(Unlocking(q)) + 1
      BY <1>1, <3>1, FiniteCounts, FS_AddElement
    <3> QED
      BY <1>1, <1>3, <1>6, <2>1, <3>2, FiniteCounts DEF Counted, Types, LocksCounted
  <2>2. CASE ~ unlocks
    <3>1. Unlocking(q)' = Unlocking(q)
      BY <1>1, <1>3, <2>2 DEF Types, Unlocking
    <3> QED
      BY <1>1, <1>2, <1>3, <1>6, <2>2, <3>1, FiniteCounts DEF Counted, Types, LocksCounted
  <2> QED
    BY <2>1, <2>2
<1> QED
  BY <1>4, <1>5, <1>9, <1>10 DEF Counted

LEMMA CountedUnlock ==
    ASSUME Counted, NEW o \in Ops, Unlock(o)
    PROVE  Counted'
<1> DEFINE q == Home[o]
<1>1. q \in Procs /\ pc[o] = "unlocking" /\ Types
  BY HandoverAssumption DEF Counted, Types, Unlock
<1>2. /\ gate' = gate /\ level' = level /\ pc' = [pc EXCEPT ![o] = "ended"]
      /\ shared' = [shared EXCEPT ![q] = @ - 1]
  BY DEF Unlock, Thread
<1>3. \A p \in Procs : Held(p)' = Held(p)
  BY <1>2 DEF Held
<1>4. \A p \in Procs \ {q} : Unlocking(p)' = Unlocking(p)
  BY <1>1, <1>2 DEF Types, Unlocking
<1>5. Unlocking(q)' = Unlocking(q) \ {o} /\ o \in Unlocking(q)
  BY <1>1, <1>2 DEF Types, Unlocking
<1>6. /\ Cardinality(Unlocking(q)') = Cardinality(Unlocking(q)) - 1
      /\ Cardinality(Unlocking(q)') \in Nat
  BY <1>1, <1>5, FiniteCounts, FS_RemoveElement, FS_CardinalityType
<1>7. shared[q] - 1 = Cardinality(Unlocking(q)') + (IF gate[q].handle THEN 1 ELSE 0)
  BY <1>1, <1>6, FiniteCounts DEF Counted, LocksCounted, Types
<1>8. Types'
  BY <1>1, <1>2, <1>6, <1>7 DEF Types
<1>9. Levels'
  BY <1>1, <1>2 DEF Counted, Types, Levels, Depth
<1>10. ActivitiesCounted' /\ LocksCounted'
  BY <1>1, <1>2, <1>3, <1>4, <1>7 DEF Counted, Types, ActivitiesCounted, LocksCounted
<1> QED
  BY <1>8, <1>9, <1>10 DEF Counted

LEMMA CountedExit ==
    ASSUME Counted, NEW q \in Procs, Exit(q)
    PROVE  Counted'
<1>1. Types'
  BY DEF Counted, Types, Exit, OpenGate
<1>2. Levels'
  BY DEF Counted, Types, Levels, Exit, Depth
<1>3. /\ \A p \in Procs \ {q} : Held(p)' = Held(p) /\ Unlocking(p)' = Unlocking(p)
      /\ Held(q)' = {} /\ Unlocking(q)' = {}
  BY DEF Counted, Types, Exit, Held, Unlocking
<1>4. ActivitiesCounted' /\ LocksCounted'
  <2>1. /\ \A p \in Procs \ {q} : gate'[p] = gate[p] /\ shared'[p] = shared[p]
        /\ gate'[q].active = 0 /\ gate'[q].handle = FALSE /\ shared'[q] = 0
    BY DEF Counted, Types, Exit, OpenGate
  <2>2. Cardinality({}) = 0
    BY FS_EmptySet
  <2> QED
    BY <1>3, <2>1, <2>2 DEF Counted, ActivitiesCounted, LocksCounted
<1> QED
  BY <1>1, <1>2, <1>4 DEF Counted

\* The migrator's thread is in no activity: it only sets flags of its gate.
LEMMA FlagsOnly ==
    ASSUME Counted, Begin \/ Adoption \/ Retry \/ UNCHANGED vars
    PROVE  /\ UNCHANGED <<shared, pc, level>>
           /\ gate' \in [Procs -> [active : Nat, handle : BOOLEAN, maintenance : BOOLEAN,
                                   retired : BOOLEAN]]
           /\ \A p \in Procs : gate'[p].active = gate[p].active /\ gate'[p].handle = gate[p].handle
<1> USE DEF Counted, Types, Procs, ToolOnly, opVars, files
<1>1. CASE Begin \/ Retry \/ UNCHANGED vars
  BY <1>1 DEF Begin, Retry, vars
<1>2. CASE Claim
  BY <1>2 DEF Claim
<1>3. CASE Quiesce
  <2>1. UNCHANGED <<shared, pc, level>>
    BY <1>3 DEF Quiesce
  <2>2. CASE gate' = gate
    BY <2>1, <2>2
  <2>3. CASE gate' = [gate EXCEPT ![Tool].maintenance = FALSE]
    BY <2>1, <2>3
  <2> QED
    BY <1>3, <2>2, <2>3 DEF Quiesce
<1>4. CASE Lock \/ Snapshot \/ Publish \/ Activate \/ Release
  BY <1>4 DEF Lock, Snapshot, Publish, Activate, Release
<1>5. CASE Retire
  <2>1. UNCHANGED <<shared, pc, level>>
    BY <1>5 DEF Retire
  <2>2. CASE gate' = gate
    BY <2>1, <2>2
  <2>3. CASE gate' = [gate EXCEPT ![Tool].retired = TRUE]
    BY <2>1, <2>3
  <2> QED
    BY <1>5, <2>2, <2>3 DEF Retire
<1>6. CASE Unmark \/ Undo \/ Unpublish \/ Move \/ Clear
  BY <1>6 DEF Unmark, Undo, Unpublish, Move, Clear
<1>7. CASE Reopen
  BY <1>7 DEF Reopen
<1> QED
  BY <1>1, <1>2, <1>3, <1>4, <1>5, <1>6, <1>7 DEF Adoption

LEMMA CountedFlags ==
    ASSUME Counted, Begin \/ Adoption \/ Retry \/ UNCHANGED vars
    PROVE  Counted'
<1>1. /\ UNCHANGED <<shared, pc, level>>
      /\ gate' \in [Procs -> [active : Nat, handle : BOOLEAN, maintenance : BOOLEAN,
                              retired : BOOLEAN]]
      /\ \A p \in Procs : gate'[p].active = gate[p].active /\ gate'[p].handle = gate[p].handle
  BY FlagsOnly
<1>2. Types' /\ Levels'
  BY <1>1 DEF Counted, Types, Levels
<1>3. \A p \in Procs : Held(p)' = Held(p) /\ Unlocking(p)' = Unlocking(p)
  BY <1>1 DEF Held, Unlocking
<1> QED
  BY <1>1, <1>2, <1>3 DEF Counted, ActivitiesCounted, LocksCounted

\* The gate of every process counts the activities it is in, and its file locks
\* are those of its gate and of the threads that are releasing one.
THEOREM CountsActivities == Spec => []Counted
<1>1. Init => Counted
  <2> SUFFICES ASSUME Init
               PROVE  Counted
    OBVIOUS
  <2>1. \A p \in Procs : Held(p) = {} /\ Unlocking(p) = {}
    BY DEF Init, Held, Unlocking
  <2>2. Types /\ Levels
    BY DEF Init, OpenGate, Types, Levels, Depth
  <2>3. \A p \in Procs : gate[p].active = 0 /\ gate[p].handle = FALSE /\ shared[p] = 0
    BY DEF Init, OpenGate
  <2>4. \A p \in Procs : Cardinality(Held(p)) = 0 /\ Cardinality(Unlocking(p)) = 0
    BY <2>1, FS_EmptySet
  <2>5. ActivitiesCounted
    BY <2>3, <2>4 DEF ActivitiesCounted
  <2>6. LocksCounted
    BY <2>3, <2>4 DEF LocksCounted
  <2> QED
    BY <2>2, <2>5, <2>6 DEF Counted
<1>2. Counted /\ [Next]_vars => Counted'
  <2> SUFFICES ASSUME Counted, [Next]_vars
               PROVE  Counted'
    OBVIOUS
  <2>1. ASSUME NEW o \in Ops, Operation(o) \/ UseTarget(o)
        PROVE  Counted'
    BY <2>1, CountedMoves, CountedFileLock, CountedLeave, CountedUnlock DEF Operation
  <2>2. CASE Crash
    BY <2>2, CountedExit DEF Crash, Procs
  <2>3. ASSUME NEW p \in Apps, Boot(p)
        PROVE  Counted'
    BY <2>3, CountedExit DEF Boot, Procs
  <2> QED
    BY <2>1, <2>2, <2>3, CountedFlags DEF Next
<1> QED
  BY <1>1, <1>2, PTL DEF Spec
(* ------------------------------- exclusion ------------------------------ *)

LEMMA CourseInvariant == Spec => []Course
<1>1. Init => Course
  BY DEF Init, Course, Adopting, Alone
<1>2. Course /\ [Next]_vars => Course'
  <2> SUFFICES ASSUME Course, [Next]_vars
               PROVE  Course'
    OBVIOUS
  <2> USE DEF Course, Adopting, Alone, files, localVars, toolVars, bounds, opVars
  <2>1. ASSUME NEW o \in Ops, Operation(o)
        PROVE  Course'
    <3>1. UNCHANGED <<step, moved, pending, published, failed, exclusive>>
      BY <2>1 DEF Operation, Ask, Awake, FileLock, Recheck, Write, Leave, Unlock, OpOnly
    <3> QED
      BY <3>1
  <2>2. ASSUME NEW o \in Ops, UseTarget(o)
        PROVE  Course'
    BY <2>2 DEF UseTarget
  <2>3. CASE Begin \/ Claim \/ Quiesce \/ Lock
    BY <2>3 DEF Begin, Claim, Quiesce, Lock, Goes, ToolOnly
  <2>4. CASE Snapshot
    BY <2>4 DEF Snapshot, Attempt, Goes, ToolOnly
  <2>5. CASE Publish
    BY <2>5 DEF Publish, Attempt, Goes, ToolOnly
  <2>6. CASE Activate
    <3>1. /\ UNCHANGED <<moved, pending, published, exclusive>>
          /\ step = "activate" /\ step' \in {"retire", "release"}
      BY <2>6 DEF Activate, Attempt, Goes, ToolOnly
    <3> QED
      BY <3>1
  <2>7. CASE Retire \/ Release \/ Unmark \/ Reopen
    BY <2>7 DEF Retire, Release, Unmark, Reopen, Goes, ToolOnly
  <2>8. CASE Undo \/ Unpublish \/ Move \/ Clear
    BY <2>8 DEF Undo, Unpublish, Move, Clear, Goes, ToolOnly
  <2>9. CASE Crash
    BY <2>9 DEF Crash, Goes
  <2>10. CASE Retry
    BY <2>10 DEF Retry
  <2>11. ASSUME NEW p \in Apps, Boot(p)
         PROVE  Course'
    BY <2>11 DEF Boot
  <2>12. CASE UNCHANGED vars
    BY <2>12 DEF vars
  <2> QED
    BY <2>1, <2>2, <2>3, <2>4, <2>5, <2>6, <2>7, <2>8, <2>9, <2>10, <2>11, <2>12
       DEF Next, Adoption
<1> QED
  BY <1>1, <1>2, PTL DEF Spec

LEMMA CoveredFileLock ==
    ASSUME Counted, Course, Covered, NEW o \in Ops, FileLock(o)
    PROVE  Covered'
<1> DEFINE q == Home[o]
           first == gate[q].active = 0 /\ SourceExists
<1>1. q \in Procs /\ Types /\ moved' = moved /\ exclusive' = exclusive
  BY HandoverAssumption DEF Counted, Types, FileLock, OpOnly
<1>2. CASE UNCHANGED <<gate, shared>>
  BY <1>1, <1>2 DEF Covered
<1>3. CASE /\ ~ (first /\ exclusive)
           /\ gate' = [gate EXCEPT ![q].active = @ + 1, ![q].handle = @ \/ first]
           /\ shared' = [shared EXCEPT ![q] = IF first THEN @ + 1 ELSE @]
  <2>1. /\ \A p \in Procs \ {q} : gate'[p] = gate[p] /\ shared'[p] = shared[p]
        /\ gate'[q].handle = (gate[q].handle \/ first)
        /\ exclusive => shared'[q] = shared[q]
    BY <1>1, <1>3 DEF Types
  <2>2. ~ moved => gate[q].handle \/ first
    BY <1>1 DEF Covered, Types, SourceExists
  <2> QED
    BY <1>1, <2>1, <2>2 DEF Covered
<1> QED
  BY <1>2, <1>3 DEF FileLock

LEMMA CoveredLeave ==
    ASSUME Counted, Covered, NEW o \in Ops, Leave(o)
    PROVE  Covered'
<1> DEFINE q == Home[o]
           last == gate[q].active = 1
<1>1. q \in Procs /\ Types
  BY HandoverAssumption DEF Counted, Types
<1>2. /\ gate' = [gate EXCEPT ![q].active = @ - 1, ![q].handle = @ /\ ~ last]
      /\ shared' = shared /\ moved' = moved /\ exclusive' = exclusive
  BY DEF Leave, OpOnly
<1>3. /\ \A p \in Procs \ {q} : gate'[p] = gate[p]
      /\ gate'[q].active = gate[q].active - 1
      /\ gate'[q].handle = (gate[q].handle /\ ~ last)
  BY <1>1, <1>2 DEF Types
<1>4. ~ moved /\ gate'[q].active > 0 => gate'[q].handle
  BY <1>1, <1>3 DEF Covered, Types
<1> QED
  BY <1>2, <1>3, <1>4 DEF Covered

LEMMA CoveredUnlock ==
    ASSUME Counted, Covered, NEW o \in Ops, Unlock(o)
    PROVE  Covered'
<1>1. /\ gate' = gate /\ shared' = [shared EXCEPT ![Home[o]] = @ - 1]
      /\ moved' = moved /\ exclusive' = exclusive
  BY DEF Unlock, OpOnly
<1>2. Home[o] \in Procs /\ shared \in [Procs -> Nat] /\ shared' \in [Procs -> Nat]
  BY HandoverAssumption, CountedUnlock DEF Counted, Types
<1>3. ~ exclusive
  <2>1. shared'[Home[o]] = shared[Home[o]] - 1 /\ shared'[Home[o]] \in Nat
    BY <1>1, <1>2
  <2> QED
    BY <1>2, <2>1 DEF Covered
<1> QED
  BY <1>1, <1>3 DEF Covered

LEMMA CoveredExit ==
    ASSUME Counted, Covered, NEW q \in Procs, Exit(q), moved' = moved, exclusive' => exclusive
    PROVE  Covered'
<1>1. /\ \A p \in Procs \ {q} : gate'[p] = gate[p] /\ shared'[p] = shared[p]
      /\ gate'[q].active = 0 /\ shared'[q] = 0
  BY DEF Counted, Types, Exit, OpenGate
<1> QED
  BY <1>1 DEF Covered
\* While the migrator has the file lock, no operation of any process is inside the old
\* database, whatever fails or dies: it was let in under the lock of its process.
THEOREM MigratesAlone == Spec => []AdoptsAlone
<1>1. Init => Covered
  BY DEF Init, OpenGate, Covered
<1>2. Counted /\ Course /\ Covered /\ [Next]_vars => Covered'
  <2> SUFFICES ASSUME Counted, Course, Covered, [Next]_vars
               PROVE  Covered'
    OBVIOUS
  <2>1. ASSUME NEW o \in Ops,
               Ask(o) \/ Awake(o) \/ Recheck(o) \/ Write(o) \/ UseTarget(o)
        PROVE  Covered'
    BY <2>1 DEF Ask, Awake, Recheck, Write, UseTarget, OpOnly, Covered
  <2>2. ASSUME NEW o \in Ops, Operation(o) \/ UseTarget(o)
        PROVE  Covered'
    BY <2>1, <2>2, CoveredFileLock, CoveredLeave, CoveredUnlock DEF Operation
  <2>3. CASE Begin \/ Adoption \/ Retry \/ UNCHANGED vars
    <3>1. /\ \A p \in Procs : gate'[p].active = gate[p].active
                              /\ gate'[p].handle = gate[p].handle
          /\ shared' = shared
      BY <2>3, FlagsOnly DEF Counted
    <3>2. /\ moved => moved'
          /\ exclusive' => exclusive \/ \A p \in Procs : shared[p] = 0
      BY <2>3 DEF Begin, Adoption, Retry, Claim, Quiesce, Lock, Snapshot, Publish, Activate,
                  Retire, Release, Unmark, Reopen, Undo, Unpublish, Move, Clear, Attempt,
                  files, vars
    <3> QED
      BY <3>1, <3>2 DEF Covered
  <2>4. CASE Crash
    BY <2>4, CoveredExit DEF Crash, files, Procs
  <2>5. ASSUME NEW p \in Apps, Boot(p)
        PROVE  Covered'
    BY <2>5, CoveredExit DEF Boot, Procs
  <2> QED
    BY <2>2, <2>3, <2>4, <2>5 DEF Next
<1>3. Counted /\ Course /\ Covered => AdoptsAlone
  <2> SUFFICES ASSUME Counted, Course, Covered, exclusive, NEW o \in Ops, pc[o] = "in"
               PROVE  FALSE
    BY DEF AdoptsAlone
  <2>1. Home[o] \in Procs
    BY HandoverAssumption
  <2>2. gate[Home[o]].active \in Nat /\ gate[Home[o]].active >= 1
    BY <2>1, InsideIsCounted DEF Counted, Types
  <2>3. ~ moved
    BY DEF Course, Adopting
  <2>4. gate[Home[o]].handle
    BY <2>1, <2>2, <2>3 DEF Covered
  <2>5. shared[Home[o]] >= 1
    BY <2>1, <2>4, FiniteCounts DEF Counted, LocksCounted
  <2> QED
    BY <2>1, <2>5 DEF Covered
<1> QED
  BY <1>1, <1>2, <1>3, CountsActivities, CourseInvariant, PTL DEF Spec
(* ------------------------------ after a failure ------------------------- *)

\* As long as no migrator has died, marker and flag are those of a migration under
\* way or of a source that is retired for good, and then the settings have changed.
Tidy ==
    ~ crashed =>
        /\ marker # "none" => gate[Tool].retired \/ step \in Alone \union {"lock", "unmark"}
        /\ gate[Tool].maintenance =>
             step \in Alone \union {"quiesce", "lock", "unmark", "reopen"}
        /\ gate[Tool].retired =>
             /\ settings = "target" /\ published
             /\ step \in {"idle", "release", "unmark", "reopen", "move", "clear"}
             /\ step \in {"release", "unmark", "reopen"} => ~ failed
        /\ step = "retire" => settings = "target"
        /\ step \in (Alone \ {"release"}) \union {"claim", "quiesce", "lock"} => ~ failed

LEMMA TidyInvariant ==
    ASSUME ~ UnlinkMayFail
    PROVE  Spec => []Tidy
<1>1. Init => Tidy
  BY DEF Init, OpenGate, Procs, Tidy
<1>2. Types /\ Course /\ Tidy /\ [Next]_vars => Tidy'
  <2> SUFFICES ASSUME Types, Course, Tidy, [Next]_vars
               PROVE  Tidy'
    OBVIOUS
  <2> USE DEF Tidy, Alone, files, localVars, toolVars, bounds, opVars
  <2> Tool \in Procs
    BY DEF Procs
  <2>1. ASSUME NEW o \in Ops, Operation(o)
        PROVE  Tidy'
    <3>1. /\ gate'[Tool].maintenance = gate[Tool].maintenance
          /\ gate'[Tool].retired = gate[Tool].retired
      BY <2>1, HandoverAssumption
         DEF Operation, Ask, Awake, FileLock, Recheck, Write, Leave, Unlock, Types
    <3>2. UNCHANGED <<step, marker, published, settings, failed, crashed>>
      BY <2>1 DEF Operation, Ask, Awake, FileLock, Recheck, Write, Leave, Unlock, OpOnly
    <3> QED
      BY <3>1, <3>2
  <2>2. ASSUME NEW o \in Ops, UseTarget(o)
        PROVE  Tidy'
    BY <2>2 DEF UseTarget
  <2>3. CASE Begin
    BY <2>3 DEF Begin, Goes
  <2>4. CASE Claim
    <3>1. gate'[Tool].maintenance /\ gate'[Tool].retired = gate[Tool].retired
      BY <2>4 DEF Claim, Types
    <3> QED
      BY <2>4, <3>1 DEF Claim, Goes, ToolOnly
  <2>5. CASE Quiesce
    <3>1. CASE gate' = gate /\ step' = "lock"
      BY <2>5, <3>1 DEF Quiesce, Goes, ToolOnly
    <3>2. CASE gate' = [gate EXCEPT ![Tool].maintenance = FALSE] /\ step' = "undo"
                /\ marker' = marker
      <4>1. ~ gate'[Tool].maintenance /\ gate'[Tool].retired = gate[Tool].retired
        BY <3>2 DEF Types
      <4> QED
        BY <2>5, <3>2, <4>1 DEF Quiesce, ToolOnly
    <3> QED
      BY <2>5, <3>1, <3>2 DEF Quiesce, Goes
  <2>6. CASE Lock
    BY <2>6 DEF Lock, Goes, ToolOnly
  <2>7. CASE Snapshot
    BY <2>7 DEF Snapshot, Attempt, Goes, ToolOnly
  <2>8. CASE Publish
    BY <2>8 DEF Publish, Attempt, Goes, ToolOnly
  <2>9. CASE Activate
    BY <2>9 DEF Activate, Attempt, Goes, ToolOnly
  <2>10. CASE Retire
    <3>1. CASE gate' = gate /\ UNCHANGED marker
      BY <2>10, <3>1 DEF Retire, Goes, ToolOnly
    <3>2. CASE gate' = [gate EXCEPT ![Tool].retired = TRUE] /\ UNCHANGED failed
      BY <2>10, <3>2 DEF Course, Retire, Goes, ToolOnly
    <3> QED
      BY <2>10, <3>1, <3>2 DEF Retire
  <2>11. CASE Release
    BY <2>11 DEF Release, Goes, ToolOnly
  <2>12. CASE Unmark
    BY <2>12 DEF Unmark, Goes, ToolOnly
  <2>13. CASE Reopen
    <3>1. ~ gate'[Tool].maintenance /\ gate'[Tool].retired = gate[Tool].retired
      BY <2>13 DEF Reopen, Types
    <3> QED
      BY <2>13, <3>1 DEF Reopen, Goes, ToolOnly
  <2>14. CASE Undo \/ Unpublish
    BY <2>14 DEF Undo, Unpublish, Goes, ToolOnly
  <2>15. CASE Move \/ Clear
    BY <2>15 DEF Move, Clear, ClearedMarker, Goes, ToolOnly
  <2>16. CASE Crash
    BY <2>16 DEF Crash
  <2>17. CASE Retry
    BY <2>17 DEF Retry, ClearedMarker
  <2>18. ASSUME NEW p \in Apps, Boot(p)
         PROVE  Tidy'
    <3>1. gate'[Tool] = gate[Tool]
      BY <2>18, HandoverAssumption DEF Boot, Exit, Types
    <3> QED
      BY <2>18, <3>1 DEF Boot, ClearedMarker
  <2>19. CASE UNCHANGED vars
    BY <2>19 DEF vars
  <2> QED
    BY <2>1, <2>2, <2>3, <2>4, <2>5, <2>6, <2>7, <2>8, <2>9, <2>10, <2>11, <2>12, <2>13,
       <2>14, <2>15, <2>16, <2>17, <2>18, <2>19 DEF Next, Adoption
<1>3. Counted => Types
  BY DEF Counted
<1> QED
  BY <1>1, <1>2, <1>3, CountsActivities, CourseInvariant, PTL DEF Spec

\* Where a marker can always be removed, a migration that failed, at whatever step and
\* however often, leaves the old database as usable as before.
THEOREM FailureLeavesUsable ==
    ASSUME ~ UnlinkMayFail
    PROVE  Spec => []StaysUsable
<1>1. Course /\ Tidy => StaysUsable
  BY DEF Course, Alone, Tidy, StaysUsable
<1> QED
  BY <1>1, CourseInvariant, TidyInvariant, PTL
(* ------------------------------ what is kept ---------------------------- *)

\* The old database takes no more writes: its file is gone, or it is marked and nobody
\* is inside.
Sealed == moved \/ (marker # "none" /\ \A o \in Ops : pc[o] # "in")

\* What the settings name has everything the old database has, and it stays so.
Complete == settings = "target" => published /\ content \subseteq copy /\ Sealed

\* How far an attempt has come, and what it leaves if it ends there.
Progress ==
    /\ faults \in Nat /\ step \in Adopting \union {"idle", "move", "clear"}
    /\ step \in Alone => exclusive
    /\ step \in Alone \union {"lock"} => marker # "none"
    /\ step = "publish" => content \subseteq snapshot
    /\ step = "activate" => published /\ content \subseteq copy
    /\ step \in {"claim", "quiesce", "lock", "snapshot", "publish", "activate"} =>
         ~ activated /\ ~ failed
    /\ step \in {"claim", "quiesce", "lock", "snapshot", "publish", "activate", "unpublish"}
         => settings # "target"
    /\ step = "retire" => activated /\ ~ failed
    /\ step \in {"release", "unmark", "reopen", "undo"} =>
         /\ ~ activated => settings # "target"
         /\ failed /\ activated => faults >= 1
    /\ step = "undo" => failed
    /\ step \in {"release", "unmark"} /\ ~ failed => gate[Tool].retired
    /\ \/ step \in {"idle", "retire", "move", "clear"}
       \/ step \in {"release", "unmark", "reopen"} /\ ~ failed
       => Complete

\* No operation writes to a sealed database, or beside the migrator, and none unseals it.
LEMMA ProgressOperation ==
    ASSUME Types, AdoptsAlone, Progress, NEW o \in Ops, Operation(o)
    PROVE  Progress'
<1>1. UNCHANGED <<marker, moved, published, copy, settings, exclusive, step, snapshot,
                  activated, failed, faults>>
  BY DEF Operation, Ask, Awake, FileLock, Recheck, Write, Leave, Unlock, OpOnly, toolVars,
         localVars, bounds
<1>2. gate'[Tool].retired = gate[Tool].retired
  BY HandoverAssumption
     DEF Operation, Ask, Awake, FileLock, Recheck, Write, Leave, Unlock, Types, Procs
<1>3. content' = content \/ (pc[o] = "in" /\ ~ moved)
  BY DEF Operation, Ask, Awake, FileLock, Recheck, Write, Leave, Unlock, NoWrite
<1>4. \A q \in Ops : pc'[q] = "in" => pc[q] = "in" \/ marker = "none"
  BY DEF Operation, Ask, Awake, FileLock, Recheck, Write, Leave, Unlock, Proceed, Refuse,
         Thread, Types
<1>5. (exclusive => content' = content) /\ (Sealed => content' = content /\ Sealed')
  BY <1>1, <1>3, <1>4 DEF AdoptsAlone, Sealed
<1> QED
  BY <1>1, <1>2, <1>5 DEF Progress, Complete, Alone, Adopting

\* A process that ends writes nothing, and is inside no more.
LEMMA SealedExit ==
    ASSUME Types, Sealed, NEW p \in Procs, Exit(p), moved' = moved,
           marker' = marker \/ marker' = ClearedMarker
    PROVE  Sealed'
<1>1. \A o \in Ops : pc'[o] = "in" => pc[o] = "in"
  BY DEF Exit
<1>2. marker' = "none" => moved \/ marker = "none"
  BY DEF ClearedMarker, SourceExists
<1> QED
  BY <1>1, <1>2 DEF Sealed

LEMMA ProgressInvariant ==
    ASSUME MaxFaults <= 1
    PROVE  Spec => []Progress
<1>1. Init => Progress
  BY DEF Init, Progress, Complete, Alone
<1>2. Types /\ Course /\ AdoptsAlone /\ Progress /\ [Next]_vars => Progress'
  <2> SUFFICES ASSUME Types, Course, AdoptsAlone, Progress, [Next]_vars
               PROVE  Progress'
    OBVIOUS
  <2> USE DEF Alone, Adopting, files, localVars, toolVars, bounds, opVars
  <2> Tool \in Procs
    BY DEF Procs
  <2>1. ASSUME NEW o \in Ops, Operation(o)
        PROVE  Progress'
    BY <2>1, ProgressOperation
  <2>2. ASSUME NEW o \in Ops, UseTarget(o)
        PROVE  Progress'
    <3>1. /\ published' /\ (published => copy \subseteq copy')
          /\ UNCHANGED <<content, marker, moved, settings, exclusive, gate, step, snapshot,
                         activated, failed, faults>>
      BY <2>2 DEF UseTarget
    <3>2. Sealed => Sealed'
      BY <2>2 DEF UseTarget, Thread, Sealed, Types
    <3> QED
      BY <3>1, <3>2 DEF Progress, Complete
  <2>3. CASE Begin
    BY <2>3 DEF Begin, Goes, Progress, Complete
  <2>4. CASE Claim
    BY <2>4 DEF Claim, Goes, ToolOnly, Progress, Complete
  <2>5. CASE Quiesce
    BY <2>5 DEF Quiesce, Fault, Goes, ToolOnly, Progress, Complete
  <2>6. CASE Lock
    BY <2>6 DEF Lock, Fault, Goes, ToolOnly, Progress, Complete
  <2>7. CASE Snapshot
    BY <2>7 DEF Snapshot, Attempt, Fault, Goes, ToolOnly, Progress, Complete
  <2>8. CASE Publish
    BY <2>8 DEF Publish, Attempt, Fault, Goes, ToolOnly, Progress, Complete
  <2>9. CASE Activate
    <3>1. /\ step = "activate" /\ faults' \in {faults, faults + 1}
          /\ \/ step' = "retire" /\ activated' /\ failed' = failed
             \/ step' = "release" /\ failed' /\ UNCHANGED <<settings, activated>>
          /\ UNCHANGED <<content, moved, marker, published, copy, exclusive, gate, pc>>
      BY <2>9 DEF Activate, Attempt, Fault, Goes, ToolOnly
    <3>2. ~ failed /\ Sealed'
      BY <3>1 DEF Progress, AdoptsAlone, Sealed
    <3> QED
      BY <3>1, <3>2 DEF Progress, Complete
  <2>10. CASE Retire
    BY <2>10 DEF Retire, Fault, Goes, ToolOnly, Progress, Complete, Sealed, Types
  <2>11. CASE Release
    BY <2>11 DEF Release, Goes, ToolOnly, Progress, Complete, Sealed
  <2>12. CASE Unmark
    BY <2>12 DEF Unmark, Fault, Goes, ToolOnly, Progress, Complete, Sealed
  <2>13. CASE Reopen
    BY <2>13 DEF Reopen, Goes, ToolOnly, Progress, Complete, Sealed
  <2>14. CASE Undo
    BY <2>14, HandoverAssumption DEF Undo, Fault, Goes, ToolOnly, Progress, Complete
  <2>15. CASE Unpublish
    BY <2>15 DEF Unpublish, Fault, Goes, ToolOnly, Progress, Complete
  <2>16. CASE Move
    BY <2>16 DEF Move, Fault, Goes, ToolOnly, Progress, Complete, Sealed
  <2>17. CASE Clear
    BY <2>17 DEF Clear, ClearedMarker, SourceExists, Goes, ToolOnly, Progress, Complete,
                 Sealed
  <2>18. CASE Crash
    <3>1. /\ step' = "idle" /\ faults = 0 /\ faults' = 1 /\ step # "idle"
          /\ UNCHANGED <<content, moved, marker, published, copy, settings>>
      BY <2>18, HandoverAssumption DEF Crash, Fault, Goes, Progress
    <3>2. ~ exclusive'
      BY <2>18 DEF Crash
    <3>3. Complete
      BY <3>1 DEF Progress, Complete
    <3>4. Complete'
      BY <2>18, <3>1, <3>3, SealedExit DEF Crash, Complete
    <3> QED
      BY <3>1, <3>2, <3>4 DEF Progress
  <2>19. CASE Retry
    <3>1. pending /\ (moved' = TRUE \/ (moved /\ moved' = moved))
      BY <2>19 DEF Retry
    <3>2. moved' /\ step \notin Adopting
      BY <3>1 DEF Course
    <3>3. UNCHANGED <<content, published, copy, settings, exclusive, gate, step, snapshot,
                      activated, failed, faults>>
      BY <2>19 DEF Retry
    <3> QED
      BY <3>2, <3>3 DEF Progress, Complete, Sealed
  <2>20. ASSUME NEW p \in Apps, Boot(p)
         PROVE  Progress'
    <3>1. gate'[Tool] = gate[Tool]
      BY <2>20, HandoverAssumption DEF Boot, Exit, Types
    <3>2. UNCHANGED <<content, moved, published, copy, settings, exclusive, step, snapshot,
                      activated, failed, faults>>
      BY <2>20 DEF Boot
    <3>3. Sealed => Sealed'
      BY <2>20, SealedExit DEF Boot, Procs
    <3>4. marker' = "none" => moved \/ marker = "none"
      BY <2>20 DEF Boot, ClearedMarker, SourceExists
    <3>5. step \in Alone \union {"lock"} => marker' # "none"
      BY <3>4 DEF Course, Adopting, Progress
    <3> QED
      BY <3>1, <3>2, <3>3, <3>5 DEF Progress, Complete
  <2>21. CASE UNCHANGED vars
    BY <2>21 DEF vars, Progress, Complete, Sealed
  <2> QED
    BY <2>1, <2>2, <2>3, <2>4, <2>5, <2>6, <2>7, <2>8, <2>9, <2>10, <2>11, <2>12, <2>13,
       <2>14, <2>15, <2>16, <2>17, <2>18, <2>19, <2>20, <2>21 DEF Next, Adoption
<1>3. Counted => Types
  BY DEF Counted
<1> QED
  BY <1>1, <1>2, <1>3, CountsActivities, CourseInvariant, MigratesAlone, PTL DEF Spec

\* Where one step fails or one migrator dies, at whatever point, and however many attempts
\* are made: the database the settings name has every write to the old one.
THEOREM NothingIsLeftBehind ==
    ASSUME MaxFaults <= 1
    PROVE  Spec => []WritesAreAdopted
<1>1. Progress => WritesAreAdopted
  BY DEF Progress, Complete, WritesAreAdopted
<1> QED
  BY <1>1, ProgressInvariant, PTL
=============================================================================
