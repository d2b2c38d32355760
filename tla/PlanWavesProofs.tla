-------------------------- MODULE PlanWavesProofs ----------------------------
(***************************************************************************)
(* planWaves never places a task before or beside one of its dependencies, *)
(* refuses exactly the lists that repeat a task or have a cycle, and gives *)
(* every other task the earliest wave, whatever the crew's task list and   *)
(* Context edges are.                                                      *)
(*                                                                         *)
(* The argument: indegree[j] is the number of edges into j that have not   *)
(* been consumed (CountInv), every Context edge is in adjacent once the    *)
(* edge loop is over (RecordedInv), and a task is put in the ready list    *)
(* when its count is zero (NextInv).  So all edges into it are consumed,   *)
(* and an edge is consumed only by a task that already has a wave.         *)
(***************************************************************************)
EXTENDS PlanWaves, FiniteSetTheorems, WellFoundedInduction, TLAPS

\* The q-th edge out of task a has been walked by the loop over the waves.
Consumed(a, q) ==
  /\ waveOf[a] >= 0
  /\ pc = "wave" /\ waveOf[a] = Len(waves) =>
       \E p \in DOMAIN ready : ready[p] = a /\ (p < i \/ (p = i /\ q < k))

\* The edges into j that are not walked yet, as <<source, position>> pairs.
Pending(j) ==
  {e \in (1..n) \X Nat : /\ e[2] \in DOMAIN adjacent[e[1]]
                         /\ adjacent[e[1]][e[2]] = j
                         /\ ~Consumed(e[1], e[2])}

CountInv ==
  \A j \in 1..n : IsFiniteSet(Pending(j)) /\ indegree[j] = Cardinality(Pending(j))

\* The edge of the q-th Context entry of task a is in adjacent.
Recorded(a, q) ==
  Known(context[tasks[a]][q]) =>
    \E p \in DOMAIN adjacent[index(context[tasks[a]][q])] :
      adjacent[index(context[tasks[a]][q])][p] = a

RecordedInv ==
  \A a \in 1..n : \A q \in DOMAIN context[tasks[a]] :
    \/ pc \in {"roots", "kahn", "wave", "accepted"}
    \/ pc = "edges" /\ (a < i \/ (a = i /\ q < k))
    => Recorded(a, q)

EarlyInv ==
  /\ pc \in {"index", "edges", "roots"} => waves = <<>> /\ \A j \in 1..n : waveOf[j] = -1
  /\ pc \in {"index", "edges"} => next = <<>>
  /\ pc = "index" => i = 1 /\ k = 1

Distinct(s) == \A p, q \in DOMAIN s : s[p] = s[q] => p = q

NextInv ==
  /\ Distinct(next)
  /\ pc \in {"roots", "kahn", "wave"} =>
       \A p \in DOMAIN next : indegree[next[p]] = 0 /\ waveOf[next[p]] = -1
  /\ pc = "roots" => \A p \in DOMAIN next : next[p] < i

PlacedInv ==
  /\ \A j \in 1..n : waveOf[j] >= -1 /\ (waveOf[j] >= 0 => indegree[j] = 0)
  /\ pc # "wave" => \A j \in 1..n : waveOf[j] < Len(waves)
  /\ pc = "wave" => /\ Distinct(ready)
                    /\ \A j \in 1..n : waveOf[j] <= Len(waves)
                    /\ \A j \in 1..n :
                         waveOf[j] = Len(waves) <=> \E p \in DOMAIN ready : ready[p] = j

IInv == /\ TypeOK /\ CountInv /\ RecordedInv /\ EarlyInv /\ NextInv /\ PlacedInv
        /\ DepsStrictlyEarlier

------------------------------------------------------------------------------
\* The map from pointers to positions: a known pointer is at its index.
LEMMA IndexOf ==
  ASSUME TypeOK, NEW d, Known(d)
  PROVE  index(d) \in 1..n /\ tasks[index(d)] = d
BY DEF Known, index

LEMMA NType == TypeOK => n \in Nat /\ tasks \in Seq(Ptr) /\ \A d \in Ptr : context[d] \in Seq(Ptr)
BY ListsAssumption, ContextsAssumption DEF TypeOK, n

LEMMA TypeInit == Init => TypeOK
BY ListsAssumption DEF Init, TypeOK, n

\* Every step keeps the types.
LEMMA TypeStep == TypeOK /\ [Next]_vars => TypeOK'
<1> SUFFICES ASSUME TypeOK, [Next]_vars PROVE TypeOK' OBVIOUS
<1>t. tasks' = tasks /\ context' = context
  BY DEF Next, vars, Index, IgnoreEntry, SelfEntry, AddEdge, NextTask, EndEdges, Root, EndRoots, StartWave, Unlock,
         NextOfWave, EndWave, Finish
<1>e. n \in Nat /\ n' = n BY <1>t, NType DEF n
<1>1. CASE Index BY <1>1, <1>e DEF TypeOK, Index
<1>2. CASE IgnoreEntry BY <1>2, <1>e DEF TypeOK, IgnoreEntry
<1>2a. CASE SelfEntry BY <1>2a, <1>e DEF TypeOK, SelfEntry
<1>2b. CASE AddEdge
  <2>1. i \in 1..n BY <1>2b, <1>e DEF AddEdge, AtEntry, TypeOK
  <2>2. index(Entry) \in 1..n BY <1>2b, IndexOf DEF AddEdge
  <2>3. indegree' \in [1..n -> Int]
    <3>1. indegree \in [1..n -> Int] BY DEF TypeOK
    <3>2. indegree' = [indegree EXCEPT ![i] = @ + 1] BY <1>2b DEF AddEdge
    <3> QED BY <3>1, <3>2, <2>1, <1>e
  <2>4. adjacent' \in [1..n -> Seq(1..n)] BY <1>2b, <2>1, <2>2 DEF TypeOK, AddEdge
  <2>5. UNCHANGED <<tasks, context, pc, i, waveOf, ready, next, waves>> /\ k' = k + 1
    BY <1>2b DEF AddEdge
  <2>6. k' \in Nat \ {0} BY <2>5 DEF TypeOK
  <2> QED BY <2>3, <2>4, <2>5, <2>6, <1>e DEF TypeOK
<1>3. CASE NextTask BY <1>3, <1>e DEF TypeOK, NextTask
<1>4. CASE EndEdges BY <1>4, <1>e DEF TypeOK, EndEdges
<1>5. CASE Root
  <2>1. i \in 1..n BY <1>5, <1>e DEF Root, TypeOK
  <2>2. next' \in Seq(1..n)
    <3>1. next \in Seq(1..n) BY DEF TypeOK
    <3>2. next' = next \/ next' = Append(next, i) BY <1>5 DEF Root
    <3>3. Append(next, i) \in Seq(1..n) BY <3>1, <2>1
    <3> QED BY <3>1, <3>2, <3>3
  <2> QED BY <1>5, <1>e, <2>2 DEF TypeOK, Root
<1>6. CASE EndRoots BY <1>6, <1>e DEF TypeOK, EndRoots
<1>7. CASE StartWave
  <2>1. waveOf' \in [1..n -> Int] BY <1>7, <1>e DEF TypeOK, StartWave
  <2> QED BY <1>7, <1>e, <2>1 DEF TypeOK, StartWave
<1>8. CASE Unlock
  <2> DEFINE j == adjacent[ready[i]][k]
  <2>1. i \in DOMAIN ready /\ ready[i] \in 1..n
    <3>1. ready \in Seq(1..n) /\ i \in Nat \ {0} /\ i <= Len(ready) BY <1>8 DEF Unlock, TypeOK
    <3> QED BY <3>1, <1>e
  <2>2. adjacent[ready[i]] \in Seq(1..n) BY <2>1 DEF TypeOK
  <2>3. j \in 1..n
    <3>1. k \in Nat \ {0} /\ k <= Len(adjacent[ready[i]]) BY <1>8 DEF Unlock, TypeOK
    <3> QED BY <3>1, <2>2, <1>e
  <2> HIDE DEF j
  <2>4. indegree' \in [1..n -> Int]
    <3>1. indegree \in [1..n -> Int] BY DEF TypeOK
    <3>2. indegree' = [indegree EXCEPT ![j] = @ - 1] BY <1>8 DEF Unlock, j
    <3> QED BY <3>1, <3>2, <2>3, <1>e
  <2>5. next' \in Seq(1..n)
    <3>1. next \in Seq(1..n) BY DEF TypeOK
    <3>2. next' = next \/ next' = Append(next, j) BY <1>8 DEF Unlock, j
    <3> HIDE DEF j
    <3>3. Append(next, j) \in Seq(1..n) BY <3>1, <2>3
    <3> QED BY <3>1, <3>2, <3>3
  <2>6. k' = k + 1 /\ UNCHANGED <<tasks, context, pc, i, adjacent, waveOf, ready, waves>>
    BY <1>8 DEF Unlock
  <2> QED BY <1>e, <2>4, <2>5, <2>6 DEF TypeOK
<1>9. CASE NextOfWave
  <2>1. i' \in Nat \ {0} /\ k' \in Nat \ {0} BY <1>9 DEF TypeOK, NextOfWave
  <2>2. UNCHANGED <<tasks, context, pc, indegree, adjacent, waveOf, ready, next, waves>>
    BY <1>9 DEF NextOfWave
  <2> QED BY <1>e, <2>1, <2>2 DEF TypeOK
<1>10. CASE EndWave BY <1>10, <1>e DEF TypeOK, EndWave
<1>11. CASE Finish BY <1>11, <1>e DEF TypeOK, Finish
<1>12. CASE UNCHANGED vars BY <1>12, <1>e DEF TypeOK, vars
<1> QED BY <1>1, <1>2, <1>2a, <1>2b, <1>3, <1>4, <1>5, <1>6, <1>7, <1>8, <1>9, <1>10, <1>11, <1>12 DEF Next

\* The variables of planWaves keep their types.
THEOREM TypeCorrect == Spec => []TypeOK
BY TypeInit, TypeStep, PTL DEF Spec

------------------------------------------------------------------------------
\* No step changes the crew, so n is the same before and after it.
LEMMA RigidCrew == TypeOK /\ [Next]_vars => n \in Nat /\ n' = n /\ tasks' = tasks /\ context' = context
<1> SUFFICES ASSUME TypeOK, [Next]_vars PROVE n \in Nat /\ tasks' = tasks /\ context' = context
  BY DEF n
<1> QED
  BY NType DEF Next, vars, Index, IgnoreEntry, SelfEntry, AddEdge, NextTask, EndEdges, Root, EndRoots,
         StartWave, Unlock, NextOfWave, EndWave, Finish

LEMMA PairEq ==
  ASSUME NEW S, NEW T, NEW a \in S, NEW q \in T
  PROVE  \A e \in S \X T : e = <<a, q>> <=> e[1] = a /\ e[2] = q
OBVIOUS

\* A step that keeps the edges and consumes none keeps the count.
LEMMA SameCount ==
  ASSUME TypeOK, CountInv, n' = n, adjacent' = adjacent, indegree' = indegree,
         \A a \in 1..n : \A q \in DOMAIN adjacent[a] : Consumed(a, q)' <=> Consumed(a, q)
  PROVE  CountInv'
<1>1. ASSUME NEW j \in 1..n PROVE Pending(j)' = Pending(j)
  BY DEF Pending
<1> QED BY <1>1 DEF CountInv

\* Once the edge loop is over the recorded edges do not change.
LEMMA SameRecorded ==
  ASSUME RecordedInv, n' = n, tasks' = tasks, context' = context, adjacent' = adjacent,
         pc \in {"kahn", "wave"}
  PROVE  RecordedInv'
<1>1. ASSUME NEW a \in 1..n, NEW q \in DOMAIN context[tasks[a]] PROVE Recorded(a, q)'
  <2>1. Recorded(a, q) BY DEF RecordedInv
  <2> QED BY <2>1 DEF Recorded, Known, index
<1> QED BY <1>1 DEF RecordedInv

LEMMA SameDeps ==
  ASSUME DepsStrictlyEarlier, n' = n, tasks' = tasks, context' = context, waveOf' = waveOf
  PROVE  DepsStrictlyEarlier'
<1>1. \A j \in 1..n : Deps(j)' = Deps(j) BY DEF Deps, Known, index
<1> QED BY <1>1 DEF DepsStrictlyEarlier

\* AddEdge adds one pending edge, the one it appends.
LEMMA CountAddEdge == IInv /\ AddEdge => CountInv'
<1> SUFFICES ASSUME IInv, AddEdge PROVE CountInv' OBVIOUS
<1>0. n \in Nat /\ n' = n BY RigidCrew DEF IInv, Next
<1>1. i \in 1..n /\ index(Entry) \in 1..n
  BY <1>0, IndexOf DEF AddEdge, AtEntry, TypeOK, IInv
<1> DEFINE s == index(Entry)
           l == Len(adjacent[s])
<1> HIDE DEF s
<1>s. s \in 1..n /\ s = index(Entry) BY <1>1 DEF s
<1>2. adjacent[s] \in Seq(1..n) /\ adjacent \in [1..n -> Seq(1..n)] BY <1>s DEF IInv, TypeOK
<1>3. adjacent' = [adjacent EXCEPT ![s] = Append(@, i)] BY <1>s DEF AddEdge
<1>4. \A a \in 1..n, q \in Nat : ~Consumed(a, q) /\ ~Consumed(a, q)'
  BY DEF AddEdge, AtEntry, IInv, EarlyInv, Consumed
<1>5. Pending(i)' = Pending(i) \cup {<<s, l + 1>>} /\ <<s, l + 1>> \notin Pending(i)
  <2>1. \A a \in 1..n : \A q \in Nat :
          (q \in DOMAIN adjacent'[a] /\ adjacent'[a][q] = i) <=>
          (q \in DOMAIN adjacent[a] /\ adjacent[a][q] = i) \/ (a = s /\ q = l + 1)
    BY <1>0, <1>s, <1>1, <1>2, <1>3
  <2>2. l + 1 \notin DOMAIN adjacent[s] /\ l + 1 \in Nat BY <1>2
  <2>3. \A e \in (1..n) \X Nat : e = <<s, l + 1>> <=> e[1] = s /\ e[2] = l + 1
    BY PairEq, <2>2, <1>s
  <2>4. <<s, l + 1>> \in (1..n) \X Nat BY <2>2, <1>s
  <2>5. i' = i BY DEF AddEdge
  <2> HIDE DEF l
  <2>6. Pending(i)' = Pending(i) \cup {<<s, l + 1>>}
    BY <2>1, <2>3, <2>4, <2>5, <1>4, <1>0 DEF Pending
  <2> QED BY <2>2, <2>6 DEF Pending
<1>6. ASSUME NEW j \in 1..n, j # i PROVE Pending(j)' = Pending(j)
  <2>1. \A a \in 1..n : \A q \in Nat :
          (q \in DOMAIN adjacent'[a] /\ adjacent'[a][q] = j) <=>
          (q \in DOMAIN adjacent[a] /\ adjacent[a][q] = j)
    BY <1>0, <1>s, <1>1, <1>2, <1>3, <1>6
  <2> QED BY <2>1, <1>4, <1>0 DEF Pending
<1>7. indegree' = [indegree EXCEPT ![i] = @ + 1] /\ indegree \in [1..n -> Int]
  BY DEF AddEdge, IInv, TypeOK
<1>8. IsFiniteSet(Pending(i)) /\ indegree[i] = Cardinality(Pending(i)) BY <1>1 DEF IInv, CountInv
<1>9. IsFiniteSet(Pending(i)') /\ indegree'[i] = Cardinality(Pending(i)')
  <2>1. Cardinality(Pending(i) \cup {<<s, l + 1>>}) = Cardinality(Pending(i)) + 1
        /\ IsFiniteSet(Pending(i) \cup {<<s, l + 1>>})
    BY <1>5, <1>8, FS_AddElement
  <2>2. indegree'[i] = indegree[i] + 1 BY <1>7, <1>1
  <2> QED BY <2>1, <2>2, <1>5, <1>8
<1>10. ASSUME NEW j \in 1..n, j # i
       PROVE IsFiniteSet(Pending(j)') /\ indegree'[j] = Cardinality(Pending(j)')
  <2>1. indegree'[j] = indegree[j] BY <1>7, <1>10
  <2> QED BY <2>1, <1>6, <1>10 DEF IInv, CountInv
<1>11. i' = i BY DEF AddEdge
<1> QED BY <1>0, <1>9, <1>10, <1>11 DEF CountInv

\* An element of a sequence over S is in S.
LEMMA SeqElement == ASSUME NEW S, NEW s \in Seq(S), NEW q \in DOMAIN s PROVE s[q] \in S
OBVIOUS

\* Unlock removes one pending edge, the one it walks.
LEMMA UnlockEdge ==
  ASSUME IInv, Unlock, NEW CONSTANT a, NEW CONSTANT j, a = ready[i], j = adjacent[a][k]
  PROVE  /\ a \in 1..n /\ j \in 1..n
         /\ <<a, k>> \in Pending(j)
         /\ Pending(j)' = Pending(j) \ {<<a, k>>}
         /\ \A o \in 1..n : o # j => Pending(o)' = Pending(o)
         /\ indegree[j] \in Nat \ {0}
         /\ waveOf[j] = -1
<1>0. n \in Nat /\ n' = n BY RigidCrew DEF IInv, Next
<1>1. /\ ready \in Seq(1..n) /\ i \in Nat \ {0} /\ i <= Len(ready)
      /\ k \in Nat \ {0} /\ k <= Len(adjacent[a])
      /\ pc = "wave" /\ adjacent \in [1..n -> Seq(1..n)]
      /\ waves \in Seq(Seq(1..n)) /\ waveOf \in [1..n -> Int]
  BY DEF IInv, TypeOK, Unlock
<1>1a. /\ pc' = pc /\ i' = i /\ k' = k + 1 /\ adjacent' = adjacent
       /\ ready' = ready /\ waves' = waves /\ waveOf' = waveOf
  BY DEF Unlock
<1>2. i \in DOMAIN ready /\ a \in 1..n
  <2>1. i \in DOMAIN ready BY <1>1
  <2>2. ready \in Seq(1..n) BY <1>1
  <2>3. ready[i] \in 1..n BY <2>1, <2>2, SeqElement
  <2> QED BY <2>1, <2>3
<1>3. adjacent[a] \in Seq(1..n) /\ k \in DOMAIN adjacent[a] /\ j \in 1..n
  <2>1. adjacent[a] \in Seq(1..n) BY <1>1, <1>2
  <2>2. k \in 1..Len(adjacent[a]) BY <1>1, <2>1
  <2> QED BY <2>1, <2>2, <1>0
<1>4. Distinct(ready) /\ waveOf[a] = Len(waves)
  BY <1>1, <1>2 DEF IInv, PlacedInv
<1>5. ~Consumed(a, k) BY <1>1, <1>2, <1>4 DEF Consumed, Distinct
<1>6. <<a, k>> \in Pending(j) BY <1>1, <1>2, <1>3, <1>5 DEF Pending
<1>7. \A b \in 1..n : \A q \in Nat :
        Consumed(b, q)' <=> Consumed(b, q) \/ (b = a /\ q = k)
  <2> SUFFICES ASSUME NEW b \in 1..n, NEW q \in Nat
               PROVE  Consumed(b, q)' <=> Consumed(b, q) \/ (b = a /\ q = k)
    OBVIOUS
  <2>1. CASE waveOf[b] # Len(waves) BY <2>1, <1>1, <1>1a, <1>4 DEF Consumed
  <2>2. CASE waveOf[b] = Len(waves)
    <3>1. Consumed(b, q) <=> \E p \in DOMAIN ready : ready[p] = b /\ (p < i \/ (p = i /\ q < k))
      BY <2>2, <1>1 DEF Consumed
    <3>2. Consumed(b, q)' <=> \E p \in DOMAIN ready : ready[p] = b /\ (p < i \/ (p = i /\ q < k + 1))
      BY <2>2, <1>1, <1>1a DEF Consumed
    <3>3. q < k + 1 <=> q < k \/ q = k BY <1>1
    <3> QED BY <3>1, <3>2, <3>3, <1>2
  <2> QED BY <2>1, <2>2
<1>8. Pending(j)' = Pending(j) \ {<<a, k>>}
  <2>1. \A e \in (1..n) \X Nat : e = <<a, k>> <=> e[1] = a /\ e[2] = k BY PairEq, <1>1, <1>2
  <2> QED BY <2>1, <1>0, <1>1a, <1>7, <1>2, <1>3 DEF Pending
<1>9. ASSUME NEW o \in 1..n, o # j PROVE Pending(o)' = Pending(o)
  BY <1>0, <1>1a, <1>7, <1>2, <1>3, <1>9 DEF Pending
<1>10. indegree[j] \in Nat \ {0}
  <2>1. IsFiniteSet(Pending(j)) /\ indegree[j] = Cardinality(Pending(j)) BY <1>3 DEF IInv, CountInv
  <2> QED BY <2>1, <1>6, FS_CardinalityType, FS_EmptySet
<1>11. waveOf[j] = -1
  <2>1. ~(waveOf[j] >= 0) BY <1>3, <1>10 DEF IInv, PlacedInv
  <2>2. waveOf[j] >= -1 BY <1>3 DEF IInv, PlacedInv
  <2> QED BY <2>1, <2>2, <1>3, <1>1
<1> QED BY <1>2, <1>3, <1>6, <1>8, <1>9, <1>10, <1>11

------------------------------------------------------------------------------
LEMMA InvInit == Init => IInv
<1> SUFFICES ASSUME Init PROVE IInv OBVIOUS
<1>1. TypeOK BY TypeInit
<1>2. n \in Nat BY <1>1, NType
<1>3. \A j \in 1..n : Pending(j) = {} /\ indegree[j] = 0
  <2>1. \A a \in 1..n : DOMAIN adjacent[a] = {} BY DEF Init
  <2> QED BY <2>1 DEF Pending, Init
<1>4. CountInv BY <1>3, FS_EmptySet DEF CountInv
<1>5. RecordedInv BY DEF Init, RecordedInv
<1>6. EarlyInv /\ NextInv /\ PlacedInv BY DEF Init, EarlyInv, NextInv, PlacedInv, Distinct
<1>7. DepsStrictlyEarlier BY DEF Init, DepsStrictlyEarlier
<1> QED BY <1>1, <1>4, <1>5, <1>6, <1>7 DEF IInv

\* Steps that touch neither the edges nor the waves: the loops' bookkeeping.
LEMMA InvBookkeeping ==
  IInv /\ TypeOK' /\ (Index \/ IgnoreEntry \/ SelfEntry \/ NextTask \/ EndEdges
                    \/ Root \/ EndRoots \/ Finish \/ UNCHANGED vars) => IInv'
<1> SUFFICES ASSUME IInv, TypeOK',
                    Index \/ IgnoreEntry \/ SelfEntry \/ NextTask \/ EndEdges
                    \/ Root \/ EndRoots \/ Finish \/ UNCHANGED vars
             PROVE  IInv'
  OBVIOUS
<1>0. n \in Nat /\ n' = n /\ tasks' = tasks /\ context' = context
  BY RigidCrew DEF IInv, Next
<1>1. /\ adjacent' = adjacent /\ indegree' = indegree /\ waveOf' = waveOf
      /\ waves' = waves /\ ready' = ready
  BY DEF Index, IgnoreEntry, SelfEntry, NextTask, EndEdges, Root, EndRoots, Finish, vars
<1>2. pc = "wave" <=> pc' = "wave"
  BY DEF Index, IgnoreEntry, SelfEntry, NextTask, EndEdges, Root, EndRoots, Finish, vars, AtEntry
<1>3. pc = "wave" => i' = i /\ k' = k
  BY DEF Index, IgnoreEntry, SelfEntry, NextTask, EndEdges, Root, EndRoots, Finish, vars, AtEntry
<1>4. \A a \in 1..n : \A q \in DOMAIN adjacent[a] : Consumed(a, q)' <=> Consumed(a, q)
  BY <1>1, <1>2, <1>3 DEF Consumed
<1>5. CountInv' BY <1>0, <1>1, <1>4, SameCount DEF IInv
<1>6. RecordedInv'
  <2> SUFFICES ASSUME NEW a \in 1..n, NEW q \in DOMAIN context[tasks[a]],
                      \/ pc' \in {"roots", "kahn", "wave", "accepted"}
                      \/ pc' = "edges" /\ (a < i' \/ (a = i' /\ q < k'))
               PROVE  Recorded(a, q)'
    BY <1>0 DEF RecordedInv
  <2>1. Recorded(a, q)' <=> Recorded(a, q) BY <1>0, <1>1 DEF Recorded, Known, index
  <2>2. CASE \/ pc \in {"roots", "kahn", "wave", "accepted"}
             \/ pc = "edges" /\ (a < i \/ (a = i /\ q < k))
    BY <2>1, <2>2 DEF IInv, RecordedInv
  <2>3. CASE IgnoreEntry /\ a = i /\ q = k
    <3>1. ~Known(context[tasks[a]][q]) BY <2>3 DEF IgnoreEntry, Entry
    <3> QED BY <3>1, <2>1 DEF Recorded
  <2>4. context[tasks[a]] \in Seq(Ptr) /\ q \in 1..Len(context[tasks[a]])
    <3>1. tasks \in Seq(Ptr) /\ a \in 1..Len(tasks) /\ Len(tasks) \in Nat BY NType DEF IInv, n
    <3>2. tasks[a] \in Ptr BY <3>1
    <3>3. context[tasks[a]] \in Seq(Ptr) BY <3>2, NType DEF IInv
    <3> QED BY <3>3
  <2>5. i \in Nat \ {0} /\ k \in Nat \ {0} BY DEF IInv, TypeOK
  <2>6. CASE Index BY <2>6, <2>4, <2>5 DEF Index, IInv, EarlyInv
  <2>7. CASE IgnoreEntry BY <2>7, <2>2, <2>3, <2>4, <2>5 DEF IgnoreEntry, AtEntry
  <2>8. CASE SelfEntry BY <2>8 DEF SelfEntry
  <2>9. CASE NextTask BY <2>9, <2>2, <2>4, <2>5, <1>0 DEF NextTask
  <2>10. CASE EndEdges BY <2>10, <2>2, <2>5, <1>0 DEF EndEdges
  <2>11. CASE Root BY <2>11, <2>2 DEF Root
  <2>12. CASE EndRoots BY <2>12, <2>2 DEF EndRoots
  <2>13. CASE Finish BY <2>13, <2>2 DEF Finish
  <2>14. CASE UNCHANGED vars BY <2>14, <2>2 DEF vars
  <2> QED BY <2>6, <2>7, <2>8, <2>9, <2>10, <2>11, <2>12, <2>13, <2>14
<1>7. EarlyInv'
  BY <1>0, <1>1 DEF IInv, EarlyInv, Index, IgnoreEntry, SelfEntry, NextTask, EndEdges, Root, EndRoots,
         Finish, vars, AtEntry
<1>8. NextInv'
  <2>1. next \in Seq(1..n) BY DEF IInv, TypeOK
  <2>2. CASE Root /\ indegree[i] = 0
    <3>1. i \in 1..n /\ waveOf[i] = -1 /\ next' = Append(next, i) /\ i' = i + 1 /\ pc' = "roots" /\ pc = "roots"
      BY <2>2, <1>0 DEF Root, IInv, TypeOK, EarlyInv
    <3>2. \A p \in DOMAIN next : next[p] < i /\ next[p] \in 1..n BY <3>1, <2>1, <1>0 DEF IInv, NextInv
    <3>3. \A p \in DOMAIN next' : (p \in DOMAIN next /\ next'[p] = next[p]) \/ (p = Len(next) + 1 /\ next'[p] = i)
      BY <3>1, <2>1, <1>0
    <3>4. Distinct(next') BY <3>1, <3>2, <3>3, <1>0 DEF IInv, NextInv, Distinct
    <3>5. \A p \in DOMAIN next' : indegree[next'[p]] = 0 /\ waveOf[next'[p]] = -1
      BY <3>1, <3>3, <2>2 DEF IInv, NextInv
    <3>6. \A p \in DOMAIN next' : next'[p] < i' BY <3>1, <3>2, <3>3, <1>0
    <3> QED BY <3>1, <3>4, <3>5, <3>6, <1>1 DEF NextInv, Distinct
  <2>3. CASE Root /\ indegree[i] # 0
    <3>1. next' = next /\ i' = i + 1 /\ pc' = "roots" /\ pc = "roots" /\ i \in Nat BY <2>3 DEF Root, IInv, TypeOK
    <3>2. \A p \in DOMAIN next : next[p] < i /\ next[p] \in 1..n BY <3>1, <2>1, <1>0 DEF IInv, NextInv
    <3>3. \A p \in DOMAIN next' : next'[p] < i' BY <3>1, <3>2, <1>0
    <3> QED BY <3>1, <3>3, <1>1 DEF IInv, NextInv, Distinct
  <2>4. CASE ~Root
    <3>1. next' = next
      BY <2>4 DEF Index, IgnoreEntry, SelfEntry, NextTask, EndEdges, EndRoots, Finish, vars
    <3>2. pc' = "roots" /\ pc # "roots" => next = <<>>
      BY <2>4 DEF IInv, EarlyInv, Index, IgnoreEntry, SelfEntry, NextTask, EndEdges, EndRoots, Finish, vars, AtEntry
    <3>3. pc' = "kahn" => pc \in {"roots", "kahn"}
      BY <2>4 DEF IInv, EarlyInv, Index, IgnoreEntry, SelfEntry, NextTask, EndEdges, EndRoots, Finish, vars, AtEntry
    <3>4. pc' = "roots" /\ pc = "roots" => i' = i
      BY <2>4 DEF IInv, EarlyInv, Index, IgnoreEntry, SelfEntry, NextTask, EndEdges, EndRoots, Finish, vars, AtEntry
    <3>5. Distinct(next') BY <3>1 DEF IInv, NextInv, Distinct
    <3>6. pc' = "roots" => \A p \in DOMAIN next' : next'[p] < i' BY <3>1, <3>2, <3>4 DEF IInv, NextInv
    <3>7. pc' \in {"roots", "kahn", "wave"} => \A p \in DOMAIN next' : indegree[next'[p]] = 0 /\ waveOf[next'[p]] = -1
      BY <3>1, <3>2, <3>3, <1>2 DEF IInv, NextInv
    <3> QED BY <3>5, <3>6, <3>7, <1>1 DEF NextInv, Distinct
  <2> QED BY <2>2, <2>3, <2>4
<1>9. PlacedInv' BY <1>0, <1>1, <1>2 DEF IInv, PlacedInv, Distinct
<1>10. DepsStrictlyEarlier' BY <1>0, <1>1, SameDeps DEF IInv
<1> QED BY <1>5, <1>6, <1>7, <1>8, <1>9, <1>10 DEF IInv

LEMMA InvAddEdge == IInv /\ TypeOK' /\ AddEdge => IInv'
<1> SUFFICES ASSUME IInv, TypeOK', AddEdge PROVE IInv' OBVIOUS
<1>0. n \in Nat /\ n' = n /\ tasks' = tasks /\ context' = context BY RigidCrew DEF IInv, Next
<1>1. /\ pc = "edges" /\ pc' = pc /\ i' = i /\ k' = k + 1 /\ waveOf' = waveOf
      /\ waves' = waves /\ next' = next /\ ready' = ready
      /\ i \in Nat \ {0} /\ k \in Nat \ {0} /\ i <= n
  BY DEF AddEdge, AtEntry, IInv, TypeOK
<1>2. \A j \in 1..n : waveOf[j] = -1 BY <1>1 DEF IInv, EarlyInv
<1>3. waves = <<>> /\ next = <<>> BY <1>1 DEF IInv, EarlyInv
<1>4. CountInv' BY CountAddEdge
<1>5. RecordedInv'
  <2> SUFFICES ASSUME NEW a \in 1..n, NEW q \in DOMAIN context[tasks[a]],
                      a < i \/ (a = i /\ q < k + 1)
               PROVE  Recorded(a, q)'
    BY <1>0, <1>1 DEF RecordedInv
  <2> DEFINE d == context[tasks[a]][q]
  <2> SUFFICES ASSUME Known(d)
               PROVE  \E p \in DOMAIN adjacent'[index(d)] : adjacent'[index(d)][p] = a
    BY <1>0 DEF Recorded, Known, index
  <2>1. index(d) \in 1..n BY IndexOf DEF IInv
  <2>2. adjacent \in [1..n -> Seq(1..n)] /\ index(Entry) \in 1..n
    BY IndexOf DEF IInv, TypeOK, AddEdge
  <2> HIDE DEF d
  <2>3. adjacent' = [adjacent EXCEPT ![index(Entry)] = Append(@, i)] BY DEF AddEdge
  <2>4. adjacent[index(d)] \in Seq(1..n) /\ i \in 1..n BY <2>1, <2>2, <1>0, <1>1
  <2>5. CASE a < i \/ (a = i /\ q < k)
    <3>1. Recorded(a, q) BY <2>5, <1>1 DEF IInv, RecordedInv
    <3>2. PICK p \in DOMAIN adjacent[index(d)] : adjacent[index(d)][p] = a
      BY <3>1 DEF Recorded, d
    <3>3. p \in DOMAIN adjacent'[index(d)] /\ adjacent'[index(d)][p] = a
      BY <3>2, <2>1, <2>2, <2>3, <2>4, <1>0
    <3> QED BY <3>3
  <2>6. CASE a = i /\ ~(q < k)
    <3>1. context[tasks[a]] \in Seq(Ptr)
      <4>1. tasks \in Seq(Ptr) /\ a \in 1..Len(tasks) /\ Len(tasks) \in Nat BY NType DEF IInv, n
      <4>2. tasks[a] \in Ptr BY <4>1
      <4> QED BY <4>2, NType DEF IInv
    <3>2. q = k BY <3>1, <2>6, <1>1
    <3>3. d = Entry BY <3>2, <2>6 DEF d, Entry
    <3>4. adjacent'[index(d)] = Append(adjacent[index(d)], a) BY <3>3, <2>1, <2>2, <2>3, <2>6
    <3>5. /\ Len(adjacent[index(d)]) + 1 \in DOMAIN adjacent'[index(d)]
          /\ adjacent'[index(d)][Len(adjacent[index(d)]) + 1] = a
      BY <3>4, <2>4, <1>0
    <3> QED BY <3>5
  <2> QED BY <2>5, <2>6
<1>6. EarlyInv' BY <1>0, <1>1, <1>2, <1>3 DEF EarlyInv
<1>7. NextInv' BY <1>1, <1>3 DEF NextInv, Distinct
<1>8. PlacedInv' BY <1>0, <1>1, <1>2, <1>3 DEF PlacedInv
<1>9. DepsStrictlyEarlier' BY <1>0, <1>1, <1>2 DEF DepsStrictlyEarlier
<1> QED BY <1>4, <1>5, <1>6, <1>7, <1>8, <1>9 DEF IInv

LEMMA InvStartWave == IInv /\ TypeOK' /\ StartWave => IInv'
<1> SUFFICES ASSUME IInv, TypeOK', StartWave PROVE IInv' OBVIOUS
<1>0. n \in Nat /\ n' = n /\ tasks' = tasks /\ context' = context BY RigidCrew DEF IInv, Next
<1>1. /\ pc = "kahn" /\ pc' = "wave" /\ i' = 1 /\ k' = 1 /\ waves' = waves
      /\ adjacent' = adjacent /\ indegree' = indegree /\ ready' = next /\ next' = <<>>
  BY DEF StartWave
<1>2. /\ next \in Seq(1..n) /\ waveOf \in [1..n -> Int] /\ waves \in Seq(Seq(1..n))
      /\ adjacent \in [1..n -> Seq(1..n)]
  BY DEF IInv, TypeOK
<1>3. \A j \in 1..n : waveOf'[j] = IF \E p \in DOMAIN next : next[p] = j THEN Len(waves) ELSE waveOf[j]
  BY DEF StartWave
<1>4. \A j \in 1..n : waveOf[j] < Len(waves) /\ waveOf[j] >= -1 BY <1>1 DEF IInv, PlacedInv
<1>5. \A p \in DOMAIN next : indegree[next[p]] = 0 /\ waveOf[next[p]] = -1 BY <1>1 DEF IInv, NextInv
<1>6. Len(waves) \in Nat BY <1>2
<1>7. \A j \in 1..n : waveOf'[j] = Len(waves) <=> \E p \in DOMAIN next : next[p] = j
  BY <1>3, <1>4, <1>6, <1>2
<1>8. \A a \in 1..n : \A q \in DOMAIN adjacent[a] : Consumed(a, q)' <=> Consumed(a, q)
  <2> SUFFICES ASSUME NEW a \in 1..n, NEW q \in DOMAIN adjacent[a]
               PROVE  Consumed(a, q)' <=> Consumed(a, q)
    OBVIOUS
  <2>1. q \in Nat \ {0}
    <3>1. adjacent[a] \in Seq(1..n) BY <1>2
    <3> QED BY <3>1, <1>0
  <2>2. CASE \E p \in DOMAIN next : next[p] = a
    <3>0. waveOf[a] = -1 BY <2>2, <1>5
    <3>1. ~Consumed(a, q) BY <3>0 DEF Consumed
    <3>2. waveOf'[a] = Len(waves') BY <2>2, <1>7, <1>1
    <3>3. \A p \in DOMAIN next : p \in Nat \ {0} BY <1>2
    <3>4. ~Consumed(a, q)' BY <3>2, <3>3, <2>1, <1>1 DEF Consumed
    <3> QED BY <3>1, <3>4
  <2>3. CASE ~\E p \in DOMAIN next : next[p] = a
    <3>1. waveOf'[a] = waveOf[a] BY <2>3, <1>3
    <3> QED BY <3>1, <1>4, <1>1, <1>2, <1>6 DEF Consumed
  <2> QED BY <2>2, <2>3
<1>9. CountInv' BY <1>0, <1>1, <1>8, SameCount DEF IInv
<1>10. RecordedInv' BY <1>0, <1>1, SameRecorded DEF IInv
<1>11. EarlyInv' /\ NextInv' BY <1>1 DEF EarlyInv, NextInv, Distinct
<1>12. PlacedInv'
  <2>1. \A j \in 1..n : waveOf'[j] >= -1 /\ waveOf'[j] <= Len(waves)
    BY <1>3, <1>4, <1>6, <1>2
  <2>2. \A j \in 1..n : waveOf'[j] >= 0 => indegree[j] = 0
    BY <1>3, <1>5 DEF IInv, PlacedInv
  <2>3. Distinct(next) BY DEF IInv, NextInv
  <2> QED BY <2>1, <2>2, <2>3, <1>7, <1>0, <1>1 DEF PlacedInv, Distinct
<1>13. DepsStrictlyEarlier'
  <2> SUFFICES ASSUME NEW j \in 1..n, waveOf'[j] >= 0, NEW d \in Deps(j)
               PROVE  waveOf'[d] >= 0 /\ waveOf'[d] < waveOf'[j]
    BY <1>0 DEF DepsStrictlyEarlier, Deps, Known, index
  <2>1. d \in 1..n BY DEF Deps
  <2>2. CASE \E p \in DOMAIN next : next[p] = j
    <3>1. waveOf'[j] = Len(waves) BY <2>2, <1>3
    <3>2. indegree[j] = 0 BY <2>2, <1>5
    <3>3. Pending(j) = {} BY <3>2, FS_EmptySet DEF IInv, CountInv
    <3>4. PICK q \in DOMAIN context[tasks[j]] :
             Known(context[tasks[j]][q]) /\ d = index(context[tasks[j]][q])
      BY DEF Deps
    <3>5. Recorded(j, q) BY <1>1 DEF IInv, RecordedInv
    <3>6. PICK p \in DOMAIN adjacent[d] : adjacent[d][p] = j BY <3>4, <3>5 DEF Recorded
    <3>7. p \in Nat BY <2>1, <1>2
    <3>8. <<d, p>> \notin Pending(j) BY <3>3
    <3>9. Consumed(d, p) BY <3>6, <3>7, <3>8, <2>1 DEF Pending
    <3>10. waveOf[d] >= 0 /\ waveOf[d] < Len(waves) BY <3>9, <2>1, <1>4 DEF Consumed
    <3>11. ~\E r \in DOMAIN next : next[r] = d
      <4>1. waveOf[d] # -1 BY <3>10, <2>1, <1>2
      <4> QED BY <4>1, <1>5
    <3> QED BY <3>1, <3>10, <3>11, <2>1, <1>3
  <2>3. CASE ~\E p \in DOMAIN next : next[p] = j
    <3>1. waveOf[j] >= 0 BY <2>3, <1>3
    <3>2. waveOf[d] >= 0 /\ waveOf[d] < waveOf[j] BY <3>1 DEF IInv, DepsStrictlyEarlier
    <3>3. ~\E r \in DOMAIN next : next[r] = d
      <4>1. waveOf[d] # -1 BY <3>2, <2>1, <1>2
      <4> QED BY <4>1, <1>5
    <3> QED BY <3>2, <3>3, <2>1, <2>3, <1>3
  <2> QED BY <2>2, <2>3
<1> QED BY <1>9, <1>10, <1>11, <1>12, <1>13 DEF IInv

LEMMA InvUnlock == IInv /\ TypeOK' /\ Unlock => IInv'
<1> SUFFICES ASSUME IInv, TypeOK', Unlock PROVE IInv' OBVIOUS
<1>0. n \in Nat /\ n' = n /\ tasks' = tasks /\ context' = context BY RigidCrew DEF IInv, Next
<1>1. PICK a, j : a = ready[i] /\ j = adjacent[a][k] OBVIOUS
<1>2. /\ a \in 1..n /\ j \in 1..n
      /\ <<a, k>> \in Pending(j)
      /\ Pending(j)' = Pending(j) \ {<<a, k>>}
      /\ \A o \in 1..n : o # j => Pending(o)' = Pending(o)
      /\ indegree[j] \in Nat \ {0}
      /\ waveOf[j] = -1
  BY <1>1, UnlockEdge
<1>3. /\ pc = "wave" /\ pc' = pc /\ i' = i /\ adjacent' = adjacent /\ waveOf' = waveOf
      /\ ready' = ready /\ waves' = waves
      /\ indegree' = [indegree EXCEPT ![j] = @ - 1]
      /\ next' = IF indegree[j] - 1 = 0 THEN Append(next, j) ELSE next
  BY <1>1 DEF Unlock
<1>4. indegree \in [1..n -> Int] /\ next \in Seq(1..n) BY DEF IInv, TypeOK
<1>5. indegree'[j] = indegree[j] - 1 /\ \A o \in 1..n : o # j => indegree'[o] = indegree[o]
  BY <1>2, <1>3, <1>4
<1>6. CountInv'
  <2>1. \A o \in 1..n : IsFiniteSet(Pending(o)) /\ indegree[o] = Cardinality(Pending(o))
    BY DEF IInv, CountInv
  <2>2. IsFiniteSet(Pending(j)') /\ Cardinality(Pending(j)') = Cardinality(Pending(j)) - 1
    <3> DEFINE P == Pending(j)
               e == <<a, k>>
    <3>1. IsFiniteSet(P) /\ e \in P BY <2>1, <1>2
    <3>2. Pending(j)' = P \ {e} BY <1>2
    <3> HIDE DEF P, e
    <3>3. IsFiniteSet(P \ {e}) /\ Cardinality(P \ {e}) = Cardinality(P) - 1 BY <3>1, FS_RemoveElement
    <3> QED BY <3>2, <3>3 DEF P
  <2>3. indegree'[j] = Cardinality(Pending(j)') BY <2>1, <2>2, <1>2, <1>5
  <2>4. ASSUME NEW o \in 1..n PROVE IsFiniteSet(Pending(o)') /\ indegree'[o] = Cardinality(Pending(o)')
    <3>1. CASE o = j BY <2>2, <2>3, <3>1
    <3>2. CASE o # j
      <4>1. Pending(o)' = Pending(o) BY <1>2, <3>2
      <4>2. indegree'[o] = indegree[o] BY <1>5, <3>2
      <4> HIDE <1>2, <1>5
      <4> QED BY <2>1, <4>1, <4>2
    <3> QED BY <3>1, <3>2
  <2> QED BY <2>4, <1>0 DEF CountInv
<1>7. RecordedInv' BY <1>0, <1>3, SameRecorded DEF IInv
<1>8. EarlyInv' BY <1>3 DEF EarlyInv
<1>9. NextInv'
  <2>1. \A p \in DOMAIN next : indegree[next[p]] = 0 /\ waveOf[next[p]] = -1 /\ next[p] \in 1..n
    BY <1>0, <1>3, <1>4 DEF IInv, NextInv
  <2>2. \A p \in DOMAIN next : next[p] # j BY <2>1, <1>2
  <2>3. Distinct(next) BY DEF IInv, NextInv
  <2>4. CASE indegree[j] - 1 = 0
    <3>1. next' = Append(next, j) BY <2>4, <1>3
    <3>2. \A p \in DOMAIN next' : (p \in DOMAIN next /\ next'[p] = next[p])
                                  \/ (p = Len(next) + 1 /\ next'[p] = j)
      <4>1. next \in Seq(1..n) /\ j \in 1..n BY <1>2, <1>4
      <4> QED BY <3>1, <4>1
    <3>3. Distinct(next') BY <3>2, <2>2, <2>3 DEF Distinct
    <3>4. \A p \in DOMAIN next' : indegree'[next'[p]] = 0 /\ waveOf[next'[p]] = -1
      BY <3>2, <2>1, <2>2, <2>4, <1>5, <1>2
    <3> QED BY <3>3, <3>4, <1>3 DEF NextInv, Distinct
  <2>5. CASE indegree[j] - 1 # 0
    <3>1. next' = next BY <2>5, <1>3
    <3>2. \A p \in DOMAIN next' : indegree'[next'[p]] = 0 /\ waveOf[next'[p]] = -1
      BY <3>1, <2>1, <2>2, <1>5
    <3> QED BY <3>1, <3>2, <2>3, <1>3 DEF NextInv, Distinct
  <2> QED BY <2>4, <2>5
<1>10. PlacedInv'
  <2>1. \A o \in 1..n : waveOf[o] >= -1 /\ (waveOf[o] >= 0 => indegree'[o] = 0)
    BY <1>2, <1>5 DEF IInv, PlacedInv
  <2> QED BY <2>1, <1>0, <1>3 DEF IInv, PlacedInv, Distinct
<1>11. DepsStrictlyEarlier' BY <1>0, <1>3, SameDeps DEF IInv
<1> QED BY <1>6, <1>7, <1>8, <1>9, <1>10, <1>11 DEF IInv

\* Moving on to the next task of the wave, or closing the wave, consumes no edge.
LEMMA InvWaveEnd == IInv /\ TypeOK' /\ (NextOfWave \/ EndWave) => IInv'
<1> SUFFICES ASSUME IInv, TypeOK', NextOfWave \/ EndWave PROVE IInv' OBVIOUS
<1>0. n \in Nat /\ n' = n /\ tasks' = tasks /\ context' = context BY RigidCrew DEF IInv, Next
<1>1. /\ pc = "wave" /\ adjacent' = adjacent /\ waveOf' = waveOf /\ ready' = ready
      /\ indegree' = indegree /\ next' = next
  BY DEF NextOfWave, EndWave
<1>2. /\ ready \in Seq(1..n) /\ waveOf \in [1..n -> Int] /\ waves \in Seq(Seq(1..n))
      /\ adjacent \in [1..n -> Seq(1..n)] /\ i \in Nat \ {0} /\ k \in Nat \ {0}
      /\ Len(waves) \in Nat
  BY DEF IInv, TypeOK
<1>3. /\ \A j \in 1..n : waveOf[j] <= Len(waves)
      /\ \A j \in 1..n : waveOf[j] = Len(waves) <=> \E p \in DOMAIN ready : ready[p] = j
  BY <1>1 DEF IInv, PlacedInv
<1>4. \A a \in 1..n : \A q \in DOMAIN adjacent[a] : Consumed(a, q)' <=> Consumed(a, q)
  <2> SUFFICES ASSUME NEW a \in 1..n, NEW q \in DOMAIN adjacent[a]
               PROVE  Consumed(a, q)' <=> Consumed(a, q)
    OBVIOUS
  <2>1. q \in Nat \ {0} /\ q <= Len(adjacent[a]) /\ Len(adjacent[a]) \in Nat BY <1>2
  <2>2. \A p \in DOMAIN ready : p \in Nat \ {0} /\ p <= Len(ready) BY <1>2
  <2>3. CASE NextOfWave
    <3>1. /\ pc' = pc /\ waves' = waves /\ i' = i + 1 /\ k' = 1
          /\ k > Len(adjacent[ready[i]])
      BY <2>3 DEF NextOfWave
    <3>2. \A p \in DOMAIN ready : ready[p] = a =>
            ((p < i + 1 \/ (p = i + 1 /\ q < 1)) <=> (p < i \/ (p = i /\ q < k)))
      BY <3>1, <2>1, <2>2, <1>2
    <3> QED BY <3>1, <3>2, <1>1 DEF Consumed
  <2>4. CASE EndWave
    <3>1. pc' = "kahn" /\ i > Len(ready) BY <2>4 DEF EndWave
    <3>2. waveOf[a] = Len(waves) => \E p \in DOMAIN ready : ready[p] = a /\ p < i
      BY <3>1, <2>2, <1>2, <1>3
    <3> QED BY <3>1, <3>2, <1>1 DEF Consumed
  <2> QED BY <2>3, <2>4
<1>5. CountInv' BY <1>0, <1>1, <1>4, SameCount DEF IInv
<1>6. RecordedInv' BY <1>0, <1>1, SameRecorded DEF IInv
<1>7. EarlyInv' BY <1>1 DEF EarlyInv, NextOfWave, EndWave
<1>8. NextInv' BY <1>1 DEF IInv, NextInv, Distinct, NextOfWave, EndWave
<1>9. PlacedInv'
  <2>1. CASE NextOfWave BY <2>1, <1>0, <1>1 DEF NextOfWave, IInv, PlacedInv, Distinct
  <2>2. CASE EndWave
    <3>1. pc' = "kahn" /\ waves' = Append(waves, ready) BY <2>2 DEF EndWave
    <3>2. Len(waves') = Len(waves) + 1 BY <3>1, <1>2, <1>0
    <3>3. \A j \in 1..n : waveOf'[j] < Len(waves') BY <3>2, <1>1, <1>2, <1>3
    <3> QED BY <3>1, <3>3, <1>0, <1>1 DEF IInv, PlacedInv
  <2> QED BY <2>1, <2>2
<1>10. DepsStrictlyEarlier' BY <1>0, <1>1, SameDeps DEF IInv
<1> QED BY <1>5, <1>6, <1>7, <1>8, <1>9, <1>10 DEF IInv

LEMMA InvStep == IInv /\ [Next]_vars => IInv'
<1> SUFFICES ASSUME IInv, [Next]_vars PROVE IInv' OBVIOUS
<1>1. TypeOK' BY TypeStep DEF IInv
<1>2. CASE AddEdge BY <1>1, <1>2, InvAddEdge
<1>3. CASE StartWave BY <1>1, <1>3, InvStartWave
<1>4. CASE Unlock BY <1>1, <1>4, InvUnlock
<1>5. CASE NextOfWave \/ EndWave BY <1>1, <1>5, InvWaveEnd
<1>6. CASE Index \/ IgnoreEntry \/ SelfEntry \/ NextTask \/ EndEdges
           \/ Root \/ EndRoots \/ Finish \/ UNCHANGED vars
  BY <1>1, <1>6, InvBookkeeping
<1> QED BY <1>2, <1>3, <1>4, <1>5, <1>6 DEF Next

\* planWaves (schedule.go): "a task is never scheduled in the same wave as a
\* dependency - that is structural": for every task list and every Context, a
\* task that has a wave has all in-crew dependencies in strictly earlier waves.
THEOREM PlanRespectsContext == Spec => []DepsStrictlyEarlier
<1>1. IInv => DepsStrictlyEarlier BY DEF IInv
<1> QED BY <1>1, InvInit, InvStep, PTL DEF Spec

------------------------------------------------------------------------------
(***************************************************************************)
(* What the verdict and the plan are.  A task without pending edges and    *)
(* without a wave is in the ready list (ReadyInv), so when the list is     *)
(* empty each task left has a dependency that is left too.  An edge is a   *)
(* dependency (EdgesInv), so the one whose removal makes a task ready has  *)
(* the wave just before the task's (EarliestInv).                          *)
(***************************************************************************)

ReadyInv ==
  \A j \in 1..n :
    /\ (pc = "roots" /\ j < i) \/ pc \in {"kahn", "wave"}
    /\ indegree[j] = 0 /\ waveOf[j] = -1
    => \E p \in DOMAIN next : next[p] = j

EdgesInv == \A a \in 1..n : \A q \in DOMAIN adjacent[a] : a \in Deps(adjacent[a][q])

\* The wave whose edges have made the tasks of next ready.
Unlocking == IF pc = "wave" THEN Len(waves) ELSE Len(waves) - 1

EarliestInv ==
  /\ \A j \in 1..n : waveOf[j] > 0 => \E d \in Deps(j) : waveOf[d] = waveOf[j] - 1
  /\ pc = "wave" \/ (pc = "kahn" /\ waves # <<>>) =>
       \A p \in DOMAIN next : \E d \in Deps(next[p]) : waveOf[d] = Unlocking

WavesInv ==
  \A w \in DOMAIN waves :
    /\ Distinct(waves[w])
    /\ \A j \in 1..n : waveOf[j] = w - 1 <=> \E p \in DOMAIN waves[w] : waves[w][p] = j

\* A set of tasks each of which depends on one of them.
Cyclic == \E S \in SUBSET (1..n) : S # {} /\ \A j \in S : Deps(j) \cap S # {}

VerdictInv ==
  /\ pc \notin {"index", "rejected"} => ~Dup
  /\ pc = "accepted" => \A j \in 1..n : waveOf[j] # -1
  /\ pc = "rejected" => Dup \/ Cyclic

PlanInv == ReadyInv /\ EdgesInv /\ EarliestInv /\ WavesInv /\ VerdictInv

LEMMA PlanInit == Init => PlanInv
<1> SUFFICES ASSUME Init PROVE PlanInv OBVIOUS
<1>1. ReadyInv /\ VerdictInv BY DEF Init, ReadyInv, VerdictInv
<1>2. EdgesInv
  <2>1. \A a \in 1..n : DOMAIN adjacent[a] = {} BY DEF Init
  <2> QED BY <2>1 DEF EdgesInv
<1>3. EarliestInv BY DEF Init, EarliestInv
<1>4. WavesInv BY DEF Init, WavesInv
<1> QED BY <1>1, <1>2, <1>3, <1>4 DEF PlanInv

\* What does not change with the crew.
LEMMA SameCrew ==
  ASSUME n' = n, tasks' = tasks, context' = context
  PROVE  /\ \A j : Deps(j)' = Deps(j)
         /\ (Dup' <=> Dup) /\ (Cyclic' <=> Cyclic)
<1>1. \A j : Deps(j)' = Deps(j) BY DEF Deps, Known, index
<1>2. Dup' <=> Dup BY DEF Dup
<1>3. Cyclic' <=> Cyclic BY <1>1 DEF Cyclic
<1> QED BY <1>1, <1>2, <1>3

LEMMA SameEdges ==
  ASSUME EdgesInv, n' = n, tasks' = tasks, context' = context, adjacent' = adjacent
  PROVE  EdgesInv'
BY DEF EdgesInv, Deps, Known, index

\* An entry of the Context of task i is a dependency.
LEMMA EntryIsDep ==
  ASSUME TypeOK, AtEntry, Known(Entry)
  PROVE  i \in 1..n /\ index(Entry) \in 1..n /\ index(Entry) \in Deps(i)
<1>1. i \in 1..n /\ n \in Nat BY NType DEF AtEntry, TypeOK
<1>2. index(Entry) \in 1..n BY IndexOf
<1>3. k \in DOMAIN context[tasks[i]]
  <2>1. tasks \in Seq(Ptr) /\ i \in 1..Len(tasks) BY <1>1, NType DEF n
  <2>2. tasks[i] \in Ptr BY <2>1
  <2>3. context[tasks[i]] \in Seq(Ptr) BY <2>2, NType
  <2> QED BY <2>3 DEF AtEntry, TypeOK
<1> QED BY <1>1, <1>2, <1>3 DEF Deps, Entry

\* When no task is ready the tasks without a wave depend on one another.
LEMMA LeftIsCyclic ==
  ASSUME IInv, PlanInv, pc = "kahn", next = <<>>, NEW l \in 1..n, waveOf[l] = -1
  PROVE  Cyclic
<1> DEFINE S == {j \in 1..n : waveOf[j] = -1}
<1>1. ASSUME NEW j \in S PROVE Deps(j) \cap S # {}
  <2>1. indegree[j] # 0 BY <1>1 DEF PlanInv, ReadyInv
  <2>2. Pending(j) # {}
    <3>1. indegree[j] = Cardinality(Pending(j)) BY <1>1 DEF IInv, CountInv
    <3> QED BY <2>1, <3>1, FS_EmptySet
  <2>3. PICK e \in (1..n) \X Nat :
          e[2] \in DOMAIN adjacent[e[1]] /\ adjacent[e[1]][e[2]] = j /\ ~Consumed(e[1], e[2])
    BY <2>2 DEF Pending
  <2>4. e[1] \in 1..n /\ waveOf[e[1]] = -1
    BY <2>3 DEF Consumed, IInv, PlacedInv, TypeOK
  <2>5. e[1] \in Deps(j) BY <2>3, <2>4 DEF PlanInv, EdgesInv
  <2> QED BY <2>4, <2>5
<1>2. l \in S /\ S \in SUBSET (1..n) OBVIOUS
<1> HIDE DEF S
<1> QED BY <1>1, <1>2 DEF Cyclic

\* The steps that change no task's count, wave or place, up to the roots.
LEMMA PlanBookkeeping ==
  ASSUME IInv, PlanInv,
         Index \/ IgnoreEntry \/ SelfEntry \/ NextTask \/ EndEdges \/ EndRoots \/ Finish \/ NextOfWave
         \/ UNCHANGED vars
  PROVE  PlanInv'
<1>0. n \in Nat /\ n' = n /\ tasks' = tasks /\ context' = context BY RigidCrew DEF IInv, Next
<1>1. UNCHANGED <<adjacent, indegree, waveOf, waves, ready, next>>
  BY DEF Index, IgnoreEntry, SelfEntry, NextTask, EndEdges, EndRoots, Finish, NextOfWave, vars
<1>2. \A j : Deps(j)' = Deps(j) BY <1>0, SameCrew
<1>3. (Dup' <=> Dup) /\ (Cyclic' <=> Cyclic) BY <1>0, SameCrew
<1>t. i \in Nat \ {0} BY DEF IInv, TypeOK
<1>4. ReadyInv'
  <2>1. CASE EndEdges
    BY <1>0, <2>1 DEF ReadyInv, EndEdges
  <2>2. CASE EndRoots
    BY <1>0, <1>1, <1>t, <2>2 DEF PlanInv, ReadyInv, EndRoots
  <2>3. CASE ~EndEdges /\ ~EndRoots
    <3>1. /\ pc' \in {"kahn", "wave"} => pc = pc'
          /\ pc' = "roots" => pc = "roots" /\ i' = i
      BY <2>3 DEF Index, IgnoreEntry, SelfEntry, NextTask, Finish, NextOfWave, AtEntry, vars
    <3> QED BY <1>0, <1>1, <3>1 DEF PlanInv, ReadyInv
  <2> QED BY <2>1, <2>2, <2>3
<1>5. EdgesInv' BY <1>0, <1>1, SameEdges DEF PlanInv
<1>6. EarliestInv'
  <2>1. \/ pc' = pc
        \/ pc' \notin {"kahn", "wave"}
        \/ pc' = "kahn" /\ waves = <<>>
    BY DEF Index, IgnoreEntry, SelfEntry, NextTask, EndEdges, EndRoots, Finish, NextOfWave, AtEntry, vars,
       IInv, EarlyInv
  <2>2. \A j \in 1..n : waveOf'[j] > 0 => \E d \in Deps(j)' : waveOf'[d] = waveOf'[j] - 1
    BY <1>1, <1>2 DEF PlanInv, EarliestInv
  <2>3. ASSUME pc' = "wave" \/ (pc' = "kahn" /\ waves' # <<>>), NEW p \in DOMAIN next'
        PROVE  (\E d \in Deps(next[p]) : waveOf[d] = Unlocking)'
    <3>1. pc' = pc /\ Unlocking' = Unlocking BY <1>1, <2>1, <2>3 DEF Unlocking
    <3>2. PICK d \in Deps(next[p]) : waveOf[d] = Unlocking
      BY <1>1, <2>3, <3>1 DEF PlanInv, EarliestInv
    <3>3. d \in Deps(next[p])'
      BY <1>0, <1>1, <3>2 DEF Deps, Known, index
    <3> QED BY <1>1, <3>1, <3>2, <3>3
  <2> QED BY <1>0, <2>2, <2>3 DEF EarliestInv
<1>7. WavesInv' BY <1>0, <1>1 DEF PlanInv, WavesInv, Distinct
<1>8. VerdictInv'
  <2>1. CASE Index
    BY <1>3, <2>1 DEF Index, VerdictInv
  <2>2. CASE SelfEntry
    <3>1. i \in 1..n /\ i \in Deps(i) BY <2>2, EntryIsDep DEF SelfEntry, IInv
    <3>2. {i} \in SUBSET (1..n) /\ {i} # {} /\ \A j \in {i} : Deps(j) \cap {i} # {} BY <3>1
    <3>3. Cyclic BY <3>2 DEF Cyclic
    <3> QED BY <1>3, <2>2, <3>3 DEF SelfEntry, VerdictInv
  <2>3. CASE Finish
    <3>1. \A l \in 1..n : waveOf[l] = -1 => Cyclic
      BY <2>3, LeftIsCyclic DEF Finish
    <3> QED BY <1>0, <1>1, <1>3, <2>3, <3>1 DEF Finish, PlanInv, VerdictInv
  <2>4. CASE ~Index /\ ~SelfEntry /\ ~Finish
    <3>1. (pc' \in {"index", "rejected", "accepted"} \/ pc \in {"index", "rejected", "accepted"}) => pc' = pc
      BY <2>4 DEF IgnoreEntry, NextTask, EndEdges, EndRoots, NextOfWave, AtEntry, vars
    <3> QED BY <1>0, <1>1, <1>3, <3>1 DEF PlanInv, VerdictInv
  <2> QED BY <2>1, <2>2, <2>3, <2>4
<1> QED BY <1>4, <1>5, <1>6, <1>7, <1>8 DEF PlanInv

LEMMA PlanRoot == ASSUME IInv, PlanInv, Root PROVE PlanInv'
<1>0. n \in Nat /\ n' = n /\ tasks' = tasks /\ context' = context BY RigidCrew DEF IInv, Next
<1>1. /\ UNCHANGED <<adjacent, indegree, waveOf, waves>> /\ pc = "roots" /\ pc' = "roots" /\ i' = i + 1
      /\ next' = IF indegree[i] = 0 THEN Append(next, i) ELSE next
      /\ i \in Nat \ {0} /\ next \in Seq(1..n) /\ i <= n
  BY DEF Root, IInv, TypeOK
<1>2. ReadyInv'
  <2> SUFFICES ASSUME NEW j \in 1..n, j < i + 1, indegree[j] = 0, waveOf[j] = -1
               PROVE  \E p \in DOMAIN next' : next'[p] = j
    BY <1>0, <1>1 DEF ReadyInv
  <2>1. CASE j < i
    <3>1. PICK p \in DOMAIN next : next[p] = j BY <1>1, <2>1 DEF PlanInv, ReadyInv
    <3>2. p \in DOMAIN next' /\ next'[p] = j BY <1>0, <1>1, <3>1
    <3> QED BY <3>2
  <2>2. CASE j = i
    <3>1. Len(next) + 1 \in DOMAIN next' /\ next'[Len(next) + 1] = j BY <1>0, <1>1, <2>2
    <3> QED BY <3>1
  <2> QED BY <1>1, <2>1, <2>2
<1>3. EdgesInv' BY <1>0, <1>1, SameEdges DEF PlanInv
<1>4. EarliestInv' BY <1>0, <1>1, SameCrew DEF PlanInv, EarliestInv
<1>5. WavesInv' BY <1>0, <1>1 DEF PlanInv, WavesInv, Distinct
<1>6. VerdictInv' BY <1>0, <1>1, SameCrew DEF PlanInv, VerdictInv
<1> QED BY <1>2, <1>3, <1>4, <1>5, <1>6 DEF PlanInv

LEMMA PlanAddEdge == ASSUME IInv, PlanInv, AddEdge PROVE PlanInv'
<1>0. n \in Nat /\ n' = n /\ tasks' = tasks /\ context' = context BY RigidCrew DEF IInv, Next
<1>1. /\ UNCHANGED <<waveOf, waves, pc, next>> /\ pc = "edges"
      /\ adjacent' = [adjacent EXCEPT ![index(Entry)] = Append(@, i)]
      /\ adjacent \in [1..n -> Seq(1..n)]
  BY DEF AddEdge, AtEntry, IInv, TypeOK
<1>2. i \in 1..n /\ index(Entry) \in 1..n /\ index(Entry) \in Deps(i)
  BY EntryIsDep DEF AddEdge, IInv
<1>3. EdgesInv'
  <2> SUFFICES ASSUME NEW a \in 1..n, NEW q \in DOMAIN adjacent'[a]
               PROVE  a \in Deps(adjacent'[a][q])
    BY <1>0 DEF EdgesInv, Deps, Known, index
  <2>1. CASE a # index(Entry)
    <3>1. adjacent'[a] = adjacent[a] BY <1>1, <2>1
    <3> QED BY <3>1 DEF PlanInv, EdgesInv
  <2>2. CASE a = index(Entry)
    <3>1. adjacent'[a] = Append(adjacent[a], i) /\ adjacent[a] \in Seq(1..n) BY <1>1, <1>2, <2>2
    <3>2. (q \in DOMAIN adjacent[a] /\ adjacent'[a][q] = adjacent[a][q]) \/ adjacent'[a][q] = i
      BY <1>2, <3>1
    <3> QED BY <1>2, <2>2, <3>2 DEF PlanInv, EdgesInv
  <2> QED BY <2>1, <2>2
<1>4. EarliestInv' BY <1>0, <1>1, SameCrew DEF PlanInv, EarliestInv
<1>5. WavesInv' BY <1>0, <1>1 DEF PlanInv, WavesInv, Distinct
<1>6. ReadyInv' /\ VerdictInv' BY <1>0, <1>1, SameCrew DEF PlanInv, VerdictInv, ReadyInv
<1> QED BY <1>3, <1>4, <1>5, <1>6 DEF PlanInv

LEMMA PlanStartWave == ASSUME IInv, PlanInv, StartWave PROVE PlanInv'
<1>0. n \in Nat /\ n' = n /\ tasks' = tasks /\ context' = context BY RigidCrew DEF IInv, Next
<1>1. /\ UNCHANGED <<adjacent, indegree, waves>> /\ pc = "kahn" /\ pc' = "wave" /\ next' = <<>> /\ next # <<>>
      /\ \A j \in 1..n : waveOf'[j] = IF \E p \in DOMAIN next : next[p] = j THEN Len(waves) ELSE waveOf[j]
  BY DEF StartWave
<1>2. /\ next \in Seq(1..n) /\ waveOf \in [1..n -> Int] /\ Len(waves) \in Nat /\ waves \in Seq(Seq(1..n))
      /\ \A p \in DOMAIN next : waveOf[next[p]] = -1
  BY <1>1 DEF IInv, TypeOK, NextInv
<1>3. ReadyInv' BY <1>0, <1>1 DEF PlanInv, ReadyInv
<1>4. EdgesInv' BY <1>0, <1>1, SameEdges DEF PlanInv
<1>5. \A d \in 1..n : waveOf[d] >= 0 => waveOf'[d] = waveOf[d]
  BY <1>1, <1>2
<1>6. EarliestInv'
  <2> SUFFICES ASSUME NEW j \in 1..n, waveOf'[j] > 0
               PROVE  \E d \in Deps(j) : waveOf'[d] = waveOf'[j] - 1
    BY <1>0, <1>1, SameCrew DEF EarliestInv
  <2>1. CASE \E p \in DOMAIN next : next[p] = j
    <3>1. PICK p \in DOMAIN next : next[p] = j BY <2>1
    <3>2. waveOf'[j] = Len(waves) /\ waves # <<>> BY <1>1, <1>2, <2>1
    <3>3. PICK d \in Deps(j) : waveOf[d] = Len(waves) - 1
      BY <1>1, <3>1, <3>2 DEF PlanInv, EarliestInv, Unlocking
    <3>4. d \in 1..n /\ waveOf[d] >= 0 BY <1>2, <3>2, <3>3 DEF Deps
    <3> QED BY <1>5, <3>2, <3>3, <3>4
  <2>2. CASE ~\E p \in DOMAIN next : next[p] = j
    <3>1. waveOf'[j] = waveOf[j] BY <1>1, <2>2
    <3>2. PICK d \in Deps(j) : waveOf[d] = waveOf[j] - 1 BY <3>1 DEF PlanInv, EarliestInv
    <3>3. d \in 1..n /\ waveOf[d] >= 0 BY <1>2, <3>1, <3>2 DEF Deps
    <3> QED BY <1>5, <3>1, <3>2, <3>3
  <2> QED BY <2>1, <2>2
<1>7. WavesInv'
  <2> SUFFICES ASSUME NEW w \in DOMAIN waves
               PROVE  /\ Distinct(waves[w])
                      /\ \A j \in 1..n : waveOf'[j] = w - 1 <=> \E p \in DOMAIN waves[w] : waves[w][p] = j
    BY <1>0, <1>1 DEF WavesInv, Distinct
  <2>0. w \in 1..Len(waves) BY <1>2
  <2>1. w - 1 \in Nat /\ w - 1 < Len(waves) BY <1>2, <2>0
  <2>2. \A j \in 1..n : waveOf'[j] = w - 1 <=> waveOf[j] = w - 1
    <3> SUFFICES ASSUME NEW j \in 1..n PROVE waveOf'[j] = w - 1 <=> waveOf[j] = w - 1 OBVIOUS
    <3>1. CASE \E p \in DOMAIN next : next[p] = j
      <4>1. waveOf[j] = -1 BY <1>2, <3>1
      <4>2. waveOf'[j] = Len(waves) BY <1>1, <3>1
      <4> QED BY <1>2, <2>1, <4>1, <4>2
    <3>2. CASE ~\E p \in DOMAIN next : next[p] = j
      BY <1>1, <3>2
    <3> QED BY <3>1, <3>2
  <2> QED BY <2>2 DEF PlanInv, WavesInv
<1>8. VerdictInv' BY <1>0, <1>1, SameCrew DEF PlanInv, VerdictInv
<1> QED BY <1>3, <1>4, <1>6, <1>7, <1>8 DEF PlanInv

LEMMA PlanUnlock == ASSUME IInv, PlanInv, Unlock PROVE PlanInv'
<1>0. n \in Nat /\ n' = n /\ tasks' = tasks /\ context' = context BY RigidCrew DEF IInv, Next
<1>a. PICK a, j : a = ready[i] /\ j = adjacent[a][k] OBVIOUS
<1>1. a \in 1..n /\ j \in 1..n /\ <<a, k>> \in Pending(j) /\ waveOf[j] = -1
  BY <1>a, UnlockEdge
<1>2. /\ UNCHANGED <<adjacent, waveOf, waves, pc>> /\ pc = "wave"
      /\ indegree' = [indegree EXCEPT ![j] = @ - 1]
      /\ next' = IF indegree[j] - 1 = 0 THEN Append(next, j) ELSE next
      /\ next \in Seq(1..n) /\ indegree \in [1..n -> Int]
      /\ ready \in Seq(1..n) /\ i \in Nat \ {0} /\ i <= Len(ready)
  BY <1>a DEF Unlock, IInv, TypeOK
<1>3. waveOf[a] = Len(waves)
  <2>1. i \in DOMAIN ready BY <1>2
  <2> QED BY <1>a, <1>1, <1>2, <2>1 DEF IInv, PlacedInv
<1>4. a \in Deps(j)
  <2>1. k \in DOMAIN adjacent[a]
    <3>1. <<a, k>>[2] = k /\ <<a, k>>[1] = a OBVIOUS
    <3> QED BY <1>1, <3>1 DEF Pending
  <2> QED BY <1>a, <1>1, <2>1 DEF PlanInv, EdgesInv
<1>n. \A p \in DOMAIN next' : (p \in DOMAIN next /\ next'[p] = next[p]) \/ next'[p] = j
  BY <1>1, <1>2
<1>5. ReadyInv'
  <2> SUFFICES ASSUME NEW u \in 1..n, indegree'[u] = 0, waveOf[u] = -1
               PROVE  \E p \in DOMAIN next' : next'[p] = u
    BY <1>0, <1>2 DEF ReadyInv
  <2>1. CASE u = j
    <3>1. next' = Append(next, j) BY <1>1, <1>2, <2>1
    <3>2. Len(next) + 1 \in DOMAIN next' /\ next'[Len(next) + 1] = j BY <1>1, <1>2, <3>1
    <3> QED BY <2>1, <3>2
  <2>2. CASE u # j
    <3>1. indegree[u] = 0 BY <1>2, <2>2
    <3>2. PICK p \in DOMAIN next : next[p] = u BY <1>2, <3>1 DEF PlanInv, ReadyInv
    <3>3. p \in DOMAIN next' /\ next'[p] = u BY <1>1, <1>2, <3>2
    <3> QED BY <3>3
  <2> QED BY <2>1, <2>2
<1>6. EdgesInv' BY <1>0, <1>2, SameEdges DEF PlanInv
<1>7. EarliestInv'
  <2>1. \A u \in 1..n : waveOf[u] > 0 => \E d \in Deps(u)' : waveOf[d] = waveOf[u] - 1
    BY <1>0, SameCrew DEF PlanInv, EarliestInv
  <2>2. ASSUME NEW p \in DOMAIN next' PROVE (\E d \in Deps(next[p]) : waveOf[d] = Unlocking)'
    <3>1. PICK u : u = next'[p] OBVIOUS
    <3>2. \E d \in Deps(u) : waveOf[d] = Len(waves)
      <4>1. CASE p \in DOMAIN next /\ next'[p] = next[p]
        BY <1>2, <3>1, <4>1 DEF PlanInv, EarliestInv, Unlocking
      <4>2. CASE next'[p] = j
        BY <1>3, <1>4, <3>1, <4>2
      <4> QED BY <1>n, <4>1, <4>2
    <3>3. Deps(next[p])' = Deps(u) BY <1>0, <3>1 DEF Deps, Known, index
    <3> QED BY <1>2, <3>2, <3>3 DEF Unlocking
  <2> QED BY <1>0, <1>2, <2>1, <2>2 DEF EarliestInv
<1>8. WavesInv' BY <1>0, <1>2 DEF PlanInv, WavesInv, Distinct
<1>9. VerdictInv' BY <1>0, <1>2, SameCrew DEF PlanInv, VerdictInv
<1> QED BY <1>5, <1>6, <1>7, <1>8, <1>9 DEF PlanInv

LEMMA PlanEndWave == ASSUME IInv, PlanInv, EndWave PROVE PlanInv'
<1>0. n \in Nat /\ n' = n /\ tasks' = tasks /\ context' = context BY RigidCrew DEF IInv, Next
<1>1. /\ UNCHANGED <<adjacent, indegree, waveOf, next>> /\ pc = "wave" /\ pc' = "kahn"
      /\ waves' = Append(waves, ready) /\ waves \in Seq(Seq(1..n)) /\ ready \in Seq(1..n) /\ waveOf \in [1..n -> Int]
  BY DEF EndWave, IInv, TypeOK
<1>2. Len(waves') = Len(waves) + 1 /\ Len(waves) \in Nat /\ waves'[Len(waves) + 1] = ready
  BY <1>0, <1>1
<1>3. ReadyInv' BY <1>0, <1>1 DEF PlanInv, ReadyInv
<1>4. EdgesInv' BY <1>0, <1>1, SameEdges DEF PlanInv
<1>5. EarliestInv'
  <2>1. \A j \in 1..n : waveOf[j] > 0 => \E d \in Deps(j)' : waveOf[d] = waveOf[j] - 1
    BY <1>0, SameCrew DEF PlanInv, EarliestInv
  <2>2. Unlocking' = Len(waves) /\ Unlocking = Len(waves) BY <1>1, <1>2 DEF Unlocking
  <2>3. ASSUME NEW p \in DOMAIN next PROVE (\E d \in Deps(next[p]) : waveOf[d] = Unlocking)'
    <3>1. \E d \in Deps(next[p]) : waveOf[d] = Len(waves) BY <1>1, <2>2 DEF PlanInv, EarliestInv
    <3>2. Deps(next[p])' = Deps(next[p]) BY <1>0, <1>1 DEF Deps, Known, index
    <3> QED BY <1>1, <2>2, <3>1, <3>2
  <2> QED BY <1>0, <1>1, <2>1, <2>3 DEF EarliestInv
<1>6. WavesInv'
  <2> SUFFICES ASSUME NEW w \in DOMAIN waves'
               PROVE  /\ Distinct(waves'[w])
                      /\ \A j \in 1..n : waveOf[j] = w - 1 <=> \E p \in DOMAIN waves'[w] : waves'[w][p] = j
    BY <1>0, <1>1 DEF WavesInv, Distinct
  <2>1. (w \in DOMAIN waves /\ waves'[w] = waves[w]) \/ (w = Len(waves) + 1 /\ waves'[w] = ready)
    BY <1>1, <1>2
  <2>2. w = Len(waves) + 1 => w - 1 = Len(waves) BY <1>2
  <2> QED BY <1>1, <2>1, <2>2 DEF PlanInv, WavesInv, IInv, PlacedInv
<1>7. VerdictInv' BY <1>0, <1>1, SameCrew DEF PlanInv, VerdictInv
<1> QED BY <1>3, <1>4, <1>5, <1>6, <1>7 DEF PlanInv

LEMMA PlanStep == IInv /\ PlanInv /\ [Next]_vars => PlanInv'
BY PlanBookkeeping, PlanRoot, PlanAddEdge, PlanStartWave, PlanUnlock, PlanEndWave DEF Next

------------------------------------------------------------------------------
\* Every nonempty set of tasks has one whose wave is the least.
LEMMA LeastWave ==
  ASSUME NEW f, NEW S, S # {}, \A j \in S : f[j] \in Nat
  PROVE  \E m \in S : \A j \in S : f[m] <= f[j]
<1> DEFINE T == {f[j] : j \in S}
<1>1. T \subseteq Nat /\ T # {} OBVIOUS
<1>2. IsWellFoundedOn(OpToRel(<, Nat), Nat) BY NatLessThanWellFounded
<1> HIDE DEF T
<1>3. PICK x \in T : \A y \in T : ~(<<y, x>> \in OpToRel(<, Nat)) BY <1>1, <1>2, WFMin
<1>4. \A y \in T : ~(y < x) BY <1>1, <1>3 DEF OpToRel
<1>5. \A y \in T : x <= y BY <1>1, <1>4
<1> QED BY <1>5 DEF T

\* planWaves accepts exactly the lists without a repeated task in which no task depends
\* on itself, whatever else the Context of a task holds.
THEOREM RejectsTheBad == Spec => []RejectsExactlyBadGraphs
<1>1. IInv /\ PlanInv => RejectsExactlyBadGraphs
  <2> SUFFICES ASSUME IInv, PlanInv PROVE RejectsExactlyBadGraphs OBVIOUS
  <2>1. ASSUME pc = "accepted" PROVE ~Cyclic
    <3> SUFFICES ASSUME NEW S \in SUBSET (1..n), S # {}, \A j \in S : Deps(j) \cap S # {} PROVE FALSE
      BY DEF Cyclic
    <3>1. \A j \in S : waveOf[j] \in Nat
      BY <2>1 DEF PlanInv, VerdictInv, IInv, PlacedInv, TypeOK
    <3>2. PICK m \in S : \A j \in S : waveOf[m] <= waveOf[j] BY <3>1, LeastWave
    <3>3. PICK d \in Deps(m) : d \in S OBVIOUS
    <3>4. waveOf[d] < waveOf[m] BY <3>1, <3>3 DEF IInv, DepsStrictlyEarlier
    <3> QED BY <3>1, <3>2, <3>3, <3>4
  <2> QED BY <2>1 DEF PlanInv, VerdictInv, RejectsExactlyBadGraphs, Cyclic
<1> QED BY <1>1, InvInit, InvStep, PlanInit, PlanStep, PTL DEF Spec

\* "Each task is assigned to the earliest wave": an accepted plan has every task once, in
\* the wave recorded for it, and no wave between a task and the last of its dependencies.
THEOREM PlanIsTheEarliest == Spec => []PlanIsEarliest
<1>1. IInv /\ PlanInv => PlanIsEarliest
  <2> SUFFICES ASSUME IInv, PlanInv, pc = "accepted" PROVE PlanIsEarliest
    BY DEF PlanIsEarliest, PlanCoversTasks, EarliestWave
  <2>1. EarliestWave BY DEF EarliestWave, PlanInv, EarliestInv
  <2>2. ASSUME NEW j \in 1..n
        PROVE  \E w \in DOMAIN waves : \E p \in DOMAIN waves[w] :
                 /\ waves[w][p] = j /\ waveOf[j] = w - 1
                 /\ \A v \in DOMAIN waves : \A q \in DOMAIN waves[v] : waves[v][q] = j => v = w /\ q = p
    <3>1. waveOf[j] \in Nat /\ waveOf[j] < Len(waves) /\ waves \in Seq(Seq(1..n)) /\ Len(waves) \in Nat
      BY DEF PlanInv, VerdictInv, IInv, PlacedInv, TypeOK
    <3>2. PICK w \in DOMAIN waves : w = waveOf[j] + 1 BY <3>1
    <3>3. waveOf[j] = w - 1 BY <3>1, <3>2
    <3>4. PICK p \in DOMAIN waves[w] : waves[w][p] = j BY <3>3 DEF PlanInv, WavesInv
    <3>5. ASSUME NEW v \in DOMAIN waves, NEW q \in DOMAIN waves[v], waves[v][q] = j PROVE v = w /\ q = p
      <4>1. waveOf[j] = v - 1 BY <3>5 DEF PlanInv, WavesInv
      <4>2. v = w BY <3>1, <3>3, <4>1
      <4> QED BY <3>4, <3>5, <4>2 DEF PlanInv, WavesInv, Distinct
    <3> QED BY <3>3, <3>4, <3>5
  <2> QED BY <2>1, <2>2 DEF PlanIsEarliest, PlanCoversTasks
<1> QED BY <1>1, InvInit, InvStep, PlanInit, PlanStep, PTL DEF Spec
==============================================================================
