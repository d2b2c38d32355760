------------------------------ MODULE PlanWaves ------------------------------
(***************************************************************************)
(* planWaves (schedule.go): the wave schedule Kickoff derives from the     *)
(* Task.Context edges before any task of a Sequential or Hierarchical crew *)
(* runs.  The loops of the function are the actions: index the pointers,   *)
(* count the edges one by one, then Kahn's algorithm wave by wave and edge *)
(* by edge.  Indexes are 1-based here and 0-based in the code.             *)
(***************************************************************************)
EXTENDS Integers, Sequences, FiniteSets

CONSTANTS Ptr,       \* the *Task pointers a program has
          Lists,     \* the values Crew.Tasks may have
          Contexts   \* the values Task.Context may have

ASSUME ListsAssumption == Lists \subseteq Seq(Ptr)
ASSUME ContextsAssumption == Contexts \subseteq Seq(Ptr)

VARIABLES
  tasks,     \* Crew.Tasks
  context,   \* Task.Context of every pointer
  pc,        \* the loop the function is in, or its outcome
  i, k,      \* loop counters: task (or position in the wave) and edge
  indegree,  \* edges into a task that are not consumed yet
  adjacent,  \* dep -> dependents, one entry per Context edge
  waveOf,    \* wave of a task, -1 while it has none
  ready,     \* the tasks of the wave being run, in the code `wave`
  next,      \* the tasks that became ready during this wave
  waves      \* plan.waves

vars == <<tasks, context, pc, i, k, indegree, adjacent, waveOf, ready, next, waves>>

n == Len(tasks)

\* index[d] is defined: d is a task of the crew.  Entries of Context outside
\* the crew's list are ignored, as by the serial executor.
Known(d) == \E j \in 1..n : tasks[j] = d

index(d) == CHOOSE j \in 1..n : tasks[j] = d

Dup == \E a, b \in 1..n : a < b /\ tasks[a] = tasks[b]

Init ==
  /\ tasks \in Lists
  /\ context \in [Ptr -> Contexts]
  /\ pc = "index"
  /\ i = 1 /\ k = 1
  /\ indegree = [j \in 1..n |-> 0]
  /\ adjacent = [j \in 1..n |-> <<>>]
  /\ waveOf = [j \in 1..n |-> -1]
  /\ ready = <<>> /\ next = <<>> /\ waves = <<>>

\* The pointer map: a pointer listed twice is refused.
Index ==
  /\ pc = "index"
  /\ pc' = IF Dup THEN "rejected" ELSE "edges"
  /\ UNCHANGED <<tasks, context, i, k, indegree, adjacent, waveOf, ready, next, waves>>

\* The k-th entry of tasks[i].Context is the one the edge loop is at.
AtEntry == pc = "edges" /\ i <= n /\ k <= Len(context[tasks[i]])

Entry == context[tasks[i]][k]

\* An entry outside the crew's list.
IgnoreEntry ==
  /\ AtEntry /\ ~Known(Entry)
  /\ k' = k + 1
  /\ UNCHANGED <<tasks, context, pc, i, indegree, adjacent, waveOf, ready, next, waves>>

SelfEntryIgnored ==
  /\ AtEntry /\ Known(Entry) /\ index(Entry) = i
  /\ k' = k + 1
  /\ UNCHANGED <<tasks, context, pc, i, indegree, adjacent, waveOf, ready, next, waves>>

\* The task depends on itself.
SelfEntry ==
  /\ AtEntry /\ Known(Entry) /\ index(Entry) = i
  /\ pc' = "rejected"
  /\ UNCHANGED <<tasks, context, i, k, indegree, adjacent, waveOf, ready, next, waves>>

AddEdge ==
  /\ AtEntry /\ Known(Entry) /\ index(Entry) # i
  /\ indegree' = [indegree EXCEPT ![i] = @ + 1]
  /\ adjacent' = [adjacent EXCEPT ![index(Entry)] = Append(@, i)]
  /\ k' = k + 1
  /\ UNCHANGED <<tasks, context, pc, i, waveOf, ready, next, waves>>

NextTask ==
  /\ pc = "edges" /\ i <= n /\ k > Len(context[tasks[i]])
  /\ i' = i + 1 /\ k' = 1
  /\ UNCHANGED <<tasks, context, pc, indegree, adjacent, waveOf, ready, next, waves>>

EndEdges ==
  /\ pc = "edges" /\ i > n
  /\ pc' = "roots" /\ i' = 1
  /\ UNCHANGED <<tasks, context, k, indegree, adjacent, waveOf, ready, next, waves>>

\* The first ready list: the tasks without an edge, in ascending order.
Root ==
  /\ pc = "roots" /\ i <= n
  /\ next' = IF indegree[i] = 0 THEN Append(next, i) ELSE next
  /\ i' = i + 1
  /\ UNCHANGED <<tasks, context, pc, k, indegree, adjacent, waveOf, ready, waves>>

EndRoots ==
  /\ pc = "roots" /\ i > n
  /\ pc' = "kahn"
  /\ UNCHANGED <<tasks, context, i, k, indegree, adjacent, waveOf, ready, next, waves>>

StartWaveOne ==
  /\ pc = "kahn" /\ next # <<>>
  /\ ready' = <<Head(next)>> /\ next' = Tail(next)
  /\ waveOf' = [waveOf EXCEPT ![Head(next)] = Len(waves)]
  /\ i' = 1 /\ k' = 1
  /\ pc' = "wave"
  /\ UNCHANGED <<tasks, context, indegree, adjacent, waves>>

\* for w := 0; len(ready) > 0; w++: fix the wave of every ready task.
StartWave ==
  /\ pc = "kahn" /\ next # <<>>
  /\ ready' = next /\ next' = <<>>
  /\ waveOf' = [j \in 1..n |->
                  IF \E p \in DOMAIN next : next[p] = j THEN Len(waves) ELSE waveOf[j]]
  /\ i' = 1 /\ k' = 1
  /\ pc' = "wave"
  /\ UNCHANGED <<tasks, context, indegree, adjacent, waves>>

UnlockEarly ==
  /\ pc = "wave" /\ i <= Len(ready) /\ k <= Len(adjacent[ready[i]])
  /\ LET j == adjacent[ready[i]][k] IN
       /\ indegree' = [indegree EXCEPT ![j] = @ - 1]
       /\ next' = IF indegree[j] - 1 <= 1 THEN Append(next, j) ELSE next
  /\ k' = k + 1
  /\ UNCHANGED <<tasks, context, pc, i, adjacent, waveOf, ready, waves>>

\* One dependent of the wave's i-th task; it is ready when its last edge goes.
Unlock ==
  /\ pc = "wave" /\ i <= Len(ready) /\ k <= Len(adjacent[ready[i]])
  /\ LET j == adjacent[ready[i]][k] IN
       /\ indegree' = [indegree EXCEPT ![j] = @ - 1]
       /\ next' = IF indegree[j] - 1 = 0 THEN Append(next, j) ELSE next
  /\ k' = k + 1
  /\ UNCHANGED <<tasks, context, pc, i, adjacent, waveOf, ready, waves>>

NextOfWave ==
  /\ pc = "wave" /\ i <= Len(ready) /\ k > Len(adjacent[ready[i]])
  /\ i' = i + 1 /\ k' = 1
  /\ UNCHANGED <<tasks, context, pc, indegree, adjacent, waveOf, ready, next, waves>>

EndWave ==
  /\ pc = "wave" /\ i > Len(ready)
  /\ waves' = Append(waves, ready)
  /\ pc' = "kahn"
  /\ UNCHANGED <<tasks, context, i, k, indegree, adjacent, waveOf, ready, next>>

\* No task is ready any more: what has no wave is on or behind a cycle.
Finish ==
  /\ pc = "kahn" /\ next = <<>>
  /\ pc' = IF \E j \in 1..n : waveOf[j] = -1 THEN "rejected" ELSE "accepted"
  /\ UNCHANGED <<tasks, context, i, k, indegree, adjacent, waveOf, ready, next, waves>>

Next ==
  \/ Index \/ IgnoreEntry \/ SelfEntry \/ AddEdge \/ NextTask \/ EndEdges
  \/ Root \/ EndRoots
  \/ StartWave \/ Unlock \/ NextOfWave \/ EndWave \/ Finish

Spec == Init /\ [][Next]_vars

------------------------------------------------------------------------------
TypeOK ==
  /\ tasks \in Lists
  /\ context \in [Ptr -> Contexts]
  /\ pc \in {"index", "edges", "roots", "kahn", "wave", "accepted", "rejected"}
  /\ i \in Nat \ {0} /\ k \in Nat \ {0}
  /\ indegree \in [1..n -> Int]
  /\ adjacent \in [1..n -> Seq(1..n)]
  /\ waveOf \in [1..n -> Int]
  /\ ready \in Seq(1..n) /\ next \in Seq(1..n)
  /\ waves \in Seq(Seq(1..n))

\* The in-crew dependencies of task j.
Deps(j) == {d \in 1..n : \E q \in DOMAIN context[tasks[j]] :
                            Known(context[tasks[j]][q]) /\ d = index(context[tasks[j]][q])}

\* "every Context dependency is guaranteed to be in an earlier wave than its
\* dependents": at every point of the loop, a task that has a wave has all of
\* its in-crew dependencies in strictly earlier waves.
DepsStrictlyEarlier ==
  \A j \in 1..n : waveOf[j] >= 0 =>
    \A d \in Deps(j) : waveOf[d] >= 0 /\ waveOf[d] < waveOf[j]

\* The rejected graphs are exactly those with a repeated pointer or a task that
\* reaches itself through in-crew Context edges; a task outside the list and an
\* edge listed twice never cause a rejection.
RejectsExactlyBadGraphs ==
  LET cyclic == \E S \in SUBSET (1..n) :
                  S # {} /\ \A j \in S : Deps(j) \cap S # {}
  IN /\ pc = "rejected" => Dup \/ cyclic
     /\ pc = "accepted" => ~Dup /\ ~cyclic

\* An accepted plan runs every task of the crew once and in no other wave than
\* the one recorded for it.
PlanCoversTasks ==
  pc = "accepted" =>
    \A j \in 1..n : \E w \in DOMAIN waves : \E p \in DOMAIN waves[w] :
      /\ waves[w][p] = j /\ waveOf[j] = w - 1
      /\ \A v \in DOMAIN waves : \A q \in DOMAIN waves[v] :
           waves[v][q] = j => v = w /\ q = p

\* "Each task is assigned to the earliest wave that is strictly after all of its
\* Context dependencies": no task waits for a wave it does not depend on.
EarliestWave ==
  pc = "accepted" =>
    \A j \in 1..n : waveOf[j] > 0 => \E d \in Deps(j) : waveOf[d] = waveOf[j] - 1

\* An accepted plan is complete and loses no concurrency.
PlanIsEarliest == PlanCoversTasks /\ EarliestWave

\* asyncPlan.waves: "Indexes within a wave are ascending (declaration order)".
WavesAscending ==
  \A w \in DOMAIN waves : \A p, q \in DOMAIN waves[w] :
    p < q => waves[w][p] < waves[w][q]

==============================================================================
