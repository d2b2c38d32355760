------------------------------ MODULE Delegation ------------------------------
(***************************************************************************)
(* The tools a crew attaches to its agents (delegation.go, memory_tools.go *)
(* and crew.go): delegate_to_coworker, which executes a peer inside the    *)
(* caller's tool call, recall_memory and remember.  The tasks of a Kickoff *)
(* run in goroutines of their own; each is a stack of nested executions,   *)
(* whose context values (role, depth, callers and the task whose warnings  *)
(* they are) are fields of its frames, and all share the MemoryStore.      *)
(*                                                                         *)
(* A role is a name and whether white space surrounds it; names that       *)
(* differ in case only are one (strings.EqualFold).  What the model says   *)
(* is any choice: a call with any input, or the end of the execution with  *)
(* an answer or an error, which the caller reads as an observation (the    *)
(* cancellation of the context, checked at every iteration, is one).  The  *)
(* other tools and the scheduling of the tasks are those of Executor and   *)
(* Crew.  The policy has DefaultLimit unset.                               *)
(***************************************************************************)
EXTENDS Integers, Sequences, FiniteSets, Memory

CONSTANTS
  Agent, Role, \* agents, and the role of each
  AllowDelegation, \* the agents that may be delegated to
  MaxIterations,   \* per agent
  Crew,
  Agents,     \* per crew: its agents in order, the roster of its delegation tool
  ScopeOf,    \* per crew: effectiveScope
  Task,
  TaskAgent,  \* per task: its agent, or NoAgent
  OwnTools,   \* the tasks with tools of their own, which replace the agent's
  Replies,    \* what the manager may answer: an error, a role, or text that mentions some
  Embed,      \* per content: the vector the embedder returns, if any
  DefaultMaxDelegationDepth,
  Queries,    \* the queries an application may make
  MaxRecords  \* bound: entries put in the store

NoAgent == "no agent"
NoCrew == "no crew"
NoRole == [name |-> "", pad |-> FALSE]

ASSUME RoleAssumption ==
  /\ NoAgent \notin Agent /\ NoCrew \notin Crew
  /\ Role \in [Agent -> [name: STRING, pad: BOOLEAN]]
ASSUME CrewAssumption ==
  /\ Agents \in [Crew -> Seq(Agent)] /\ ScopeOf \in [Crew -> Scope]
  /\ TaskAgent \in [Task -> Agent \cup {NoAgent}]
ASSUME EmbedAssumption == Embed \in [Content -> Vector \cup {NoVector}]
ASSUME QueriesAssumption ==
  Queries \subseteq [scope: Scope, text: DOMAIN Matches \cup {NoText}, emb: Vector \cup {NoVector},
                     limit: Int, maxChars: Int]
ASSUME DepthAssumption == DefaultMaxDelegationDepth \in Nat \ {0}
ASSUME IterationsAssumption == AllowDelegation \subseteq Agent /\ MaxIterations \in [Agent -> Nat \ {0}]

VARIABLES
  running,  \* the crew in Kickoff
  tools,    \* per agent: the crew its delegation and memory tools were made for
  todo,     \* tasks that have not started
  stack,    \* per task: its executions, the innermost last
  memory,   \* the MemoryStore
  wrote     \* history: of each entry that remember put, the agent, task and crew

vars == <<running, tools, todo, stack, memory, wrote>>

Init ==
  /\ running = NoCrew /\ tools = [a \in Agent |-> NoCrew]
  /\ todo = {} /\ stack = [t \in Task |-> <<>>]
  /\ memory = EmptyMemory /\ wrote = {}

------------------------------------------------------------------------------
(* Kickoff and the choice of an agent. *)

\* attachDelegationTools, attachMemoryTools: to each agent that has none yet.
PeerAgents(c) == Range(Agents[c])
attachTools(c) == [a \in Agent |-> IF a \in PeerAgents(c) /\ tools[a] = NoCrew THEN c ELSE tools[a]]

Kickoff(c) ==
  /\ running = NoCrew
  /\ running' = c /\ todo' = Task
  /\ tools' = attachTools(c)
  /\ UNCHANGED <<stack, memory, wrote>>

\* delegate: the agent whose role the manager answered or, failing that, the first
\* whose role the answer contains, as it does every empty one.
Answered(reply) == {a \in Agent : reply.ok /\ ~Role[a].pad /\ reply.role = Role[a].name}
Mentioned(reply) == {a \in Agent : reply.ok /\ (Role[a] = NoRole \/ Role[a].name \in reply.mentions)}
delegate(roster, reply) ==
  LET First(as) == CHOOSE k \in DOMAIN roster :
                     roster[k] \in as /\ \A j \in 1..(k - 1) : roster[j] \notin as
  IN IF roster = <<>> THEN NoAgent
     ELSE IF Range(roster) \cap Answered(reply) # {} THEN roster[First(Answered(reply))]
     ELSE IF Range(roster) \cap Mentioned(reply) # {} THEN roster[First(Mentioned(reply))]
     ELSE roster[1]

\* ContextWithAgentRole: an empty role leaves the context as it is.
Executing(role, a) == IF Role[a] = NoRole THEN role ELSE Role[a]

Frame(a, role, depth, callers) ==
  [agent |-> a, role |-> Executing(role, a), depth |-> depth, callers |-> callers,
   left |-> MaxIterations[a]]

\* Crew.execute for a task whose context is ready.
StartTask(t, reply) ==
  LET a == IF TaskAgent[t] # NoAgent THEN TaskAgent[t] ELSE delegate(Agents[running], reply) IN
  /\ t \in todo /\ a # NoAgent
  /\ todo' = todo \ {t}
  /\ stack' = [stack EXCEPT ![t] = <<Frame(a, NoRole, 0, <<>>)>>]
  /\ UNCHANGED <<running, tools, memory, wrote>>

\* Some task has no agent: ErrNoAgent.
NoAgentForTask ==
  /\ \E t \in todo : TaskAgent[t] = NoAgent /\ Agents[running] = <<>>
  /\ todo' = {}
  /\ UNCHANGED <<running, tools, stack, memory, wrote>>

KickoffReturns ==
  /\ running # NoCrew /\ todo = {} /\ \A t \in Task : stack[t] = <<>>
  /\ running' = NoCrew
  /\ UNCHANGED <<tools, todo, stack, memory, wrote>>

------------------------------------------------------------------------------
(* An iteration of the innermost execution of task t. *)

Top(t) == stack[t][Len(stack[t])]
Working(t) == stack[t] # <<>> /\ Top(t).left > 0

\* effectiveTools: only the task itself may have tools of its own.
HasTools(t) ==
  /\ tools[Top(t).agent] # NoCrew
  /\ ~(Len(stack[t]) = 1 /\ t \in OwnTools)

\* Bound: entries ever put without an ID of the caller's, and entries with one.
Room == memory.last + Len(SelectSeq(memory.records, LAMBDA r : r.id \in CallerId \cup {NoId})) < MaxRecords

ObservedForFree(t) == stack
\* The tool returned its observation.
Observed(t) == [stack EXCEPT ![t][Len(stack[t])].left = @ - 1]

\* An answer, an error of the model, or the end of the iterations.
Return(t) ==
  /\ stack[t] # <<>>
  /\ stack' = [stack EXCEPT ![t] = SubSeq(@, 1, Len(@) - 1)]
  /\ UNCHANGED <<running, tools, todo, memory, wrote>>

\* The first peer with this name.
findRosterAgent(roster, name) ==
  LET at == SelectInSeq(roster, LAMBDA a : Role[a].name = name)
  IN IF at = 0 THEN NoAgent ELSE roster[at]

\* What speaks against a call with a trimmed, non-empty coworker, if anything:
\* in the order of delegationTool.Call.
EqualFold(role, name) == role = [name |-> name, pad |-> FALSE]
Cycle(f, name) == \E k \in DOMAIN f.callers : EqualFold(f.callers[k], name)
Refusal(f, roster, name) ==
  LET target == findRosterAgent(roster, name) IN
  CASE f.depth >= DefaultMaxDelegationDepth -> "depth"
    [] EqualFold(f.role, name) -> "self"
    [] Cycle(f, name) -> "cycle"
    [] target = NoAgent -> "unknown"
    [] target # NoAgent /\ target \notin AllowDelegation -> "not eligible"
    [] OTHER -> "none"

\* A refusal, or an input that is not JSON or lacks a field (name = ""), is an
\* observation.
DelegateRefused(t, name) ==
  /\ Working(t) /\ HasTools(t)
  /\ name = "" \/ Refusal(Top(t), Agents[tools[Top(t).agent]], name) # "none"
  /\ stack' = Observed(t)
  /\ UNCHANGED <<running, tools, todo, memory, wrote>>

PushedWithoutCaller(f, target) == Frame(target, f.role, f.depth + 1, f.callers)
\* The context of the nested execution.
Pushed(f, target) ==
  Frame(target, f.role, f.depth + 1, IF f.role = NoRole THEN f.callers ELSE Append(f.callers, f.role))

Delegate(t, name) ==
  /\ Working(t) /\ HasTools(t) /\ name # ""
  /\ LET roster == Agents[tools[Top(t).agent]] IN
       /\ Refusal(Top(t), roster, name) = "none"
       /\ stack' = [stack EXCEPT ![t] = Append(Observed(t)[t], Pushed(Top(t), findRosterAgent(roster, name)))]
  /\ UNCHANGED <<running, tools, todo, memory, wrote>>

\* The scope and the embedder are those of the crew the tool was made for.
effectiveScope(t) == ScopeOf[tools[Top(t).agent]]
\* Without a vector when AutoEmbed is off, the context is cancelled or the embedder fails.
maybeEmbedEntry(c) == {NoVector, Embed[c]}

RememberAsCaller(t, c, e) ==
  /\ Working(t) /\ HasTools(t) /\ Room
  /\ memory' = Put(memory, Slot(NoId, effectiveScope(t), stack[t][1].role, t, c, e))
  /\ wrote' = wrote \cup {[id |-> memory'.last, agent |-> Top(t).agent, task |-> t, crew |-> running]}
  /\ stack' = Observed(t)
  /\ UNCHANGED <<running, tools, todo>>
\* rememberMemory: an immediate Put.
Remember(t, c, e) ==
  /\ Working(t) /\ HasTools(t) /\ Room
  /\ memory' = Put(memory, Slot(NoId, effectiveScope(t), Top(t).role, t, c, e))
  /\ wrote' = wrote \cup {[id |-> memory'.last, agent |-> Top(t).agent, task |-> t, crew |-> running]}
  /\ stack' = Observed(t)
  /\ UNCHANGED <<running, tools, todo>>

\* recallMemory: by vector, or by text when there is no embedder or it failed.
\* The tool's output limit stands for MaxChars.
Recall(t, text, e) ==
  /\ Working(t) /\ HasTools(t)
  /\ memory' = Queried(memory, [scope |-> effectiveScope(t), text |-> text, emb |-> e,
                                limit |-> 0, maxChars |-> -1])
  /\ stack' = Observed(t)
  /\ UNCHANGED <<running, tools, todo, wrote>>

------------------------------------------------------------------------------
(* The application has the store as well. *)

NoTask == "no task"

AppSave(c) ==
  /\ Room
  /\ \E s \in Scope : memory' = Save(memory, Slot(NoId, s, NoRole, NoTask, c, NoVector))
  /\ UNCHANGED <<running, tools, todo, stack, wrote>>

AppPut(id, s, c) ==
  /\ Room
  /\ memory' = Put(memory, Slot(id, s, NoRole, NoTask, c, NoVector))
  /\ UNCHANGED <<running, tools, todo, stack, wrote>>

AppDelete(s, id) ==
  /\ memory' = Delete(memory, s, id)
  /\ wrote' = {w \in wrote : \E r \in Range(memory'.records) : r.id = w.id}
  /\ UNCHANGED <<running, tools, todo, stack>>

Names == {Role[a].name : a \in Agent} \cup {""}
TaskStep(t) ==
  \/ Return(t)
  \/ \E name \in Names : DelegateRefused(t, name) \/ Delegate(t, name)
  \/ \E c \in Content : \E e \in maybeEmbedEntry(c) : Remember(t, c, e)
  \/ \E text \in DOMAIN Matches \cup {NoText}, e \in {NoVector} \cup {Embed[c] : c \in Content} : Recall(t, text, e)
Store ==
  \/ \E c \in Content : AppSave(c)
  \/ \E s \in Scope : \/ \E id \in CallerId, c \in Content : AppPut(id, s, c)
                      \/ \E id \in CallerId \cup 1..memory.last : AppDelete(s, id)
Scheduler ==
  \/ \E t \in Task, reply \in Replies : StartTask(t, reply)
  \/ NoAgentForTask \/ KickoffReturns

Next == \/ \E c \in Crew : Kickoff(c)
        \/ Scheduler \/ Store \/ \E t \in Task : TaskStep(t)

Spec == Init /\ [][Next]_vars

\* Go runs every goroutine; a model call ends (Executor), a tool call is one step here.
FairSpec == Spec /\ WF_vars(Scheduler) /\ \A t \in Task : WF_vars(TaskStep(t))

------------------------------------------------------------------------------
(* Properties. *)

Execution ==
  [agent: Agent, role: {Role[a] : a \in Agent} \cup {NoRole}, depth: Nat,
   callers: Seq({Role[a] : a \in Agent}), left: Nat]
Entry ==
  [id: Nat \cup CallerId, scope: Scope, agent: {Role[a] : a \in Agent} \cup {NoRole},
   task: Task \cup {NoTask}, content: Content, emb: Vector \cup {NoVector}]

TypeOK ==
  /\ running \in Crew \cup {NoCrew} /\ tools \in [Agent -> Crew \cup {NoCrew}]
  /\ todo \in SUBSET Task /\ (running = NoCrew => todo = {} /\ \A t \in Task : stack[t] = <<>>)
  /\ stack \in [Task -> Seq(Execution)]
  /\ memory \in [records: Seq(Entry), last: Nat]
  /\ wrote \in SUBSET [id: Nat, agent: Agent, task: Task, crew: Crew]

\* "Nested calls are bounded by DefaultMaxDelegationDepth and refuse cycles on the
\* caller stack" (NewDelegationTool): whatever the models ask for, no agent works
\* inside a call it made itself, through however many peers, and the nesting is
\* bounded.
ChainSound ==
  \A t \in Task :
    /\ Len(stack[t]) <= DefaultMaxDelegationDepth + 1
    /\ \A p, q \in DOMAIN stack[t] : p # q => stack[t][p].agent # stack[t][q].agent

\* What an agent remembers is attributed to it and to the task of the crew it was
\* asked for, however deep in delegations it is and whatever else runs.
Attributed ==
  \A w \in wrote, p \in DOMAIN memory.records :
    memory.records[p].id = w.id =>
      memory.records[p].agent = Role[w.agent] /\ memory.records[p].task = w.task

\* "generateIDLocked returns a fresh ID that is not already assigned", and idForLocked
\* "the stable ID of record i": whatever is saved, put, shown and deleted, an ID the
\* store has given names one entry; an entry with an ID keeps it, and all else, until it
\* is deleted by that ID in its scope; and an ID once given never comes to name another
\* entry, not even after the deletion of the first.  An ID an application chooses promises
\* less: Put appends, so an ID put twice names both entries, and after a Delete the other.
IssuedIds == 1..memory.last
IdsNameOne ==
  /\ [](\A p, q \in DOMAIN memory.records :
          memory.records[p].id \in IssuedIds /\ memory.records[p].id = memory.records[q].id => p = q)
  /\ [][\A r \in Range(memory.records) :
          r.id # NoId => r \in Range(memory'.records) \/ AppDelete(r.scope, r.id)]_vars
  /\ [][\A r \in Range(memory'.records) : r.id \in IssuedIds => r \in Range(memory.records)]_vars

\* Whatever was put, saved, shown and deleted, a Query shows the best there is.
HitsAreBest == \A q \in Queries : BestHits(memory, q)

\* Every Kickoff returns: the executions inside executions come to an end.
EveryKickoffReturns == (running # NoCrew) ~> (running = NoCrew)

------------------------------------------------------------------------------
(* What a doc or comment says and the code does not do. *)

\* docs/crews.md: "attaches delegate_to_coworker to each agent at Kickoff": the
\* agents of a Kickoff delegate to agents of their crew and remember in its scope.
OwnCrew ==
  /\ \A t \in Task : \A p \in DOMAIN stack[t] : p > 1 => stack[t][p].agent \in Range(Agents[running])
  /\ \A w \in wrote, p \in DOMAIN memory.records :
       memory.records[p].id = w.id => memory.records[p].scope = ScopeOf[w.crew]

\* "Delete removes the entry with the given ID" (Memory.Delete): no entry of the
\* scope has it afterwards.
DeleteRemoves ==
  [][\A s \in Scope, id \in CallerId :
       AppDelete(s, id) => \A r \in Range(memory'.records) : ~(r.scope = s /\ r.id = id)]_vars

\* "never a silent empty on a non-empty store" (MemoryQuery).
NeverSilentlyEmpty ==
  \A q \in Queries : Candidates(memory, q) # {} => Hits(memory, q) # <<>>
==============================================================================
