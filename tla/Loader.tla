------------------------------- MODULE Loader -------------------------------
(***************************************************************************)
(* load.go, load_schema.go: a declarative crew is read, validated against  *)
(* crewConfigSchema, decoded, and built into a Crew: agents, tasks and     *)
(* their context by name, and the names the caller gave to models, tools   *)
(* and guardrails.  And structured.go's use of the same validator: a       *)
(* schema is checked once, strictly or not, and answers against it.        *)
(*                                                                         *)
(* One call, or one LoadCrew and Build, per behaviour.  The loops of Build *)
(* are steps, since where one returns decides what is reported.            *)
(***************************************************************************)
EXTENDS Schema

CONSTANTS
    Documents,      \* what a reader may yield: [json, bytes, pointed]
    Answers,        \* uses of a schema of the program's own: [schema, value, strict]
    Orders,         \* the orders in which Go may visit the keys of a map
    MaxCrewConfigBytes,
    Llms, Tools, Guardrails,        \* names in the maps given to Build
    Blank           \* texts that strings.TrimSpace empties

ASSUME LoaderConstants == MaxCrewConfigBytes \in Nat /\ Blank \subseteq STRING

VARIABLES
    input,      \* the document or the answer
    order,      \* the order of this call's map iterations
    verdict,    \* the errors of validateSchema
    pc,         \* the step to take; "done" or "failed" at the end
    err,        \* what was returned: a kind of error, or none
    byKey,      \* buildAgents: name or role -> agent
    agents,     \* number of agents built
    byName,     \* buildTasks: name -> task
    tasks,      \* the tasks built: [agent, context]
    crew        \* Build's crew, or none

Declared == "json" \in DOMAIN input

vars == <<input, order, verdict, pc, err, byKey, agents, byName, tasks, crew>>
loaded == <<input, order, verdict>>
built == <<byKey, agents, byName, tasks, crew>>

NoCrew == [tasks |-> <<>>, process |-> "", manager |-> 0]

-----------------------------------------------------------------------------
\* crewConfigSchema
Typed(type) == Object([type |-> String(type)])
List(items) == Object([type |-> String("array"), items |-> items])
Closed(required, properties) ==
    Object([type |-> String("object"), additionalProperties |-> Boolean(FALSE),
            required |-> Array(required), properties |-> Object(properties)])
NonEmpty == Object([type |-> String("string"), minLength |-> Number(1)])
Natural == Object([type |-> String("integer"), minimum |-> Number(0)])

agentSchema == Closed(<<String("role")>>,
    [name |-> Typed("string"), role |-> NonEmpty, goal |-> Typed("string"), backstory |-> Typed("string"),
     llm |-> Typed("string"), tools |-> List(Typed("string")), max_iterations |-> Natural,
     allow_delegation |-> Typed("boolean"), tool_mode |-> Typed("string")])
taskSchema == Closed(<<String("description")>>,
    [name |-> Typed("string"), description |-> NonEmpty, expected_output |-> Typed("string"),
     agent |-> Typed("string"), tools |-> List(Typed("string")),
     context |-> List(Object([oneOf |-> Array(<<Typed("string"), Natural>>)])),
     async |-> Typed("boolean"), output_file |-> Typed("string"), guardrail |-> Typed("string")])
metaSchema == Closed(<<>>,
    [name |-> Typed("string"), process |-> Typed("string"), verbose |-> Typed("boolean"),
     memory |-> Typed("boolean"), manager_llm |-> Typed("string"), manager_agent |-> Typed("string"),
     output_dir |-> Typed("string"), enable_delegation_tool |-> Typed("boolean"),
     enable_memory_tools |-> Typed("boolean"), async_max_workers |-> Natural,
     async_fail_fast |-> Typed("boolean"), guardrails |-> List(Typed("string"))])
crewConfigSchema == Closed(<<String("agents"), String("tasks")>>,
    [agents |-> List(agentSchema), tasks |-> List(taskSchema), crew |-> metaSchema])

-----------------------------------------------------------------------------
\* The decoded document: an absent field is its zero value.
Field(o, k) == IF k \in DOMAIN o THEN o[k].string ELSE ""
Names(o, k) == {e.string : e \in ToSet(Elements(o, k))}
Doc == input.json.object
agentConfigs == Doc["agents"].array
taskConfigs == Doc["tasks"].array
AgentAt(i) == agentConfigs[i].object
TaskAt(i) == taskConfigs[i].object
meta == IF "crew" \in DOMAIN Doc THEN Doc["crew"].object ELSE [k \in {} |-> {}]

\* A whole number written with a point or an exponent passes the schema, but neither an
\* int field nor Atoi takes it.
HasNumber(json) ==
    LET configs == ToSet(json.object["agents"].array) \cup ToSet(json.object["tasks"].array)
                     \cup At(json.object, "crew")
    IN  \E c \in configs : \E k \in DOMAIN c.object :
            Is("number", c.object[k]) \/ \E e \in ToSet(Elements(c.object, k)) : Is("number", e)

Init ==
    /\ input \in Documents \cup Answers
    /\ order \in Orders
    /\ verdict = {}
    /\ pc = IF Declared THEN "load" ELSE "schema"
    /\ err = "none"
    /\ byKey = [k \in {} |-> 0] /\ agents = 0
    /\ byName = [k \in {} |-> 0] /\ tasks = <<>>
    /\ crew = NoCrew

Fail(kind) == pc' = "failed" /\ err' = kind
Go(to) == pc' = to /\ UNCHANGED err

-----------------------------------------------------------------------------
\* NewStructuredOutput: only a strict one looks at its schema.
NewStructuredOutput ==
    /\ pc = "schema"
    /\ IF input.strict /\ walkSchemaKeywords(input.schema) # {} THEN Fail("unsupported") ELSE Go("answer")
    /\ UNCHANGED <<loaded, built>>

\* An answer, or the arguments of a call, against a schema.
ValidateAnswer ==
    /\ pc = "answer"
    /\ LET vc == validateSchema(input.value, input.schema, order)
       IN  /\ verdict' = vc.errs \cup {k \in {"budget"} : vc.expansions >= MaxSchemaRefExpansions}
           /\ IF vc.errs = {} THEN Go("done") ELSE Fail("validation")
    /\ UNCHANGED <<input, order, built>>

-----------------------------------------------------------------------------
\* The reader fails, or is cut one byte beyond the limit.
ReadFails ==
    /\ pc = "load"
    /\ Fail("read")
    /\ UNCHANGED <<loaded, built>>

LoadCrew ==
    /\ pc = "load"
    /\ IF input.bytes > MaxCrewConfigBytes THEN Fail("large") ELSE Go("parse")
    /\ UNCHANGED <<loaded, built>>

parseCrewConfig ==
    /\ pc = "parse"
    /\ verdict' = validateSchema(input.json, crewConfigSchema, order).errs
    /\ IF verdict' # {} \/ (input.pointed /\ HasNumber(input.json)) THEN Fail("validation") ELSE Go("agents")
    /\ UNCHANGED <<input, order, built>>

-----------------------------------------------------------------------------
Unknown(names, known) == names \ ({""} \cup known) # {}

\* buildAgents, one agent: a name must be new among the names and the roles so far, a
\* nameless agent's role too; a named agent's role is registered only if it is free.
\* A later agent takes over a role.
RoleTaken(key, role, i) == (role :> i) @@ (key :> i) @@ byKey
Registered(key, role, i) == byKey @@ (key :> i) @@ (role :> i)
BuildAgent ==
    /\ pc = "agents" /\ agents < Len(agentConfigs)
    /\ LET i == agents + 1
           a == AgentAt(i)
           key == IF Field(a, "name") # "" THEN Field(a, "name") ELSE Field(a, "role")
       IN  /\ IF Field(a, "role") \in Blank THEN Fail("validation")
              ELSE IF Unknown({Field(a, "llm")}, Llms) \/ ~(Names(a, "tools") \subseteq Tools) THEN Fail("unknown")
              ELSE IF key \in DOMAIN byKey THEN Fail("validation")
              ELSE Go("agents")
           /\ agents' = i
           /\ byKey' = Registered(key, Field(a, "role"), i)
    /\ UNCHANGED <<loaded, byName, tasks, crew>>

EndAgents ==
    /\ pc = "agents" /\ agents = Len(agentConfigs)
    /\ Go("tasks")
    /\ UNCHANGED <<loaded, built>>

\* buildTasks, first loop: a task without agent gets the first one, if there is any.
FirstAgent == IF agents > 0 THEN 1 ELSE 0
BuildTask ==
    /\ pc = "tasks" /\ Len(tasks) < Len(taskConfigs)
    /\ LET t == TaskAt(Len(tasks) + 1)
           name == Field(t, "name")
           agent == Field(t, "agent")
       IN  /\ IF Field(t, "description") \in Blank THEN Fail("validation")
              ELSE IF \/ Unknown({agent}, DOMAIN byKey)
                      \/ Unknown({Field(t, "guardrail")}, Guardrails)
                      \/ ~(Names(t, "tools") \subseteq Tools) THEN Fail("unknown")
              ELSE IF name \in DOMAIN byName THEN Fail("validation")
              ELSE Go("tasks")
           /\ tasks' = Append(tasks, [agent |-> IF agent \in DOMAIN byKey THEN byKey[agent] ELSE FirstAgent,
                                      context |-> <<>>])
           /\ byName' = IF name = "" THEN byName ELSE byName @@ (name :> Len(tasks) + 1)
    /\ UNCHANGED <<loaded, byKey, agents, crew>>

\* resolveContext: by name, else a numeric string as an index; a number is an index (0-based).
resolveContext(ref) ==
    LET at(index) == {index + 1} \cap DOMAIN tasks
    IN  CASE Is("number", ref) -> at(ref.number \div 2)
          [] Is("string", ref) ->
                IF ref.string \in DOMAIN byName THEN {byName[ref.string]}
                ELSE IF ref.string \in DOMAIN Atoi THEN at(Atoi[ref.string]) ELSE {}

\* buildTasks, second loop.
ResolveContexts ==
    /\ pc = "tasks" /\ Len(tasks) = Len(taskConfigs)
    /\ LET refs(i) == Elements(TaskAt(i), "context")
       IN  IF \E i \in DOMAIN tasks : \E r \in ToSet(refs(i)) : resolveContext(r) = {}
           THEN Fail("unknown") /\ UNCHANGED tasks
           ELSE /\ Go("meta")
                /\ tasks' = [i \in DOMAIN tasks |->
                       [tasks[i] EXCEPT !.context = [r \in DOMAIN refs(i) |->
                           CHOOSE t \in resolveContext(refs(i)[r]) : TRUE]]]
    /\ UNCHANGED <<loaded, byKey, agents, byName, crew>>

\* Build after the tasks: the process ("dag" is another name for sequential), the manager,
\* and the crew's guardrails.
Process ==
    LET p == Field(meta, "process") IN CASE p \in {"", "dag"} -> "sequential" [] OTHER -> p
Build ==
    /\ pc = "meta"
    /\ IF Process \notin {"sequential", "hierarchical"} THEN Fail("validation")
       ELSE IF \/ Unknown({Field(meta, "manager_llm")}, Llms)
               \/ Unknown({Field(meta, "manager_agent")}, DOMAIN byKey)
               \/ ~(Names(meta, "guardrails") \subseteq Guardrails) THEN Fail("unknown")
       ELSE Go("plan")
    /\ UNCHANGED <<loaded, built>>

\* planWaves, by its contract (PlanWaves): no cycle, no task in its own context.
AllBefore(S) == {i \in DOMAIN tasks : \A d \in ToSet(tasks[i].context) : d \in S}
Planned == FoldLeft(LAMBDA S, t : AllBefore(S), {}, tasks)
planWaves ==
    /\ pc = "plan"
    /\ IF Planned # DOMAIN tasks THEN Fail("cycle") /\ UNCHANGED crew
       ELSE LET manager == Field(meta, "manager_agent")
            IN  /\ Go("done")
                /\ crew' = [tasks |-> tasks, process |-> Process,
                            manager |-> IF manager = "" THEN 0 ELSE byKey[manager]]
    /\ UNCHANGED <<loaded, byKey, agents, byName, tasks>>

Next ==
    \/ NewStructuredOutput \/ ValidateAnswer
    \/ ReadFails \/ LoadCrew \/ parseCrewConfig
    \/ BuildAgent \/ EndAgents \/ BuildTask \/ ResolveContexts \/ Build \/ planWaves

Spec == Init /\ [][Next]_vars

-----------------------------------------------------------------------------
TypeOK ==
    /\ pc \in {"schema", "answer", "load", "parse", "agents", "tasks", "meta", "plan", "done", "failed"}
    /\ err \in {"none", "unsupported", "validation", "read", "large", "unknown", "cycle"}
    /\ agents \in Nat
    /\ \A k \in DOMAIN byKey : byKey[k] \in 1..agents
    /\ \A k \in DOMAIN byName : byName[k] \in DOMAIN tasks

Ended == pc \in {"done", "failed"}

(***************************************************************************)
(* An answer is accepted exactly if it satisfies the schema as the doc     *)
(* comment of validateSchema lists its keywords, in whatever order Go      *)
(* visits the keys of its maps (schema.go:92-113).  A call that used up    *)
(* its $ref expansions is excepted: what it refuses depends on the order,  *)
(* and under `not`, `if` and `anyOf` a refusal can let a value pass.       *)
(***************************************************************************)
VerdictIsExact ==
    (~Declared /\ Ended /\ err # "unsupported" /\ "budget" \notin verdict) =>
        ((pc = "done") <=> Satisfies(input.schema, input.value, input.schema, {}))

\* Who is called what: the agent of this name, else the first one with this role (0: nobody).
Lowest(S) == IF S = {} THEN 0 ELSE CHOOSE i \in S : \A j \in S : i <= j
Called(key) ==
    LET with(f) == {i \in DOMAIN agentConfigs : Field(AgentAt(i), f) = key}
    IN  IF with("name") # {} THEN Lowest(with("name")) ELSE Lowest(with("role"))
TaskCalled(name) == Lowest({i \in DOMAIN taskConfigs : name # "" /\ Field(TaskAt(i), "name") = name})
Meant(ref) ==
    LET index == IF Is("number", ref) THEN ref.number \div 2
                 ELSE IF ref.string \in DOMAIN Atoi THEN Atoi[ref.string] ELSE -1
    IN  IF Is("string", ref) /\ TaskCalled(ref.string) # 0 THEN TaskCalled(ref.string)
        ELSE IF index \in 0..(Len(taskConfigs) - 1) THEN index + 1 ELSE 0

\* A name nobody gave; only in a list is the empty name one.
UnknownRef ==
    \/ \E a \in ToSet(agentConfigs) :
          Unknown({Field(a.object, "llm")}, Llms) \/ Names(a.object, "tools") \ Tools # {}
    \/ \E i \in DOMAIN taskConfigs :
          \/ Field(TaskAt(i), "agent") # "" /\ Called(Field(TaskAt(i), "agent")) = 0
          \/ Unknown({Field(TaskAt(i), "guardrail")}, Guardrails) \/ Names(TaskAt(i), "tools") \ Tools # {}
          \/ \E r \in ToSet(Elements(TaskAt(i), "context")) : Meant(r) = 0
    \/ Unknown({Field(meta, "manager_llm")}, Llms) \/ Names(meta, "guardrails") \ Guardrails # {}
    \/ Field(meta, "manager_agent") # "" /\ Called(Field(meta, "manager_agent")) = 0
Clash ==
    \/ \E i, j \in DOMAIN agentConfigs :
          LET key == IF Field(AgentAt(j), "name") # "" THEN Field(AgentAt(j), "name") ELSE Field(AgentAt(j), "role")
          IN  i < j /\ key \in {Field(AgentAt(i), "name"), Field(AgentAt(i), "role")}
    \/ \E i, j \in DOMAIN taskConfigs :
          i # j /\ Field(TaskAt(i), "name") = Field(TaskAt(j), "name") /\ Field(TaskAt(i), "name") # ""
\* A cycle: tasks each of which needs one of them.
Cyclic == \E S \in (SUBSET (DOMAIN taskConfigs)) \ {{}} :
              \A i \in S : \E r \in ToSet(Elements(TaskAt(i), "context")) : Meant(r) \in S
Loadable ==
    /\ input.bytes <= MaxCrewConfigBytes
    /\ Satisfies(crewConfigSchema, input.json, crewConfigSchema, {})
    /\ ~(input.pointed /\ HasNumber(input.json))
    /\ \A a \in ToSet(agentConfigs) : Field(a.object, "role") \notin Blank
    /\ \A t \in ToSet(taskConfigs) : Field(t.object, "description") \notin Blank
    /\ Field(meta, "process") \in {"", "sequential", "hierarchical", "dag"}
    /\ ~Clash /\ ~UnknownRef /\ ~Cyclic

\* Every reference leads to what the document means by it: an agent by name before role, a
\* task of the context by name before index, in the order written.
RefsResolve ==
    /\ Len(crew.tasks) = Len(taskConfigs)
    /\ \A i \in DOMAIN taskConfigs :
          LET refs == Elements(TaskAt(i), "context")
              who == Field(TaskAt(i), "agent")
          IN  /\ crew.tasks[i].agent =
                    IF who # "" THEN Called(who) ELSE IF agentConfigs = <<>> THEN 0 ELSE 1
              /\ crew.tasks[i].context = [r \in DOMAIN refs |-> Meant(refs[r])]
    /\ Field(meta, "manager_agent") # "" => crew.manager = Called(Field(meta, "manager_agent"))

(***************************************************************************)
(* Build gives a crew exactly for the documents that are small enough,     *)
(* valid, name nothing unknown and nothing twice, and whose tasks can be   *)
(* ordered (load.go:172-402), and it is the crew the document means        *)
(* (docs/declarative.md:43, D-Y6).  A name is taken if an earlier agent    *)
(* has it as its name or as its role.                                      *)
(***************************************************************************)
LoadsExactly ==
    (Declared /\ Ended /\ err # "read") =>
        /\ (pc = "done") <=> Loadable
        /\ pc = "done" => RefsResolve
        /\ err = "unknown" => UnknownRef

-----------------------------------------------------------------------------
(***************************************************************************)
(* What comments and docs say and the code does not do.                    *)
(***************************************************************************)
\* schema.go:109: "false never matches"; a property whose schema is false matches anything.
FalseNeverMatches ==
    (~Declared /\ pc = "done" /\ Is("object", input.value) /\ Is("object", input.schema)) =>
        \A k \in Properties(input.schema.object) \cap DOMAIN input.value.object :
            input.schema.object["properties"].object[k] # Boolean(FALSE)

\* docs/tasks.md:177: a remote $ref is "still rejected under WithStrictSchema"; the walk
\* does not look at $ref, nor at what a $ref leads to outside the holders it knows.
RECURSIVE Subnodes(_)
Subnodes(v) == {v} \cup UNION {Subnodes(u) : u \in ValuesOf(v) \cup ItemsOf(v)}
StrictRejectsUnsupported ==
    (~Declared /\ input.strict /\ pc = "answer") =>
        \A v \in Subnodes(input.schema) : Is("object", v) =>
            /\ \A r \in Of("string", v.object, "$ref") : r.string \in DOMAIN Pointers
            /\ DOMAIN v.object \cap unsupportedStrictKeywords = {}
=============================================================================
