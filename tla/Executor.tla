------------------------------- MODULE Executor -------------------------------
(***************************************************************************)
(* executeTask (executor.go) and what it runs: the ReAct loop, the native  *)
(* tool loop (toolcall.go), the gather and capture phases of structured    *)
(* output (structured.go) and AgenticLoop (loop.go) around them.           *)
(*                                                                         *)
(* Executions are goroutines that run a task each; they share the caller's *)
(* context and may share tools.  A step is a model call, a tool call or    *)
(* the reading of a tool's facts after it.  The two kinds of loop and the  *)
(* two kinds of gathering differ in what a reply may ask for and in what   *)
(* is checked, and are one loop here.                                      *)
(*                                                                         *)
(* A text is left out except for whether it satisfies the schema.  A fact  *)
(* is its payload hash; their order is left out.  A conversation is its    *)
(* messages after the prompt.                                              *)
(***************************************************************************)
EXTENDS Integers, Sequences, FiniteSets

CONSTANTS Exec,     \* executions in flight
          Tool,     \* tools
          FactTool, \* those that implement FactSource
          Hash,     \* payload hashes of facts
          Configs,  \* the agents with their tasks that an execution may be of
          MaxCalls, \* bound: tool calls in one reply
          defaultMaxIterations, defaultRepairMax, defaultMaxRefinements

Unknown == "unknown"   \* a name that no tool of the agent has
NoHash == ""           \* a fact without payload hash

ASSUME ToolAssumption == FactTool \subseteq Tool /\ Unknown \notin Tool
ASSUME HashAssumption == NoHash \notin Hash
Config ==
  [native: BOOLEAN,     \* ToolMode
   calling: BOOLEAN,    \* the LLM implements ToolCallingLLM
   tools: SUBSET Tool,  \* effectiveTools
   maxIterations: Int,
   structured: {"none", "json", "toolcall"}, allowTools: BOOLEAN, repairMax: Int,
   loop: BOOLEAN, skipPlan: BOOLEAN, rewriteOnly: BOOLEAN, maxRefinements: Int]
ASSUME ConfigsAssumption == Configs \in [Exec -> SUBSET Config]
ASSUME BoundsAssumption == MaxCalls \in Nat \ {0}
ASSUME DefaultsAssumption ==
  /\ defaultMaxIterations \in Nat \ {0}
  /\ defaultRepairMax \in Nat \ {0} /\ defaultMaxRefinements \in Nat \ {0}

VARIABLES
  cfg,        \* agent and task of an execution
  ctxDone,    \* the caller's context is cancelled
  lastFacts,  \* FactSourceTool.lastFacts, per tool
  st,         \* the local variables of an execution
  modelCalls, \* history: model calls made
  own         \* history: facts that an execution's tool calls produced

vars == <<cfg, ctxDone, lastFacts, st, modelCalls, own>>

MaxIter(e) == IF cfg[e].maxIterations <= 0 THEN defaultMaxIterations ELSE cfg[e].maxIterations
RepairMax(e) == IF cfg[e].repairMax <= 0 THEN defaultRepairMax ELSE cfg[e].repairMax
MaxRefinements(e) ==
  IF cfg[e].maxRefinements <= 0 THEN defaultMaxRefinements ELSE cfg[e].maxRefinements
Structured(e) == cfg[e].structured # "none"

Start == [pc |-> "idle",
          iter |-> 0, attempt |-> 0, round |-> 0,  \* counters of the three loops
          msgs |-> <<>>,      \* conversation of the current loop
          calls |-> <<>>,     \* tool calls of the last reply that are not answered
          facts |-> {},       \* collectedFacts
          allFacts |-> {},    \* AgenticLoop's allFacts, and what is returned
          traces |-> <<>>,    \* traces of the native loop
          valid |-> FALSE,    \* the output satisfies the schema
          warned |-> FALSE,   \* "gather budget exhausted"
          result |-> "none"]

Init ==
  /\ cfg \in [Exec -> UNION {Configs[e] : e \in Exec}] /\ \A e \in Exec : cfg[e] \in Configs[e]
  /\ ctxDone = FALSE
  /\ lastFacts = [t \in FactTool |-> {}]
  /\ st = [e \in Exec |-> Start]
  /\ modelCalls = [e \in Exec |-> 0] /\ own = [e \in Exec |-> {}]

------------------------------------------------------------------------------
(* Steps. *)

Becomes(e, s) == st' = [st EXCEPT ![e] = s]
Local(e, s) == Becomes(e, s) /\ UNCHANGED <<cfg, ctxDone, lastFacts, modelCalls, own>>
Fail(e, err) == Local(e, [st[e] EXCEPT !.pc = "done", !.result = err])

\* A model call that returned a reply; s is what becomes of the execution.
Replied(e, s) ==
  /\ Becomes(e, s)
  /\ modelCalls' = [modelCalls EXCEPT ![e] = @ + 1]
  /\ UNCHANGED <<cfg, ctxDone, lastFacts, own>>
FailReplied(e, err) == Replied(e, [st[e] EXCEPT !.pc = "done", !.result = err])

\* At the top of the three loops the context is checked.
LoopTop(e) ==
  \/ st[e].pc = "turn" /\ st[e].iter < MaxIter(e)
  \/ st[e].pc \in {"capture", "evaluate"}
Canceled(e) == LoopTop(e) /\ ctxDone /\ Fail(e, "canceled")

ModelCall(e) ==
  \/ LoopTop(e) /\ ~ctxDone
  \/ st[e].pc \in {"plan", "single", "reevaluate", "rewrite"}
CallFails(e) == ModelCall(e) /\ FailReplied(e, "model")

------------------------------------------------------------------------------
(* executeTaskDefault. *)

CapturePhase(e) ==
  IF cfg[e].structured = "toolcall" /\ ~cfg[e].calling THEN "unsupported" ELSE "capture"

\* Where it starts: tools are used only by an unstructured task and, with
\* AllowTools, by the gathering of a structured one.
Phase(e) ==
  IF Structured(e) /\ (~cfg[e].allowTools \/ cfg[e].tools = {}) THEN CapturePhase(e)
  ELSE IF cfg[e].native /\ ~cfg[e].calling THEN "unsupported"
  ELSE IF cfg[e].tools = {} THEN "single" ELSE "turn"

Enter(e, s) == [s EXCEPT !.pc = Phase(e), !.iter = 0, !.attempt = 0, !.msgs = <<>>,
                         !.facts = {}, !.traces = <<>>]

\* ErrNativeToolsUnsupported, ErrToolCallStructuredUnsupported.
Unsupported(e) == st[e].pc = "unsupported" /\ Fail(e, "unsupported")

dedupFacts(old, new) == old \cup (new \ {NoHash})

OutputLastFacts(e, s, v) ==
  [s EXCEPT !.valid = v, !.allFacts = s.facts,
            !.pc = IF cfg[e].loop THEN "evaluate" ELSE "done",
            !.result = IF cfg[e].loop THEN @ ELSE "answer"]
\* It returned an output, to executeTask or to the loop.
Output(e, s, v) ==
  [s EXCEPT !.valid = v, !.allFacts = dedupFacts(@, s.facts),
            !.pc = IF cfg[e].loop THEN "evaluate" ELSE "done",
            !.result = IF cfg[e].loop THEN @ ELSE "answer"]

executeTask(e) ==
  /\ st[e].pc = "idle"
  /\ Local(e, IF cfg[e].loop /\ ~cfg[e].skipPlan /\ cfg[e].tools # {}
              THEN [st[e] EXCEPT !.pc = "plan"] ELSE Enter(e, st[e]))

\* Without tools: one call.
Single(e) == st[e].pc = "single" /\ Replied(e, Output(e, st[e], FALSE))

------------------------------------------------------------------------------
(* The tool loop: ReAct or native, of a task or of gathering. *)

Msg(role, ids) == [role |-> role, ids |-> ids]
AnswerRole(e) == IF cfg[e].native THEN "tool" ELSE "user"

\* The end of the loop: the output of a task, or the transcript for the capture.
EndLoop(e, s) ==
  IF Structured(e) THEN [s EXCEPT !.pc = CapturePhase(e), !.msgs = <<>>] ELSE Output(e, s, FALSE)

\* A final answer, a text that does not follow the ReAct protocol, or a native
\* reply without tool calls.
FinalAnswer(e) ==
  /\ st[e].pc = "turn" /\ LoopTop(e) /\ ~ctxDone
  /\ Replied(e, EndLoop(e, st[e]))

\* The k-th call of a reply.  Arguments are over the limits (big) or not.
Call(e, k, t, big) == [id |-> st[e].iter * MaxCalls + k, tool |-> t, big |-> big]

\* A reply that asks for n tools; one in ReAct, whose input has no limits.
ToolCalls(e, n) ==
  /\ st[e].pc = "turn" /\ LoopTop(e) /\ ~ctxDone
  /\ cfg[e].native \/ n = 1
  /\ \E tools \in [1..n -> cfg[e].tools \cup {Unknown}], big \in [1..n -> BOOLEAN] :
       /\ cfg[e].native \/ ~big[1]
       /\ LET calls == [k \in 1..n |-> Call(e, k, tools[k], big[k])] IN
            Replied(e, [st[e] EXCEPT
              !.pc = "act", !.calls = calls,
              !.msgs = Append(@, Msg("assistant", [k \in 1..n |-> calls[k].id]))])

NextCall(e, s) ==
  [s EXCEPT !.calls = Tail(@),
            !.pc = IF Len(s.calls) = 1 THEN "turn" ELSE "act",
            !.iter = IF Len(s.calls) = 1 THEN @ + 1 ELSE @]
\* The first call is answered by a message of its own and, in the native loop of
\* a task, traced; after the last one the next iteration begins.
Answered(e, s) ==
  LET id == Head(s.calls).id IN
    NextCall(e, [s EXCEPT
      !.msgs = Append(@, Msg(AnswerRole(e), <<id>>)),
      !.traces = IF cfg[e].native /\ ~Structured(e) THEN Append(@, id) ELSE @])

\* Arguments are checked by the native loop of a task only, before the name.
Checked(e) == cfg[e].native /\ ~Structured(e)
Refused(e) ==
  LET c == Head(st[e].calls) IN (Checked(e) /\ c.big) \/ c.tool = Unknown

RefuseSilently(e) ==
  /\ st[e].pc = "act" /\ Refused(e)
  /\ Local(e, NextCall(e, st[e]))
Refuse(e) ==
  /\ st[e].pc = "act" /\ Refused(e)
  /\ Local(e, Answered(e, st[e]))

\* A FactSourceTool forgets its facts when a call fails, a WebSearchTool does not.
ToolFails(e) ==
  LET t == Head(st[e].calls).tool IN
    /\ st[e].pc = "act" /\ ~Refused(e)
    /\ Becomes(e, Answered(e, st[e]))
    /\ IF t \in FactTool THEN lastFacts' \in {lastFacts, [lastFacts EXCEPT ![t] = {}]}
                         ELSE UNCHANGED lastFacts
    /\ UNCHANGED <<cfg, ctxDone, modelCalls, own>>

ToolReturns(e) ==
  /\ st[e].pc = "act" /\ ~Refused(e) /\ Head(st[e].calls).tool \notin FactTool
  /\ Local(e, Answered(e, st[e]))

\* Call stores the facts in the tool under its lock; Facts takes the lock again.
FactToolReturns(e, new) ==
  LET t == Head(st[e].calls).tool IN
    /\ st[e].pc = "act" /\ ~Refused(e) /\ t \in FactTool
    /\ lastFacts' = [lastFacts EXCEPT ![t] = new]
    /\ own' = [own EXCEPT ![e] = @ \cup new]
    /\ Becomes(e, [st[e] EXCEPT !.pc = "facts"])
    /\ UNCHANGED <<cfg, ctxDone, modelCalls>>

CollectFacts(e) ==
  /\ st[e].pc = "facts"
  /\ Local(e, Answered(e, [st[e] EXCEPT
       !.facts = dedupFacts(@, lastFacts[Head(st[e].calls).tool])]))

ExhaustedTask(e) ==
  /\ st[e].pc = "turn" /\ st[e].iter >= MaxIter(e) /\ ~Structured(e)
  /\ Fail(e, "maxIterations")
\* The budget of iterations is used up: an error of a task, a warning of gathering.
Exhausted(e) ==
  /\ st[e].pc = "turn" /\ st[e].iter >= MaxIter(e)
  /\ IF Structured(e) THEN Local(e, EndLoop(e, [st[e] EXCEPT !.warned = TRUE]))
                      ELSE Fail(e, "maxIterations")

ToolLoop(e) ==
  \/ FinalAnswer(e) \/ \E n \in 1..MaxCalls : ToolCalls(e, n)
  \/ Refuse(e) \/ ToolFails(e) \/ ToolReturns(e) \/ CollectFacts(e) \/ Exhausted(e)
  \/ \E new \in SUBSET (Hash \cup {NoHash}) : FactToolReturns(e, new)

------------------------------------------------------------------------------
(* Capturing structured output. *)

CaptureValid(e) ==
  /\ st[e].pc = "capture" /\ ~ctxDone
  /\ Replied(e, Output(e, st[e], TRUE))

\* The reply's tool calls stay in the conversation and are not answered.
Repair(e) ==
  /\ st[e].pc = "capture" /\ ~ctxDone /\ st[e].attempt < RepairMax(e)
  /\ \E n \in IF cfg[e].structured = "toolcall" THEN 0..MaxCalls ELSE {0} :
       Replied(e, [st[e] EXCEPT
         !.msgs = @ \o <<Msg("assistant", [k \in 1..n |-> k]), Msg("user", <<>>)>>,
         !.attempt = @ + 1])

RepairGivesUp(e) ==
  /\ st[e].pc = "capture" /\ ~ctxDone /\ st[e].attempt >= RepairMax(e)
  /\ Replied(e, Output(e, st[e], FALSE))
RepairBudgetExceeded(e) ==
  /\ st[e].pc = "capture" /\ ~ctxDone /\ st[e].attempt >= RepairMax(e)
  /\ FailReplied(e, "repairBudget")

Capture(e) == CaptureValid(e) \/ Repair(e) \/ RepairBudgetExceeded(e)

------------------------------------------------------------------------------
(* AgenticLoop. *)

Plan(e) == st[e].pc = "plan" /\ Replied(e, Enter(e, st[e]))

Evaluating(e) == (st[e].pc = "evaluate" /\ ~ctxDone) \/ st[e].pc = "reevaluate"

ScorePasses(e) ==
  /\ Evaluating(e)
  /\ Replied(e, [st[e] EXCEPT !.pc = "done", !.result = "answer"])

EvaluationFailed(e) ==
  /\ Evaluating(e) /\ st[e].round >= MaxRefinements(e)
  /\ FailReplied(e, "evaluation")

RefineSameRound(e) ==
  /\ Evaluating(e) /\ st[e].round < MaxRefinements(e)
  /\ Replied(e, IF cfg[e].rewriteOnly THEN [st[e] EXCEPT !.pc = "rewrite"] ELSE Enter(e, st[e]))
\* The task is executed again, or its output rewritten.
Refine(e) ==
  /\ Evaluating(e) /\ st[e].round < MaxRefinements(e)
  /\ Replied(e, IF cfg[e].rewriteOnly THEN [st[e] EXCEPT !.pc = "rewrite"]
                ELSE Enter(e, [st[e] EXCEPT !.round = @ + 1]))

\* A rewritten output is any text: the schema is not checked again.
Rewrite(e) ==
  /\ st[e].pc = "rewrite"
  /\ \E v \in BOOLEAN :
       Replied(e, [st[e] EXCEPT !.pc = "evaluate", !.round = @ + 1, !.valid = v])

\* An evaluation that cannot be parsed is asked for once more.
EvaluationRepair(e) ==
  /\ st[e].pc = "evaluate" /\ ~ctxDone
  /\ Replied(e, [st[e] EXCEPT !.pc = "reevaluate"])
EvaluationInvalid(e) == st[e].pc = "reevaluate" /\ FailReplied(e, "evaluationInvalid")

Loop(e) ==
  \/ Plan(e) \/ ScorePasses(e) \/ EvaluationFailed(e) \/ Refine(e) \/ Rewrite(e)
  \/ EvaluationRepair(e) \/ EvaluationInvalid(e)

------------------------------------------------------------------------------

Cancel == ~ctxDone /\ ctxDone' = TRUE /\ UNCHANGED <<cfg, lastFacts, st, modelCalls, own>>

Run(e) ==
  \/ executeTask(e) \/ Single(e) \/ Unsupported(e) \/ Canceled(e) \/ CallFails(e)
  \/ ToolLoop(e) \/ Capture(e) \/ Loop(e)

Next == Cancel \/ \E e \in Exec : Run(e)

Spec == Init /\ [][Next]_vars

\* Go runs every goroutine; a model call and a tool call end.
FairSpec == Spec /\ \A e \in Exec : WF_vars(Run(e))

------------------------------------------------------------------------------
(* Properties. *)

Results == {"answer", "canceled", "model", "unsupported", "maxIterations", "repairBudget",
            "evaluation", "evaluationInvalid"}

Message == [role: {"assistant", "tool", "user"}, ids: Seq(Nat)]
ToolCall == [id: Nat, tool: Tool \cup {Unknown}, big: BOOLEAN]
State ==
  [pc: {"idle", "plan", "single", "turn", "act", "facts", "capture", "unsupported",
        "evaluate", "reevaluate", "rewrite", "done"},
   iter: Nat, attempt: Nat, round: Nat,
   msgs: Seq(Message), calls: Seq(ToolCall),
   facts: SUBSET Hash, allFacts: SUBSET Hash, traces: Seq(Nat),
   valid: BOOLEAN, warned: BOOLEAN, result: Results \cup {"none"}]

TypeOK ==
  /\ cfg \in [Exec -> Config] /\ ctxDone \in BOOLEAN
  /\ lastFacts \in [FactTool -> SUBSET (Hash \cup {NoHash})]
  /\ st \in [Exec -> State]
  /\ modelCalls \in [Exec -> Nat] /\ own \in [Exec -> SUBSET (Hash \cup {NoHash})]
  /\ \A e \in Exec : st[e].pc = "done" <=> st[e].result # "none"

\* Message.ToolCallID ("identifier of the tool call this result answers ... required
\* to match a result back to the call"): when the tool loop asks the model again,
\* each call of each earlier reply is answered once, in order, directly after the
\* reply, whether the tool ran, failed, was refused or does not exist.
CallsAnswered ==
  \A e \in Exec : st[e].pc = "turn" =>
    \A j \in DOMAIN st[e].msgs : st[e].msgs[j].role = "assistant" =>
      \A k \in DOMAIN st[e].msgs[j].ids :
        /\ j + k <= Len(st[e].msgs)
        /\ st[e].msgs[j + k] = Msg(AnswerRole(e), <<st[e].msgs[j].ids[k]>>)

Private(e) ==
  \A f \in Exec \ {e} : FactTool \cap cfg[e].tools \cap cfg[f].tools = {}

\* "After each successful Call, the executor collects the tool's Facts()": an answer
\* comes with the facts of all the tool calls made for it, gathering and earlier
\* rounds of the loop included, and with no others, if no other execution in
\* flight uses the same fact tools.
FactsExact ==
  \A e \in Exec : st[e].result = "answer" /\ Private(e) => st[e].allFacts = own[e] \ {NoHash}

\* "The executor never returns invalid JSON": the answer of a structured task
\* satisfies the schema, if the loop does not rewrite it.
StructuredIsValid ==
  \A e \in Exec : st[e].result = "answer" /\ Structured(e) /\ ~(cfg[e].loop /\ cfg[e].rewriteOnly)
                    => st[e].valid

\* Model calls of one executeTaskDefault, and of an execution.
PassBudget(e) ==
  (CASE Phase(e) = "turn" -> MaxIter(e) [] Phase(e) = "single" -> 1 [] OTHER -> 0)
  + (IF Structured(e) THEN RepairMax(e) + 1 ELSE 0)
Budget(e) ==
  LET rounds == MaxRefinements(e) + 1 IN
    IF ~cfg[e].loop THEN PassBudget(e)
    ELSE 1 + 2 * rounds + IF cfg[e].rewriteOnly THEN PassBudget(e) + MaxRefinements(e)
                          ELSE rounds * PassBudget(e)

\* Whatever the model replies, an execution never makes more model calls than its
\* three nested limits (MaxIterations, RepairMax, MaxRefinements) allow.
WithinBudget == \A e \in Exec : modelCalls[e] <= Budget(e)

\* ... and every execution returns within them.
ExecutionReturns == []WithinBudget /\ \A e \in Exec : (st[e].pc # "idle") ~> (st[e].pc = "done")

------------------------------------------------------------------------------
(* What documents say and the code does not do. *)

\* docs/concurrency.md: tasks of a group "do not read each other's outputs, facts, or
\* warnings mid-flight": an answer has no fact of another execution's tool call.
FactsAreOwn == \A e \in Exec : st[e].result = "answer" => st[e].allFacts \subseteq own[e]

\* doc.go: "The executor never returns invalid JSON or invented data."
NeverInvalid == \A e \in Exec : st[e].result = "answer" /\ Structured(e) => st[e].valid
==============================================================================
