---------------------------- MODULE ExecutorProofs ----------------------------
(***************************************************************************)
(* Theorems about Executor.  The invariant speaks of one execution's local *)
(* state s, so that a step has to be followed for the execution that takes *)
(* it; other executions matter only for what they leave in a shared tool.  *)
(***************************************************************************)
EXTENDS Executor, SequenceTheorems, TLAPS

\* Unanswered calls are of the tools an execution has, and only a fact tool is
\* asked for facts.
CallsOk(e, s) ==
  /\ s.pc \in {"act", "facts"} <=> s.calls # <<>>
  /\ \A k \in DOMAIN s.calls : s.calls[k].tool \in cfg[e].tools \cup {Unknown}
  /\ s.pc = "facts" => s.calls[1].tool \in FactTool

\* A call of a reply is answered, or still among the calls, at its place.
Answers(role, s) ==
  s.pc \in {"turn", "act", "facts"} =>
    \A j \in DOMAIN s.msgs : s.msgs[j].role = "assistant" =>
      \A k \in DOMAIN s.msgs[j].ids :
        IF j + k <= Len(s.msgs)
        THEN s.msgs[j + k] = Msg(role, <<s.msgs[j].ids[k]>>)
        ELSE /\ j + k - Len(s.msgs) <= Len(s.calls)
             /\ s.calls[j + k - Len(s.msgs)].id = s.msgs[j].ids[k]
AnswerOk(e, s) == Answers(AnswerRole(e), s)

\* The facts collected are those produced, but for the ones about to be read.
FactsOk(s, last, mine) ==
  /\ mine \ {NoHash} =
       s.allFacts \cup s.facts \cup (IF s.pc = "facts" THEN last[s.calls[1].tool] \ {NoHash} ELSE {})
  /\ s.pc \in {"idle", "plan", "evaluate", "reevaluate", "rewrite"} \/ s.result = "answer"
       => s.facts \subseteq s.allFacts
  /\ s.result = "none" <=> s.pc # "done"

ExecInv ==
  /\ TypeOK
  /\ \A e \in Exec : /\ CallsOk(e, st[e])
                     /\ AnswerOk(e, st[e])
                     /\ Private(e) => FactsOk(st[e], lastFacts, own[e])

------------------------------------------------------------------------------
(* What the transformations of a local state preserve. *)

\* The empty conversation and the empty trace.
LEMMA NothingYet == <<>> \in Seq(Message) /\ <<>> \in Seq(Nat)
BY EmptySeq

\* Where executeTaskDefault and the capture begin.
LEMMA PhaseType == ASSUME NEW e \in Exec
  PROVE /\ CapturePhase(e) \in {"unsupported", "capture"}
        /\ Phase(e) \in {"unsupported", "capture", "single", "turn"}
BY DEF CapturePhase, Phase

\* executeTaskDefault begins with a new conversation, when no call is open.
LEMMA EnterOk ==
  ASSUME NEW e \in Exec, NEW s \in State, s.calls = <<>>, s.result = "none"
  PROVE  /\ Enter(e, s) \in State
         /\ Enter(e, s).result = "none" /\ Enter(e, s).pc # "done"
         /\ CallsOk(e, Enter(e, s)) /\ AnswerOk(e, Enter(e, s))
         /\ \A last, mine : FactsOk(s, last, mine) /\ s.facts \subseteq s.allFacts /\ s.pc # "facts"
                              => FactsOk(Enter(e, s), last, mine)
<1> DEFINE n == Enter(e, s)
<1>1. n \in State BY PhaseType, NothingYet DEF Enter, State
<1>2. /\ n.calls = <<>> /\ n.msgs = <<>> /\ n.facts = {} /\ n.allFacts = s.allFacts
      /\ n.result = "none" /\ n.pc \in {"unsupported", "capture", "single", "turn"}
  BY PhaseType DEF Enter, State
<1>3. CallsOk(e, n) BY <1>2 DEF CallsOk
<1>4. AnswerOk(e, n) BY <1>2 DEF AnswerOk, Answers
<1>5. \A last, mine : FactsOk(s, last, mine) /\ s.facts \subseteq s.allFacts /\ s.pc # "facts"
                        => FactsOk(n, last, mine)
  BY <1>2 DEF FactsOk
<1> QED BY <1>1, <1>2, <1>3, <1>4, <1>5

\* An output adds the facts collected to those returned.
LEMMA OutputOk ==
  ASSUME NEW e \in Exec, NEW s \in State, NEW v \in BOOLEAN, s.calls = <<>>, s.result = "none",
         NoHash \notin Hash, s.pc \notin {"facts", "done"}
  PROVE  LET n == Output(e, s, v) IN
           /\ n \in State
           /\ n.pc = "done" <=> n.result # "none"
           /\ CallsOk(e, n) /\ AnswerOk(e, n)
           /\ \A last, mine : FactsOk(s, last, mine) => FactsOk(n, last, mine)
<1> DEFINE n == Output(e, s, v)
<1>1. s.facts \subseteq Hash BY DEF State
<1>2. n.allFacts = s.allFacts \cup s.facts BY <1>1 DEF Output, dedupFacts, State
<1>3. n \in State
  <2>1. s.allFacts \cup (s.facts \ {NoHash}) \in SUBSET Hash BY DEF State
  <2> QED BY <2>1 DEF Output, dedupFacts, State, Results
<1>4. /\ n.calls = <<>> /\ n.facts = s.facts
      /\ \/ n.pc = "done" /\ n.result = "answer"
         \/ n.pc = "evaluate" /\ n.result = "none"
  BY DEF Output, State
<1>5. CallsOk(e, n) BY <1>4 DEF CallsOk
<1>6. AnswerOk(e, n) BY <1>4 DEF AnswerOk, Answers
<1>7. \A last, mine : FactsOk(s, last, mine) => FactsOk(n, last, mine) BY <1>2, <1>4 DEF FactsOk
<1> QED BY <1>3, <1>4, <1>5, <1>6, <1>7

\* The end of the tool loop: an output, or a new conversation for the capture.
LEMMA EndLoopOk ==
  ASSUME NEW e \in Exec, NEW s \in State, s.calls = <<>>, s.result = "none",
         NoHash \notin Hash, s.pc = "turn"
  PROVE  LET n == EndLoop(e, s) IN
           /\ n \in State
           /\ n.pc = "done" <=> n.result # "none"
           /\ CallsOk(e, n) /\ AnswerOk(e, n)
           /\ \A last, mine : FactsOk(s, last, mine) => FactsOk(n, last, mine)
<1> DEFINE n == EndLoop(e, s)
<1>1. CASE ~Structured(e)
  <2>1. n = Output(e, s, FALSE) BY <1>1 DEF EndLoop
  <2> QED BY <2>1, OutputOk
<1>2. CASE Structured(e)
  <2>1. n \in State BY <1>2, PhaseType, NothingYet DEF EndLoop, State
  <2>2. /\ n.calls = <<>> /\ n.msgs = <<>> /\ n.facts = s.facts /\ n.allFacts = s.allFacts
        /\ n.result = "none" /\ n.pc \in {"unsupported", "capture"}
    BY <1>2, PhaseType DEF EndLoop, State
  <2>3. CallsOk(e, n) /\ AnswerOk(e, n) BY <2>2 DEF CallsOk, AnswerOk, Answers
  <2>4. \A last, mine : FactsOk(s, last, mine) => FactsOk(n, last, mine) BY <2>2 DEF FactsOk
  <2> QED BY <2>1, <2>2, <2>3, <2>4
<1> QED BY <1>1, <1>2

\* The first call is answered.
LEMMA AnsweredOk ==
  ASSUME NEW e \in Exec, NEW s \in State, s.calls # <<>>, s.result = "none",
         s.pc \in {"act", "facts"}, AnswerOk(e, s),
         \A k \in DOMAIN s.calls : s.calls[k].tool \in cfg[e].tools \cup {Unknown}
  PROVE  LET n == Answered(e, s) IN
           /\ n \in State
           /\ n.result = "none" /\ n.pc \in {"turn", "act"}
           /\ n.facts = s.facts /\ n.allFacts = s.allFacts
           /\ CallsOk(e, n) /\ AnswerOk(e, n)
<1> DEFINE n == Answered(e, s)
           id == Head(s.calls).id
<1>1. /\ s.calls \in Seq(ToolCall) /\ Len(s.calls) \in Nat /\ Len(s.calls) > 0
      /\ id \in Nat /\ id = s.calls[1].id
  <2>1. s.calls \in Seq(ToolCall) BY DEF State
  <2>2. Head(s.calls) \in ToolCall BY <2>1, HeadTailProperties
  <2>3. Head(s.calls) = s.calls[1] BY <2>1
  <2>4. Len(s.calls) \in Nat \ {0} BY <2>1, EmptySeq
  <2> QED BY <2>1, <2>2, <2>3, <2>4 DEF ToolCall
<1>2. /\ n.calls = Tail(s.calls) /\ n.msgs = Append(s.msgs, Msg(AnswerRole(e), <<id>>))
      /\ n.pc = IF Len(s.calls) = 1 THEN "turn" ELSE "act"
      /\ n.result = "none" /\ n.facts = s.facts /\ n.allFacts = s.allFacts
  BY DEF Answered, NextCall, State
<1>3. Msg(AnswerRole(e), <<id>>) \in Message
  BY <1>1 DEF Msg, AnswerRole, Message
<1>4. n \in State
  <2>1. Append(s.msgs, Msg(AnswerRole(e), <<id>>)) \in Seq(Message)
    BY <1>3 DEF State
  <2>2. Tail(s.calls) \in Seq(ToolCall) BY DEF State
  <2>3. Append(s.traces, id) \in Seq(Nat) BY <1>1 DEF State
  <2> DEFINE a == [s EXCEPT !.msgs = Append(@, Msg(AnswerRole(e), <<id>>)),
                           !.traces = IF cfg[e].native /\ ~Structured(e) THEN Append(@, id) ELSE @]
  <2>4. a \in State /\ a.calls = s.calls BY <2>1, <2>3 DEF State
  <2>5. n = NextCall(e, a) BY DEF Answered
  <2>6. a.iter \in Nat /\ a.iter + 1 \in Nat BY <2>4 DEF State
  <2> HIDE DEF a, n
  <2>7. Tail(a.calls) \in Seq(ToolCall) BY <2>2, <2>4
  <2> QED BY <2>4, <2>5, <2>6, <2>7 DEF NextCall, State
<1>5. CallsOk(e, n)
  <2>1. /\ s.calls \in Seq(ToolCall)
        /\ Len(s.calls) \in Nat /\ Len(s.calls) > 0
    BY <1>1
  <2>2. Tail(s.calls) # <<>> <=> Len(s.calls) # 1
    <3>1. Tail(s.calls) \in Seq(ToolCall) /\ Len(Tail(s.calls)) = Len(s.calls) - 1
      BY <2>1, HeadTailProperties
    <3>2. Tail(s.calls) # <<>> <=> Len(Tail(s.calls)) # 0 BY <3>1, EmptySeq
    <3> QED BY <2>1, <3>1, <3>2
  <2>3. \A k \in DOMAIN Tail(s.calls) : k + 1 \in DOMAIN s.calls /\ Tail(s.calls)[k] = s.calls[k + 1]
    BY <2>1, HeadTailProperties, LenProperties
  <2> QED BY <1>2, <2>2, <2>3 DEF CallsOk
<1>6. AnswerOk(e, n)
  <2> DEFINE m == Msg(AnswerRole(e), <<id>>)
  <2>1. /\ s.msgs \in Seq(Message)
        /\ s.calls \in Seq(ToolCall)
        /\ Len(s.calls) > 0
    BY <1>1 DEF State
  <2>2. m.role # "assistant" BY DEF Msg, AnswerRole
  <2>3. SUFFICES ASSUME NEW j \in DOMAIN n.msgs, n.msgs[j].role = "assistant", NEW k \in DOMAIN n.msgs[j].ids
                 PROVE  IF j + k <= Len(n.msgs)
                        THEN n.msgs[j + k] = Msg(AnswerRole(e), <<n.msgs[j].ids[k]>>)
                        ELSE /\ j + k - Len(n.msgs) <= Len(n.calls)
                             /\ n.calls[j + k - Len(n.msgs)].id = n.msgs[j].ids[k]
    BY DEF AnswerOk, Answers
  <2>4. /\ j \in DOMAIN s.msgs /\ n.msgs[j] = s.msgs[j] /\ j \in Nat /\ Len(n.msgs) = Len(s.msgs) + 1
    BY <1>2, <2>1, <2>2, <2>3
  <2>5. k \in Nat /\ k > 0
    <3>1. s.msgs[j] \in Message BY <2>1, <2>4
    <3>2. s.msgs[j].ids \in Seq(Nat) BY <3>1 DEF Message
    <3> QED BY <3>2, <2>4
  <2>6. IF j + k <= Len(s.msgs)
        THEN s.msgs[j + k] = Msg(AnswerRole(e), <<s.msgs[j].ids[k]>>)
        ELSE /\ j + k - Len(s.msgs) <= Len(s.calls)
             /\ s.calls[j + k - Len(s.msgs)].id = s.msgs[j].ids[k]
    BY <2>3, <2>4 DEF AnswerOk, Answers
  <2>7. CASE j + k <= Len(s.msgs)
    BY <1>2, <2>1, <2>4, <2>5, <2>6, <2>7
  <2>8. CASE j + k = Len(s.msgs) + 1
    BY <1>1, <1>2, <2>1, <2>4, <2>5, <2>6, <2>8
  <2>9. CASE j + k > Len(s.msgs) + 1
    <3> DEFINE x == j + k - Len(s.msgs)
    <3>1. x \in Nat /\ x > 1 /\ x <= Len(s.calls) /\ s.calls[x].id = s.msgs[j].ids[k]
      BY <2>1, <2>4, <2>5, <2>6, <2>9
    <3>2. Tail(s.calls)[x - 1] = s.calls[x] /\ x - 1 <= Len(Tail(s.calls)) BY <2>1, <3>1
    <3>3. j + k - Len(n.msgs) = x - 1 /\ ~(j + k <= Len(n.msgs)) BY <2>1, <2>4, <2>5, <2>9
    <3> QED BY <1>2, <2>4, <3>1, <3>2, <3>3
  <2>10. \A l \in Nat : j + k <= l \/ j + k = l + 1 \/ j + k > l + 1
    <3>1. j \in Nat /\ k \in Nat BY <2>4, <2>5
    <3> HIDE DEF n
    <3> QED BY <3>1
  <2>11. Len(s.msgs) \in Nat BY <2>1
  <2> HIDE DEF n, m
  <2> QED BY <2>7, <2>8, <2>9, <2>10, <2>11
<1> QED BY <1>2, <1>4, <1>5, <1>6

------------------------------------------------------------------------------
(* Steps. *)

\* A step of e that leaves its execution in a state s that satisfies the invariant
\* preserves it, if it takes no facts away from others.
LEMMA Stepping ==
  ASSUME ExecInv, NEW e \in Exec, NEW s \in State,
         cfg' = cfg, ctxDone' = ctxDone, st' = [st EXCEPT ![e] = s],
         lastFacts' \in [FactTool -> SUBSET (Hash \cup {NoHash})],
         modelCalls' \in [Exec -> Nat], own' \in [Exec -> SUBSET (Hash \cup {NoHash})],
         s.pc = "done" <=> s.result # "none",
         CallsOk(e, s), AnswerOk(e, s),
         Private(e) => FactsOk(s, lastFacts', own'[e]),
         \A f \in Exec \ {e} : Private(f) => FactsOk(st[f], lastFacts', own'[f])
  PROVE  ExecInv'
<1>1. \A f \in Exec : st'[f] = IF f = e THEN s ELSE st[f] BY DEF ExecInv, TypeOK
<1>2. \A f \in Exec : st'[f].pc = "done" <=> st'[f].result # "none"
  BY <1>1 DEF ExecInv, TypeOK
<1>3. TypeOK' BY <1>2 DEF ExecInv, TypeOK
<1>4. SUFFICES ASSUME NEW f \in Exec
               PROVE  /\ CallsOk(f, st[f])' /\ AnswerOk(f, st[f])'
                      /\ Private(f)' => FactsOk(st[f], lastFacts, own[f])'
  BY <1>3 DEF ExecInv
<1>5. (Private(f)' <=> Private(f)) /\ (Checked(f)' <=> Checked(f)) /\ AnswerRole(f)' = AnswerRole(f)
  BY DEF Private, Checked, AnswerRole, Structured
<1>6. CASE f = e
  <2>1. CallsOk(f, st[f])' BY <1>1, <1>6 DEF CallsOk
  <2>2. AnswerOk(f, st[f])' BY <1>1, <1>5, <1>6 DEF AnswerOk
  <2>3. Private(f)' => FactsOk(st[f], lastFacts, own[f])' BY <1>1, <1>5, <1>6 DEF FactsOk
  <2> QED BY <2>1, <2>2, <2>3
<1>7. CASE f # e
  <2>1. CallsOk(f, st[f])' BY <1>1, <1>7 DEF CallsOk, ExecInv
  <2>2. AnswerOk(f, st[f])' BY <1>1, <1>5, <1>7 DEF AnswerOk, ExecInv
  <2>3. Private(f)' => FactsOk(st[f], lastFacts, own[f])' BY <1>1, <1>5, <1>7 DEF FactsOk
  <2> QED BY <2>1, <2>2, <2>3
<1> QED BY <1>6, <1>7

\* A step that touches the shared variables not at all.
LEMMA SteppingAlone ==
  ASSUME ExecInv, NEW e \in Exec, NEW s \in State,
         Local(e, s) \/ Replied(e, s),
         s.pc = "done" <=> s.result # "none",
         CallsOk(e, s), AnswerOk(e, s),
         Private(e) => FactsOk(s, lastFacts, own[e])
  PROVE  ExecInv'
<1>1. /\ cfg' = cfg /\ ctxDone' = ctxDone /\ lastFacts' = lastFacts /\ own' = own
      /\ st' = [st EXCEPT ![e] = s]
      /\ modelCalls' \in {modelCalls, [modelCalls EXCEPT ![e] = @ + 1]}
  BY DEF Local, Replied, Becomes
<1>2. modelCalls' \in [Exec -> Nat] BY <1>1 DEF ExecInv, TypeOK
<1>3. /\ lastFacts' \in [FactTool -> SUBSET (Hash \cup {NoHash})]
      /\ own' \in [Exec -> SUBSET (Hash \cup {NoHash})]
  BY <1>1 DEF ExecInv, TypeOK
<1>4. \A f \in Exec : Private(f) => FactsOk(st[f], lastFacts, own[f]) BY DEF ExecInv
<1> QED BY <1>1, <1>2, <1>3, <1>4, Stepping

\* The end of an execution without an answer.
LEMMA Failing ==
  ASSUME ExecInv, NEW e \in Exec, NEW err \in Results \ {"answer"},
         st[e].pc \notin {"act", "facts"},
         Fail(e, err) \/ FailReplied(e, err)
  PROVE  ExecInv'
<1> DEFINE s == [st[e] EXCEPT !.pc = "done", !.result = err]
<1>1. st[e] \in State BY DEF ExecInv, TypeOK
<1>2. err # "none" /\ err # "answer" BY DEF Results
<1>3. s \in State BY <1>1 DEF State
<1>4. /\ s.pc = "done" /\ s.result = err /\ s.calls = st[e].calls /\ s.facts = st[e].facts
      /\ s.allFacts = st[e].allFacts
  BY <1>1 DEF State
<1>5. CallsOk(e, s) BY <1>4 DEF ExecInv, CallsOk
<1>6. AnswerOk(e, s) BY <1>4 DEF AnswerOk, Answers
<1>7. Private(e) => FactsOk(s, lastFacts, own[e]) BY <1>2, <1>4 DEF ExecInv, FactsOk
<1>8. Local(e, s) \/ Replied(e, s) BY DEF Fail, FailReplied
<1> HIDE DEF s
<1> QED BY <1>2, <1>3, <1>4, <1>5, <1>6, <1>7, <1>8, SteppingAlone

\* What the invariant says of the execution that takes a step.
LEMMA Here ==
  ASSUME ExecInv, NEW e \in Exec
  PROVE  /\ st[e] \in State /\ CallsOk(e, st[e]) /\ AnswerOk(e, st[e])
         /\ Private(e) => FactsOk(st[e], lastFacts, own[e])
         /\ st[e].pc \in {"act", "facts"} <=> st[e].calls # <<>>
         /\ st[e].pc # "done" => st[e].result = "none"
BY DEF ExecInv, TypeOK, CallsOk

\* Between executions of the task: in these states its facts are all in allFacts.
Outside == {"idle", "plan", "evaluate", "reevaluate", "rewrite"}

\* A step outside the tool loop that collects nothing.
LEMMA Moving ==
  ASSUME ExecInv, NEW e \in Exec, NEW s \in State,
         Local(e, s) \/ Replied(e, s),
         st[e].pc \notin {"act", "facts"}, s.pc \notin {"turn", "act", "facts"},
         s.calls = st[e].calls, s.facts = st[e].facts, s.allFacts = st[e].allFacts,
         s.pc = "done" <=> s.result # "none",
         s.pc \in Outside \/ s.result = "answer" => st[e].pc \in Outside
  PROVE  ExecInv'
<1>1. CallsOk(e, s) BY Here DEF CallsOk
<1>2. AnswerOk(e, s) BY DEF AnswerOk, Answers
<1>3. Private(e) => FactsOk(s, lastFacts, own[e]) BY Here DEF FactsOk, Outside
<1> QED BY <1>1, <1>2, <1>3, SteppingAlone

\* The task is executed, for the first time or again.
LEMMA Entering ==
  ASSUME ExecInv, NEW e \in Exec, NEW i \in Nat, st[e].pc \in Outside,
         Local(e, Enter(e, [st[e] EXCEPT !.round = i])) \/ Replied(e, Enter(e, [st[e] EXCEPT !.round = i]))
  PROVE  ExecInv'
<1> DEFINE s == [st[e] EXCEPT !.round = i]
<1>1. /\ s \in State /\ s.calls = <<>> /\ s.result = "none" /\ s.pc \in Outside
      /\ Private(e) => FactsOk(s, lastFacts, own[e]) /\ s.facts \subseteq s.allFacts
  <2>1. /\ st[e] \in State /\ st[e].calls = <<>> /\ st[e].result = "none"
        /\ Private(e) => FactsOk(st[e], lastFacts, own[e])
    BY Here DEF Outside
  <2>2. /\ s \in State /\ s.calls = st[e].calls /\ s.result = st[e].result /\ s.pc = st[e].pc
        /\ s.facts = st[e].facts /\ s.allFacts = st[e].allFacts
    BY <2>1 DEF State
  <2> HIDE DEF s
  <2> QED BY <2>1, <2>2 DEF FactsOk, Outside
<1>2. Local(e, Enter(e, s)) \/ Replied(e, Enter(e, s)) OBVIOUS
<1> HIDE DEF s
<1>3. s.pc # "facts" BY <1>1 DEF Outside
<1> QED BY <1>1, <1>2, <1>3, EnterOk, SteppingAlone

\* The task's loop or capture ends with an output.
LEMMA Outputting ==
  ASSUME ExecInv, NEW e \in Exec, NEW v \in BOOLEAN, st[e].pc \notin {"act", "facts", "done"},
         Replied(e, Output(e, st[e], v))
  PROVE  ExecInv'
BY Here, OutputOk, SteppingAlone, HashAssumption

\* The tool loop ends, with the warning of gathering or without it.
LEMMA EndingLoop ==
  ASSUME ExecInv, NEW e \in Exec, NEW w \in BOOLEAN, st[e].pc = "turn",
         Local(e, EndLoop(e, [st[e] EXCEPT !.warned = w])) \/ Replied(e, EndLoop(e, [st[e] EXCEPT !.warned = w]))
  PROVE  ExecInv'
<1> DEFINE s == [st[e] EXCEPT !.warned = w]
<1>1. /\ s \in State /\ s.calls = <<>> /\ s.result = "none" /\ s.pc = "turn"
      /\ Private(e) => FactsOk(s, lastFacts, own[e])
  <2>1. /\ st[e] \in State /\ st[e].calls = <<>> /\ st[e].result = "none"
        /\ Private(e) => FactsOk(st[e], lastFacts, own[e])
    BY Here
  <2>2. /\ s \in State /\ s.calls = st[e].calls /\ s.result = st[e].result /\ s.pc = st[e].pc
        /\ s.facts = st[e].facts /\ s.allFacts = st[e].allFacts
    BY <2>1 DEF State
  <2> HIDE DEF s
  <2> QED BY <2>1, <2>2 DEF FactsOk
<1>2. Local(e, EndLoop(e, s)) \/ Replied(e, EndLoop(e, s)) OBVIOUS
<1> HIDE DEF s
<1> QED BY <1>1, <1>2, EndLoopOk, SteppingAlone, HashAssumption

------------------------------------------------------------------------------
(* The tool loop. *)

\* The first call of an execution that acts.
LEMMA FirstCall ==
  ASSUME ExecInv, NEW e \in Exec, st[e].pc \in {"act", "facts"}
  PROVE  /\ Head(st[e].calls) = st[e].calls[1]
         /\ st[e].calls[1].tool \in cfg[e].tools \cup {Unknown}
         /\ st[e].pc = "facts" => st[e].calls[1].tool \in FactTool
<1>1. st[e].calls \in Seq(ToolCall) /\ st[e].calls # <<>> BY Here DEF State
<1>2. 1 \in DOMAIN st[e].calls BY <1>1, EmptySeq
<1> QED BY <1>1, <1>2, Here DEF CallsOk

\* What a tool holds is changed by an execution that has it; nothing changes for the
\* others whose fact tools are their own.
LEMMA OthersKeepFacts ==
  ASSUME ExecInv, NEW e \in Exec, NEW t \in FactTool, t \in cfg[e].tools, NEW new,
         lastFacts' = [lastFacts EXCEPT ![t] = new],
         \A f \in Exec \ {e} : own'[f] = own[f]
  PROVE  \A f \in Exec \ {e} : Private(f) => FactsOk(st[f], lastFacts', own'[f])
<1>1. SUFFICES ASSUME NEW f \in Exec \ {e}, Private(f)
               PROVE  FactsOk(st[f], lastFacts', own[f])
  OBVIOUS
<1>2. FactsOk(st[f], lastFacts, own[f]) BY <1>1, Here
<1>3. CASE st[f].pc # "facts" BY <1>2, <1>3 DEF FactsOk
<1>4. CASE st[f].pc = "facts"
  <2> DEFINE x == st[f].calls[1].tool
  <2>1. x \in FactTool /\ x \in cfg[f].tools BY <1>4, FirstCall, ToolAssumption
  <2>2. x # t BY <1>1, <2>1 DEF Private
  <2>3. lastFacts'[x] = lastFacts[x] BY <2>1, <2>2 DEF ExecInv, TypeOK
  <2> QED BY <1>2, <1>4, <2>3 DEF FactsOk
<1> QED BY <1>3, <1>4

\* An answer to the first call, with the same facts.
LEMMA Answering ==
  ASSUME ExecInv, NEW e \in Exec, st[e].pc = "act"
  PROVE  LET n == Answered(e, st[e]) IN
           /\ n \in State /\ n.result = "none" /\ n.pc # "done"
           /\ CallsOk(e, n) /\ AnswerOk(e, n)
           /\ Private(e) => \A last : FactsOk(n, last, own[e])
<1> DEFINE n == Answered(e, st[e])
<1>1. /\ st[e] \in State /\ st[e].calls # <<>> /\ st[e].result = "none" /\ AnswerOk(e, st[e])
      /\ \A k \in DOMAIN st[e].calls : st[e].calls[k].tool \in cfg[e].tools \cup {Unknown}
  BY Here DEF CallsOk
<1>2. /\ n \in State /\ n.result = "none" /\ n.pc \in {"turn", "act"}
      /\ n.facts = st[e].facts /\ n.allFacts = st[e].allFacts
      /\ CallsOk(e, n) /\ AnswerOk(e, n)
  BY <1>1, AnsweredOk
<1> HIDE DEF n
<1>3. Private(e) => \A last : FactsOk(n, last, own[e]) BY <1>2, Here DEF FactsOk
<1>4. n.pc # "done" BY <1>2
<1> QED BY <1>2, <1>3, <1>4 DEF n

\* The reply asks for n tools, which are all still to be called.
LEMMA Asking ==
  ASSUME ExecInv, NEW e \in Exec, NEW n \in 1..MaxCalls, ToolCalls(e, n)
  PROVE  ExecInv'
<1>1. PICK tools \in [1..n -> cfg[e].tools \cup {Unknown}], big \in [1..n -> BOOLEAN] :
        LET calls == [k \in 1..n |-> Call(e, k, tools[k], big[k])] IN
          Replied(e, [st[e] EXCEPT
            !.pc = "act", !.calls = calls,
            !.msgs = Append(@, Msg("assistant", [k \in 1..n |-> calls[k].id]))])
  BY DEF ToolCalls
<1> DEFINE calls == [k \in 1..n |-> Call(e, k, tools[k], big[k])]
           ids == [k \in 1..n |-> calls[k].id]
           m == Msg("assistant", ids)
           s == [st[e] EXCEPT !.pc = "act", !.calls = calls, !.msgs = Append(@, m)]
<1>2. /\ st[e] \in State /\ st[e].pc = "turn" /\ st[e].calls = <<>> /\ st[e].result = "none"
      /\ st[e].msgs \in Seq(Message) /\ st[e].iter \in Nat
  BY Here DEF ToolCalls, State
<1>3. n \in Nat /\ n > 0 BY BoundsAssumption
<1>4. \A k \in 1..n : /\ calls[k] \in ToolCall /\ calls[k].tool \in cfg[e].tools \cup {Unknown}
                      /\ ids[k] \in Nat /\ ids[k] = calls[k].id
  <2>1. cfg[e].tools \in SUBSET Tool BY DEF ExecInv, TypeOK, Config
  <2>2. SUFFICES ASSUME NEW k \in 1..n
                 PROVE  /\ Call(e, k, tools[k], big[k]) \in ToolCall
                        /\ Call(e, k, tools[k], big[k]).tool \in cfg[e].tools \cup {Unknown}
                        /\ Call(e, k, tools[k], big[k]).id \in Nat
    OBVIOUS
  <2>3. /\ k \in Nat /\ MaxCalls \in Nat /\ tools[k] \in cfg[e].tools \cup {Unknown}
        /\ big[k] \in BOOLEAN
    BY <1>3, BoundsAssumption
  <2>4. st[e].iter * MaxCalls + k \in Nat
    <3> DEFINE it == st[e].iter
    <3>1. it \in Nat BY <1>2
    <3> HIDE DEF it
    <3>2. it * MaxCalls \in Nat BY <2>3, <3>1
    <3> QED BY <2>3, <3>2 DEF it
  <2>5. Call(e, k, tools[k], big[k]) = [id |-> st[e].iter * MaxCalls + k, tool |-> tools[k], big |-> big[k]]
    BY DEF Call
  <2>6. tools[k] \in Tool \cup {Unknown} BY <2>1, <2>3
  <2> HIDE DEF ids, calls
  <2> QED BY <2>3, <2>4, <2>5, <2>6 DEF ToolCall
<1>5. calls \in Seq(ToolCall) /\ Len(calls) = n /\ DOMAIN calls = 1..n BY <1>3, <1>4
<1>6. ids \in Seq(Nat) /\ DOMAIN ids = 1..n BY <1>3, <1>4
<1>7. m \in Message /\ m.role = "assistant" /\ m.ids = ids BY <1>6 DEF Msg, Message
<1> HIDE DEF calls, ids, m
<1>8. /\ s \in State /\ s.pc = "act" /\ s.result = "none" /\ s.calls = calls
      /\ s.msgs = Append(st[e].msgs, m) /\ s.facts = st[e].facts /\ s.allFacts = st[e].allFacts
  <2>1. Append(st[e].msgs, m) \in Seq(Message) BY <1>2, <1>7
  <2> QED BY <1>2, <1>5, <2>1 DEF State
<1>9. Replied(e, s) BY <1>1 DEF calls, ids, m
<1> HIDE DEF s
<1>10. CallsOk(e, s)
  <2>1. calls # <<>> BY <1>3, <1>5, EmptySeq
  <2> QED BY <1>4, <1>5, <1>8, <2>1 DEF CallsOk
<1>11. Private(e) => FactsOk(s, lastFacts, own[e]) BY <1>2, <1>8, Here DEF FactsOk
<1>12. AnswerOk(e, s)
  <2>1. SUFFICES ASSUME NEW j \in DOMAIN s.msgs, s.msgs[j].role = "assistant", NEW k \in DOMAIN s.msgs[j].ids
                 PROVE  IF j + k <= Len(s.msgs)
                        THEN s.msgs[j + k] = Msg(AnswerRole(e), <<s.msgs[j].ids[k]>>)
                        ELSE /\ j + k - Len(s.msgs) <= Len(s.calls)
                             /\ s.calls[j + k - Len(s.msgs)].id = s.msgs[j].ids[k]
    BY DEF AnswerOk, Answers
  <2>2. CASE j = Len(st[e].msgs) + 1
    <3>1. s.msgs[j] = m /\ Len(s.msgs) = j /\ j \in Nat BY <1>2, <1>8, <2>2
    <3>2. k \in 1..n BY <1>6, <1>7, <2>1, <3>1
    <3>3. k \in Nat /\ k > 0 /\ k <= Len(calls) BY <1>3, <1>5, <3>2
    <3>4. ~(j + k <= Len(s.msgs)) /\ j + k - Len(s.msgs) = k BY <3>1, <3>3
    <3>5. s.msgs[j].ids[k] = calls[k].id BY <1>4, <1>7, <3>1, <3>2
    <3> QED BY <1>8, <3>3, <3>4, <3>5
  <2>3. CASE j # Len(st[e].msgs) + 1
    <3>1. j \in DOMAIN st[e].msgs /\ s.msgs[j] = st[e].msgs[j] /\ j \in Nat
          /\ Len(s.msgs) = Len(st[e].msgs) + 1 /\ Len(st[e].msgs) \in Nat
      BY <1>2, <1>8, <2>3
    <3>2. k \in Nat /\ k > 0
      <4>1. st[e].msgs[j] \in Message BY <1>2, <3>1
      <4>2. st[e].msgs[j].ids \in Seq(Nat) BY <4>1 DEF Message
      <4>3. k \in DOMAIN st[e].msgs[j].ids BY <3>1
      <4> HIDE <3>1
      <4>4. k \in 1..Len(st[e].msgs[j].ids) BY <4>2, <4>3
      <4> QED BY <4>4
    <3>3. IF j + k <= Len(st[e].msgs)
          THEN st[e].msgs[j + k] = Msg(AnswerRole(e), <<st[e].msgs[j].ids[k]>>)
          ELSE j + k - Len(st[e].msgs) <= Len(st[e].calls)
      BY <1>2, <2>1, <3>1, Here DEF AnswerOk, Answers
    <3>4. Len(st[e].calls) = 0 BY <1>2
    <3>5. j + k <= Len(st[e].msgs) BY <3>1, <3>2, <3>3, <3>4
    <3>6. s.msgs[j + k] = st[e].msgs[j + k] BY <1>2, <1>8, <3>1, <3>2, <3>5
    <3> QED BY <3>1, <3>2, <3>3, <3>5, <3>6
  <2> QED BY <2>2, <2>3
<1> QED BY <1>8, <1>9, <1>10, <1>11, <1>12, SteppingAlone

\* Every step of the tool loop preserves the invariant.
LEMMA ToolLoopStep ==
  ASSUME ExecInv, NEW e \in Exec, ToolLoop(e)
  PROVE  ExecInv'
<1>1. CASE FinalAnswer(e)
  <2>1. st[e].pc = "turn" /\ Replied(e, EndLoop(e, st[e])) BY <1>1 DEF FinalAnswer
  <2>2. st[e] = [st[e] EXCEPT !.warned = st[e].warned] /\ st[e].warned \in BOOLEAN BY Here DEF State
  <2>3. Replied(e, EndLoop(e, [st[e] EXCEPT !.warned = st[e].warned])) BY <2>1, <2>2
  <2> QED BY <2>1, <2>2, <2>3, EndingLoop
<1>2. CASE \E n \in 1..MaxCalls : ToolCalls(e, n) BY <1>2, Asking
<1>3. CASE Refuse(e) BY <1>3, Answering, SteppingAlone DEF Refuse
<1>4. CASE ToolReturns(e) BY <1>4, Answering, SteppingAlone DEF ToolReturns
<1>5. CASE ToolFails(e)
  <2> DEFINE t == Head(st[e].calls).tool
  <2>1. /\ st[e].pc = "act" /\ ~Refused(e) /\ st' = [st EXCEPT ![e] = Answered(e, st[e])]
        /\ cfg' = cfg /\ ctxDone' = ctxDone /\ modelCalls' = modelCalls /\ own' = own
        /\ (t \in FactTool /\ lastFacts' = [lastFacts EXCEPT ![t] = {}]) \/ lastFacts' = lastFacts
    <3>1. IF t \in FactTool THEN lastFacts' \in {lastFacts, [lastFacts EXCEPT ![t] = {}]}
                            ELSE UNCHANGED lastFacts
      BY <1>5 DEF ToolFails
    <3>2. (t \in FactTool /\ lastFacts' = [lastFacts EXCEPT ![t] = {}]) \/ lastFacts' = lastFacts
      <4> HIDE DEF t
      <4> QED BY <3>1
    <3> QED BY <1>5, <3>2 DEF ToolFails, Becomes
  <2>2. t \in cfg[e].tools BY <2>1, FirstCall DEF Refused
  <2> HIDE DEF t
  <2>3. \A f \in Exec \ {e} : Private(f) => FactsOk(st[f], lastFacts', own'[f])
    <3>1. CASE lastFacts' = lastFacts BY <2>1, <3>1, Here
    <3>2. CASE t \in FactTool /\ lastFacts' = [lastFacts EXCEPT ![t] = {}]
      BY <2>1, <2>2, <3>2, OthersKeepFacts
    <3> QED BY <2>1, <3>1, <3>2
  <2>4. /\ lastFacts' \in [FactTool -> SUBSET (Hash \cup {NoHash})]
        /\ modelCalls' \in [Exec -> Nat] /\ own' \in [Exec -> SUBSET (Hash \cup {NoHash})]
    BY <2>1 DEF ExecInv, TypeOK
  <2> QED BY <2>1, <2>3, <2>4, Answering, Stepping
<1>6. CASE \E new \in SUBSET (Hash \cup {NoHash}) : FactToolReturns(e, new)
  <2> PICK new \in SUBSET (Hash \cup {NoHash}) : FactToolReturns(e, new) BY <1>6
  <2> DEFINE t == Head(st[e].calls).tool
             s == [st[e] EXCEPT !.pc = "facts"]
  <2>1. /\ st[e].pc = "act" /\ ~Refused(e) /\ t \in FactTool
        /\ st' = [st EXCEPT ![e] = s] /\ lastFacts' = [lastFacts EXCEPT ![t] = new]
        /\ own' = [own EXCEPT ![e] = @ \cup new]
        /\ cfg' = cfg /\ ctxDone' = ctxDone /\ modelCalls' = modelCalls
    BY DEF FactToolReturns, Becomes
  <2>2. t \in cfg[e].tools BY <2>1, FirstCall DEF Refused
  <2>3. /\ s \in State /\ s.pc = "facts" /\ s.result = "none" /\ s.calls = st[e].calls
        /\ s.msgs = st[e].msgs /\ s.facts = st[e].facts /\ s.allFacts = st[e].allFacts
        /\ t = s.calls[1].tool
    <3>1. st[e] \in State /\ st[e].result = "none" BY <2>1, Here
    <3>2. t = st[e].calls[1].tool BY <2>1, FirstCall
    <3> HIDE DEF t
    <3> QED BY <3>1, <3>2 DEF State
  <2> HIDE DEF t, s
  <2>4. /\ lastFacts' \in [FactTool -> SUBSET (Hash \cup {NoHash})]
        /\ modelCalls' \in [Exec -> Nat] /\ own' \in [Exec -> SUBSET (Hash \cup {NoHash})]
        /\ own'[e] = own[e] \cup new /\ lastFacts'[t] = new
        /\ \A f \in Exec \ {e} : own'[f] = own[f]
    BY <2>1 DEF ExecInv, TypeOK
  <2>5. CallsOk(e, s) BY <2>1, <2>3, Here DEF CallsOk
  <2>6. AnswerOk(e, s)
    <3>1. Answers(AnswerRole(e), st[e]) BY Here DEF AnswerOk
    <3> QED BY <2>1, <2>3, <3>1 DEF AnswerOk, Answers
  <2>7. Private(e) => FactsOk(s, lastFacts', own'[e]) BY <2>1, <2>3, <2>4, Here DEF FactsOk
  <2>8. \A f \in Exec \ {e} : Private(f) => FactsOk(st[f], lastFacts', own'[f])
    BY <2>1, <2>2, <2>4, OthersKeepFacts
  <2> QED BY <2>1, <2>3, <2>4, <2>5, <2>6, <2>7, <2>8, Stepping
<1>7. CASE CollectFacts(e)
  <2> DEFINE last == lastFacts[Head(st[e].calls).tool]
             s == [st[e] EXCEPT !.facts = dedupFacts(@, last)]
  <2>1. st[e].pc = "facts" /\ Local(e, Answered(e, s)) BY <1>7 DEF CollectFacts
  <2>2. last = lastFacts[st[e].calls[1].tool] /\ last \in SUBSET (Hash \cup {NoHash})
    BY <2>1, FirstCall DEF ExecInv, TypeOK
  <2>3. st[e].facts \cup (last \ {NoHash}) \in SUBSET Hash BY <2>2, Here DEF State
  <2>4. /\ s \in State /\ s.pc = "facts" /\ s.result = "none" /\ s.calls = st[e].calls
        /\ s.msgs = st[e].msgs /\ s.facts = st[e].facts \cup (last \ {NoHash})
        /\ s.allFacts = st[e].allFacts
    BY <2>1, <2>3, Here DEF State, dedupFacts
  <2> HIDE DEF s, last
  <2>5. /\ s.calls # <<>> /\ AnswerOk(e, s)
        /\ \A k \in DOMAIN s.calls : s.calls[k].tool \in cfg[e].tools \cup {Unknown}
    BY <2>1, <2>4, Here DEF AnswerOk, Answers, CallsOk
  <2> DEFINE n == Answered(e, s)
  <2>6. /\ n \in State /\ n.result = "none" /\ n.pc \in {"turn", "act"}
        /\ n.facts = s.facts /\ n.allFacts = s.allFacts
        /\ CallsOk(e, n) /\ AnswerOk(e, n)
    BY <2>4, <2>5, AnsweredOk
  <2>7. Local(e, n) BY <2>1
  <2> HIDE DEF n
  <2>8. Private(e) => FactsOk(n, lastFacts, own[e]) BY <2>1, <2>2, <2>4, <2>6, Here DEF FactsOk
  <2> QED BY <2>6, <2>7, <2>8, SteppingAlone
<1>8. CASE Exhausted(e)
  <2>1. st[e].pc = "turn" BY <1>8 DEF Exhausted
  <2>2. CASE Structured(e) BY <1>8, <2>1, <2>2, EndingLoop DEF Exhausted
  <2>3. CASE ~Structured(e) BY <1>8, <2>1, <2>3, Failing DEF Exhausted, Results
  <2> QED BY <2>2, <2>3
<1> QED BY <1>1, <1>2, <1>3, <1>4, <1>5, <1>6, <1>7, <1>8 DEF ToolLoop

------------------------------------------------------------------------------
(* The rest of an execution. *)

\* So does every step that starts, refuses or fails an execution ...
LEMMA StartStep ==
  ASSUME ExecInv, NEW e \in Exec,
         executeTask(e) \/ Single(e) \/ Unsupported(e) \/ Canceled(e) \/ CallFails(e)
  PROVE  ExecInv'
<1>1. CASE executeTask(e)
  <2>1. st[e].pc = "idle" /\ st[e].pc \in Outside BY <1>1 DEF executeTask, Outside
  <2>2. CASE Local(e, Enter(e, st[e]))
    <3>1. st[e] = [st[e] EXCEPT !.round = st[e].round] /\ st[e].round \in Nat BY Here DEF State
    <3>2. Local(e, Enter(e, [st[e] EXCEPT !.round = st[e].round])) BY <2>2, <3>1
    <3> QED BY <2>1, <3>1, <3>2, Entering
  <2>3. CASE Local(e, [st[e] EXCEPT !.pc = "plan"])
    <3> DEFINE s == [st[e] EXCEPT !.pc = "plan"]
    <3>1. /\ s \in State /\ s.pc = "plan" /\ s.calls = st[e].calls /\ s.facts = st[e].facts
          /\ s.allFacts = st[e].allFacts /\ s.result = "none"
      BY <2>1, Here DEF State
    <3>2. Local(e, s) BY <2>3
    <3> HIDE DEF s
    <3>3. s.pc \in Outside BY <3>1 DEF Outside
    <3> QED BY <2>1, <3>1, <3>2, <3>3, Moving
  <2> QED BY <1>1, <2>2, <2>3 DEF executeTask
<1>2. CASE Single(e) BY <1>2, Outputting DEF Single
<1>3. CASE Unsupported(e) BY <1>3, Failing DEF Unsupported, Results
<1>4. CASE Canceled(e) BY <1>4, Failing DEF Canceled, LoopTop, Results
<1>5. CASE CallFails(e) BY <1>5, Failing DEF CallFails, ModelCall, LoopTop, Results
<1> QED BY <1>1, <1>2, <1>3, <1>4, <1>5

\* ... every step of the capture ...
LEMMA CaptureStep ==
  ASSUME ExecInv, NEW e \in Exec, Capture(e)
  PROVE  ExecInv'
<1>1. CASE CaptureValid(e) BY <1>1, Outputting DEF CaptureValid
<1>2. CASE Repair(e)
  <2>1. PICK n \in Nat :
          Replied(e, [st[e] EXCEPT
            !.msgs = @ \o <<Msg("assistant", [k \in 1..n |-> k]), Msg("user", <<>>)>>,
            !.attempt = @ + 1])
    <3>1. MaxCalls \in Nat BY BoundsAssumption
    <3>2. 0..MaxCalls \subseteq Nat /\ {0} \subseteq Nat BY <3>1
    <3> QED BY <1>2, <3>2 DEF Repair
  <2> DEFINE new == <<Msg("assistant", [k \in 1..n |-> k]), Msg("user", <<>>)>>
             s == [st[e] EXCEPT !.msgs = @ \o new, !.attempt = @ + 1]
  <2>2. Replied(e, s) BY <2>1
  <2>3. new \in Seq(Message)
    <3>1. [k \in 1..n |-> k] \in Seq(Nat) BY <2>1
    <3>2. Msg("assistant", [k \in 1..n |-> k]) \in Message BY <3>1 DEF Msg, Message
    <3>3. Msg("user", <<>>) \in Message BY NothingYet DEF Msg, Message
    <3> QED BY <3>2, <3>3
  <2> HIDE DEF new
  <2>4. st[e].msgs \o new \in Seq(Message) /\ st[e].attempt + 1 \in Nat BY <2>3, Here DEF State
  <2>5. st[e].pc = "capture" BY <1>2 DEF Repair
  <2>6. /\ s \in State /\ s.pc = "capture" /\ s.calls = st[e].calls /\ s.facts = st[e].facts
        /\ s.allFacts = st[e].allFacts /\ s.result = "none"
    BY <2>4, <2>5, Here DEF State
  <2> HIDE DEF s
  <2>7. s.pc \notin Outside BY <2>6 DEF Outside
  <2> QED BY <2>2, <2>5, <2>6, <2>7, Moving
<1>3. CASE RepairBudgetExceeded(e) BY <1>3, Failing DEF RepairBudgetExceeded, Results
<1> QED BY <1>1, <1>2, <1>3 DEF Capture

\* ... and every step of AgenticLoop.
LEMMA LoopStep ==
  ASSUME ExecInv, NEW e \in Exec, Loop(e)
  PROVE  ExecInv'
<1>1. st[e].pc \in Outside \ {"idle"} /\ st[e] \in State /\ st[e].result = "none" /\ st[e].round + 1 \in Nat
  <2>1. st[e].pc \in Outside \ {"idle"}
    BY DEF Loop, Plan, ScorePasses, EvaluationFailed, Refine, Rewrite, EvaluationRepair,
           EvaluationInvalid, Evaluating, Outside
  <2>2. st[e].pc # "done" BY <2>1 DEF Outside
  <2>3. st[e] \in State /\ st[e].round \in Nat BY Here DEF State
  <2> QED BY <2>1, <2>2, <2>3, Here
<1>2. CASE Plan(e)
  <2>1. st[e] = [st[e] EXCEPT !.round = st[e].round] /\ st[e].round \in Nat BY <1>1 DEF State
  <2>2. Replied(e, Enter(e, [st[e] EXCEPT !.round = st[e].round])) BY <1>2, <2>1 DEF Plan
  <2> QED BY <1>1, <2>1, <2>2, Entering
<1>3. CASE ScorePasses(e)
  <2> DEFINE s == [st[e] EXCEPT !.pc = "done", !.result = "answer"]
  <2>1. /\ s \in State /\ s.pc = "done" /\ s.calls = st[e].calls /\ s.facts = st[e].facts
        /\ s.allFacts = st[e].allFacts /\ s.result = "answer"
    BY <1>1 DEF State, Results
  <2>2. Replied(e, s) BY <1>3 DEF ScorePasses
  <2> HIDE DEF s
  <2>3. st[e].pc \notin {"act", "facts"} BY <1>1 DEF Outside
  <2> QED BY <1>1, <2>1, <2>2, <2>3, Moving
<1>4. CASE EvaluationFailed(e) \/ EvaluationInvalid(e)
  <2>1. st[e].pc \notin {"act", "facts"} BY <1>1 DEF Outside
  <2> QED BY <1>4, <2>1, Failing DEF EvaluationFailed, EvaluationInvalid, Results
<1>5. \A pc \in {"rewrite", "evaluate", "reevaluate"}, i \in Nat, v \in BOOLEAN :
        Replied(e, [st[e] EXCEPT !.pc = pc, !.round = i, !.valid = v]) => ExecInv'
  <2> SUFFICES ASSUME NEW pc \in {"rewrite", "evaluate", "reevaluate"}, NEW i \in Nat, NEW v \in BOOLEAN,
                      Replied(e, [st[e] EXCEPT !.pc = pc, !.round = i, !.valid = v])
               PROVE  ExecInv'
    OBVIOUS
  <2> DEFINE s == [st[e] EXCEPT !.pc = pc, !.round = i, !.valid = v]
  <2>1. /\ s \in State /\ s.pc = pc /\ s.calls = st[e].calls /\ s.facts = st[e].facts
        /\ s.allFacts = st[e].allFacts /\ s.result = "none"
    BY <1>1 DEF State
  <2>2. Replied(e, s) OBVIOUS
  <2> HIDE DEF s
  <2>3. st[e].pc \notin {"act", "facts"} /\ s.pc \notin {"turn", "act", "facts", "done"}
    BY <1>1, <2>1 DEF Outside
  <2> QED BY <1>1, <2>1, <2>2, <2>3, Moving
<1>6. ASSUME NEW pc \in {"rewrite", "reevaluate"}, Replied(e, [st[e] EXCEPT !.pc = pc])
      PROVE  ExecInv'
  <2> DEFINE i == st[e].round
             v == st[e].valid
  <2>1. i \in Nat /\ v \in BOOLEAN BY <1>1 DEF State
  <2>2. [st[e] EXCEPT !.pc = pc] = [st[e] EXCEPT !.pc = pc, !.round = i, !.valid = v]
    BY <1>1 DEF State
  <2>3. Replied(e, [st[e] EXCEPT !.pc = pc, !.round = i, !.valid = v]) BY <1>6, <2>2
  <2> HIDE DEF i, v
  <2> QED BY <1>5, <2>1, <2>3
<1>7. CASE Refine(e)
  <2>1. CASE cfg[e].rewriteOnly
    <3>1. Replied(e, [st[e] EXCEPT !.pc = "rewrite"]) BY <1>7, <2>1 DEF Refine
    <3> QED BY <1>6, <3>1
  <2>2. CASE ~cfg[e].rewriteOnly BY <1>1, <1>7, <2>2, Entering DEF Refine
  <2> QED BY <2>1, <2>2
<1>8. CASE Rewrite(e) BY <1>1, <1>5, <1>8 DEF Rewrite
<1>9. CASE EvaluationRepair(e)
  <2>1. Replied(e, [st[e] EXCEPT !.pc = "reevaluate"]) BY <1>9 DEF EvaluationRepair
  <2> QED BY <1>6, <2>1
<1> QED BY <1>2, <1>3, <1>4, <1>7, <1>8, <1>9 DEF Loop

------------------------------------------------------------------------------
(* Theorems. *)

\* The invariant holds initially ...
LEMMA InvInit == Init => ExecInv
<1> SUFFICES ASSUME Init PROVE ExecInv OBVIOUS
<1>1. Start \in State BY NothingYet, EmptySeq DEF Start, State
<1>2. /\ Start.pc = "idle" /\ Start.calls = <<>> /\ Start.facts = {} /\ Start.allFacts = {}
      /\ Start.result = "none"
  BY DEF Start
<1>3. cfg \in [Exec -> Config]
  <2>1. \A e \in Exec : cfg[e] \in Config BY ConfigsAssumption DEF Init
  <2> QED BY <2>1 DEF Init
<1>4. TypeOK
  <2> HIDE DEF Start, State
  <2> QED BY <1>1, <1>2, <1>3 DEF Init, TypeOK
<1>5. ASSUME NEW e \in Exec
      PROVE  CallsOk(e, st[e]) /\ AnswerOk(e, st[e]) /\ FactsOk(st[e], lastFacts, own[e])
  <2>1. st[e] = Start /\ own[e] = {} BY DEF Init
  <2>2. CallsOk(e, st[e]) BY <1>2, <2>1 DEF CallsOk
  <2>3. AnswerOk(e, st[e]) BY <1>2, <2>1 DEF AnswerOk, Answers
  <2>4. FactsOk(st[e], lastFacts, own[e]) BY <1>2, <2>1 DEF FactsOk
  <2> QED BY <2>2, <2>3, <2>4
<1> QED BY <1>4, <1>5 DEF ExecInv

\* ... after steps of the caller ...
LEMMA InvStutter ==
  ASSUME ExecInv, UNCHANGED <<cfg, lastFacts, st, modelCalls, own>>, ctxDone' \in BOOLEAN
  PROVE  ExecInv'
<1>1. TypeOK' BY DEF ExecInv, TypeOK
<1>2. SUFFICES ASSUME NEW e \in Exec
               PROVE  /\ CallsOk(e, st[e])' /\ AnswerOk(e, st[e])'
                      /\ Private(e)' => FactsOk(st[e], lastFacts, own[e])'
  BY <1>1 DEF ExecInv
<1>3. (Private(e)' <=> Private(e)) /\ AnswerRole(e)' = AnswerRole(e) BY DEF Private, AnswerRole
<1>4. CallsOk(e, st[e])' BY Here DEF CallsOk
<1>5. AnswerOk(e, st[e])' BY <1>3, Here DEF AnswerOk
<1>6. Private(e)' => FactsOk(st[e], lastFacts, own[e])' BY <1>3, Here DEF FactsOk
<1> QED BY <1>4, <1>5, <1>6

\* ... and after every step.
LEMMA InvNext == ExecInv /\ [Next]_vars => ExecInv'
<1> SUFFICES ASSUME ExecInv, [Next]_vars PROVE ExecInv' OBVIOUS
<1>1. CASE \E e \in Exec : Run(e) BY <1>1, StartStep, ToolLoopStep, CaptureStep, LoopStep DEF Run
<1>2. CASE Cancel BY <1>2, InvStutter DEF Cancel
<1>3. CASE UNCHANGED vars BY <1>3, InvStutter DEF vars, ExecInv, TypeOK
<1> QED BY <1>1, <1>2, <1>3 DEF Next

\* The invariant holds in every reachable state of the executions of a program.
THEOREM Invariance == Spec => []ExecInv
BY InvInit, InvNext, PTL DEF Spec

\* The variables have their types, and an execution has a result exactly when it has
\* returned, whatever tools, agents and limits there are.
THEOREM TypeCorrect == Spec => []TypeOK
<1>1. ExecInv => TypeOK BY DEF ExecInv
<1> QED BY <1>1, Invariance, PTL

\* The conversation that executeTaskReAct or executeTaskNative sends to the model
\* answers each tool call of each reply once, in order, directly after it.
THEOREM CallsAreAnswered == Spec => []CallsAnswered
<1>1. ExecInv => CallsAnswered
  <2> SUFFICES ASSUME ExecInv, NEW e \in Exec, st[e].pc = "turn",
                      NEW j \in DOMAIN st[e].msgs, st[e].msgs[j].role = "assistant",
                      NEW k \in DOMAIN st[e].msgs[j].ids
               PROVE  /\ j + k <= Len(st[e].msgs)
                      /\ st[e].msgs[j + k] = Msg(AnswerRole(e), <<st[e].msgs[j].ids[k]>>)
    BY DEF CallsAnswered
  <2>1. st[e].msgs \in Seq(Message) /\ Len(st[e].calls) = 0 BY Here DEF State
  <2>2. j \in Nat /\ k \in Nat /\ Len(st[e].msgs) \in Nat
    <3>1. st[e].msgs[j] \in Message BY <2>1
    <3>2. st[e].msgs[j].ids \in Seq(Nat) BY <3>1 DEF Message
    <3> QED BY <2>1, <3>2
  <2>3. k > 0
    <3>1. st[e].msgs[j] \in Message BY <2>1
    <3>2. st[e].msgs[j].ids \in Seq(Nat) BY <3>1 DEF Message
    <3> QED BY <3>2
  <2>4. IF j + k <= Len(st[e].msgs)
        THEN st[e].msgs[j + k] = Msg(AnswerRole(e), <<st[e].msgs[j].ids[k]>>)
        ELSE j + k - Len(st[e].msgs) <= Len(st[e].calls)
    BY Here DEF AnswerOk, Answers
  <2>5. j + k <= Len(st[e].msgs) BY <2>1, <2>2, <2>3, <2>4
  <2> QED BY <2>4, <2>5
<1> QED BY <1>1, Invariance, PTL

\* What an execution answers comes with the facts of all its tool calls and no others,
\* if no other execution in flight has the same fact tools.
THEOREM FactsAreExact == Spec => []FactsExact
<1>1. ExecInv => FactsExact
  <2> SUFFICES ASSUME ExecInv, NEW e \in Exec, st[e].result = "answer", Private(e)
               PROVE  st[e].allFacts = own[e] \ {NoHash}
    BY DEF FactsExact
  <2>1. FactsOk(st[e], lastFacts, own[e]) BY Here
  <2> QED BY <2>1 DEF FactsOk
<1> QED BY <1>1, Invariance, PTL
------------------------------------------------------------------------------
(* The output of a structured task, and the model calls an execution has left. *)

\* The states of one executeTaskDefault.
Pass == {"single", "turn", "act", "facts", "capture", "unsupported"}

CaptureBudget(e) == IF Structured(e) THEN RepairMax(e) + 1 ELSE 0
\* Model calls that executeTaskDefault may still make ...
PassLeft(e, s) ==
  CASE s.pc = "turn" -> MaxIter(e) - s.iter + CaptureBudget(e)
    [] s.pc \in {"act", "facts"} -> MaxIter(e) - s.iter - 1 + CaptureBudget(e)
    [] s.pc = "capture" -> RepairMax(e) + 1 - s.attempt
    [] s.pc = "single" -> 1
    [] OTHER -> 0
\* ... that a refinement costs, before the next evaluation ...
RefineBudget(e) == IF cfg[e].rewriteOnly THEN 1 ELSE PassBudget(e)
\* ... and that the loop may still make from the evaluation of round r on.
LoopLeft(e, r) ==
  IF cfg[e].loop
  THEN 2 * (MaxRefinements(e) - r + 1) + (MaxRefinements(e) - r) * RefineBudget(e)
  ELSE 0
Left(e, s) ==
  CASE s.pc = "idle" -> Budget(e)
    [] s.pc = "plan" -> 1 + PassBudget(e) + LoopLeft(e, 0)
    [] s.pc \in Pass -> PassLeft(e, s) + LoopLeft(e, s.round)
    [] s.pc = "evaluate" -> LoopLeft(e, s.round)
    [] s.pc = "reevaluate" -> LoopLeft(e, s.round) - 1
    [] s.pc = "rewrite" -> LoopLeft(e, s.round) - 2
    [] OTHER -> 0

\* The counters stay within their limits.
CountersOk(e, s) ==
  /\ s.pc \in {"idle", "plan"} => s.round = 0
  /\ s.round <= MaxRefinements(e)
  /\ s.pc = "rewrite" => s.round < MaxRefinements(e)
  /\ s.pc = "turn" => s.iter <= MaxIter(e) /\ s.attempt = 0
  /\ s.pc \in {"act", "facts"} => s.iter < MaxIter(e) /\ s.attempt = 0
  /\ s.pc = "capture" => s.attempt <= RepairMax(e)

\* Which states an execution is in is a matter of its configuration, and an output
\* that the loop evaluates or returns is valid if it was captured.
OutputOkay(e, s) ==
  /\ s.pc = "single" => ~Structured(e)
  /\ s.pc = "capture" => Structured(e)
  /\ s.pc \in {"plan", "evaluate", "reevaluate", "rewrite"} => cfg[e].loop
  /\ s.pc = "rewrite" => cfg[e].rewriteOnly
  /\ Structured(e) /\ ~(cfg[e].loop /\ cfg[e].rewriteOnly)
       /\ (s.pc \in {"evaluate", "reevaluate"} \/ s.result = "answer") => s.valid

WorkOk(e, s, made) ==
  /\ OutputOkay(e, s)
  /\ CountersOk(e, s)
  /\ made + Left(e, s) <= Budget(e)

WorkInv == \A e \in Exec : WorkOk(e, st[e], modelCalls[e])

\* The limits are numbers, whatever a configuration says.
LEMMA Limits ==
  ASSUME ExecInv, NEW e \in Exec
  PROVE  /\ MaxIter(e) \in Nat \ {0} /\ RepairMax(e) \in Nat \ {0} /\ MaxRefinements(e) \in Nat \ {0}
         /\ PassBudget(e) \in Nat /\ RefineBudget(e) \in Nat /\ CaptureBudget(e) \in Nat
<1>1. cfg[e] \in Config BY DEF ExecInv, TypeOK
<1>2. MaxIter(e) \in Nat \ {0} BY <1>1, DefaultsAssumption DEF MaxIter, Config
<1>3. RepairMax(e) \in Nat \ {0} BY <1>1, DefaultsAssumption DEF RepairMax, Config
<1>4. MaxRefinements(e) \in Nat \ {0} BY <1>1, DefaultsAssumption DEF MaxRefinements, Config
<1>5. PassBudget(e) \in Nat BY <1>2, <1>3, PhaseType DEF PassBudget
<1>6. RefineBudget(e) \in Nat /\ CaptureBudget(e) \in Nat BY <1>3, <1>5 DEF RefineBudget, CaptureBudget
<1> QED BY <1>2, <1>3, <1>4, <1>5, <1>6

\* A refinement costs the loop an evaluation, its repair and the refinement itself.
LEMMA LoopLeftIs ==
  ASSUME ExecInv, NEW e \in Exec, NEW r \in Nat, r <= MaxRefinements(e)
  PROVE  /\ LoopLeft(e, r) \in Nat
         /\ cfg[e].loop => LoopLeft(e, r) >= 2
         /\ cfg[e].loop /\ r < MaxRefinements(e)
              => LoopLeft(e, r) = LoopLeft(e, r + 1) + 2 + RefineBudget(e)
<1> DEFINE left == MaxRefinements(e) - r
           b == RefineBudget(e)
<1>1. left \in Nat /\ b \in Nat BY Limits
<1>2. LoopLeft(e, r) = IF cfg[e].loop THEN 2 * (left + 1) + left * b ELSE 0 BY DEF LoopLeft
<1>3. r < MaxRefinements(e) => left - 1 \in Nat /\ left * b = (left - 1) * b + b
  BY <1>1, Limits
<1>4. LoopLeft(e, r + 1) = IF cfg[e].loop THEN 2 * left + (left - 1) * b ELSE 0
  <2>1. MaxRefinements(e) - (r + 1) = left - 1 /\ MaxRefinements(e) - (r + 1) + 1 = left BY Limits
  <2> QED BY <2>1 DEF LoopLeft
<1>5. left * b \in Nat BY <1>1
<1>6. r < MaxRefinements(e) => (left - 1) * b \in Nat BY <1>1, <1>3
<1> HIDE DEF left, b
<1>7. LoopLeft(e, r) \in Nat /\ (cfg[e].loop => LoopLeft(e, r) >= 2) BY <1>1, <1>2, <1>5
<1>8. cfg[e].loop /\ r < MaxRefinements(e)
        => LoopLeft(e, r) = LoopLeft(e, r + 1) + 2 + RefineBudget(e)
  <2> SUFFICES ASSUME cfg[e].loop, r < MaxRefinements(e)
               PROVE  LoopLeft(e, r) = LoopLeft(e, r + 1) + 2 + b
    BY DEF b
  <2> DEFINE x == left * b
             y == (left - 1) * b
  <2>1. LoopLeft(e, r) = 2 * (left + 1) + x /\ LoopLeft(e, r + 1) = 2 * left + y BY <1>2, <1>4
  <2>2. x = y + b /\ x \in Nat /\ y \in Nat BY <1>3, <1>5, <1>6
  <2> HIDE DEF x, y
  <2> QED BY <1>1, <2>1, <2>2
<1> QED BY <1>7, <1>8

\* The budget of an execution is that of its first pass and of its loop.
LEMMA BudgetIs ==
  ASSUME ExecInv, NEW e \in Exec
  PROVE  Budget(e) = PassBudget(e) + LoopLeft(e, 0) + (IF cfg[e].loop THEN 1 ELSE 0)
<1> DEFINE n == MaxRefinements(e)
           p == PassBudget(e)
<1>1. n \in Nat \ {0} /\ p \in Nat BY Limits
<1>2. (n + 1) * p = p + n * p /\ n * p \in Nat BY <1>1
<1>3. Budget(e) = IF ~cfg[e].loop THEN p
                  ELSE 1 + 2 * (n + 1) + IF cfg[e].rewriteOnly THEN p + n ELSE (n + 1) * p
  BY DEF Budget
<1>4. LoopLeft(e, 0) = IF cfg[e].loop THEN 2 * (n + 1) + n * RefineBudget(e) ELSE 0
  BY <1>1 DEF LoopLeft
<1>5. RefineBudget(e) = IF cfg[e].rewriteOnly THEN 1 ELSE p BY DEF RefineBudget
<1> HIDE DEF n, p
<1>6. CASE ~cfg[e].loop BY <1>1, <1>3, <1>4, <1>6 DEF p
<1>7. CASE cfg[e].loop /\ cfg[e].rewriteOnly
  <2>1. n * RefineBudget(e) = n BY <1>1, <1>5, <1>7
  <2> QED BY <1>1, <1>3, <1>4, <1>7, <2>1 DEF p
<1>8. CASE cfg[e].loop /\ ~cfg[e].rewriteOnly
  <2> DEFINE x == n * p
  <2>1. n * RefineBudget(e) = x /\ (n + 1) * p = p + x /\ x \in Nat BY <1>2, <1>5, <1>8
  <2> HIDE DEF x
  <2> QED BY <1>1, <1>3, <1>4, <1>8, <2>1 DEF p
<1> QED BY <1>6, <1>7, <1>8

\* A step that leaves e in a state with enough of its budget left.
LEMMA Working ==
  ASSUME ExecInv, WorkInv, NEW e \in Exec, NEW s, NEW made, cfg' = cfg,
         st' = [st EXCEPT ![e] = s], modelCalls' = [modelCalls EXCEPT ![e] = made],
         WorkOk(e, s, made)
  PROVE  WorkInv'
<1>1. SUFFICES ASSUME NEW f \in Exec PROVE WorkOk(f, st[f], modelCalls[f])' BY DEF WorkInv
<1>2. /\ st'[f] = IF f = e THEN s ELSE st[f]
      /\ modelCalls'[f] = IF f = e THEN made ELSE modelCalls[f]
  BY DEF ExecInv, TypeOK
<1>3. WorkOk(f, st'[f], modelCalls'[f]) BY <1>2 DEF WorkInv
<1>4. /\ MaxIter(f)' = MaxIter(f) /\ RepairMax(f)' = RepairMax(f)
      /\ MaxRefinements(f)' = MaxRefinements(f) /\ (Structured(f)' <=> Structured(f))
      /\ Phase(f)' = Phase(f)
  BY DEF MaxIter, RepairMax, MaxRefinements, Structured, Phase, CapturePhase
<1>5. /\ PassBudget(f)' = PassBudget(f) /\ CaptureBudget(f)' = CaptureBudget(f)
  BY <1>4 DEF PassBudget, CaptureBudget
<1>6. Budget(f)' = Budget(f) /\ RefineBudget(f)' = RefineBudget(f)
  BY <1>4, <1>5 DEF Budget, RefineBudget
<1>7. OutputOkay(f, st[f])' BY <1>3, <1>4 DEF WorkOk, OutputOkay
<1>8. CountersOk(f, st[f])' BY <1>3, <1>4 DEF WorkOk, CountersOk
<1>9. Left(f, st[f])' = Left(f, st'[f])
  BY <1>4, <1>5, <1>6 DEF Left, LoopLeft, PassLeft, Pass
<1>10. modelCalls'[f] + Left(f, st'[f]) <= Budget(f) BY <1>3 DEF WorkOk
<1> QED BY <1>6, <1>7, <1>8, <1>9, <1>10 DEF WorkOk

\* Such a step of the execution alone.
LEMMA WorkingAlone ==
  ASSUME ExecInv, WorkInv, NEW e \in Exec, NEW s,
         \/ Local(e, s) /\ WorkOk(e, s, modelCalls[e])
         \/ Replied(e, s) /\ WorkOk(e, s, modelCalls[e] + 1)
  PROVE  WorkInv'
<1>1. modelCalls = [modelCalls EXCEPT ![e] = modelCalls[e]] BY DEF ExecInv, TypeOK
<1> QED BY <1>1, Working DEF Local, Replied, Becomes

\* What the invariants say of the execution that takes a step.
LEMMA WorkHere ==
  ASSUME ExecInv, WorkInv, NEW e \in Exec
  PROVE  /\ OutputOkay(e, st[e]) /\ CountersOk(e, st[e])
         /\ modelCalls[e] + Left(e, st[e]) <= Budget(e)
         /\ modelCalls[e] \in Nat /\ Budget(e) \in Nat /\ st[e] \in State
         /\ LoopLeft(e, st[e].round) \in Nat
         /\ cfg[e].loop => LoopLeft(e, st[e].round) >= 2
<1>1. st[e] \in State /\ st[e].round \in Nat BY Here DEF State
<1>2. WorkOk(e, st[e], modelCalls[e]) /\ modelCalls[e] \in Nat BY DEF WorkInv, ExecInv, TypeOK
<1>3. LoopLeft(e, st[e].round) \in Nat /\ (cfg[e].loop => LoopLeft(e, st[e].round) >= 2)
  BY <1>1, <1>2, LoopLeftIs DEF WorkOk, CountersOk
<1>4. Budget(e) \in Nat
  <2>1. LoopLeft(e, 0) \in Nat BY LoopLeftIs, Limits
  <2> QED BY <2>1, BudgetIs, Limits
<1> QED BY <1>1, <1>2, <1>3, <1>4 DEF WorkOk

\* Entering executeTaskDefault takes the budget of a pass.
LEMMA EnterWork ==
  ASSUME ExecInv, NEW e \in Exec, NEW s \in State, NEW made \in Nat, s.result = "none",
         s.round <= MaxRefinements(e),
         made + PassBudget(e) + LoopLeft(e, s.round) <= Budget(e), Budget(e) \in Nat
  PROVE  WorkOk(e, Enter(e, s), made)
<1> DEFINE n == Enter(e, s)
<1>1. /\ n.pc = Phase(e) /\ n.iter = 0 /\ n.attempt = 0 /\ n.round = s.round /\ n.result = "none"
  BY DEF Enter, State
<1>2. n.pc \in Pass \ {"act", "facts"} BY <1>1, PhaseType DEF Pass
<1>3. OutputOkay(e, n) BY <1>1, <1>2 DEF OutputOkay, Phase, CapturePhase, Pass
<1>4. CountersOk(e, n) BY <1>1, <1>2, Limits DEF CountersOk, Pass
<1>5. PassLeft(e, n) <= PassBudget(e) /\ PassLeft(e, n) \in Nat
  <2>1. n.pc = "capture" => Structured(e) BY <1>3 DEF OutputOkay
  <2> QED BY <1>1, <1>2, <2>1, Limits DEF PassLeft, PassBudget, CaptureBudget, Pass
<1>6. Left(e, n) = PassLeft(e, n) + LoopLeft(e, s.round) BY <1>1, <1>2 DEF Left, Pass
<1>7. LoopLeft(e, s.round) \in Nat BY LoopLeftIs DEF State
<1> HIDE DEF n
<1>8. made + Left(e, n) <= Budget(e) BY <1>5, <1>6, <1>7, Limits
<1> QED BY <1>3, <1>4, <1>8 DEF WorkOk, n

\* An output leaves the budget of the loop.
LEMMA OutputWork ==
  ASSUME ExecInv, NEW e \in Exec, NEW s \in State, NEW v \in BOOLEAN, NEW made \in Nat,
         s.result = "none", s.round <= MaxRefinements(e), Structured(e) => v,
         made + LoopLeft(e, s.round) <= Budget(e), Budget(e) \in Nat
  PROVE  WorkOk(e, Output(e, s, v), made)
<1> DEFINE n == Output(e, s, v)
<1>1. /\ n.pc = IF cfg[e].loop THEN "evaluate" ELSE "done"
      /\ n.round = s.round /\ n.valid = v
  BY DEF Output, State
<1>2. OutputOkay(e, n) BY <1>1 DEF OutputOkay
<1>3. CountersOk(e, n) BY <1>1 DEF CountersOk
<1>4. Left(e, n) = IF cfg[e].loop THEN LoopLeft(e, s.round) ELSE 0 BY <1>1 DEF Left, Pass
<1>5. LoopLeft(e, s.round) \in Nat BY LoopLeftIs DEF State
<1> HIDE DEF n
<1>6. made + Left(e, n) <= Budget(e) BY <1>4, <1>5
<1> QED BY <1>2, <1>3, <1>6 DEF WorkOk, n

\* The end of the tool loop leaves the budgets of the capture and of the loop.
LEMMA EndLoopWork ==
  ASSUME ExecInv, NEW e \in Exec, NEW s \in State, NEW made \in Nat,
         s.result = "none", s.round <= MaxRefinements(e), s.attempt = 0,
         made + CaptureBudget(e) + LoopLeft(e, s.round) <= Budget(e), Budget(e) \in Nat
  PROVE  WorkOk(e, EndLoop(e, s), made)
<1>1. CASE ~Structured(e)
  <2>1. EndLoop(e, s) = Output(e, s, FALSE) /\ CaptureBudget(e) = 0
    BY <1>1 DEF EndLoop, CaptureBudget
  <2>2. LoopLeft(e, s.round) \in Nat BY LoopLeftIs DEF State
  <2>3. made + LoopLeft(e, s.round) <= Budget(e) BY <2>1, <2>2
  <2> QED BY <1>1, <2>1, <2>3, OutputWork
<1>2. CASE Structured(e)
  <2> DEFINE n == EndLoop(e, s)
  <2>1. /\ n.pc \in {"capture", "unsupported"} /\ n.attempt = 0 /\ n.round = s.round
        /\ n.result = "none"
    BY <1>2, PhaseType DEF EndLoop, State
  <2>2. OutputOkay(e, n) BY <1>2, <2>1 DEF OutputOkay
  <2>3. CountersOk(e, n) BY <2>1, Limits DEF CountersOk
  <2>4. PassLeft(e, n) <= CaptureBudget(e) /\ PassLeft(e, n) \in Nat
    BY <1>2, <2>1, Limits DEF PassLeft, CaptureBudget
  <2>5. Left(e, n) = PassLeft(e, n) + LoopLeft(e, s.round) BY <2>1 DEF Left, Pass
  <2>6. LoopLeft(e, s.round) \in Nat BY LoopLeftIs DEF State
  <2> HIDE DEF n
  <2>7. made + Left(e, n) <= Budget(e) BY <2>4, <2>5, <2>6, Limits
  <2> QED BY <2>2, <2>3, <2>7 DEF WorkOk, n
<1> QED BY <1>1, <1>2

\* An answer to a call takes no budget; the last one ends the iteration.
LEMMA AnsweredWork ==
  ASSUME ExecInv, WorkInv, NEW e \in Exec, NEW s \in State, st[e].pc \in {"act", "facts"},
         s.pc = st[e].pc, s.iter = st[e].iter, s.attempt = st[e].attempt, s.round = st[e].round,
         s.result = "none"
  PROVE  WorkOk(e, Answered(e, s), modelCalls[e])
<1> DEFINE n == Answered(e, s)
           m == MaxIter(e)
           l == LoopLeft(e, s.round)
<1>1. /\ n.attempt = s.attempt /\ n.round = s.round /\ n.result = "none"
      /\ \/ n.pc = "turn" /\ n.iter = s.iter + 1
         \/ n.pc = "act" /\ n.iter = s.iter
  BY DEF Answered, NextCall, State
<1>2. /\ s.iter < MaxIter(e) /\ s.attempt = 0 /\ s.round <= MaxRefinements(e) /\ s.iter \in Nat
  BY WorkHere DEF CountersOk, State
<1>3. OutputOkay(e, n) BY <1>1 DEF OutputOkay
<1>4. CountersOk(e, n) BY <1>1, <1>2, Limits DEF CountersOk
<1>5. Left(e, st[e]) = m - s.iter - 1 + CaptureBudget(e) + l
  BY DEF Left, PassLeft, Pass
<1>6. \/ n.pc = "turn" /\ Left(e, n) = m - n.iter + CaptureBudget(e) + l
      \/ n.pc = "act" /\ Left(e, n) = m - n.iter - 1 + CaptureBudget(e) + l
  BY <1>1 DEF Left, PassLeft, Pass
<1>7. m \in Nat /\ l \in Nat /\ CaptureBudget(e) \in Nat BY WorkHere, Limits
<1> HIDE DEF n, m, l
<1>8. Left(e, n) = Left(e, st[e])
  BY <1>1, <1>2, <1>5, <1>6, <1>7
<1> QED BY <1>3, <1>4, <1>8, WorkHere DEF WorkOk, n

\* A failed execution makes no more calls.
LEMMA FailWork ==
  ASSUME ExecInv, WorkInv, NEW e \in Exec, NEW err \in Results \ {"answer"}, NEW made \in Nat,
         made <= Budget(e)
  PROVE  WorkOk(e, [st[e] EXCEPT !.pc = "done", !.result = err], made)
<1> DEFINE n == [st[e] EXCEPT !.pc = "done", !.result = err]
<1>1. n.pc = "done" /\ n.result # "answer" /\ n.round = st[e].round BY WorkHere DEF State
<1>2. OutputOkay(e, n) BY <1>1 DEF OutputOkay
<1>3. CountersOk(e, n) BY <1>1, WorkHere DEF CountersOk
<1>4. Left(e, n) = 0 BY <1>1 DEF Left, Pass
<1> HIDE DEF n
<1> QED BY <1>2, <1>3, <1>4 DEF WorkOk, n

\* The budget left is a number, and not zero when the model is asked.
LEMMA LeftIs ==
  ASSUME ExecInv, WorkInv, NEW e \in Exec
  PROVE  Left(e, st[e]) \in Nat /\ (ModelCall(e) => Left(e, st[e]) >= 1)
<1> DEFINE l == LoopLeft(e, st[e].round)
<1>1. /\ st[e].iter \in Nat /\ st[e].attempt \in Nat /\ st[e].round \in Nat
      /\ st[e].round <= MaxRefinements(e)
      /\ l \in Nat /\ (cfg[e].loop => l >= 2)
  BY WorkHere DEF State, CountersOk
<1>2. CASE st[e].pc \in {"idle", "done", "unsupported"}
  <2>1. Left(e, st[e]) \in {Budget(e), 0, 0 + l}
    BY <1>2 DEF Left, PassLeft, Pass
  <2>2. ~ModelCall(e) BY <1>2 DEF ModelCall, LoopTop
  <2> HIDE DEF l
  <2> QED BY <1>1, <2>1, <2>2, WorkHere
<1>3. CASE st[e].pc = "turn"
  <2>1. Left(e, st[e]) = MaxIter(e) - st[e].iter + CaptureBudget(e) + l
    BY <1>3 DEF Left, PassLeft, Pass
  <2>2. st[e].iter <= MaxIter(e) BY <1>3, WorkHere DEF CountersOk
  <2>3. ModelCall(e) => st[e].iter < MaxIter(e) BY <1>3 DEF ModelCall, LoopTop
  <2> HIDE DEF l
  <2> QED BY <1>1, <2>1, <2>2, <2>3, Limits
<1>4. CASE st[e].pc \in {"act", "facts"}
  <2>1. Left(e, st[e]) = MaxIter(e) - st[e].iter - 1 + CaptureBudget(e) + l
    BY <1>4 DEF Left, PassLeft, Pass
  <2>2. st[e].iter < MaxIter(e) BY <1>4, WorkHere DEF CountersOk
  <2>3. ~ModelCall(e) BY <1>4 DEF ModelCall, LoopTop
  <2> HIDE DEF l
  <2> QED BY <1>1, <2>1, <2>2, <2>3, Limits
<1>5. CASE st[e].pc = "capture"
  <2>1. Left(e, st[e]) = RepairMax(e) + 1 - st[e].attempt + l BY <1>5 DEF Left, PassLeft, Pass
  <2>2. st[e].attempt <= RepairMax(e) BY <1>5, WorkHere DEF CountersOk
  <2> HIDE DEF l
  <2> QED BY <1>1, <2>1, <2>2, Limits
<1>6. CASE st[e].pc = "single"
  <2>1. Left(e, st[e]) = 1 + l BY <1>6 DEF Left, PassLeft, Pass
  <2> HIDE DEF l
  <2> QED BY <1>1, <2>1
<1>7. CASE st[e].pc = "plan"
  <2>1. st[e].round = 0 BY <1>7, WorkHere DEF CountersOk
  <2>2. l = LoopLeft(e, 0) BY <2>1
  <2>3. Left(e, st[e]) = 1 + PassBudget(e) + LoopLeft(e, 0) BY <1>7 DEF Left, Pass
  <2> HIDE DEF l
  <2> QED BY <1>1, <2>2, <2>3, Limits
<1>8. CASE st[e].pc \in {"evaluate", "reevaluate"}
  <2>1. Left(e, st[e]) \in {l, l - 1} /\ cfg[e].loop
    BY <1>8, WorkHere DEF Left, Pass, OutputOkay
  <2> HIDE DEF l
  <2> QED BY <1>1, <2>1
<1>9. CASE st[e].pc = "rewrite"
  <2>1. Left(e, st[e]) = l - 2 /\ cfg[e].loop /\ st[e].round < MaxRefinements(e)
        /\ cfg[e].rewriteOnly
    BY <1>9, WorkHere DEF Left, Pass, OutputOkay, CountersOk
  <2>2. l = LoopLeft(e, st[e].round + 1) + 2 + 1
    <3>1. RefineBudget(e) = 1 BY <2>1 DEF RefineBudget
    <3> QED BY <1>1, <2>1, <3>1, LoopLeftIs
  <2>3. LoopLeft(e, st[e].round + 1) \in Nat
    <3>1. st[e].round + 1 \in Nat /\ st[e].round + 1 <= MaxRefinements(e) BY <1>1, <2>1, Limits
    <3> QED BY <3>1, LoopLeftIs
  <2> HIDE DEF l
  <2> QED BY <2>1, <2>2, <2>3
<1> QED BY <1>2, <1>3, <1>4, <1>5, <1>6, <1>7, <1>8, <1>9, WorkHere DEF State

\* So one call more, when there is one, is within the budget.
LEMMA CallLeft ==
  ASSUME ExecInv, WorkInv, NEW e \in Exec
  PROVE  modelCalls[e] <= Budget(e) /\ (ModelCall(e) => modelCalls[e] + 1 <= Budget(e))
BY LeftIs, WorkHere

\* An execution fails without asking the model ...
LEMMA FailingWorks ==
  ASSUME ExecInv, WorkInv, NEW e \in Exec, NEW err \in Results \ {"answer"}, Fail(e, err)
  PROVE  WorkInv'
<1> DEFINE n == [st[e] EXCEPT !.pc = "done", !.result = err]
<1>1. WorkOk(e, n, modelCalls[e]) BY CallLeft, FailWork, WorkHere
<1>2. Local(e, n) BY DEF Fail
<1> HIDE DEF n
<1> QED BY <1>1, <1>2, WorkingAlone

\* ... or after it was asked.
LEMMA FailedReplyWorks ==
  ASSUME ExecInv, WorkInv, NEW e \in Exec, NEW err \in Results \ {"answer"},
         FailReplied(e, err), ModelCall(e)
  PROVE  WorkInv'
<1> DEFINE n == [st[e] EXCEPT !.pc = "done", !.result = err]
<1>1. modelCalls[e] + 1 \in Nat /\ modelCalls[e] + 1 <= Budget(e) BY CallLeft, WorkHere
<1>2. WorkOk(e, n, modelCalls[e] + 1) BY <1>1, FailWork
<1>3. Replied(e, n) BY DEF FailReplied
<1> HIDE DEF n
<1> QED BY <1>2, <1>3, WorkingAlone

\* Starting, refusing and failing an execution.
LEMMA StartWorks ==
  ASSUME ExecInv, WorkInv, NEW e \in Exec,
         executeTask(e) \/ Single(e) \/ Unsupported(e) \/ Canceled(e) \/ CallFails(e)
  PROVE  WorkInv'
<1> DEFINE b == LoopLeft(e, st[e].round)
<1>1. CASE executeTask(e)
  <2>1. st[e].pc = "idle" /\ st[e].round = 0 /\ st[e].result = "none" /\ 0 <= MaxRefinements(e)
    BY <1>1, WorkHere, Here, Limits DEF executeTask, CountersOk
  <2>2. modelCalls[e] = 0
    <3>1. Left(e, st[e]) = Budget(e) BY <2>1 DEF Left, Pass
    <3> QED BY <3>1, WorkHere
  <2>3. CASE Local(e, Enter(e, st[e]))
    <3>1. modelCalls[e] + PassBudget(e) + b <= Budget(e)
      <4>1. b = LoopLeft(e, 0) /\ b \in Nat BY <2>1, WorkHere
      <4>2. Budget(e) = PassBudget(e) + b + (IF cfg[e].loop THEN 1 ELSE 0) BY <4>1, BudgetIs
      <4> HIDE DEF b
      <4> QED BY <2>2, <4>1, <4>2, Limits
    <3>2. WorkOk(e, Enter(e, st[e]), modelCalls[e]) BY <2>1, <3>1, EnterWork, WorkHere
    <3> QED BY <2>3, <3>2, WorkingAlone
  <2>4. CASE cfg[e].loop /\ Local(e, [st[e] EXCEPT !.pc = "plan"])
    <3> DEFINE n == [st[e] EXCEPT !.pc = "plan"]
    <3>1. n.pc = "plan" /\ n.round = 0 /\ n.result = "none" BY <2>1, WorkHere DEF State
    <3>2. OutputOkay(e, n) BY <2>4, <3>1 DEF OutputOkay
    <3>3. CountersOk(e, n) BY <2>1, <3>1 DEF CountersOk
    <3>4. Left(e, n) = 1 + PassBudget(e) + LoopLeft(e, 0) BY <3>1 DEF Left, Pass
    <3>5. Local(e, n) BY <2>4
    <3> HIDE DEF n
    <3>6. modelCalls[e] + Left(e, n) <= Budget(e)
      <4>1. LoopLeft(e, 0) \in Nat BY <2>1, LoopLeftIs
      <4> QED BY <2>2, <2>4, <3>4, <4>1, BudgetIs, Limits
    <3> QED BY <3>2, <3>3, <3>5, <3>6, WorkingAlone DEF WorkOk
  <2> QED BY <1>1, <2>3, <2>4 DEF executeTask
<1>2. CASE Single(e)
  <2>1. st[e].pc = "single" /\ Replied(e, Output(e, st[e], FALSE)) /\ st[e].result = "none"
    BY <1>2, Here DEF Single
  <2>2. ~Structured(e) /\ st[e].round <= MaxRefinements(e)
    BY <2>1, WorkHere DEF OutputOkay, CountersOk
  <2>3. modelCalls[e] + 1 + b <= Budget(e)
    <3>1. Left(e, st[e]) = 1 + b BY <2>1 DEF Left, PassLeft, Pass
    <3>2. b \in Nat BY WorkHere
    <3> HIDE DEF b
    <3> QED BY <3>1, <3>2, WorkHere
  <2>4. modelCalls[e] + 1 \in Nat BY WorkHere
  <2>5. WorkOk(e, Output(e, st[e], FALSE), modelCalls[e] + 1)
    BY <2>1, <2>2, <2>3, <2>4, OutputWork, WorkHere
  <2> QED BY <2>1, <2>5, WorkingAlone
<1>3. CASE Unsupported(e)
  <2>1. Fail(e, "unsupported") BY <1>3 DEF Unsupported
  <2> QED BY <2>1, FailingWorks DEF Results
<1>4. CASE Canceled(e)
  <2>1. Fail(e, "canceled") BY <1>4 DEF Canceled
  <2> QED BY <2>1, FailingWorks DEF Results
<1>5. CASE CallFails(e) BY <1>5, FailedReplyWorks DEF CallFails, Results
<1> QED BY <1>1, <1>2, <1>3, <1>4, <1>5

\* The tool loop.
LEMMA ToolLoopWorks ==
  ASSUME ExecInv, WorkInv, NEW e \in Exec, ToolLoop(e)
  PROVE  WorkInv'
<1> DEFINE b == LoopLeft(e, st[e].round)
           m == MaxIter(e)
           c == CaptureBudget(e)
<1>1. /\ st[e] \in State /\ st[e].iter \in Nat /\ st[e].round <= MaxRefinements(e)
      /\ b \in Nat /\ m \in Nat /\ c \in Nat /\ modelCalls[e] \in Nat /\ Budget(e) \in Nat
      /\ modelCalls = [modelCalls EXCEPT ![e] = modelCalls[e]]
  BY WorkHere, Limits DEF State, CountersOk, ExecInv, TypeOK
<1>2. st[e].pc = "turn" => /\ modelCalls[e] + (m - st[e].iter + c + b) <= Budget(e)
                           /\ st[e].attempt = 0 /\ st[e].result = "none"
  <2> SUFFICES ASSUME st[e].pc = "turn"
               PROVE  /\ modelCalls[e] + (m - st[e].iter + c + b) <= Budget(e)
                      /\ st[e].attempt = 0 /\ st[e].result = "none"
    OBVIOUS
  <2>1. Left(e, st[e]) = m - st[e].iter + c + b BY DEF Left, PassLeft, Pass
  <2> QED BY <2>1, WorkHere, Here DEF CountersOk
<1>3. st[e].pc \in {"act", "facts"}
        => /\ modelCalls[e] + (m - st[e].iter - 1 + c + b) <= Budget(e)
           /\ st[e].attempt = 0 /\ st[e].result = "none" /\ st[e].iter < m
  <2> SUFFICES ASSUME st[e].pc \in {"act", "facts"}
               PROVE  /\ modelCalls[e] + (m - st[e].iter - 1 + c + b) <= Budget(e)
                      /\ st[e].attempt = 0 /\ st[e].result = "none" /\ st[e].iter < m
    OBVIOUS
  <2>1. Left(e, st[e]) = m - st[e].iter - 1 + c + b BY DEF Left, PassLeft, Pass
  <2>2. st[e].pc # "done" OBVIOUS
  <2> QED BY <2>1, <2>2, WorkHere, Here DEF CountersOk
\* An execution that acts, in its iteration and round.
<1>4. ASSUME NEW s, NEW pc \in {"act", "facts"}, NEW made \in Nat,
             s.pc = pc, s.iter = st[e].iter, s.round = st[e].round, s.attempt = 0,
             s.result = "none", st[e].iter < m,
             made + (m - st[e].iter - 1 + c + b) <= Budget(e)
      PROVE  WorkOk(e, s, made)
  <2>1. OutputOkay(e, s) BY <1>4 DEF OutputOkay
  <2>2. CountersOk(e, s) BY <1>1, <1>4 DEF CountersOk
  <2>3. Left(e, s) = m - st[e].iter - 1 + c + b BY <1>4 DEF Left, PassLeft, Pass
  <2> QED BY <1>4, <2>1, <2>2, <2>3 DEF WorkOk
<1>5. CASE FinalAnswer(e)
  <2>1. st[e].pc = "turn" /\ Replied(e, EndLoop(e, st[e])) /\ st[e].iter < m
    BY <1>5 DEF FinalAnswer, LoopTop
  <2>2. modelCalls[e] + 1 + c + b <= Budget(e)
    <3> HIDE DEF b, m, c
    <3> QED BY <1>1, <1>2, <2>1
  <2>3. WorkOk(e, EndLoop(e, st[e]), modelCalls[e] + 1) BY <1>1, <1>2, <2>1, <2>2, EndLoopWork
  <2> QED BY <2>1, <2>3, WorkingAlone
<1>6. CASE \E n \in 1..MaxCalls : ToolCalls(e, n)
  <2>1. PICK n \in 1..MaxCalls : ToolCalls(e, n) BY <1>6
  <2>2. PICK calls, msgs : Replied(e, [st[e] EXCEPT !.pc = "act", !.calls = calls, !.msgs = msgs])
    BY <2>1 DEF ToolCalls
  <2> DEFINE s == [st[e] EXCEPT !.pc = "act", !.calls = calls, !.msgs = msgs]
  <2>3. st[e].pc = "turn" /\ st[e].iter < m BY <2>1 DEF ToolCalls, LoopTop
  <2>4. /\ s.pc = "act" /\ s.iter = st[e].iter /\ s.round = st[e].round /\ s.attempt = 0
        /\ s.result = "none"
    BY <1>1, <1>2, <2>3 DEF State
  <2>5. Replied(e, s) BY <2>2
  <2> HIDE DEF s
  <2>6. modelCalls[e] + 1 \in Nat /\ modelCalls[e] + 1 + (m - st[e].iter - 1 + c + b) <= Budget(e)
    <3> HIDE DEF b, m, c
    <3> QED BY <1>1, <1>2, <2>3
  <2>7. WorkOk(e, s, modelCalls[e] + 1) BY <1>4, <2>3, <2>4, <2>6
  <2> QED BY <2>5, <2>7, WorkingAlone
<1>7. CASE Refuse(e) \/ ToolReturns(e)
  <2>1. st[e].pc = "act" /\ Local(e, Answered(e, st[e])) BY <1>7 DEF Refuse, ToolReturns
  <2>2. WorkOk(e, Answered(e, st[e]), modelCalls[e]) BY <1>1, <1>3, <2>1, AnsweredWork
  <2> QED BY <2>1, <2>2, WorkingAlone
<1>8. CASE ToolFails(e)
  <2>1. st[e].pc = "act" /\ Becomes(e, Answered(e, st[e])) /\ UNCHANGED <<cfg, modelCalls>>
    BY <1>8 DEF ToolFails
  <2>2. WorkOk(e, Answered(e, st[e]), modelCalls[e]) BY <1>1, <1>3, <2>1, AnsweredWork
  <2> QED BY <1>1, <2>1, <2>2, Working DEF Becomes
<1>9. CASE \E new \in SUBSET (Hash \cup {NoHash}) : FactToolReturns(e, new)
  <2> DEFINE s == [st[e] EXCEPT !.pc = "facts"]
  <2>1. st[e].pc = "act" /\ Becomes(e, s) /\ UNCHANGED <<cfg, modelCalls>>
    BY <1>9 DEF FactToolReturns
  <2>2. /\ s.pc = "facts" /\ s.iter = st[e].iter /\ s.round = st[e].round /\ s.attempt = 0
        /\ s.result = "none"
    BY <1>1, <1>3, <2>1 DEF State
  <2> HIDE DEF s
  <2>3. WorkOk(e, s, modelCalls[e]) BY <1>1, <1>3, <1>4, <2>1, <2>2
  <2> QED BY <1>1, <2>1, <2>3, Working DEF Becomes
<1>10. CASE CollectFacts(e)
  <2> DEFINE s == [st[e] EXCEPT !.facts = dedupFacts(@, lastFacts[Head(st[e].calls).tool])]
  <2>1. st[e].pc = "facts" /\ Local(e, Answered(e, s)) BY <1>10 DEF CollectFacts
  <2>2. s \in State
    <3>1. lastFacts[Head(st[e].calls).tool] \in SUBSET (Hash \cup {NoHash})
      BY <2>1, FirstCall DEF ExecInv, TypeOK
    <3>2. dedupFacts(st[e].facts, lastFacts[Head(st[e].calls).tool]) \in SUBSET Hash
      BY <1>1, <3>1 DEF dedupFacts, State
    <3> QED BY <1>1, <3>2 DEF State
  <2>3. /\ s.pc = "facts" /\ s.iter = st[e].iter /\ s.round = st[e].round
        /\ s.attempt = st[e].attempt /\ s.result = "none"
    BY <1>1, <1>3, <2>1 DEF State
  <2> HIDE DEF s
  <2>4. WorkOk(e, Answered(e, s), modelCalls[e]) BY <2>1, <2>2, <2>3, AnsweredWork
  <2> QED BY <2>1, <2>4, WorkingAlone
<1>11. CASE Exhausted(e)
  <2>1. st[e].pc = "turn" /\ st[e].iter >= m BY <1>11 DEF Exhausted
  <2>2. CASE ~Structured(e)
    <3>1. Fail(e, "maxIterations") BY <1>11, <2>2 DEF Exhausted
    <3> QED BY <3>1, FailingWorks DEF Results
  <2>3. CASE Structured(e)
    <3> DEFINE s == [st[e] EXCEPT !.warned = TRUE]
    <3>1. Local(e, EndLoop(e, s)) BY <1>11, <2>3 DEF Exhausted
    <3>2. /\ s \in State /\ s.pc = "turn" /\ s.round = st[e].round /\ s.attempt = 0
          /\ s.result = "none"
      BY <1>1, <1>2, <2>1 DEF State
    <3> HIDE DEF s
    <3>3. modelCalls[e] + c + b <= Budget(e)
      <4>1. st[e].iter <= m BY <2>1, WorkHere DEF CountersOk
      <4> HIDE DEF b, m, c
      <4> QED BY <1>1, <1>2, <2>1, <4>1
    <3>4. WorkOk(e, EndLoop(e, s), modelCalls[e]) BY <1>1, <3>2, <3>3, EndLoopWork
    <3> QED BY <3>1, <3>4, WorkingAlone
  <2> QED BY <2>2, <2>3
<1> QED BY <1>5, <1>6, <1>7, <1>8, <1>9, <1>10, <1>11 DEF ToolLoop

\* The capture.
LEMMA CaptureWorks ==
  ASSUME ExecInv, WorkInv, NEW e \in Exec, Capture(e)
  PROVE  WorkInv'
<1> DEFINE b == LoopLeft(e, st[e].round)
           a == st[e].attempt
           r == RepairMax(e)
<1>1. /\ st[e].pc = "capture" /\ st[e].result = "none" /\ st[e] \in State
      /\ a \in Nat /\ b \in Nat /\ r \in Nat /\ a <= r
      /\ st[e].round \in Nat /\ st[e].round <= MaxRefinements(e)
      /\ modelCalls[e] \in Nat /\ Budget(e) \in Nat
  <2>1. st[e].pc = "capture" BY DEF Capture, CaptureValid, Repair, RepairBudgetExceeded
  <2> QED BY <2>1, WorkHere, Limits, Here DEF State, CountersOk
<1>2. modelCalls[e] + (r + 1 - a + b) <= Budget(e)
  <2>1. Left(e, st[e]) = r + 1 - a + b BY <1>1 DEF Left, PassLeft, Pass
  <2> QED BY <2>1, WorkHere
<1>3. CASE CaptureValid(e)
  <2>1. Replied(e, Output(e, st[e], TRUE)) BY <1>3 DEF CaptureValid
  <2>2. modelCalls[e] + 1 + b <= Budget(e)
    <3> HIDE DEF a, b, r
    <3> QED BY <1>1, <1>2
  <2>3. modelCalls[e] + 1 \in Nat BY <1>1
  <2>4. WorkOk(e, Output(e, st[e], TRUE), modelCalls[e] + 1) BY <1>1, <2>2, <2>3, OutputWork
  <2> QED BY <2>1, <2>4, WorkingAlone
<1>4. CASE Repair(e)
  <2>1. PICK msgs : Replied(e, [st[e] EXCEPT !.msgs = msgs, !.attempt = @ + 1])
    BY <1>4 DEF Repair
  <2> DEFINE s == [st[e] EXCEPT !.msgs = msgs, !.attempt = @ + 1]
  <2>2. Replied(e, s) BY <2>1
  <2>3. s.pc = "capture" /\ s.attempt = a + 1 /\ s.round = st[e].round /\ s.result = "none"
    BY <1>1 DEF State
  <2> HIDE DEF s
  <2>4. a < r BY <1>4 DEF Repair
  <2>5. OutputOkay(e, s) BY <1>1, <2>3, WorkHere DEF OutputOkay
  <2>6. CountersOk(e, s) BY <1>1, <2>3, <2>4 DEF CountersOk
  <2>7. Left(e, s) = r + 1 - (a + 1) + b BY <2>3 DEF Left, PassLeft, Pass
  <2> HIDE DEF a, b, r
  <2>8. modelCalls[e] + 1 + Left(e, s) <= Budget(e) BY <1>1, <1>2, <2>7
  <2> QED BY <2>2, <2>5, <2>6, <2>8, WorkingAlone DEF WorkOk
<1>5. CASE RepairBudgetExceeded(e)
  <2>1. ModelCall(e) /\ FailReplied(e, "repairBudget")
    BY <1>5 DEF RepairBudgetExceeded, ModelCall, LoopTop
  <2> QED BY <2>1, FailedReplyWorks DEF Results
<1> QED BY <1>3, <1>4, <1>5 DEF Capture

\* AgenticLoop.
LEMMA LoopWorks ==
  ASSUME ExecInv, WorkInv, NEW e \in Exec, Loop(e)
  PROVE  WorkInv'
<1> DEFINE r == st[e].round
           m == MaxRefinements(e)
<1>1. /\ st[e] \in State /\ st[e].result = "none" /\ r \in Nat /\ m \in Nat /\ r <= m
      /\ cfg[e].loop /\ modelCalls[e] \in Nat /\ Budget(e) \in Nat /\ LoopLeft(e, r) \in Nat
      /\ RefineBudget(e) \in Nat /\ PassBudget(e) \in Nat
  <2>1. st[e].pc \in {"plan", "evaluate", "reevaluate", "rewrite"}
    BY DEF Loop, Plan, ScorePasses, EvaluationFailed, Refine, Rewrite, EvaluationRepair,
           EvaluationInvalid, Evaluating
  <2>2. st[e].pc # "done" BY <2>1
  <2> QED BY <2>1, <2>2, WorkHere, Here, Limits DEF State, CountersOk, OutputOkay
<1>2. st[e].pc \in {"evaluate", "reevaluate"} => modelCalls[e] + 1 + (LoopLeft(e, r) - 2) <= Budget(e)
  <2> SUFFICES ASSUME st[e].pc \in {"evaluate", "reevaluate"}
               PROVE  modelCalls[e] + 1 + (LoopLeft(e, r) - 2) <= Budget(e)
    OBVIOUS
  <2>1. Left(e, st[e]) \in {LoopLeft(e, r), LoopLeft(e, r) - 1} BY DEF Left, Pass
  <2> QED BY <1>1, <2>1, WorkHere
<1>3. CASE Plan(e)
  <2>1. st[e].pc = "plan" /\ Replied(e, Enter(e, st[e])) /\ r = 0 BY <1>3, WorkHere DEF Plan, CountersOk
  <2>2. modelCalls[e] + 1 + PassBudget(e) + LoopLeft(e, r) <= Budget(e)
    <3>1. Left(e, st[e]) = 1 + PassBudget(e) + LoopLeft(e, 0) BY <2>1 DEF Left, Pass
    <3>2. LoopLeft(e, r) = LoopLeft(e, 0) BY <2>1
    <3> QED BY <1>1, <3>1, <3>2, WorkHere
  <2>3. WorkOk(e, Enter(e, st[e]), modelCalls[e] + 1) BY <1>1, <2>2, EnterWork
  <2> QED BY <2>1, <2>3, WorkingAlone
<1>4. CASE ScorePasses(e)
  <2> DEFINE s == [st[e] EXCEPT !.pc = "done", !.result = "answer"]
  <2>1. Evaluating(e) /\ Replied(e, s) BY <1>4 DEF ScorePasses
  <2>2. s.pc = "done" /\ s.round = r /\ s.valid = st[e].valid BY <1>1 DEF State
  <2> HIDE DEF s
  <2>3. OutputOkay(e, s) BY <2>1, <2>2, WorkHere DEF OutputOkay, Evaluating
  <2>4. CountersOk(e, s) BY <1>1, <2>2 DEF CountersOk
  <2>5. Left(e, s) = 0 BY <2>2 DEF Left, Pass
  <2>6. modelCalls[e] + 1 <= Budget(e)
    <3>1. ModelCall(e) BY <2>1 DEF ModelCall, Evaluating, LoopTop
    <3> QED BY <3>1, CallLeft
  <2> QED BY <1>1, <2>1, <2>3, <2>4, <2>5, <2>6, WorkingAlone DEF WorkOk
<1>5. CASE EvaluationFailed(e) \/ EvaluationInvalid(e)
  <2>1. ModelCall(e)
    BY <1>5 DEF EvaluationFailed, EvaluationInvalid, Evaluating, ModelCall, LoopTop
  <2>2. FailReplied(e, "evaluation") \/ FailReplied(e, "evaluationInvalid")
    BY <1>5 DEF EvaluationFailed, EvaluationInvalid
  <2> QED BY <2>1, <2>2, FailedReplyWorks DEF Results
<1>6. CASE Refine(e)
  <2>1. st[e].pc \in {"evaluate", "reevaluate"} /\ r < m BY <1>6 DEF Refine, Evaluating
  <2>2. CASE cfg[e].rewriteOnly
    <3> DEFINE s == [st[e] EXCEPT !.pc = "rewrite"]
    <3>1. Replied(e, s) BY <1>6, <2>2 DEF Refine
    <3>2. s.pc = "rewrite" /\ s.round = r /\ s.result = "none" BY <1>1 DEF State
    <3> HIDE DEF s
    <3>3. OutputOkay(e, s) BY <1>1, <2>2, <3>2 DEF OutputOkay
    <3>4. CountersOk(e, s) BY <2>1, <1>1, <3>2 DEF CountersOk
    <3>5. Left(e, s) = LoopLeft(e, r) - 2 BY <3>2 DEF Left, Pass
    <3> QED BY <1>2, <2>1, <3>1, <3>3, <3>4, <3>5, WorkingAlone DEF WorkOk
  <2>3. CASE ~cfg[e].rewriteOnly
    <3> DEFINE s == [st[e] EXCEPT !.round = @ + 1]
    <3>1. Replied(e, Enter(e, s)) BY <1>6, <2>3 DEF Refine
    <3>2. s \in State /\ s.round = r + 1 /\ s.result = "none"
      <4>1. st[e].round + 1 \in Nat BY <1>1
      <4> QED BY <1>1, <4>1 DEF State
    <3> HIDE DEF s
    <3>3. r + 1 <= m BY <1>1, <2>1
    <3>4. modelCalls[e] + 1 + PassBudget(e) + LoopLeft(e, s.round) <= Budget(e)
      <4>1. LoopLeft(e, r) = LoopLeft(e, r + 1) + 2 + PassBudget(e)
        BY <1>1, <2>1, <2>3, LoopLeftIs DEF RefineBudget
      <4>2. LoopLeft(e, s.round) = LoopLeft(e, r + 1) BY <3>2
      <4>3. LoopLeft(e, r + 1) \in Nat BY <1>1, <3>3, LoopLeftIs
      <4> QED BY <1>1, <1>2, <2>1, <4>1, <4>2, <4>3
    <3>5. WorkOk(e, Enter(e, s), modelCalls[e] + 1) BY <1>1, <3>2, <3>3, <3>4, EnterWork
    <3> QED BY <3>1, <3>5, WorkingAlone
  <2> QED BY <2>2, <2>3
<1>7. CASE Rewrite(e)
  <2>1. PICK v \in BOOLEAN :
          Replied(e, [st[e] EXCEPT !.pc = "evaluate", !.round = @ + 1, !.valid = v])
    BY <1>7 DEF Rewrite
  <2> DEFINE s == [st[e] EXCEPT !.pc = "evaluate", !.round = @ + 1, !.valid = v]
  <2>2. Replied(e, s) BY <2>1
  <2>3. s.pc = "evaluate" /\ s.round = r + 1 /\ s.result = "none" BY <1>1 DEF State
  <2> HIDE DEF s
  <2>4. st[e].pc = "rewrite" /\ r < m /\ cfg[e].rewriteOnly
    BY <1>7, WorkHere DEF Rewrite, CountersOk, OutputOkay
  <2>5. OutputOkay(e, s) BY <1>1, <2>3, <2>4 DEF OutputOkay
  <2>6. CountersOk(e, s) BY <1>1, <2>3, <2>4 DEF CountersOk
  <2>7. modelCalls[e] + 1 + Left(e, s) <= Budget(e)
    <3>1. Left(e, st[e]) = LoopLeft(e, r) - 2 BY <2>4 DEF Left, Pass
    <3>2. Left(e, s) = LoopLeft(e, s.round) BY <2>3 DEF Left, Pass
    <3>3. LoopLeft(e, r) = LoopLeft(e, r + 1) + 2 + 1
      <4>1. RefineBudget(e) = 1 BY <2>4 DEF RefineBudget
      <4> QED BY <1>1, <2>4, <4>1, LoopLeftIs
    <3>4. LoopLeft(e, s.round) = LoopLeft(e, r + 1) BY <2>3
    <3>5. LoopLeft(e, r + 1) \in Nat
      <4>1. r + 1 \in Nat /\ r + 1 <= m BY <1>1, <2>4
      <4> QED BY <4>1, LoopLeftIs
    <3> QED BY <1>1, <3>1, <3>2, <3>3, <3>4, <3>5, WorkHere
  <2> QED BY <2>2, <2>5, <2>6, <2>7, WorkingAlone DEF WorkOk
<1>8. CASE EvaluationRepair(e)
  <2> DEFINE s == [st[e] EXCEPT !.pc = "reevaluate"]
  <2>1. st[e].pc = "evaluate" /\ Replied(e, s) BY <1>8 DEF EvaluationRepair
  <2>2. s.pc = "reevaluate" /\ s.round = r /\ s.valid = st[e].valid /\ s.result = "none"
    BY <1>1 DEF State
  <2> HIDE DEF s
  <2>3. OutputOkay(e, s) BY <2>1, <2>2, WorkHere DEF OutputOkay
  <2>4. CountersOk(e, s) BY <1>1, <2>2 DEF CountersOk
  <2>5. Left(e, st[e]) = LoopLeft(e, r) BY <2>1 DEF Left, Pass
  <2>6. Left(e, s) = LoopLeft(e, s.round) - 1 BY <2>2 DEF Left, Pass
  <2>7. LoopLeft(e, s.round) = LoopLeft(e, r) BY <2>2
  <2>8. modelCalls[e] + 1 + Left(e, s) <= Budget(e) BY <1>1, <2>5, <2>6, <2>7, WorkHere
  <2> QED BY <2>1, <2>3, <2>4, <2>8, WorkingAlone DEF WorkOk
<1> QED BY <1>3, <1>4, <1>5, <1>6, <1>7, <1>8 DEF Loop

\* The invariant holds initially and after every step.
LEMMA WorkInit == Init => WorkInv
<1> SUFFICES ASSUME Init, NEW e \in Exec PROVE WorkOk(e, st[e], modelCalls[e]) BY DEF WorkInv
<1>1. ExecInv BY InvInit
<1>2. /\ st[e].pc = "idle" /\ st[e].round = 0 /\ st[e].result = "none" /\ modelCalls[e] = 0
  BY DEF Init, Start
<1>3. OutputOkay(e, st[e]) BY <1>2 DEF OutputOkay
<1>4. CountersOk(e, st[e]) BY <1>1, <1>2, Limits DEF CountersOk
<1>5. Left(e, st[e]) = Budget(e) BY <1>2 DEF Left, Pass
<1>6. Budget(e) \in Nat
  <2>1. LoopLeft(e, 0) \in Nat BY <1>1, LoopLeftIs, Limits
  <2> QED BY <1>1, <2>1, BudgetIs, Limits
<1> QED BY <1>2, <1>3, <1>4, <1>5, <1>6 DEF WorkOk

LEMMA WorkNext == ExecInv /\ WorkInv /\ [Next]_vars => WorkInv'
<1> SUFFICES ASSUME ExecInv, WorkInv, [Next]_vars PROVE WorkInv' OBVIOUS
<1>1. CASE \E e \in Exec : Run(e)
  BY <1>1, StartWorks, ToolLoopWorks, CaptureWorks, LoopWorks DEF Run
<1>2. CASE UNCHANGED <<cfg, st, modelCalls>>
  <2>1. SUFFICES ASSUME NEW e \in Exec PROVE WorkInv' BY <1>2 DEF WorkInv
  <2>2. st = [st EXCEPT ![e] = st[e]] /\ modelCalls = [modelCalls EXCEPT ![e] = modelCalls[e]]
    BY DEF ExecInv, TypeOK
  <2>3. WorkOk(e, st[e], modelCalls[e]) BY DEF WorkInv
  <2> QED BY <1>2, <2>2, <2>3, Working
<1>3. CASE Cancel BY <1>2, <1>3 DEF Cancel
<1>4. CASE UNCHANGED vars BY <1>2, <1>4 DEF vars
<1> QED BY <1>1, <1>3, <1>4 DEF Next

LEMMA WorkInvariance == Spec => [](ExecInv /\ WorkInv)
BY InvInit, InvNext, WorkInit, WorkNext, PTL DEF Spec

\* An answer of a structured task satisfies the schema, whatever the model replies and
\* however often it is evaluated and refined, if the loop does not rewrite it.
THEOREM StructuredAnswersValid == Spec => []StructuredIsValid
<1>1. ExecInv /\ WorkInv => StructuredIsValid
  BY DEF StructuredIsValid, WorkInv, WorkOk, OutputOkay
<1> QED BY <1>1, WorkInvariance, PTL

\* No execution makes more model calls than its three nested limits allow.
THEOREM CallsAreBounded == Spec => []WithinBudget
<1>1. ExecInv /\ WorkInv => WithinBudget BY CallLeft DEF WithinBudget
<1> QED BY <1>1, WorkInvariance, PTL

==============================================================================
