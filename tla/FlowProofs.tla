------------------------------ MODULE FlowProofs ------------------------------
(***************************************************************************)
(* Theorems about Flow, for every set of registrations and every bound:    *)
(* its types (no step is traced twice); that a step is run exactly if its  *)
(* dependencies succeeded and the routers among them named it; that        *)
(* validate finds exactly the cyclic flows; and that what a Run reports is *)
(* in the order of the graph's layers and of registration.                 *)
(***************************************************************************)
EXTENDS Flow, FiniteSetTheorems, SequenceTheorems, WellFoundedInduction, TLAPS

\* Steps without an entry in FlowResult.Steps.
Left == {i \in Step : status[i] = "pending" \/ i \in todo}

\* Where Run is and what the wave's variables hold.
PhaseInv ==
  /\ pc \in {"idle", "barrier", "end"} => ready = {} /\ todo = {} /\ first = 0
  /\ pc # "wave" => running = {}
  /\ pc = "idle" => errs = {} /\ runErr = 0 /\ traces = <<>>
  /\ pc = "wave" => ready \subseteq todo

\* A validated flow has only registered dependencies.
DepsInv == pc # "idle" => \A i \in Step : Deps(i) \subseteq Step

\* The fold turns pending steps of the wave into done or failed ones; skipped
\* steps were marked when the wave was collected.
StatusInv ==
  pc # "idle" =>
    /\ \A i \in todo : status[i] = (IF i \in ready THEN "pending" ELSE "skipped")
    /\ \A e \in errs : status[e] = "failed"

\* Every step is either traced or left.
TraceInv == pc # "idle" => Len(traces) + Cardinality(Left) = Len(nodes)

Allows(j, i) ==
  status[j] = "done" /\ (nodes[j].kind = "router" => nodes[i].name \in routerSel[j])
Blocks(j, i) == status[j] # "pending" /\ ~Allows(j, i)

EnabledInv ==
  pc # "idle" =>
    \A i \in Step : /\ Ran(i) => \A j \in Deps(i) : Allows(j, i)
                    /\ status[i] = "skipped" => \E j \in Deps(i) : Blocks(j, i)

FlowInv == TypeOK /\ PhaseInv /\ DepsInv /\ StatusInv /\ TraceInv /\ EnabledInv

------------------------------------------------------------------------------
(* validate. *)

LEMMA MinIsIn == ASSUME NEW S \in SUBSET Nat, S # {} PROVE Min(S) \in S
<1>1. PICK x \in S : \A y \in S : ~(<<y, x>> \in OpToRel(<, Nat))
  BY WFMin, NatLessThanWellFounded
<1>2. \A y, z \in Nat : y < z => <<y, z>> \in OpToRel(<, Nat)
  <2> SUFFICES ASSUME NEW y \in Nat, NEW z \in Nat, y < z PROVE <<y, z>> \in OpToRel(<, Nat) OBVIOUS
  <2> DEFINE ss == <<y, z>>
  <2>1. ss \in Nat \X Nat /\ ss[1] < ss[2] OBVIOUS
  <2> QED BY <2>1 DEF OpToRel
<1>3. \A y \in S : x \in Nat /\ y \in Nat /\ ~(y < x) BY <1>1, <1>2
<1>4. \A y \in S : x <= y BY <1>3
<1> QED BY <1>4 DEF Min

\* FirstError is "ok" only if there is no error, and otherwise one of them.
LEMMA FirstErrorIs ==
  ASSUME nodes \in Seq(Nodes), NEW V, NEW err \in [Step -> V]
  PROVE  \/ FirstError(err) = "ok" /\ \A i \in Step : err[i] = "ok"
         \/ FirstError(err) # "ok" /\ FirstError(err) \in V
<1> DEFINE bad == {i \in Step : err[i] # "ok"}
<1>1. CASE bad = {} BY <1>1 DEF FirstError
<1>2. CASE bad # {}
  <2>1. bad \in SUBSET Nat BY DEF Step
  <2>2. Min(bad) \in bad BY <2>1, <1>2, MinIsIn
  <2>3. FirstError(err) = err[Min(bad)] BY <1>2 DEF FirstError
  <2> QED BY <2>2, <2>3
<1> QED BY <1>1, <1>2

LEMMA ErrorTypes ==
  /\ NodeErrors \in [Step -> {"ok", "unknown", "duplicate", "startDeps", "nilFunction"}]
  /\ DepErrors \in [Step -> {"ok", "cycle", "unknown"}]
<1>1. \A i : NodeError(i) \in {"ok", "unknown", "duplicate", "startDeps", "nilFunction"}
  BY DEF NodeError
<1>2. \A i : DepError(i) \in {"ok", "cycle", "unknown"} BY DEF DepError
<1> QED BY <1>1, <1>2 DEF NodeErrors, DepErrors

LEMMA ValidDeps ==
  ASSUME nodes \in Seq(Nodes), validate = "ok"
  PROVE  \A i \in Step : Deps(i) \subseteq Step
<1>1. FirstError(DepErrors) = "ok" BY DEF validate
<1>2. \A i \in Step : DepErrors[i] = "ok" BY <1>1, ErrorTypes, FirstErrorIs
<1>3. SUFFICES ASSUME NEW i \in Step, NEW d \in DepNames(i) PROVE IndexOf(d) \in Step BY DEF Deps
<1>4. DepError(i) = "ok" BY <1>2 DEF DepErrors
<1>5. \A k \in DOMAIN nodes[i].deps : Registered(nodes[i].deps[k]) BY <1>4 DEF DepError
<1>6. Registered(d) BY <1>5 DEF DepNames
<1> QED BY <1>6 DEF Registered, IndexOf

LEMMA VerdictType ==
  ASSUME nodes \in Seq(Nodes)
  PROVE  validate \in {"ok", "unknown", "duplicate", "startDeps", "nilFunction", "noStart", "cycle"}
<1>1. FirstError(NodeErrors) \in {"ok", "unknown", "duplicate", "startDeps", "nilFunction"}
  BY FirstErrorIs, ErrorTypes
<1>2. FirstError(DepErrors) \in {"ok", "cycle", "unknown"} BY FirstErrorIs, ErrorTypes
<1> QED BY <1>1, <1>2 DEF validate

------------------------------------------------------------------------------
(* The initial state, and steps that leave a Run alone. *)

LEMMA StepsFinite ==
  ASSUME nodes \in Seq(Nodes)
  PROVE  IsFiniteSet(Step) /\ Cardinality(Step) = Len(nodes)
<1>1. Len(nodes) \in Nat /\ Step = 1..Len(nodes) BY DEF Step
<1>2. \A n \in Nat : IsFiniteSet(1..n) /\ Cardinality(1..n) = n
  <2> SUFFICES ASSUME NEW n \in Nat PROVE IsFiniteSet(1..n) /\ Cardinality(1..n) = n OBVIOUS
  <2>1. IsFiniteSet(1..n) /\ Cardinality(1..n) = IF 1 > n THEN 0 ELSE n - 1 + 1 BY FS_Interval
  <2> QED BY <2>1
<1> QED BY <1>1, <1>2

LEMMA SameFlow ==
  ASSUME UNCHANGED nodes
  PROVE  Step' = Step /\ \A i : Deps(i)' = Deps(i)
BY DEF Step, Deps, DepNames, IndexOf

LEMMA InitInv == Init => FlowInv
<1> HAVE Init
<1>1. nodes \in Seq(Nodes) /\ traces \in Seq(Step) /\ Len(traces) <= Len(nodes)
  BY DEF Init
<1>2. TypeOK BY <1>1 DEF Init, TypeOK
<1>3. PhaseInv BY DEF Init, PhaseInv
<1> QED BY <1>2, <1>3 DEF Init, FlowInv, DepsInv, StatusInv, TraceInv, EnabledInv

\* What is settled stays so, with its route: a step that is run or skipped in the
\* next state is so for a reason of this one.
LEMMA EnabledKept ==
  ASSUME FlowInv, pc # "idle", UNCHANGED nodes,
         \A j \in Step : status[j] # "pending" => status'[j] = status[j] /\ routerSel'[j] = routerSel[j],
         \A i \in Step : Ran(i)' => Ran(i) \/ \A j \in Deps(i) : Allows(j, i),
         \A i \in Step : status'[i] = "skipped" =>
                           status[i] = "skipped" \/ \E j \in Deps(i) : Blocks(j, i)
  PROVE  EnabledInv'
<1>0. Step' = Step /\ \A i : Deps(i)' = Deps(i) BY SameFlow
<1>1. \A i \in Step : Deps(i) \subseteq Step BY DEF FlowInv, DepsInv
<1>2. \A i, j \in Step : Allows(j, i) => Allows(j, i)' BY DEF Allows
<1>3. \A i, j \in Step : Blocks(j, i) => Blocks(j, i)' BY DEF Blocks, Allows
<1>4. ASSUME NEW i \in Step, Ran(i)' PROVE \A j \in Deps(i)' : Allows(j, i)'
  BY <1>0, <1>1, <1>2, <1>4 DEF FlowInv, EnabledInv
<1>5. ASSUME NEW i \in Step, status'[i] = "skipped" PROVE \E j \in Deps(i)' : Blocks(j, i)'
  BY <1>0, <1>1, <1>3, <1>5 DEF FlowInv, EnabledInv
<1> QED BY <1>0, <1>4, <1>5 DEF EnabledInv

\* A step of the next-state relation that changes no step's status or route, does
\* not start or end a Run and starts no step.
LEMMA QuietKept ==
  ASSUME FlowInv, pc # "idle", UNCHANGED <<nodes, status, routerSel, traces, errs, todo>>,
         ready' \subseteq ready
  PROVE  DepsInv' /\ TraceInv' /\ EnabledInv'
<1>0. Step' = Step /\ \A i : Deps(i)' = Deps(i) BY SameFlow
<1>1. DepsInv' BY <1>0 DEF FlowInv, DepsInv
<1>2. TraceInv' BY <1>0 DEF FlowInv, TraceInv, Left
<1>3. EnabledInv' BY EnabledKept, <1>0 DEF Ran
<1> QED BY <1>1, <1>2, <1>3

------------------------------------------------------------------------------
(* Before and after a Run. *)

LEMMA RegisterKeeps == ASSUME FlowInv, NEW n \in Nodes, Register(n) PROVE FlowInv'
<1> USE DEF Register
<1>1. nodes' \in Seq(Nodes) BY AppendProperties DEF FlowInv, TypeOK
<1>2. traces' = <<>> /\ Len(nodes') \in Nat BY <1>1 DEF FlowInv, PhaseInv, outcome
<1>3. traces' \in Seq(Step') /\ Len(traces') <= Len(nodes') BY <1>2
<1>4. TypeOK'
  BY <1>1, <1>3 DEF FlowInv, TypeOK, PhaseInv, wave, outcome
<1>5. PhaseInv' BY DEF FlowInv, PhaseInv, wave, outcome
<1> QED BY <1>4, <1>5 DEF FlowInv, DepsInv, StatusInv, TraceInv, EnabledInv

LEMMA OptionKeeps == ASSUME FlowInv, WithFlowContinueOnError \/ RunInvalid PROVE FlowInv'
<1> USE DEF WithFlowContinueOnError, RunInvalid
<1>1. Step' = Step BY DEF Step, flow
<1>2. TypeOK' BY <1>1, VerdictType DEF FlowInv, TypeOK, wave, outcome, flow
<1>3. PhaseInv' BY DEF FlowInv, PhaseInv, wave, outcome
<1> QED BY <1>2, <1>3 DEF FlowInv, DepsInv, StatusInv, TraceInv, EnabledInv

LEMMA RunStartKeeps == ASSUME FlowInv, RunStart PROVE FlowInv'
<1> USE DEF RunStart
<1>0. Step' = Step /\ \A i : Deps(i)' = Deps(i) BY SameFlow DEF flow
<1>1. NoOut \in [err: BOOLEAN, route: SUBSET Name] BY DEF NoOut
<1>2. TypeOK' BY <1>0, <1>1 DEF FlowInv, TypeOK, flow
<1>3. PhaseInv' BY DEF FlowInv, PhaseInv
<1>4. DepsInv' BY <1>0, ValidDeps DEF FlowInv, TypeOK, DepsInv
<1>5. StatusInv' BY DEF FlowInv, PhaseInv, StatusInv
<1>6. TraceInv'
  <2>1. Left' = Step BY <1>0 DEF Left
  <2>2. Len(nodes) \in Nat /\ Step = 1..Len(nodes) BY DEF FlowInv, TypeOK, Step
  <2>3. Cardinality(Step) = Len(nodes) BY StepsFinite DEF FlowInv, TypeOK
  <2>4. traces' = <<>> BY DEF FlowInv, PhaseInv
  <2>5. Len(traces') = 0 BY <2>4
  <2>6. Cardinality(Left') = Len(nodes') BY <2>1, <2>3 DEF flow
  <2> QED BY <2>2, <2>3, <2>5, <2>6 DEF TraceInv
<1>7. EnabledInv'
  <2>1. \A i \in Step' : ~Ran(i)' /\ status'[i] # "skipped" BY <1>0 DEF Ran, FlowInv, PhaseInv
  <2> QED BY <2>1 DEF EnabledInv
<1> QED BY <1>2, <1>3, <1>4, <1>5, <1>6, <1>7 DEF FlowInv

LEMMA ReturnKeeps == ASSUME FlowInv, Return PROVE FlowInv'
<1> USE DEF Return
<1>0. Step' = Step BY DEF Step, flow
<1>1. traces' = <<>> /\ Len(nodes') \in Nat BY DEF FlowInv, TypeOK, flow
<1>2. traces' \in Seq(Step') /\ Len(traces') <= Len(nodes') BY <1>1
<1>3. TypeOK' BY <1>0, <1>2 DEF FlowInv, TypeOK, flow
<1>4. PhaseInv' BY DEF FlowInv, PhaseInv
<1> QED BY <1>3, <1>4 DEF FlowInv, DepsInv, StatusInv, TraceInv, EnabledInv

------------------------------------------------------------------------------
(* Barriers, goroutines and the join. *)

LEMMA BarrierKeeps ==
  ASSUME FlowInv, Cancel \/ BarrierCancelled \/ BarrierDone \/ Join
  PROVE  FlowInv'
<1> USE DEF Cancel, BarrierCancelled, BarrierDone, Join, flow, wave, outcome
<1>0. Step' = Step /\ \A i : Deps(i)' = Deps(i) BY SameFlow
<1>1. TypeOK' BY <1>0 DEF FlowInv, TypeOK
<1>2. PhaseInv' BY DEF FlowInv, PhaseInv
<1>3. StatusInv' BY DEF FlowInv, StatusInv
<1>4. DepsInv' /\ TraceInv' /\ EnabledInv' BY QuietKept
<1> QED BY <1>1, <1>2, <1>3, <1>4 DEF FlowInv

LEMMA GoroutineKeeps == ASSUME FlowInv, NEW i \in Step, Goroutine(i) PROVE FlowInv'
<1>0. Step' = Step BY DEF Goroutine, StepFails, StepReturns, Step, flow
<1>1. PICK o \in [err: BOOLEAN, route: SUBSET Name] :
        /\ pc = "wave" /\ out' = [out EXCEPT ![i] = o] /\ running' = running \ {i}
        /\ UNCHANGED <<flow, pc, ctxDone, verdict, ready, todo, first, outcome>>
  BY BoundsAssumption DEF Goroutine, StepFails, StepReturns
<1>2. TypeOK' BY <1>0, <1>1 DEF FlowInv, TypeOK, flow, outcome
<1>3. PhaseInv' BY <1>1 DEF FlowInv, PhaseInv, outcome
<1>4. StatusInv' BY <1>1 DEF FlowInv, StatusInv, outcome
<1>5. DepsInv' /\ TraceInv' /\ EnabledInv' BY <1>1, QuietKept DEF flow, outcome
<1> QED BY <1>2, <1>3, <1>4, <1>5 DEF FlowInv

LEMMA CollectKeeps == ASSUME FlowInv, CollectReady PROVE FlowInv'
<1> USE DEF CollectReady
<1>0. Step' = Step /\ \A i : Deps(i)' = Deps(i) BY SameFlow DEF flow
<1> DEFINE skip == Settleable \ ready'
<1>1. /\ pc = "barrier" /\ Settleable \subseteq Step /\ ready' \subseteq Settleable
      /\ \A i \in Settleable : status[i] = "pending" /\ Finished(i)
      /\ \A i \in Step : status'[i] = IF i \in skip THEN "skipped" ELSE status[i]
  BY DEF Settleable
<1>2. TypeOK' BY <1>0, <1>1 DEF FlowInv, TypeOK, flow
<1>3. PhaseInv' BY <1>1 DEF FlowInv, PhaseInv
<1>4. DepsInv' BY <1>0, <1>1 DEF FlowInv, DepsInv
<1>5. StatusInv'
  <2>1. \A i \in todo' : status'[i] = (IF i \in ready' THEN "pending" ELSE "skipped") BY <1>1
  <2>2. \A e \in errs' : e \in Step /\ status'[e] = "failed"
    BY <1>1 DEF FlowInv, TypeOK, StatusInv
  <2> QED BY <2>1, <2>2 DEF StatusInv
<1>6. TraceInv'
  <2>1. Left' = Left BY <1>0, <1>1 DEF Left, FlowInv, PhaseInv
  <2> QED BY <1>1, <2>1 DEF FlowInv, TraceInv, flow
<1>7. EnabledInv'
  <2>1. \A j \in Step : status[j] # "pending" => status'[j] = status[j] /\ routerSel'[j] = routerSel[j]
    BY <1>1
  <2>2. \A i \in ready' : \A j \in Deps(i) : Allows(j, i) BY DEF Enabled, Allows
  <2>3. ASSUME NEW i \in skip PROVE \E j \in Deps(i) : Blocks(j, i)
    <3>1. ~Enabled(i) BY <2>3
    <3>2. PICK j \in Deps(i) : ~Allows(j, i) BY <3>1 DEF Enabled, Allows
    <3>3. status[j] # "pending" BY <1>1, <2>3 DEF Finished
    <3> QED BY <3>2, <3>3 DEF Blocks
  <2>4. \A i \in Step : Ran(i)' => Ran(i) \/ \A j \in Deps(i) : Allows(j, i)
    BY <1>1, <2>2 DEF Ran
  <2>5. \A i \in Step : status'[i] = "skipped" =>
                          status[i] = "skipped" \/ \E j \in Deps(i) : Blocks(j, i)
    BY <1>1, <2>3
  <2> QED BY <1>1, <2>1, <2>4, <2>5, EnabledKept DEF flow
<1> QED BY <1>2, <1>3, <1>4, <1>5, <1>6, <1>7 DEF FlowInv

------------------------------------------------------------------------------
(* The fold. *)

\* Step i gets status st and route r, and is traced.
Folds(i, st, r) ==
  /\ FoldAt(i)
  /\ IF i \in ready THEN st \in {"done", "failed"} ELSE st = "skipped"
  /\ status' = [status EXCEPT ![i] = st] /\ routerSel' = [routerSel EXCEPT ![i] = r]
  /\ errs' = (IF st = "failed" THEN errs \cup {i} ELSE errs)
  /\ first' \in {first, i}
  /\ traces' = Append(traces, i) /\ todo' = todo \ {i}
  /\ UNCHANGED <<flow, pc, ctxDone, verdict, ready, running, out, runErr>>

LEMMA FoldsKeeps ==
  ASSUME FlowInv, NEW i \in Step, NEW st, NEW r \in SUBSET Name, Folds(i, st, r),
         i \notin ready => r = routerSel[i]
  PROVE  FlowInv'
<1> USE DEF Folds, FoldAt
<1>0. Step' = Step /\ \A k : Deps(k)' = Deps(k) BY SameFlow DEF flow
<1>t. /\ pc = "fold" /\ i \in todo /\ todo \subseteq Step /\ ready \subseteq Step
      /\ status \in [Step -> {"pending", "done", "failed", "skipped"}]
      /\ routerSel \in [Step -> SUBSET Name]
      /\ traces \in Seq(Step) /\ Len(traces) \in Nat /\ Len(nodes) \in Nat
  BY DEF FlowInv, TypeOK
<1>s. status[i] = (IF i \in ready THEN "pending" ELSE "skipped")
  BY <1>t DEF FlowInv, StatusInv
<1>o. /\ \A k \in Step \ {i} : status'[k] = status[k] /\ routerSel'[k] = routerSel[k]
      /\ status'[i] = st /\ routerSel'[i] = r
  BY <1>t
<1>a. traces' \in Seq(Step) /\ Len(traces') = Len(traces) + 1 BY <1>t, AppendProperties
<1>1. TraceInv'
  <2>1. Left' = Left \ {i} BY <1>0, <1>t, <1>o DEF Left
  <2>2. i \in Left /\ Left \subseteq Step BY <1>t DEF Left
  <2>3. IsFiniteSet(Left) BY <2>2, FS_Subset, StepsFinite DEF FlowInv, TypeOK
  <2>4. Cardinality(Left') = Cardinality(Left) - 1 /\ Cardinality(Left) \in Nat
    BY <2>1, <2>2, <2>3, FS_RemoveElement, FS_CardinalityType
  <2>5. Len(traces) + Cardinality(Left) = Len(nodes) BY <1>t DEF FlowInv, TraceInv
  <2>6. nodes' = nodes BY DEF flow
  <2> QED BY <1>a, <1>t, <2>4, <2>5, <2>6 DEF TraceInv
<1>2. Len(traces') <= Len(nodes)
  <2>1. Left' \subseteq Step BY <1>0 DEF Left
  <2>2. Cardinality(Left') \in Nat
    BY <2>1, FS_Subset, FS_CardinalityType, StepsFinite DEF FlowInv, TypeOK
  <2>3. Len(traces') + Cardinality(Left') = Len(nodes) BY <1>1, <1>t DEF TraceInv, flow
  <2> QED BY <1>a, <1>t, <2>2, <2>3
<1>3. TypeOK'
  <2>1. /\ nodes' = nodes /\ pc' = pc /\ ready' = ready /\ running' = running
        /\ out' = out /\ runErr' = runErr /\ ctxDone' = ctxDone /\ verdict' = verdict
        /\ continueOnError' = continueOnError
    BY DEF flow
  <2>2. status' \in [Step -> {"pending", "done", "failed", "skipped"}] BY <1>t
  <2>3. routerSel' \in [Step -> SUBSET Name] BY <1>t
  <2>4. errs' \in SUBSET Step /\ first' \in {0} \cup Step /\ todo' \in SUBSET Step
    BY DEF FlowInv, TypeOK
  <2> QED BY <1>0, <1>a, <1>2, <2>1, <2>2, <2>3, <2>4 DEF FlowInv, TypeOK
<1>4. PhaseInv' BY <1>t DEF FlowInv, PhaseInv
<1>5. DepsInv' BY <1>0, <1>t DEF FlowInv, DepsInv
<1>6. StatusInv'
  <2>1. \A k \in todo' : status'[k] = (IF k \in ready' THEN "pending" ELSE "skipped")
    BY <1>t, <1>o DEF FlowInv, StatusInv
  <2>2. \A e \in errs' : status'[e] = "failed"
    BY <1>t, <1>o, <1>s DEF FlowInv, TypeOK, StatusInv
  <2> QED BY <2>1, <2>2 DEF StatusInv
<1>7. EnabledInv'
  <2>1. \A j \in Step : status[j] # "pending" => status'[j] = status[j] /\ routerSel'[j] = routerSel[j]
    BY <1>o, <1>s
  <2>2. \A k \in Step : Ran(k)' => Ran(k) BY <1>o DEF Ran
  <2>3. \A k \in Step : status'[k] = "skipped" => status[k] = "skipped" BY <1>o, <1>s
  <2> QED BY <1>t, <2>1, <2>2, <2>3, EnabledKept DEF flow
<1> QED BY <1>1, <1>3, <1>4, <1>5, <1>6, <1>7 DEF FlowInv

LEMMA FoldKeeps ==
  ASSUME FlowInv, NEW i \in Step, FoldSkipped(i) \/ FoldFailed(i) \/ FoldDone(i)
  PROVE  FlowInv'
<1>t. pc = "fold" /\ i \in todo BY DEF FoldSkipped, FoldFailed, FoldDone, FoldAt
<1>u. /\ status \in [Step -> {"pending", "done", "failed", "skipped"}]
      /\ routerSel \in [Step -> SUBSET Name]
      /\ out \in [Step -> [err: BOOLEAN, route: SUBSET Name]]
  BY <1>t DEF FlowInv, TypeOK
<1>v. routerSel = [routerSel EXCEPT ![i] = routerSel[i]] /\ routerSel[i] \in SUBSET Name BY <1>u
<1>1. CASE FoldSkipped(i)
  <2>1. status[i] = "skipped" BY <1>1, <1>t DEF FoldSkipped, FlowInv, StatusInv
  <2>2. status = [status EXCEPT ![i] = "skipped"] BY <1>u, <2>1
  <2>3. Folds(i, "skipped", routerSel[i]) BY <1>1, <1>v, <2>2 DEF FoldSkipped, Folds
  <2> QED BY <2>3, <1>v, FoldsKeeps
<1>2. CASE FoldFailed(i)
  <2>1. Folds(i, "failed", routerSel[i]) BY <1>2, <1>v DEF FoldFailed, Folds
  <2> QED BY <2>1, <1>v, FoldsKeeps
<1>3. CASE FoldDone(i)
  <2>1. Folds(i, "done", out[i].route) BY <1>3 DEF FoldDone, Folds
  <2>2. out[i].route \in SUBSET Name /\ i \in ready BY <1>u, <1>3 DEF FoldDone
  <2> QED BY <2>1, <2>2, FoldsKeeps
<1> QED BY <1>1, <1>2, <1>3

LEMMA FoldEndKeeps == ASSUME FlowInv, FoldEnd PROVE FlowInv'
<1> USE DEF FoldEnd
<1>0. Step' = Step /\ \A i : Deps(i)' = Deps(i) BY SameFlow DEF flow
<1>1. NoOut \in [err: BOOLEAN, route: SUBSET Name] BY DEF NoOut
<1>2. out' \in [Step -> [err: BOOLEAN, route: SUBSET Name]] BY <1>1
<1>3. running = {} BY DEF FlowInv, PhaseInv
<1>4. TypeOK' BY <1>0, <1>2, <1>3 DEF FlowInv, TypeOK, flow
<1>5. PhaseInv' BY <1>3 DEF FlowInv, PhaseInv
<1>6. StatusInv' BY DEF FlowInv, StatusInv
<1>7. DepsInv' /\ TraceInv' /\ EnabledInv' BY QuietKept DEF flow
<1> QED BY <1>4, <1>5, <1>6, <1>7 DEF FlowInv

------------------------------------------------------------------------------
(* The theorems. *)

LEMMA StutterKeeps == ASSUME FlowInv, UNCHANGED vars PROVE FlowInv'
<1> USE DEF vars, flow, wave, outcome
<1>0. Step' = Step /\ \A i : Deps(i)' = Deps(i) BY SameFlow
<1>1. TypeOK' BY <1>0 DEF FlowInv, TypeOK
<1>2. PhaseInv' BY DEF FlowInv, PhaseInv
<1>3. StatusInv' BY DEF FlowInv, StatusInv
<1>4. DepsInv' /\ TraceInv' /\ EnabledInv' BY <1>0 DEF FlowInv, DepsInv, TraceInv, EnabledInv, Left, Ran, Allows, Blocks
<1> QED BY <1>1, <1>2, <1>3, <1>4 DEF FlowInv

LEMMA NextKeeps == FlowInv /\ [Next]_vars => FlowInv'
<1> SUFFICES ASSUME FlowInv, [Next]_vars PROVE FlowInv' OBVIOUS
<1>1. CASE \E n \in Nodes : Register(n) BY <1>1, RegisterKeeps
<1>2. CASE WithFlowContinueOnError \/ RunInvalid BY <1>2, OptionKeeps
<1>3. CASE RunStart BY <1>3, RunStartKeeps
<1>4. CASE Cancel \/ BarrierCancelled \/ BarrierDone \/ Join BY <1>4, BarrierKeeps
<1>5. CASE CollectReady BY <1>5, CollectKeeps
<1>6. CASE FoldEnd BY <1>6, FoldEndKeeps
<1>7. CASE Return BY <1>7, ReturnKeeps
<1>8. CASE \E i \in Step : FoldSkipped(i) \/ FoldFailed(i) \/ FoldDone(i) BY <1>8, FoldKeeps
<1>9. CASE \E i \in Step : Goroutine(i) BY <1>9, GoroutineKeeps
<1>10. CASE UNCHANGED vars BY <1>10, StutterKeeps
<1> QED BY <1>1, <1>2, <1>3, <1>4, <1>5, <1>6, <1>7, <1>8, <1>9, <1>10 DEF Next, Runner

\* Types of the flow and of a Run; in particular FlowResult.Steps never has more
\* entries than there are steps.
THEOREM TypeCorrect == Spec => []TypeOK
<1>1. FlowInv => TypeOK BY DEF FlowInv
<1> QED BY <1>1, InitInv, NextKeeps, PTL DEF Spec

\* collectReady, runWave and foldWave together: a goroutine is started exactly for
\* the steps whose dependencies succeeded and whose routers named them, in every
\* flow that validate accepts, whatever fails and whenever the caller cancels.
THEOREM StepsRunExactlyEnabled == Spec => []RunsExactlyEnabled
<1>1. FlowInv => RunsExactlyEnabled
  <2> SUFFICES ASSUME FlowInv, pc # "idle", NEW i \in Step
               PROVE  LET blocked == \E j \in Deps(i) :
                            \/ j \in errs \/ status[j] # "done"
                            \/ nodes[j].kind = "router" /\ nodes[i].name \notin routerSel[j]
                      IN (Ran(i) => ~blocked) /\ (status[i] = "skipped" => blocked)
    BY DEF RunsExactlyEnabled
  <2>1. Ran(i) => \A j \in Deps(i) : Allows(j, i) BY DEF FlowInv, EnabledInv
  <2>2. \A j \in Deps(i) : Allows(j, i) => j \notin errs BY DEF FlowInv, StatusInv, Allows
  <2>3. status[i] = "skipped" => \E j \in Deps(i) : ~Allows(j, i) BY DEF FlowInv, EnabledInv, Blocks
  <2> QED BY <2>1, <2>2, <2>3 DEF Allows
<1> QED BY <1>1, InitInv, NextKeeps, PTL DEF Spec

------------------------------------------------------------------------------
(* The steps that detectCycle has removed after k rounds, and with them the *)
(* longest chain of dependencies that ends in a step.                       *)

\* No induction theorem of the library can be used with a predicate, but a set of
\* numbers that holds 0 and every successor up to N holds them all.
LEMMA UpTo ==
  ASSUME NEW N \in Nat, NEW S, 0 \in S, \A k \in 0..N : k \in S /\ k # N => k + 1 \in S
  PROVE  \A k \in 0..N : k \in S
<1> DEFINE T == {k \in 0..N : k \notin S}
<1> SUFFICES ASSUME T # {} PROVE FALSE OBVIOUS
<1>1. T \in SUBSET Nat OBVIOUS
<1> HIDE DEF T
<1>2. PICK x \in T : \A y \in T : ~(<<y, x>> \in OpToRel(<, Nat))
  BY <1>1, WFMin, NatLessThanWellFounded
<1> USE DEF T
<1>3. x \in Nat /\ x \notin S /\ x # 0 /\ x - 1 \in 0..N /\ x - 1 \in Nat /\ (x - 1) + 1 = x OBVIOUS
<1> DEFINE ss == <<x - 1, x>>
<1>4. ss \in Nat \X Nat /\ ss[1] < ss[2] BY <1>3
<1>5. ss \in OpToRel(<, Nat) BY <1>4 DEF OpToRel
<1>6. x - 1 \notin T BY <1>2, <1>5
<1>7. x - 1 \in S /\ x - 1 # N BY <1>3, <1>6
<1>8. (x - 1) + 1 \in S BY <1>3, <1>7
<1> QED BY <1>3, <1>8

Removed(X) == {i \in Step : Deps(i) \subseteq X}
Layered(n, g) == g = [k \in 0..n |-> IF k = 0 THEN {} ELSE Removed(g[k - 1])]
Layer == CHOOSE g : Layered(Len(nodes), g)

LEMMA LayersExist == ASSUME NEW n \in Nat PROVE \E g : Layered(n, g)
<1> DEFINE S == {k \in 0..n : \E g : Layered(k, g)}
<1>1. 0 \in S
  <2>1. Layered(0, [k \in 0..0 |-> {}]) BY DEF Layered
  <2> QED BY <2>1
<1>2. ASSUME NEW k \in 0..n, k \in S, k # n PROVE k + 1 \in S
  <2>1. PICK g : Layered(k, g) BY <1>2
  <2> DEFINE h == [m \in 0..(k + 1) |-> IF m = k + 1 THEN Removed(g[k]) ELSE g[m]]
  <2>2. \A m \in 0..k : h[m] = g[m] OBVIOUS
  <2>3. \A m \in 0..k : g[m] = IF m = 0 THEN {} ELSE Removed(g[m - 1]) BY <2>1 DEF Layered
  <2>4. h[k + 1] = Removed(g[k]) OBVIOUS
  <2>h. DOMAIN h = 0..(k + 1) /\ h = [m \in 0..(k + 1) |-> h[m]] OBVIOUS
  <2> HIDE DEF h
  <2>5. ASSUME NEW m \in 0..(k + 1) PROVE h[m] = IF m = 0 THEN {} ELSE Removed(h[m - 1])
    <3>1. CASE m = k + 1
      <4>1. m # 0 /\ m - 1 = k /\ k \in 0..k BY <3>1
      <4> QED BY <3>1, <4>1, <2>2, <2>4
    <3>2. CASE m \in 0..k
      <4>1. m # 0 => m - 1 \in 0..k BY <3>2
      <4> QED BY <3>2, <4>1, <2>2, <2>3
    <3> QED BY <3>1, <3>2
  <2>6. Layered(k + 1, h) BY <2>h, <2>5 DEF Layered
  <2>7. k + 1 \in 0..n BY <1>2
  <2> QED BY <2>6, <2>7
<1> HIDE DEF S
<1>3. \A k \in 0..n : k \in S BY <1>1, <1>2, UpTo
<1> QED BY <1>3 DEF S

LEMMA LayerIs ==
  ASSUME nodes \in Seq(Nodes)
  PROVE  /\ Layer[0] = {}
         /\ \A k \in 1..Len(nodes) : Layer[k] = Removed(Layer[k - 1])
         /\ \A k \in 0..Len(nodes) : Layer[k] \subseteq Step
<1>1. Len(nodes) \in Nat OBVIOUS
<1>2. Layered(Len(nodes), Layer) BY <1>1, LayersExist DEF Layer
<1> HIDE DEF Layer
<1>3. \A k \in 0..Len(nodes) : Layer[k] = IF k = 0 THEN {} ELSE Removed(Layer[k - 1])
  BY <1>2 DEF Layered
<1>4. \A k \in 0..Len(nodes) : Layer[k] \subseteq Step BY <1>3 DEF Removed
<1> QED BY <1>1, <1>3, <1>4

\* detectCycle and Depth are defined from the layers.
LEMMA CycleByLayers == detectCycle <=> Layer[Len(nodes)] # Step
BY DEF detectCycle, Layer, Layered, Removed, Removable

LEMMA DepthByLayers ==
  ASSUME NEW i PROVE Depth(i) = CHOOSE k \in Step : i \in Layer[k] \ Layer[k - 1]
BY DEF Depth, Layer, Layered, Removed

\* A step that is removed stays so.
LEMMA LayersGrow ==
  ASSUME nodes \in Seq(Nodes)
  PROVE  \A j, k \in 0..Len(nodes) : j <= k => Layer[j] \subseteq Layer[k]
<1> DEFINE N == Len(nodes)
<1>1. N \in Nat OBVIOUS
<1> HIDE DEF N
<1>2. /\ Layer[0] = {}
      /\ \A k \in 1..N : Layer[k] = Removed(Layer[k - 1])
  BY LayerIs DEF N
<1> DEFINE G == {k \in 0..N : k = N \/ Layer[k] \subseteq Layer[k + 1]}
<1>3. \A k \in 0..N : k \in G
  <2>1. 0 \in G BY <1>1, <1>2
  <2>2. ASSUME NEW k \in 0..N, k \in G, k # N PROVE k + 1 \in G
    <3>1. k + 1 \in 0..N /\ k + 1 \in 1..N /\ (k + 1) - 1 = k BY <1>1, <2>2
    <3>2. CASE k + 1 = N BY <3>1, <3>2
    <3>3. CASE k + 1 # N
      <4>1. k + 2 \in 1..N /\ (k + 2) - 1 = k + 1 /\ (k + 1) + 1 = k + 2 BY <1>1, <2>2, <3>3
      <4>2. Layer[k] \subseteq Layer[k + 1] BY <2>2
      <4>3. Layer[k + 1] = Removed(Layer[k]) BY <1>2, <3>1
      <4>4. Layer[k + 2] = Removed(Layer[k + 1]) BY <1>2, <4>1
      <4>5. Layer[k + 1] \subseteq Layer[k + 2] BY <4>2, <4>3, <4>4 DEF Removed
      <4> QED BY <3>1, <4>1, <4>5
    <3> QED BY <3>2, <3>3
  <2> HIDE DEF G
  <2> QED BY <1>1, <2>1, <2>2, UpTo
<1>4. SUFFICES ASSUME NEW j \in 0..N PROVE \A k \in 0..N : j <= k => Layer[j] \subseteq Layer[k]
  BY DEF N
<1> DEFINE H == {k \in 0..N : j <= k => Layer[j] \subseteq Layer[k]}
<1>5. 0 \in H
  <2>1. j <= 0 => j = 0 BY <1>1
  <2> QED BY <1>1, <2>1
<1>6. ASSUME NEW k \in 0..N, k \in H, k # N PROVE k + 1 \in H
  <2>1. Layer[k] \subseteq Layer[k + 1] BY <1>3, <1>6
  <2>2. k + 1 \in 0..N BY <1>1, <1>6
  <2>3. j <= k + 1 => j <= k \/ j = k + 1 BY <1>1
  <2> QED BY <1>6, <2>1, <2>2, <2>3
<1> HIDE DEF H
<1>7. \A k \in 0..N : k \in H BY <1>1, <1>5, <1>6, UpTo
<1> QED BY <1>7 DEF H

\* After as many rounds as there are steps no round removes another one.
LEMMA LayersEnd ==
  ASSUME nodes \in Seq(Nodes), \A i \in Step : Deps(i) \subseteq Step
  PROVE  Removed(Layer[Len(nodes)]) = Layer[Len(nodes)]
<1> DEFINE N == Len(nodes)
           Fixed(k) == Removed(Layer[k]) = Layer[k]
           S == {k \in 0..N : Fixed(k) \/ Cardinality(Layer[k]) >= k}
<1>1. N \in Nat OBVIOUS
<1>f. IsFiniteSet(Step) /\ Cardinality(Step) = N BY StepsFinite
<1>2. /\ Layer[0] = {}
      /\ \A k \in 1..N : Layer[k] = Removed(Layer[k - 1])
      /\ \A k \in 0..N : Layer[k] \subseteq Step
      /\ \A j, k \in 0..N : j <= k => Layer[j] \subseteq Layer[k]
  BY LayerIs, LayersGrow
<1> HIDE DEF N
<1>c. \A k \in 0..N : IsFiniteSet(Layer[k]) /\ Cardinality(Layer[k]) \in Nat
  BY <1>2, <1>f, FS_Subset, FS_CardinalityType
<1>3. 0 \in S
  <2>1. Cardinality(Layer[0]) >= 0 BY <1>1, <1>c
  <2> QED BY <1>1, <2>1
<1>4. ASSUME NEW k \in 0..N, k \in S, k # N PROVE k + 1 \in S
  <2>1. k + 1 \in 0..N /\ k + 1 \in 1..N /\ (k + 1) - 1 = k /\ k <= k + 1 /\ k \in Nat BY <1>1, <1>4
  <2>2. Layer[k + 1] = Removed(Layer[k]) BY <1>2, <2>1
  <2>3. CASE Fixed(k)
    <3>1. Layer[k + 1] = Layer[k] BY <2>2, <2>3
    <3>2. Fixed(k + 1) BY <2>3, <3>1
    <3> QED BY <2>1, <3>2
  <2>4. CASE ~Fixed(k)
    <3>1. Cardinality(Layer[k]) >= k BY <1>4, <2>4
    <3>2. Layer[k] \subseteq Layer[k + 1] /\ Layer[k] # Layer[k + 1] BY <1>2, <2>1, <2>2, <2>4
    <3>3. Cardinality(Layer[k]) < Cardinality(Layer[k + 1])
      <4>1. IsFiniteSet(Layer[k + 1]) BY <1>c, <2>1
      <4>2. Cardinality(Layer[k]) <= Cardinality(Layer[k + 1]) BY <3>2, <4>1, FS_Subset
      <4>3. Cardinality(Layer[k]) # Cardinality(Layer[k + 1]) BY <3>2, <4>1, FS_Subset
      <4> QED BY <1>c, <2>1, <4>2, <4>3
    <3>4. Cardinality(Layer[k + 1]) >= k + 1 BY <1>c, <2>1, <3>1, <3>3
    <3> QED BY <2>1, <3>4
  <2> QED BY <2>3, <2>4
<1> HIDE DEF S
<1>5. \A k \in 0..N : k \in S BY <1>1, <1>3, <1>4, UpTo
<1>n. N \in 0..N BY <1>1
<1>6. CASE Fixed(N) BY <1>6 DEF N
<1>7. CASE Cardinality(Layer[N]) >= N
  <2>1. Layer[N] \subseteq Step BY <1>2, <1>n
  <2>2. Cardinality(Layer[N]) <= Cardinality(Step) BY <1>f, <2>1, FS_Subset
  <2>3. Cardinality(Layer[N]) = Cardinality(Step) BY <1>1, <1>c, <1>n, <1>f, <1>7, <2>2
  <2>4. Layer[N] = Step BY <1>f, <2>1, <2>3, FS_Subset
  <2>5. Removed(Step) = Step BY DEF Removed
  <2> QED BY <2>4, <2>5 DEF N
<1> QED BY <1>5, <1>n, <1>6, <1>7 DEF S

------------------------------------------------------------------------------
(* What validate's verdict says of the flow. *)

\* FirstError is the error of one of the steps, unless none has any.
LEMMA FirstErrorOf ==
  ASSUME nodes \in Seq(Nodes), NEW err, FirstError(err) # "ok"
  PROVE  \E i \in Step : err[i] = FirstError(err)
<1> DEFINE bad == {i \in Step : err[i] # "ok"}
<1>1. bad # {} BY DEF FirstError
<1>2. bad \in SUBSET Nat BY DEF Step
<1>3. Min(bad) \in bad BY <1>1, <1>2, MinIsIn
<1>4. FirstError(err) = err[Min(bad)] BY <1>1 DEF FirstError
<1> QED BY <1>3, <1>4

LEMMA NamesUnique ==
  ASSUME nodes \in Seq(Nodes), FirstError(NodeErrors) = "ok"
  PROVE  \A i, j \in Step : nodes[i].name = nodes[j].name => i = j
<1>1. \A i \in Step : NodeErrors[i] = "ok" BY ErrorTypes, FirstErrorIs
<1>2. \A i \in Step : NodeError(i) = "ok" BY <1>1 DEF NodeErrors
<1>3. \A i \in Step : \A j \in 1..(i - 1) : nodes[j].name # nodes[i].name BY <1>2 DEF NodeError
<1>4. Step \subseteq Nat \ {0} BY DEF Step
<1>5. \A i, j \in Step : j < i => j \in 1..(i - 1) BY <1>4
<1>6. \A i, j \in Step : i = j \/ j < i \/ i < j BY <1>4
<1> QED BY <1>3, <1>5, <1>6

LEMMA IndexIs ==
  ASSUME nodes \in Seq(Nodes), FirstError(NodeErrors) = "ok", NEW j \in Step
  PROVE  IndexOf(nodes[j].name) = j
<1>1. IndexOf(nodes[j].name) \in Step /\ nodes[IndexOf(nodes[j].name)].name = nodes[j].name
  BY DEF IndexOf
<1> QED BY <1>1, NamesUnique

\* Every dependency is a registered step's name.
LEMMA NamedDeps ==
  ASSUME nodes \in Seq(Nodes), FirstError(DepErrors) = "ok", NEW i \in Step, NEW j \in Deps(i)
  PROVE  j \in Step /\ nodes[j].name \in DepNames(i)
<1>1. \A k \in Step : DepErrors[k] = "ok" BY ErrorTypes, FirstErrorIs
<1>2. DepError(i) = "ok" BY <1>1 DEF DepErrors
<1>3. \A k \in DOMAIN nodes[i].deps : Registered(nodes[i].deps[k]) BY <1>2 DEF DepError
<1>4. PICK d \in DepNames(i) : j = IndexOf(d) BY DEF Deps
<1>5. Registered(d) BY <1>3, <1>4 DEF DepNames
<1>6. IndexOf(d) \in Step /\ nodes[IndexOf(d)].name = d BY <1>5 DEF Registered, IndexOf
<1> QED BY <1>4, <1>6

\* The steps left by detectCycle wait for each other.
LEMMA CycleFound ==
  ASSUME nodes \in Seq(Nodes), FirstError(DepErrors) = "ok", detectCycle
  PROVE  Cyclic
<1> DEFINE L == Layer[Len(nodes)]
           c == Step \ L
<1>1. \A i \in Step : \A j \in Deps(i) : j \in Step /\ nodes[j].name \in DepNames(i)
  BY NamedDeps
<1>2. L \subseteq Step /\ Removed(L) = L
  <2>1. \A i \in Step : Deps(i) \subseteq Step BY <1>1
  <2>2. Len(nodes) \in 0..Len(nodes) OBVIOUS
  <2> QED BY <2>1, <2>2, LayersEnd, LayerIs
<1>3. c # {} /\ c \in SUBSET Step
  <2>1. L # Step BY CycleByLayers
  <2> QED BY <1>2, <2>1
<1>4. ASSUME NEW i \in c PROVE \E j \in c : nodes[j].name \in DepNames(i)
  <2>1. i \in Step /\ i \notin Removed(L) BY <1>2, <1>4
  <2>2. PICK j \in Deps(i) : j \notin L BY <2>1 DEF Removed
  <2> QED BY <1>1, <2>1, <2>2
<1> HIDE DEF c
<1> QED BY <1>3, <1>4 DEF Cyclic

\* Steps that wait for each other are never removed.
LEMMA NoCycleMissed ==
  ASSUME nodes \in Seq(Nodes), FirstError(NodeErrors) = "ok", ~detectCycle
  PROVE  ~Cyclic
<1> SUFFICES ASSUME NEW c \in (SUBSET Step) \ {{}},
                    \A i \in c : \E j \in c : nodes[j].name \in DepNames(i)
             PROVE  FALSE
  BY DEF Cyclic
<1>1. \A i \in c : \E j \in c : j \in Deps(i)
  <2> SUFFICES ASSUME NEW i \in c PROVE \E j \in c : j \in Deps(i) OBVIOUS
  <2>1. PICK j \in c : nodes[j].name \in DepNames(i) OBVIOUS
  <2>2. IndexOf(nodes[j].name) = j BY IndexIs
  <2>3. j \in Deps(i) BY <2>1, <2>2 DEF Deps
  <2> QED BY <2>3
<1>l. Len(nodes) \in Nat OBVIOUS
<1> DEFINE S == {k \in 0..Len(nodes) : Layer[k] \cap c = {}}
<1>2. 0 \in S BY <1>l, LayerIs
<1>3. ASSUME NEW k \in 0..Len(nodes), k \in S, k # Len(nodes) PROVE k + 1 \in S
  <2>1. k + 1 \in 0..Len(nodes) /\ k + 1 \in 1..Len(nodes) /\ (k + 1) - 1 = k BY <1>l, <1>3
  <2>2. Layer[k + 1] = Removed(Layer[k]) BY <2>1, LayerIs
  <2>3. \A i \in c : i \notin Removed(Layer[k]) BY <1>1, <1>3 DEF Removed
  <2> QED BY <2>1, <2>2, <2>3
<1> HIDE DEF S
<1>4. Len(nodes) \in S
  <2>1. \A k \in 0..Len(nodes) : k \in S BY <1>l, <1>2, <1>3, UpTo
  <2> QED BY <1>l, <2>1
<1>5. Layer[Len(nodes)] \cap c = {} BY <1>4 DEF S
<1>6. Layer[Len(nodes)] = Step BY CycleByLayers
<1>7. c # {} /\ c \subseteq Step OBVIOUS
<1> QED BY <1>5, <1>6, <1>7

LEMMA VerdictIsRight ==
  ASSUME nodes \in Seq(Nodes)
  PROVE  (validate = "cycle" => Cyclic) /\ (validate = "ok" => ~Cyclic)
<1>1. ASSUME validate = "ok" PROVE ~Cyclic
  <2>1. FirstError(NodeErrors) = "ok" /\ FirstError(DepErrors) = "ok" /\ ~detectCycle
    BY <1>1 DEF validate
  <2> QED BY <2>1, NoCycleMissed
<1>2. ASSUME validate = "cycle" PROVE Cyclic
  <2>1. FirstError(NodeErrors) # "cycle"
    <3>1. FirstError(NodeErrors) \in {"ok", "unknown", "duplicate", "startDeps", "nilFunction"}
      BY FirstErrorIs, ErrorTypes
    <3> QED BY <3>1
  <2>2. \/ FirstError(DepErrors) = "cycle"
        \/ FirstError(DepErrors) = "ok" /\ detectCycle
    BY <1>2, <2>1 DEF validate
  <2>3. CASE FirstError(DepErrors) = "cycle"
    <3>1. PICK i \in Step : DepErrors[i] = "cycle" BY <2>3, FirstErrorOf
    <3> DEFINE bad == {k \in DOMAIN nodes[i].deps :
                         nodes[i].deps[k] = nodes[i].name \/ ~Registered(nodes[i].deps[k])}
    <3>2. DepError(i) = "cycle" BY <3>1 DEF DepErrors
    <3>3. bad # {} /\ nodes[i].deps[Min(bad)] = nodes[i].name BY <3>2 DEF DepError
    <3>4. bad \in SUBSET Nat
      <4>1. nodes[i] \in Nodes BY DEF Step
      <4>2. nodes[i].deps \in Seq(Name) BY <4>1, NodesAssumption
      <4>3. DOMAIN nodes[i].deps \subseteq Nat BY <4>2
      <4> QED BY <4>3
    <3>5. Min(bad) \in bad BY <3>3, <3>4, MinIsIn
    <3>6. nodes[i].name \in DepNames(i) BY <3>3, <3>5 DEF DepNames
    <3> DEFINE c == {i}
    <3>7. c \in (SUBSET Step) \ {{}} /\ \A k \in c : \E j \in c : nodes[j].name \in DepNames(k)
      BY <3>6
    <3> HIDE DEF c
    <3> QED BY <3>7 DEF Cyclic
  <2>4. CASE FirstError(DepErrors) = "ok" /\ detectCycle BY <2>4, CycleFound
  <2> QED BY <2>2, <2>3, <2>4
<1> QED BY <1>1, <1>2

------------------------------------------------------------------------------
(* Depth(i): the round of detectCycle in which i is removed. *)

LEMMA DepthIs ==
  ASSUME nodes \in Seq(Nodes), ~detectCycle, NEW i \in Step
  PROVE  /\ Depth(i) \in 1..Len(nodes)
         /\ \A k \in 0..Len(nodes) : i \in Layer[k] <=> Depth(i) <= k
<1> DEFINE N == Len(nodes)
           R(k) == i \in Layer[k] \ Layer[k - 1]
<1>1. N \in Nat /\ Step = 1..N BY DEF Step
<1>2. i \in Layer[N] /\ Layer[0] = {} BY CycleByLayers, LayerIs
<1>3. \E k \in 1..N : R(k)
  <2> SUFFICES ASSUME \A k \in 1..N : ~R(k) PROVE FALSE OBVIOUS
  <2> DEFINE S == {k \in 0..N : i \notin Layer[k]}
  <2>1. 0 \in S BY <1>1, <1>2
  <2>2. ASSUME NEW k \in 0..N, k \in S, k # N PROVE k + 1 \in S
    <3>1. k + 1 \in 0..N /\ k + 1 \in 1..N /\ (k + 1) - 1 = k BY <1>1, <2>2
    <3>2. ~R(k + 1) BY <3>1
    <3> QED BY <2>2, <3>1, <3>2
  <2> HIDE DEF S
  <2>3. \A k \in 0..N : k \in S BY <1>1, <2>1, <2>2, UpTo
  <2>4. N \in S BY <1>1, <2>3
  <2> QED BY <1>2, <2>4 DEF S
<1>4. Depth(i) = CHOOSE k \in Step : R(k) BY DepthByLayers
<1>5. Depth(i) \in 1..N /\ R(Depth(i)) BY <1>1, <1>3, <1>4
<1>6. ASSUME NEW k \in 0..N PROVE i \in Layer[k] <=> Depth(i) <= k
  <2>1. Depth(i) \in 0..N /\ Depth(i) - 1 \in 0..N BY <1>1, <1>5
  <2>2. Depth(i) <= k \/ k <= Depth(i) - 1 BY <1>1, <1>5
  <2>3. ~(Depth(i) <= k /\ k <= Depth(i) - 1) BY <1>1, <1>5
  <2>4. Depth(i) <= k => Layer[Depth(i)] \subseteq Layer[k] BY <2>1, LayersGrow
  <2>5. k <= Depth(i) - 1 => Layer[k] \subseteq Layer[Depth(i) - 1] BY <2>1, LayersGrow
  <2>6. i \in Layer[Depth(i)] /\ i \notin Layer[Depth(i) - 1] BY <1>5
  <2> QED BY <2>2, <2>3, <2>4, <2>5, <2>6
<1> QED BY <1>5, <1>6

\* Depth is the length of the longest chain: a dependency is less deep, and one of
\* them by one.
LEMMA DepthOfDeps ==
  ASSUME nodes \in Seq(Nodes), validate = "ok", NEW i \in Step
  PROVE  /\ Depth(i) \in 1..Len(nodes)
         /\ \A j \in Deps(i) : j \in Step /\ Depth(j) \in 1..Len(nodes) /\ Depth(j) < Depth(i)
         /\ Depth(i) = 1 \/ \E j \in Deps(i) : Depth(j) = Depth(i) - 1
<1> DEFINE N == Len(nodes)
<1>1. ~detectCycle BY DEF validate
<1>2. \A j \in Step : Depth(j) \in 1..N /\ \A k \in 0..N : j \in Layer[k] <=> Depth(j) <= k
  BY <1>1, DepthIs
<1>3. Deps(i) \subseteq Step BY ValidDeps
<1>n. N \in Nat OBVIOUS
<1> HIDE DEF N
<1>4. Depth(i) \in 0..N /\ Depth(i) - 1 \in 0..N /\ Depth(i) \in 1..N BY <1>2, <1>n
<1>5. Layer[Depth(i)] = Removed(Layer[Depth(i) - 1]) BY <1>4, LayerIs DEF N
<1>6. i \in Layer[Depth(i)] BY <1>2, <1>4
<1>7. Deps(i) \subseteq Layer[Depth(i) - 1] BY <1>5, <1>6 DEF Removed
<1>8. ASSUME NEW j \in Deps(i) PROVE j \in Step /\ Depth(j) \in 1..N /\ Depth(j) < Depth(i)
  <2>1. j \in Step /\ j \in Layer[Depth(i) - 1] BY <1>3, <1>7
  <2>2. Depth(j) <= Depth(i) - 1 /\ Depth(j) \in 1..N BY <1>2, <1>4, <2>1
  <2> QED BY <1>4, <1>n, <2>1, <2>2
<1>9. ASSUME Depth(i) # 1 PROVE \E j \in Deps(i) : Depth(j) = Depth(i) - 1
  <2>1. Depth(i) - 2 \in 0..N /\ Depth(i) - 1 \in 1..N /\ (Depth(i) - 1) - 1 = Depth(i) - 2
    BY <1>4, <1>9, <1>n
  <2>2. Layer[Depth(i) - 1] = Removed(Layer[Depth(i) - 2]) BY <2>1, LayerIs DEF N
  <2>3. i \notin Layer[Depth(i) - 1]
    <3>1. ~(Depth(i) <= Depth(i) - 1) BY <1>4, <1>n
    <3> QED BY <1>2, <1>4, <3>1
  <2>4. PICK j \in Deps(i) : j \notin Layer[Depth(i) - 2] BY <2>2, <2>3 DEF Removed
  <2>5. ~(Depth(j) <= Depth(i) - 2) BY <1>2, <1>3, <2>1, <2>4
  <2>6. Depth(j) \in 1..N /\ Depth(j) < Depth(i) BY <1>8
  <2>7. Depth(j) = Depth(i) - 1 BY <1>4, <1>n, <2>5, <2>6
  <2> QED BY <2>7
<1> QED BY <1>4, <1>8, <1>9 DEF N

LEMMA SameGraph ==
  ASSUME UNCHANGED nodes
  PROVE  /\ Cyclic' = Cyclic /\ validate' = validate
         /\ \A i, j : Before(i, j)' = Before(i, j)
         /\ \A i : Depth(i)' = Depth(i)
<1>1. Step' = Step /\ \A i : Deps(i)' = Deps(i) /\ DepNames(i)' = DepNames(i)
  BY DEF Step, Deps, DepNames, IndexOf
<1>2. Cyclic' = Cyclic BY <1>1 DEF Cyclic
<1>3. \A i : Depth(i)' = Depth(i)
  BY DEF Depth, Step, Deps, DepNames, IndexOf
<1>4. \A i, j : Before(i, j)' = Before(i, j) BY <1>3 DEF Before
<1>5. validate' = validate
  BY <1>1 DEF validate, FirstError, NodeErrors, NodeError, DepErrors, DepError, Registered,
              detectCycle, Removable, Step, Deps, DepNames, IndexOf
<1> QED BY <1>2, <1>3, <1>4, <1>5

------------------------------------------------------------------------------
(* The order of a Run. *)

\* A Run is of a flow that validate accepted.
GraphInv == pc # "idle" => validate = "ok"

\* The waves are the layers: what is left at a barrier is what is deeper than the
\* waves that ran, and a wave is the whole next layer.
DepthInv ==
  pc # "idle" =>
    \E w \in 0..Len(nodes) :
      /\ \A i \in todo : Depth(i) = w
      /\ \A i \in Step : i \in Left <=> i \in todo \/ w < Depth(i)

\* The trace is in order, and what is left comes after all of it.
OrderInv ==
  pc # "idle" =>
    /\ {traces[p] : p \in DOMAIN traces} = Step \ Left
    /\ \A p \in 1..(Len(traces) - 1) : Before(traces[p], traces[p + 1])
    /\ \A p \in DOMAIN traces : \A i \in Left : Before(traces[p], i)

\* f is the first failure, and of the wave that is folded or was folded last.
FirstFailure(f) ==
  /\ f \in errs /\ \A e \in errs : e = f \/ Before(f, e)
  /\ \A i \in todo : Before(f, i)
  /\ \A i \in Step : i \in Left \ todo \/ Depth(i) <= Depth(f)

\* Without continueOnError a Run goes on only while nothing failed.
ErrorInv ==
  pc # "idle" /\ ~continueOnError =>
    LET error == IF pc = "end" THEN runErr ELSE first
    IN /\ pc # "end" => runErr = 0
       /\ \A f \in Step : f = error => FirstFailure(f)
       /\ error \notin Step => errs = {}

\* Run ends because it is cancelled, because a step failed or because all are settled.
EndInv ==
  pc = "end" => \/ runErr = Canceled
                \/ ~continueOnError /\ errs # {}
                \/ \A i \in Step : status[i] # "pending"

RunInv == RejectsExactlyCyclic /\ GraphInv /\ DepthInv /\ OrderInv /\ ErrorInv /\ EndInv

LEMMA SameVerdict ==
  ASSUME RunInv, UNCHANGED <<nodes, verdict>>, pc # "idle" \/ pc' = "idle"
  PROVE  RejectsExactlyCyclic' /\ GraphInv'
<1>1. Cyclic' = Cyclic /\ validate' = validate BY SameGraph
<1> QED BY <1>1 DEF RunInv, RejectsExactlyCyclic, GraphInv

LEMMA SameOrder ==
  ASSUME RunInv, pc # "idle", UNCHANGED <<nodes, status, todo, traces>>
  PROVE  DepthInv' /\ OrderInv' /\ Left' = Left
<1>1. Step' = Step BY SameFlow
<1>2. Left' = Left BY <1>1 DEF Left
<1>3. \A i : Depth(i)' = Depth(i) BY SameGraph
<1>4. \A i, j : Before(i, j)' = Before(i, j) BY SameGraph
<1>5. DepthInv' BY <1>1, <1>2, <1>3 DEF RunInv, DepthInv
<1>6. OrderInv' BY <1>1, <1>2, <1>4 DEF RunInv, OrderInv
<1> QED BY <1>2, <1>5, <1>6

\* A first failure stays it while none is added and what was traced stays so.
LEMMA SameFailure ==
  ASSUME UNCHANGED nodes, NEW f, FirstFailure(f), errs' = errs, todo' \subseteq todo,
         Left \ todo \subseteq Left' \ todo'
  PROVE  FirstFailure(f)'
<1>1. Step' = Step BY SameFlow
<1>2. Depth(f)' = Depth(f) /\ \A i : Depth(i)' = Depth(i) BY SameGraph
<1>3. \A i, j : Before(i, j)' = Before(i, j) BY SameGraph
<1>4. \A i : Before(f, i)' = Before(f, i) BY <1>3
<1> HIDE DEF Left
<1>5. \A e \in errs' : e = f \/ Before(f, e)' BY <1>4 DEF FirstFailure
<1>6. \A i \in todo' : Before(f, i)' BY <1>4 DEF FirstFailure
<1>7. \A i \in Step' : i \in Left' \ todo' \/ Depth(i)' <= Depth(f)'
  BY <1>1, <1>2 DEF FirstFailure
<1> QED BY <1>5, <1>6, <1>7 DEF FirstFailure

\* Steps that leave statuses, the fold and the outcome alone.
LEMMA QuietRun ==
  ASSUME FlowInv, RunInv, pc # "idle", pc' # "idle",
         UNCHANGED <<nodes, continueOnError, verdict, status, todo, traces, errs, first>>,
         \/ pc # "end" /\ pc' # "end" /\ UNCHANGED runErr
         \/ pc = "barrier" /\ pc' = "end" /\ runErr' \in {runErr, Canceled}
         \/ pc' = pc /\ UNCHANGED runErr,
         pc' = "end" => pc = "end" \/ runErr' = Canceled \/ \A i \in Step : status[i] # "pending"
  PROVE  RunInv'
<1>1. RejectsExactlyCyclic' /\ GraphInv' BY SameVerdict
<1>2. DepthInv' /\ OrderInv' /\ Left' = Left BY SameOrder
<1>s. Step' = Step BY SameFlow
<1>3. EndInv' BY <1>s DEF RunInv, EndInv
<1>4. ErrorInv'
  <2> SUFFICES ASSUME ~continueOnError PROVE ErrorInv' BY DEF ErrorInv
  <2> DEFINE error == IF pc = "end" THEN runErr ELSE first
  <2>1. /\ pc # "end" => runErr = 0
        /\ \A f \in Step : f = error => FirstFailure(f)
        /\ error \notin Step => errs = {}
    BY DEF RunInv, ErrorInv
  <2>2. \A f \in Step : FirstFailure(f) => FirstFailure(f)' BY <1>2, SameFailure
  <2>3. CASE pc = "barrier" /\ pc' = "end"
    <3>1. first = 0 BY <2>3 DEF FlowInv, PhaseInv
    <3>2. 0 \notin Step /\ Canceled \notin Step BY DEF Step, Canceled, FlowInv, TypeOK
    <3>3. runErr' \notin Step /\ errs = {} BY <2>1, <2>3, <3>1, <3>2
    <3> QED BY <1>s, <2>3, <3>3 DEF ErrorInv
  <2>4. CASE ~(pc = "barrier" /\ pc' = "end")
    <3>1. error' = error /\ (pc' # "end" => pc # "end" /\ runErr' = runErr) BY <2>4
    <3> HIDE DEF error
    <3>2. \A f \in Step' : f = error' => FirstFailure(f)' BY <1>s, <2>1, <2>2, <3>1
    <3>3. error' \notin Step' => errs' = {} BY <1>s, <2>1, <3>1
    <3> QED BY <2>1, <3>1, <3>2, <3>3 DEF ErrorInv, error
  <2> QED BY <2>3, <2>4
<1> QED BY <1>1, <1>2, <1>3, <1>4 DEF RunInv

LEMMA InitRun == Init => RunInv
BY DEF Init, RunInv, RejectsExactlyCyclic, GraphInv, DepthInv, OrderInv, ErrorInv, EndInv

LEMMA IdleRun ==
  ASSUME FlowInv, RunInv, (\E n \in Nodes : Register(n)) \/ WithFlowContinueOnError \/ RunInvalid \/ Return
  PROVE  RunInv'
<1>i. pc' = "idle" BY DEF Register, WithFlowContinueOnError, RunInvalid, Return
<1>1. DepthInv' /\ OrderInv' /\ ErrorInv' /\ EndInv' /\ GraphInv'
  BY <1>i DEF DepthInv, OrderInv, ErrorInv, EndInv, GraphInv
<1>2. RejectsExactlyCyclic'
  <2>1. CASE \E n \in Nodes : Register(n) BY <2>1 DEF Register, RejectsExactlyCyclic
  <2>2. CASE WithFlowContinueOnError \/ Return
    <3>1. UNCHANGED <<nodes, verdict>> BY <2>2 DEF WithFlowContinueOnError, Return, flow
    <3> QED BY <1>i, <3>1, SameVerdict
  <2>3. CASE RunInvalid
    <3>1. nodes' = nodes /\ verdict' = validate /\ nodes \in Seq(Nodes)
      BY <2>3 DEF RunInvalid, flow, FlowInv, TypeOK
    <3>2. Cyclic' = Cyclic BY <3>1, SameGraph
    <3> QED BY <3>1, <3>2, VerdictIsRight DEF RejectsExactlyCyclic
  <2> QED BY <2>1, <2>2, <2>3
<1> QED BY <1>1, <1>2 DEF RunInv

LEMMA RunStartRun == ASSUME FlowInv, RunInv, RunStart PROVE RunInv'
<1> USE DEF RunStart
<1>1. nodes' = nodes /\ verdict' = "ok" /\ validate = "ok" /\ nodes \in Seq(Nodes) /\ pc' = "barrier"
  BY DEF flow, FlowInv, TypeOK
<1>2. Cyclic' = Cyclic /\ validate' = validate BY <1>1, SameGraph
<1>3. RejectsExactlyCyclic' /\ GraphInv' /\ EndInv'
  BY <1>1, <1>2, VerdictIsRight DEF RejectsExactlyCyclic, GraphInv, EndInv
<1>s. Step' = Step /\ \A i : Depth(i)' = Depth(i) BY <1>1, SameFlow, SameGraph
<1>4. Left' = Step /\ todo' = {} /\ traces' = <<>> /\ errs' = {} /\ runErr' = 0 /\ first' = 0
  BY <1>s DEF Left, FlowInv, PhaseInv
<1>5. DepthInv'
  <2>1. Len(nodes) \in Nat /\ 0 \in 0..Len(nodes') BY <1>1
  <2>2. \A i \in Step : 0 < Depth(i) BY <1>1, <2>1, DepthOfDeps
  <2>3. \A i \in Step' : i \in Left' <=> i \in todo' \/ 0 < Depth(i)' BY <1>s, <1>4, <2>2
  <2> QED BY <1>4, <2>1, <2>3 DEF DepthInv
<1>6. OrderInv'
  <2>1. DOMAIN traces' = {} /\ Len(traces') = 0 BY <1>4
  <2>2. 1..(Len(traces') - 1) = {} BY <2>1
  <2> QED BY <1>s, <1>4, <2>1, <2>2 DEF OrderInv
<1>7. ErrorInv'
  <2>1. 0 \notin Step BY DEF Step, FlowInv, TypeOK
  <2> QED BY <1>1, <1>s, <1>4, <2>1 DEF ErrorInv
<1> QED BY <1>3, <1>5, <1>6, <1>7 DEF RunInv

------------------------------------------------------------------------------
(* Barriers, goroutines and the join. *)

\* Steps that cannot be settled wait for each other, and validate accepts none.
LEMMA NoneStuck ==
  ASSUME FlowInv, RunInv, pc = "barrier", Settleable = {}
  PROVE  \A i \in Step : status[i] # "pending"
<1> DEFINE c == {i \in Step : status[i] = "pending"}
<1> SUFFICES ASSUME c # {} PROVE FALSE OBVIOUS
<1>1. nodes \in Seq(Nodes) /\ validate = "ok" BY DEF FlowInv, TypeOK, RunInv, GraphInv
<1>2. FirstError(DepErrors) = "ok" BY <1>1 DEF validate
<1>3. ASSUME NEW i \in c PROVE \E j \in c : nodes[j].name \in DepNames(i)
  <2>1. PICK j \in Deps(i) : status[j] = "pending" BY DEF Settleable, Finished
  <2>2. i \in Step OBVIOUS
  <2>3. j \in Step /\ nodes[j].name \in DepNames(i) BY <1>1, <1>2, <2>2, NamedDeps
  <2> QED BY <2>1, <2>3
<1>4. c \in (SUBSET Step) \ {{}} OBVIOUS
<1> HIDE DEF c
<1>5. Cyclic BY <1>3, <1>4 DEF Cyclic
<1> QED BY <1>1, <1>5, VerdictIsRight

LEMMA BarrierRun ==
  ASSUME FlowInv, RunInv, Cancel \/ BarrierCancelled \/ BarrierDone \/ Join
  PROVE  RunInv'
<1>1. CASE Cancel BY <1>1, QuietRun DEF Cancel, flow, wave, outcome, RunInv, EndInv
<1>2. CASE BarrierCancelled BY <1>2, QuietRun DEF BarrierCancelled, flow, wave
<1>3. CASE BarrierDone
  <2>1. \A i \in Step : status[i] # "pending" BY <1>3, NoneStuck DEF BarrierDone
  <2> QED BY <1>3, <2>1, QuietRun DEF BarrierDone, flow, wave, outcome
<1>4. CASE Join BY <1>4, QuietRun DEF Join, flow, wave, outcome
<1> QED BY <1>1, <1>2, <1>3, <1>4

LEMMA GoroutineRun == ASSUME FlowInv, RunInv, NEW i \in Step, Goroutine(i) PROVE RunInv'
<1>1. /\ pc = "wave" /\ UNCHANGED <<nodes, continueOnError, pc, verdict, todo, first>>
      /\ UNCHANGED <<status, traces, errs, runErr>>
  BY DEF Goroutine, StepFails, StepReturns, flow, outcome
<1> QED BY <1>1, QuietRun

LEMMA CollectRun == ASSUME FlowInv, RunInv, CollectReady PROVE RunInv'
<1> USE DEF CollectReady
<1>1. /\ nodes' = nodes /\ pc = "barrier" /\ pc' = "wave" /\ verdict' = verdict /\ traces' = traces
      /\ todo' = Settleable /\ errs' = errs /\ runErr' = runErr /\ first' = first
      /\ continueOnError' = continueOnError
      /\ \A i \in Step \ Settleable : status'[i] = status[i]
  BY DEF flow
<1>2. RejectsExactlyCyclic' /\ GraphInv' BY <1>1, SameVerdict
<1>n. nodes \in Seq(Nodes) /\ validate = "ok" /\ Len(nodes) \in Nat
  BY <1>1 DEF FlowInv, TypeOK, RunInv, GraphInv
<1>3. EndInv' BY <1>1 DEF EndInv
<1>s. Step' = Step BY <1>1, SameFlow
<1>d. (\A i : Depth(i)' = Depth(i)) /\ \A i, j : Before(i, j)' = Before(i, j) BY <1>1, SameGraph
<1>t. todo = {} /\ first = 0 BY <1>1 DEF FlowInv, PhaseInv
<1>l. Left' = Left
  <2>1. \A i \in Settleable : i \in Step /\ status[i] = "pending" BY DEF Settleable
  <2> QED BY <1>1, <1>s, <1>t, <2>1 DEF Left
<1>4. DepthInv'
  <2>1. PICK w \in 0..Len(nodes) : \A i \in Step : i \in Left <=> w < Depth(i)
    BY <1>1, <1>t DEF RunInv, DepthInv
  <2>2. \A i \in Step : status[i] = "pending" <=> w < Depth(i) BY <1>t, <2>1 DEF Left
  <2>3. ASSUME NEW i \in Step PROVE i \in Settleable <=> Depth(i) = w + 1
    <3>1. /\ Depth(i) \in 1..Len(nodes)
          /\ \A j \in Deps(i) : j \in Step /\ Depth(j) \in 1..Len(nodes) /\ Depth(j) < Depth(i)
          /\ Depth(i) = 1 \/ \E j \in Deps(i) : Depth(j) = Depth(i) - 1
      BY <1>n, DepthOfDeps
    <3>2. i \in Settleable <=> w < Depth(i) /\ \A j \in Deps(i) : ~(w < Depth(j))
      BY <2>2, <3>1 DEF Settleable, Finished
    <3>3. CASE Depth(i) = w + 1
      <4>1. \A j \in Deps(i) : ~(w < Depth(j)) BY <1>n, <3>1, <3>3
      <4>2. w < Depth(i) BY <3>3
      <4> QED BY <3>2, <3>3, <4>1, <4>2
    <3>4. CASE Depth(i) # w + 1
      <4>1. CASE ~(w < Depth(i)) BY <3>2, <3>4, <4>1
      <4>2. CASE w < Depth(i)
        <5>1. Depth(i) # 1 BY <1>n, <3>1, <3>4, <4>2
        <5>2. PICK j \in Deps(i) : Depth(j) = Depth(i) - 1 BY <3>1, <5>1
        <5>3. w < Depth(j) BY <1>n, <3>1, <3>4, <4>2, <5>2
        <5> QED BY <3>2, <3>4, <5>3
      <4> QED BY <4>1, <4>2
    <3> QED BY <3>3, <3>4
  <2>4. Settleable \subseteq Step BY DEF Settleable
  <2>5. PICK i \in Step : i \in Settleable BY <2>4
  <2>6. w + 1 \in 0..Len(nodes)
    <3>1. Depth(i) \in 1..Len(nodes) BY <1>n, DepthOfDeps
    <3>2. Depth(i) = w + 1 BY <2>3, <2>5
    <3> QED BY <1>n, <3>1, <3>2
  <2>7. \A k \in Step : Depth(k) \in 1..Len(nodes) BY <1>n, DepthOfDeps
  <2>8. \A k \in Step : k \in Left <=> k \in Settleable \/ w + 1 < Depth(k)
    BY <1>n, <2>1, <2>3, <2>7
  <2>9. \A k \in todo' : Depth(k)' = w + 1 BY <1>1, <1>d, <2>3, <2>4
  <2>10. \A k \in Step' : k \in Left' <=> k \in todo' \/ w + 1 < Depth(k)'
    BY <1>1, <1>d, <1>l, <1>s, <2>8
  <2>11. w + 1 \in 0..Len(nodes') BY <1>1, <2>6
  <2> HIDE DEF CollectReady
  <2> QED BY <2>9, <2>10, <2>11 DEF DepthInv
<1>5. OrderInv' BY <1>1, <1>d, <1>l, <1>s DEF RunInv, OrderInv
<1>6. ErrorInv'
  <2>1. 0 \notin Step BY DEF Step, FlowInv, TypeOK
  <2> QED BY <1>1, <1>s, <1>t, <2>1 DEF RunInv, ErrorInv
<1> QED BY <1>2, <1>3, <1>4, <1>5, <1>6 DEF RunInv

------------------------------------------------------------------------------
(* The fold. *)

LEMMA FoldsRun ==
  ASSUME FlowInv, RunInv, NEW i \in Step, NEW st, NEW r, Folds(i, st, r),
         first' = IF st = "failed" /\ first = 0 THEN i ELSE first
  PROVE  RunInv'
<1> USE DEF Folds, FoldAt
<1>1. /\ nodes' = nodes /\ pc = "fold" /\ pc' = "fold" /\ verdict' = verdict
      /\ traces' = Append(traces, i) /\ todo' = todo \ {i} /\ i \in todo
      /\ runErr' = runErr /\ continueOnError' = continueOnError
      /\ errs' = (IF st = "failed" THEN errs \cup {i} ELSE errs)
      /\ \A j \in todo : i <= j
      /\ todo \subseteq Step /\ traces \in Seq(Step) /\ Len(traces) \in Nat
      /\ st # "pending" /\ nodes \in Seq(Nodes) /\ Step \subseteq Nat \ {0}
  <2>1. nodes \in Seq(Nodes) /\ todo \subseteq Step /\ traces \in Seq(Step) BY DEF FlowInv, TypeOK
  <2>2. Step \subseteq Nat \ {0} BY <2>1 DEF Step
  <2>3. st # "pending" OBVIOUS
  <2> QED BY <2>1, <2>2, <2>3 DEF flow
<1>2. RejectsExactlyCyclic' /\ GraphInv' BY <1>1, SameVerdict
<1>3. EndInv' BY <1>1 DEF EndInv
<1>s. Step' = Step BY <1>1, SameFlow
<1>d. (\A k : Depth(k)' = Depth(k)) /\ \A j, k : Before(j, k)' = Before(j, k) BY <1>1, SameGraph
<1>o. status'[i] = st /\ \A k \in Step \ {i} : status'[k] = status[k]
  BY <1>1 DEF FlowInv, TypeOK
<1>l. Left' = Left \ {i} /\ i \in Left /\ todo \subseteq Left
  BY <1>1, <1>s, <1>o DEF Left
<1> HIDE DEF Folds, FoldAt
<1>w. PICK w \in 0..Len(nodes) :
        /\ \A k \in todo : Depth(k) = w
        /\ \A k \in Step : k \in Left <=> k \in todo \/ w < Depth(k)
  BY <1>1 DEF RunInv, DepthInv
<1>N. \A k \in Step : Depth(k) \in 1..Len(nodes)
  BY <1>1, DepthOfDeps DEF RunInv, GraphInv
<1>n. Len(nodes) \in Nat /\ w \in Nat /\ \A k \in Step : Depth(k) \in Nat BY <1>1, <1>N
<1>4. DepthInv'
  <2>1. \A k \in todo' : Depth(k)' = w BY <1>1, <1>d, <1>w
  <2>2. Depth(i) = w /\ ~(w < Depth(i)) BY <1>1, <1>w, <1>n
  <2>3. \A k \in Step' : k \in Left' <=> k \in todo' \/ w < Depth(k)'
    BY <1>1, <1>d, <1>s, <1>l, <1>w, <2>2
  <2>4. w \in 0..Len(nodes') BY <1>1
  <2> QED BY <2>1, <2>3, <2>4 DEF DepthInv
\* Whatever is left comes after i, which is the least of the wave.
<1>b. \A k \in Left \ {i} : Before(i, k)
  <2> SUFFICES ASSUME NEW k \in Left, k # i PROVE Before(i, k) OBVIOUS
  <2>1. k \in Step /\ Depth(i) = w BY <1>1, <1>w DEF Left
  <2>2. CASE k \in todo
    <3>1. Depth(k) = w /\ i <= k /\ i # k /\ i \in Nat /\ k \in Nat BY <1>1, <1>w, <2>1, <2>2
    <3>2. i < k BY <3>1
    <3> QED BY <2>1, <3>1, <3>2 DEF Before
  <2>3. CASE k \notin todo BY <1>w, <2>1, <2>3 DEF Before
  <2> QED BY <2>2, <2>3
<1>5. OrderInv'
  <2>0. /\ {traces[p] : p \in DOMAIN traces} = Step \ Left
        /\ \A p \in 1..(Len(traces) - 1) : Before(traces[p], traces[p + 1])
        /\ \A p \in DOMAIN traces : \A k \in Left : Before(traces[p], k)
    BY <1>1 DEF RunInv, OrderInv
  <2> DEFINE n == Len(traces)
  <2>1. /\ DOMAIN traces = 1..n /\ DOMAIN traces' = 1..(n + 1) /\ Len(traces') = n + 1 /\ n \in Nat
        /\ \A p \in 1..n : traces'[p] = traces[p]
        /\ traces'[n + 1] = i
    BY <1>1
  <2> HIDE DEF n
  <2>2. {traces'[p] : p \in DOMAIN traces'} = Step \ (Left \ {i})
    <3>1. {traces'[p] : p \in DOMAIN traces'} = {traces[p] : p \in 1..n} \cup {i}
      <4>1. \A p \in 1..(n + 1) : p = n + 1 \/ p \in 1..n BY <2>1
      <4>2. n + 1 \in 1..(n + 1) /\ \A p \in 1..n : p \in 1..(n + 1) BY <2>1
      <4> QED BY <2>1, <4>1, <4>2
    <3> QED BY <2>0, <2>1, <3>1, <1>1, <1>l
  <2>3. ASSUME NEW p \in 1..n PROVE Before(traces'[p], traces'[p + 1])
    <3>1. CASE p = n
      <4>1. traces'[p] = traces[p] /\ p \in DOMAIN traces /\ traces'[p + 1] = i BY <2>1, <3>1
      <4>2. Before(traces[p], i) BY <2>0, <4>1, <1>l
      <4> QED BY <4>1, <4>2
    <3>2. CASE p # n
      <4>1. p \in 1..(n - 1) /\ p + 1 \in 1..n BY <2>1, <3>2
      <4>2. Before(traces[p], traces[p + 1]) BY <2>0, <4>1 DEF n
      <4> QED BY <2>1, <4>1, <4>2
    <3> QED BY <3>1, <3>2
  <2>4. ASSUME NEW p \in 1..(n + 1), NEW k \in Left \ {i} PROVE Before(traces'[p], k)
    <3>1. CASE p = n + 1 BY <1>b, <2>1, <3>1
    <3>2. CASE p # n + 1
      <4>1. p \in 1..n BY <2>1, <3>2
      <4> QED BY <2>0, <2>1, <4>1
    <3> QED BY <3>1, <3>2
  <2>6. (\A p \in 1..(Len(traces) - 1) : Before(traces[p], traces[p + 1]))'
    <3>1. (Len(traces') - 1) = n BY <2>1
    <3>2. UNCHANGED nodes BY <1>1
    <3>3. Step' = Step /\ \A j : Depth(j)' = Depth(j) BY <1>d, <1>s
    <3>4. \A p \in 1..n : \/ Depth(traces'[p])  < Depth(traces'[p + 1])
                          \/ Depth(traces'[p]) = Depth(traces'[p + 1]) /\ traces'[p] < traces'[p + 1]
      BY <2>3 DEF Before
    <3> QED BY <3>1, <3>3, <3>4 DEF Before
  <2>7. (\A p \in DOMAIN traces : \A k \in Left : Before(traces[p], k))'
    BY <1>d, <1>l, <2>1, <2>4 DEF Before
  <2> QED BY <1>s, <1>l, <2>2, <2>6, <2>7 DEF OrderInv
<1>6. ErrorInv'
  <2> SUFFICES ASSUME ~continueOnError PROVE ErrorInv' BY <1>1 DEF ErrorInv
  <2>0. 0 \notin Step /\ first \in {0} \cup Step BY <1>1 DEF FlowInv, TypeOK
  <2>1. /\ runErr = 0
        /\ \A f \in Step : f = first => FirstFailure(f)
        /\ first \notin Step => errs = {}
    BY <1>1 DEF RunInv, ErrorInv
  <2>2. todo' \subseteq todo /\ Left \ todo \subseteq Left' \ todo' BY <1>1, <1>l
  <2>3. CASE st = "failed" /\ first = 0
    <3>1. errs' = {i} /\ first' = i BY <1>1, <2>0, <2>1, <2>3
    <3>2. \A k \in todo' : Before(i, k)' BY <1>1, <1>b, <1>d, <1>l
    <3>3. \A k \in Step' : k \in Left' \ todo' \/ Depth(k)' <= Depth(i)'
      <4>1. Depth(i) = w BY <1>1, <1>w
      <4>2. ASSUME NEW k \in Step, w < Depth(k) PROVE k \in Left \ todo
        <5>1. k \in Left BY <1>w, <4>2
        <5>2. k \in todo => Depth(k) = w BY <1>w
        <5> QED BY <1>n, <4>2, <5>1, <5>2
      <4>3. \A k \in Step : w < Depth(k) \/ Depth(k) <= w BY <1>n
      <4> QED BY <1>d, <1>s, <2>2, <4>1, <4>2, <4>3
    <3>4. FirstFailure(i)' BY <3>1, <3>2, <3>3 DEF FirstFailure
    <3>5. ASSUME NEW f \in Step', f = first' PROVE FirstFailure(f)' BY <3>1, <3>4, <3>5
    <3> QED BY <1>1, <1>s, <2>1, <3>1, <3>5 DEF ErrorInv
  <2>4. CASE st = "failed" /\ first # 0
    <3>1. first' = first /\ first \in Step /\ errs' = errs \cup {i} BY <1>1, <2>0, <2>4
    <3>2. PICK f \in Step : f = first BY <3>1
    <3>3. FirstFailure(f) BY <2>1, <3>2
    <3>4. Before(f, i) BY <1>1, <3>3 DEF FirstFailure
    <3>5. f \in errs' /\ \A e \in errs' : e = f \/ Before(f, e)' BY <1>d, <3>1, <3>3, <3>4 DEF FirstFailure
    <3>6. \A k \in todo' : Before(f, k)' BY <1>d, <2>2, <3>3 DEF FirstFailure
    <3>7. \A k \in Step' : k \in Left' \ todo' \/ Depth(k)' <= Depth(f)'
      BY <1>d, <1>s, <2>2, <3>3 DEF FirstFailure
    <3>8. FirstFailure(f)' BY <3>5, <3>6, <3>7 DEF FirstFailure
    <3>9. ASSUME NEW g \in Step', g = first' PROVE FirstFailure(g)' BY <3>1, <3>2, <3>8, <3>9
    <3> QED BY <1>1, <1>s, <2>1, <3>1, <3>9 DEF ErrorInv
  <2>5. CASE st # "failed"
    <3>1. first' = first /\ errs' = errs BY <1>1, <2>5
    <3>2. \A f \in Step : FirstFailure(f) => FirstFailure(f)' BY <1>1, <2>2, <3>1, SameFailure
    <3>3. \A f \in Step' : f = first' => FirstFailure(f)' BY <1>s, <2>1, <3>1, <3>2
    <3> QED BY <1>1, <1>s, <2>1, <3>1, <3>3 DEF ErrorInv
  <2> QED BY <2>3, <2>4, <2>5
<1> QED BY <1>2, <1>3, <1>4, <1>5, <1>6 DEF RunInv

LEMMA FoldRun ==
  ASSUME FlowInv, RunInv, NEW i \in Step, FoldSkipped(i) \/ FoldFailed(i) \/ FoldDone(i)
  PROVE  RunInv'
<1>t. pc = "fold" /\ i \in todo BY DEF FoldSkipped, FoldFailed, FoldDone, FoldAt
<1>u. /\ status \in [Step -> {"pending", "done", "failed", "skipped"}]
      /\ routerSel \in [Step -> SUBSET Name]
  BY <1>t DEF FlowInv, TypeOK
<1>v. routerSel = [routerSel EXCEPT ![i] = routerSel[i]] BY <1>u
<1>1. CASE FoldSkipped(i)
  <2>1. status[i] = "skipped" BY <1>1, <1>t DEF FoldSkipped, FlowInv, StatusInv
  <2>2. status = [status EXCEPT ![i] = "skipped"] BY <1>u, <2>1
  <2>3. Folds(i, "skipped", routerSel[i]) /\ first' = first
    BY <1>1, <1>v, <2>2 DEF FoldSkipped, Folds
  <2> QED BY <2>3, FoldsRun
<1>2. CASE FoldFailed(i)
  <2>1. Folds(i, "failed", routerSel[i]) /\ first' = IF first = 0 THEN i ELSE first
    BY <1>2, <1>v DEF FoldFailed, Folds
  <2> QED BY <2>1, FoldsRun
<1>3. CASE FoldDone(i)
  <2>1. Folds(i, "done", out[i].route) /\ first' = first BY <1>3 DEF FoldDone, Folds
  <2> QED BY <2>1, FoldsRun
<1> QED BY <1>1, <1>2, <1>3

LEMMA FoldEndRun == ASSUME FlowInv, RunInv, FoldEnd PROVE RunInv'
<1> USE DEF FoldEnd
<1>1. /\ nodes' = nodes /\ continueOnError' = continueOnError /\ verdict' = verdict
      /\ status' = status /\ todo' = todo /\ traces' = traces /\ errs' = errs
      /\ pc = "fold" /\ todo = {} /\ first' = 0
      /\ runErr' = (IF runErr = 0 THEN first ELSE runErr)
      /\ pc' = (IF first # 0 /\ ~continueOnError THEN "end" ELSE "barrier")
  BY DEF flow
<1> HIDE DEF FoldEnd
<1>p. pc # "idle" /\ pc' # "idle" BY <1>1
<1>2. RejectsExactlyCyclic' /\ GraphInv' BY <1>1, <1>p, SameVerdict
<1>3. DepthInv' /\ OrderInv' /\ Left' = Left BY <1>1, <1>p, SameOrder
<1>s. Step' = Step BY <1>1, SameFlow
<1>z. 0 \notin Step /\ first \in {0} \cup Step BY DEF FlowInv, TypeOK, Step
<1>f. \A f \in Step : FirstFailure(f) => FirstFailure(f)' BY <1>1, <1>3, SameFailure
<1>4. ErrorInv'
  <2> SUFFICES ASSUME ~continueOnError PROVE ErrorInv' BY <1>1 DEF ErrorInv
  <2>1. /\ runErr = 0
        /\ \A f \in Step : f = first => FirstFailure(f)
        /\ first \notin Step => errs = {}
    BY <1>1 DEF RunInv, ErrorInv
  <2>2. runErr' = first BY <1>1, <2>1
  <2>3. CASE first = 0
    <3>1. pc' = "barrier" /\ errs' = {} /\ 0 \notin Step' BY <1>1, <1>s, <1>z, <2>1, <2>3
    <3> QED BY <1>1, <2>2, <2>3, <3>1 DEF ErrorInv
  <2>4. CASE first # 0
    <3>1. pc' = "end" /\ first \in Step BY <1>1, <1>z, <2>4
    <3>2. \A f \in Step' : f = runErr' => FirstFailure(f)' BY <1>s, <1>f, <2>1, <2>2
    <3> QED BY <1>s, <2>2, <3>1, <3>2 DEF ErrorInv
  <2> QED BY <2>3, <2>4
<1>5. EndInv'
  <2> SUFFICES ASSUME pc' = "end" PROVE EndInv' BY DEF EndInv
  <2>1. first # 0 /\ ~continueOnError /\ first \in Step BY <1>1, <1>z
  <2>2. PICK f \in Step : f = first BY <2>1
  <2>3. FirstFailure(f) BY <1>1, <2>1, <2>2 DEF RunInv, ErrorInv
  <2>4. errs' # {} BY <1>1, <2>3 DEF FirstFailure
  <2> QED BY <1>1, <2>1, <2>4 DEF EndInv
<1> QED BY <1>2, <1>3, <1>4, <1>5 DEF RunInv

LEMMA RunNextKeeps == FlowInv /\ RunInv /\ [Next]_vars => RunInv'
<1> SUFFICES ASSUME FlowInv, RunInv, [Next]_vars PROVE RunInv' OBVIOUS
<1>1. CASE \E n \in Nodes : Register(n) BY <1>1, IdleRun
<1>2. CASE WithFlowContinueOnError \/ RunInvalid \/ Return BY <1>2, IdleRun
<1>3. CASE RunStart BY <1>3, RunStartRun
<1>4. CASE Cancel \/ BarrierCancelled \/ BarrierDone \/ Join BY <1>4, BarrierRun
<1>5. CASE CollectReady BY <1>5, CollectRun
<1>6. CASE FoldEnd BY <1>6, FoldEndRun
<1>7. CASE \E i \in Step : FoldSkipped(i) \/ FoldFailed(i) \/ FoldDone(i) BY <1>7, FoldRun
<1>8. CASE \E i \in Step : Goroutine(i) BY <1>8, GoroutineRun
<1>9. CASE UNCHANGED vars
  <2>1. /\ UNCHANGED <<nodes, continueOnError, verdict, status, todo, traces, errs, first>>
        /\ UNCHANGED <<pc, runErr>>
    BY <1>9 DEF vars, flow, wave, outcome
  <2>2. CASE pc = "idle"
    <3>1. RejectsExactlyCyclic' /\ GraphInv' BY <2>1, <2>2, SameVerdict
    <3> QED BY <2>1, <2>2, <3>1 DEF RunInv, DepthInv, OrderInv, ErrorInv, EndInv
  <2>3. CASE pc # "idle"
    <3>1. pc = "end" => pc = "end" OBVIOUS
    <3> QED BY <2>1, <2>3, QuietRun
  <2> QED BY <2>2, <2>3
<1> QED BY <1>1, <1>2, <1>3, <1>4, <1>5, <1>6, <1>7, <1>8, <1>9 DEF Next, Runner

------------------------------------------------------------------------------
(* What a Run reports. *)

\* detectCycle is sound and complete: validate reports a cycle only if some steps wait
\* for each other, and a flow it accepts has none, for every number of steps.
THEOREM RejectsTheCyclic == Spec => []RejectsExactlyCyclic
<1>1. RunInv => RejectsExactlyCyclic BY DEF RunInv
<1> QED BY <1>1, InitInv, NextKeeps, InitRun, RunNextKeeps, PTL DEF Spec

\* D-F11, D-F12: the waves are the layers of the graph and are folded in registration
\* order, so FlowResult.Steps and the error that aborts a Run do not depend on the order
\* in which the goroutines end.
THEOREM RunsAreTold == Spec => []FoldsInOrder
<1>1. FlowInv /\ RunInv => TraceOrder
  <2> SUFFICES ASSUME FlowInv, RunInv, pc \in {"barrier", "end"}
               PROVE  /\ \A p \in 1..(Len(traces) - 1) : Before(traces[p], traces[p + 1])
                      /\ {traces[p] : p \in DOMAIN traces} = {i \in Step : status[i] # "pending"}
    BY DEF TraceOrder
  <2>1. Left = {i \in Step : status[i] = "pending"} BY DEF FlowInv, PhaseInv, Left
  <2> QED BY <2>1 DEF RunInv, OrderInv
<1>2. FlowInv /\ RunInv => ErrorIsFirst
  <2> SUFFICES ASSUME FlowInv, RunInv, pc = "end", ~continueOnError
               PROVE  /\ runErr \in Step => /\ runErr \in errs
                                            /\ \A e \in errs : e = runErr \/ Before(runErr, e)
                                            /\ \A i \in Step : Ran(i) => Depth(i) <= Depth(runErr)
                      /\ runErr = 0 => errs = {}
    BY DEF ErrorIsFirst, Returned
  <2>1. /\ \A f \in Step : f = runErr => FirstFailure(f)
        /\ runErr \notin Step => errs = {}
    BY DEF RunInv, ErrorInv
  <2>2. 0 \notin Step BY DEF FlowInv, TypeOK, Step
  <2>3. ASSUME runErr \in Step, NEW i \in Step, Ran(i) PROVE Depth(i) <= Depth(runErr)
    <3>1. ready = {} /\ todo = {} BY DEF FlowInv, PhaseInv
    <3>2. i \notin Left BY <2>3, <3>1 DEF Ran, Left
    <3> QED BY <2>1, <2>3, <3>2 DEF FirstFailure
  <2> QED BY <2>1, <2>2, <2>3 DEF FirstFailure
<1>3. FlowInv /\ RunInv => FoldsInOrder BY <1>1, <1>2 DEF FoldsInOrder
<1> QED BY <1>3, InitInv, NextKeeps, InitRun, RunNextKeeps, PTL DEF Spec

\* The barrier loop ends early only for a cancelled context or an error: with steps
\* pending and none that can be settled, some would wait for each other, which validate
\* excludes.
THEOREM RunsSettleAll == Spec => []AllSettled
<1>1. RunInv => AllSettled BY DEF RunInv, EndInv, AllSettled
<1> QED BY <1>1, InitInv, NextKeeps, InitRun, RunNextKeeps, PTL DEF Spec
==============================================================================
