-------------------------------- MODULE Flow ---------------------------------
(***************************************************************************)
(* Flow[S] (flow.go): steps registered with Start, Listen and Router, and  *)
(* Run, which validates the graph and executes it in waves.  At a barrier  *)
(* Run collects the steps whose dependencies are settled, starts a         *)
(* goroutine for each that is enabled, joins them and folds their results  *)
(* in registration order.                                                  *)
(*                                                                         *)
(* A step is its registration index.  Its function is the user's: it ends, *)
(* fails or panics (recovered, and an error like any other), and a router  *)
(* names any steps.  The state S belongs to the user and is left out, and  *)
(* so are events and durations.  runMu makes Run single-flight: a second   *)
(* Run returns ErrFlowRunning before it reads anything, a stuttering step. *)
(***************************************************************************)
EXTENDS Integers, Sequences, FiniteSets, FiniteSetsExt

CONSTANTS Name,     \* step names
          Nodes,    \* the registrations that may be made
          Routes,   \* bound: what a router may return
          MaxNodes  \* bound: steps registered

Empty == ""   \* the empty name

ASSUME NodesAssumption ==
  Nodes \subseteq [name: Name \cup {Empty}, deps: Seq(Name), start: BOOLEAN,
                   kind: {"listen", "router"}, fn: BOOLEAN]
ASSUME NameAssumption == Empty \notin Name
ASSUME BoundsAssumption == Routes \subseteq SUBSET Name /\ MaxNodes \in Nat

VARIABLES
  nodes, continueOnError,  \* the Flow
  pc,        \* where Run is; "idle" when none is in flight
  ctxDone,   \* the caller's context is cancelled
  verdict,   \* what validate returned to the last Run
  status,    \* per step: pending, done, failed or skipped
  routerSel, \* the steps a router selected
  ready,     \* steps of the open wave
  running,   \* steps whose goroutine has not ended
  out,       \* flowStepOut: an error or a route
  todo,      \* steps the fold has not reached
  first,     \* the wave's first error: the step it is of, 0 if none
  traces,    \* FlowResult.Steps
  errs,      \* the steps with an entry in FlowResult.Errors
  runErr     \* Run's error: a step, Canceled, or 0

flow == <<nodes, continueOnError>>
wave == <<ready, running, out, todo, first>>
outcome == <<status, routerSel, traces, errs, runErr>>
vars == <<flow, pc, ctxDone, verdict, wave, outcome>>

Canceled == -1
NoOut == [err |-> FALSE, route |-> {}]

Step == DOMAIN nodes
IndexOf(d) == CHOOSE j \in Step : nodes[j].name = d
Registered(d) == \E j \in Step : nodes[j].name = d
DepNames(i) == {nodes[i].deps[k] : k \in DOMAIN nodes[i].deps}
Deps(i) == {IndexOf(d) : d \in DepNames(i)}

------------------------------------------------------------------------------
(* Building a flow. *)

Init ==
  /\ nodes = <<>> /\ continueOnError = FALSE
  /\ pc = "idle" /\ ctxDone = FALSE /\ verdict = "none"
  /\ status = <<>> /\ routerSel = <<>> /\ traces = <<>> /\ errs = {} /\ runErr = 0
  /\ ready = {} /\ running = {} /\ out = <<>> /\ todo = {} /\ first = 0

\* Start, Listen and Router.
Register(n) ==
  /\ pc = "idle" /\ Len(nodes) < MaxNodes
  /\ nodes' = Append(nodes, n) /\ verdict' = "none"
  /\ UNCHANGED <<continueOnError, pc, ctxDone, wave, outcome>>

WithFlowContinueOnError ==
  /\ pc = "idle"
  /\ continueOnError' = TRUE
  /\ UNCHANGED <<nodes, pc, ctxDone, verdict, wave, outcome>>

------------------------------------------------------------------------------
(* validate: the first error in the order of its checks. *)

NodeError(i) ==
  CASE nodes[i].name = Empty -> "unknown"
    [] \E j \in 1..(i - 1) : nodes[j].name = nodes[i].name -> "duplicate"
    [] nodes[i].start /\ nodes[i].deps # <<>> -> "startDeps"
    [] ~nodes[i].fn -> "nilFunction"
    [] OTHER -> "ok"

\* Of the first dependency that is the step itself or unknown.
DepError(i) ==
  LET bad == {k \in DOMAIN nodes[i].deps :
                nodes[i].deps[k] = nodes[i].name \/ ~Registered(nodes[i].deps[k])}
  IN IF bad = {} THEN "ok"
     ELSE IF nodes[i].deps[Min(bad)] = nodes[i].name THEN "cycle" ELSE "unknown"

NodeErrors == [i \in Step |-> NodeError(i)]
DepErrors == [i \in Step |-> DepError(i)]
FirstError(err) ==
  LET bad == {i \in Step : err[i] # "ok"} IN IF bad = {} THEN "ok" ELSE err[Min(bad)]

RemovableOncePerEdge(i, gone) == Len(nodes[i].deps) <= Cardinality(Deps(i) \cap gone)
\* The in-degree of the step reaches 0 once these steps are gone.  A repeated
\* dependency is a repeated edge, counted and discounted as often.
Removable(i, gone) == Deps(i) \subseteq gone

\* Kahn's algorithm: remove steps without remaining dependencies until none is left.
detectCycle ==
  LET gone[k \in 0..Len(nodes)] ==
        IF k = 0 THEN {} ELSE {i \in Step : Removable(i, gone[k - 1])}
  IN gone[Len(nodes)] # Step

validate ==
  IF FirstError(NodeErrors) # "ok" THEN FirstError(NodeErrors)
  ELSE IF \A i \in Step : nodes[i].deps # <<>> THEN "noStart"
  ELSE IF FirstError(DepErrors) # "ok" THEN FirstError(DepErrors)
  ELSE IF detectCycle THEN "cycle" ELSE "ok"

------------------------------------------------------------------------------
(* Run. *)

RunInvalid ==
  /\ pc = "idle" /\ validate # "ok"
  /\ verdict' = validate
  /\ UNCHANGED <<flow, pc, ctxDone, wave, outcome>>

RunStart ==
  /\ pc = "idle" /\ validate = "ok"
  /\ pc' = "barrier" /\ verdict' = "ok"
  /\ status' = [i \in Step |-> "pending"] /\ routerSel' = [i \in Step |-> {}]
  /\ out' = [i \in Step |-> NoOut]
  /\ UNCHANGED <<flow, ctxDone, ready, running, todo, first, traces, errs, runErr>>

\* The caller cancels, at any time before Run returns.
Cancel ==
  /\ pc # "idle" /\ ~ctxDone
  /\ ctxDone' = TRUE
  /\ UNCHANGED <<flow, pc, verdict, wave, outcome>>

\* The context is checked at a barrier only.
BarrierCancelled ==
  /\ pc = "barrier" /\ ctxDone
  /\ runErr' = Canceled /\ pc' = "end"
  /\ UNCHANGED <<flow, ctxDone, verdict, wave, status, routerSel, traces, errs>>

\* depsState: the dependencies are settled; they are done and every router
\* among them selected the step.
Finished(i) == \A j \in Deps(i) : status[j] # "pending"
EnabledAnyRoute(i) ==
  /\ \A j \in Deps(i) : status[j] = "done"
  /\ LET routers == {j \in Deps(i) : nodes[j].kind = "router"} IN
       routers = {} \/ \E j \in routers : nodes[i].name \in routerSel[j]
Enabled(i) ==
  \A j \in Deps(i) :
    /\ status[j] = "done"
    /\ nodes[j].kind = "router" => nodes[i].name \in routerSel[j]

\* collectReady.
Settleable == {i \in Step : status[i] = "pending" /\ Finished(i)}

BarrierDoneWhenAllRan ==
  /\ pc = "barrier" /\ ~ctxDone /\ \A i \in Step : status[i] = "done"
  /\ pc' = "end"
  /\ UNCHANGED <<flow, ctxDone, verdict, wave, outcome>>
BarrierDone ==
  /\ pc = "barrier" /\ ~ctxDone /\ Settleable = {}
  /\ pc' = "end"
  /\ UNCHANGED <<flow, ctxDone, verdict, wave, outcome>>

\* Steps that are not enabled are skipped, the others start.
CollectReady ==
  /\ pc = "barrier" /\ ~ctxDone /\ Settleable # {}
  /\ ready' = {i \in Settleable : Enabled(i)} /\ running' = ready'
  /\ todo' = Settleable
  /\ status' = [i \in Step |-> IF i \in Settleable \ ready' THEN "skipped" ELSE status[i]]
  /\ pc' = "wave"
  /\ UNCHANGED <<flow, ctxDone, verdict, out, first, routerSel, traces, errs, runErr>>

------------------------------------------------------------------------------
(* runWave: the goroutine of step i, and the join. *)

\* The function returned an error or panicked.
StepFails(i) ==
  /\ pc = "wave" /\ i \in running
  /\ out' = [out EXCEPT ![i] = [err |-> TRUE, route |-> {}]] /\ running' = running \ {i}
  /\ UNCHANGED <<flow, pc, ctxDone, verdict, ready, todo, first, outcome>>

\* It returned nil and, if it is a router's, the names of steps.
StepReturns(i, route) ==
  /\ pc = "wave" /\ i \in running /\ (nodes[i].kind = "router" \/ route = {})
  /\ out' = [out EXCEPT ![i] = [err |-> FALSE, route |-> route]] /\ running' = running \ {i}
  /\ UNCHANGED <<flow, pc, ctxDone, verdict, ready, todo, first, outcome>>

Join ==
  /\ pc = "wave" /\ running = {}
  /\ pc' = "fold"
  /\ UNCHANGED <<flow, ctxDone, verdict, wave, outcome>>

------------------------------------------------------------------------------
(* foldWave: step by step. *)

FoldAtLast(i) == pc = "fold" /\ i \in todo /\ \A j \in todo : j <= i
\* Registration order.
FoldAt(i) == pc = "fold" /\ i \in todo /\ \A j \in todo : i <= j

FoldSkipped(i) ==
  /\ FoldAt(i) /\ i \notin ready
  /\ traces' = Append(traces, i) /\ todo' = todo \ {i}
  /\ UNCHANGED <<flow, pc, ctxDone, verdict, ready, running, out, first, status, routerSel, errs, runErr>>

\* The names a router may return: registered steps that depend on it.
Listener(i, d) == Registered(d) /\ nodes[i].name \in DepNames(IndexOf(d))
Failed(i) == out[i].err \/ \E d \in out[i].route : ~Listener(i, d)

FoldFailed(i) ==
  /\ FoldAt(i) /\ i \in ready /\ Failed(i)
  /\ status' = [status EXCEPT ![i] = "failed"] /\ errs' = errs \cup {i}
  /\ first' = IF first = 0 THEN i ELSE first
  /\ traces' = Append(traces, i) /\ todo' = todo \ {i}
  /\ UNCHANGED <<flow, pc, ctxDone, verdict, ready, running, out, routerSel, runErr>>

FoldDone(i) ==
  /\ FoldAt(i) /\ i \in ready /\ ~Failed(i)
  /\ status' = [status EXCEPT ![i] = "done"]
  /\ routerSel' = [routerSel EXCEPT ![i] = out[i].route]
  /\ traces' = Append(traces, i) /\ todo' = todo \ {i}
  /\ UNCHANGED <<flow, pc, ctxDone, verdict, ready, running, out, first, errs, runErr>>

\* After the fold: abort on an error unless the flow continues on errors.
FoldEnd ==
  /\ pc = "fold" /\ todo = {}
  /\ runErr' = IF runErr = 0 THEN first ELSE runErr
  /\ pc' = IF first # 0 /\ ~continueOnError THEN "end" ELSE "barrier"
  /\ ready' = {} /\ first' = 0 /\ out' = [i \in Step |-> NoOut]
  /\ UNCHANGED <<flow, ctxDone, verdict, running, todo, status, routerSel, traces, errs>>

\* What Run returns besides the result: with continueOnError, nil whatever happened.
Returned == IF continueOnError THEN 0 ELSE runErr

Return ==
  /\ pc = "end"
  /\ pc' = "idle" /\ ctxDone' = FALSE
  /\ status' = <<>> /\ routerSel' = <<>> /\ traces' = <<>> /\ errs' = {} /\ runErr' = 0
  /\ out' = <<>>
  /\ UNCHANGED <<flow, verdict, ready, running, todo, first>>

Goroutine(i) == StepFails(i) \/ \E route \in Routes \cup {{}} : StepReturns(i, route)
Runner ==
  \/ BarrierCancelled \/ BarrierDone \/ CollectReady \/ Join \/ FoldEnd \/ Return
  \/ \E i \in Step : FoldSkipped(i) \/ FoldFailed(i) \/ FoldDone(i)

Next ==
  \/ \E n \in Nodes : Register(n)
  \/ WithFlowContinueOnError \/ RunInvalid \/ RunStart \/ Cancel \/ Runner
  \/ \E i \in Step : Goroutine(i)

Spec == Init /\ [][Next]_vars

\* Go runs every goroutine; a step's function ends.
FairSpec == Spec /\ WF_vars(Runner) /\ \A i \in 1..MaxNodes : WF_vars(i \in Step /\ Goroutine(i))

------------------------------------------------------------------------------
(* Properties. *)

TypeOK ==
  /\ nodes \in Seq(Nodes) /\ continueOnError \in BOOLEAN
  /\ pc \in {"idle", "barrier", "wave", "fold", "end"} /\ ctxDone \in BOOLEAN
  /\ verdict \in {"none", "ok", "unknown", "duplicate", "startDeps", "nilFunction", "noStart", "cycle"}
  /\ ready \in SUBSET Step /\ running \in SUBSET ready /\ todo \in SUBSET Step
  /\ first \in {0} \cup Step /\ errs \in SUBSET Step /\ runErr \in {0, Canceled} \cup Step
  /\ traces \in Seq(Step) /\ Len(traces) <= Len(nodes)
  /\ pc # "idle" => /\ status \in [Step -> {"pending", "done", "failed", "skipped"}]
                    /\ routerSel \in [Step -> SUBSET Name]
                    /\ out \in [Step -> [err: BOOLEAN, route: SUBSET Name]]

Ran(i) == i \in ready \/ status[i] \in {"done", "failed"}

\* D-F6, D-F10 ("runs after all deps complete", "only dependents named in the
\* returned slice are enabled"): a step whose goroutine was started has only
\* dependencies that succeeded and, if routers, named it; a step is skipped only
\* if one failed, was skipped or did not name it.
RunsExactlyEnabled ==
  pc # "idle" =>
    \A i \in Step :
      LET blocked == \E j \in Deps(i) :
            \/ j \in errs \/ status[j] # "done"
            \/ nodes[j].kind = "router" /\ nodes[i].name \notin routerSel[j]
      IN (Ran(i) => ~blocked) /\ (status[i] = "skipped" => blocked)

\* The number of steps on the longest dependency chain that ends in i.
Depth(i) ==
  LET within[k \in 0..Len(nodes)] == IF k = 0 THEN {} ELSE {j \in Step : Deps(j) \subseteq within[k - 1]}
  IN CHOOSE k \in Step : i \in within[k] \ within[k - 1]
Before(i, j) == Depth(i) < Depth(j) \/ (Depth(i) = Depth(j) /\ i < j)

\* D-F12 ("Traces fold by registration order at each barrier"): FlowResult.Steps
\* holds every settled step once, in the order of the longest dependency chain
\* and then of registration, whichever steps failed or were skipped and in
\* whatever order the goroutines ended.
TraceOrder ==
  pc \in {"barrier", "end"} =>
    /\ \A p \in 1..(Len(traces) - 1) : Before(traces[p], traces[p + 1])
    /\ {traces[p] : p \in DOMAIN traces} = {i \in Step : status[i] # "pending"}

\* D-F11 ("first step error aborts at the next barrier"): without continueOnError
\* Run returns the error of the first failed step in that order, all failures
\* are of its wave and no step of a later wave was started; it returns nil only
\* if none failed.
ErrorIsFirst ==
  pc = "end" /\ ~continueOnError =>
    /\ Returned \in Step => /\ Returned \in errs
                            /\ \A e \in errs : e = Returned \/ Before(Returned, e)
                            /\ \A i \in Step : Ran(i) => Depth(i) <= Depth(Returned)
    /\ Returned = 0 => errs = {}

\* Whatever the order in which its goroutines end, a Run is told in registration order.
FoldsInOrder == TraceOrder /\ ErrorIsFirst

Cyclic == \E c \in (SUBSET Step) \ {{}} : \A i \in c : \E j \in c : nodes[j].name \in DepNames(i)

\* ErrFlowCycle ("Cycles: Detected before any step"): validate reports a cycle only
\* if some steps wait for each other, repeated dependencies notwithstanding, and
\* accepts no such flow.
RejectsExactlyCyclic == (verdict = "cycle" => Cyclic) /\ (verdict = "ok" => ~Cyclic)

\* A Run that was neither aborted nor cancelled leaves no step pending.
AllSettled ==
  pc = "end" /\ runErr # Canceled /\ (continueOnError \/ errs = {}) =>
    \A i \in Step : status[i] # "pending"

\* Run returns, whatever fails and whenever the caller cancels, and with every step
\* settled unless it was stopped.
RunReturns == ((pc # "idle") ~> (pc = "idle")) /\ []AllSettled

\* docs/flows.md: "FlowResult.Errors is filled only with WithFlowContinueOnError".
ErrorsOnlyWhenContinuing == pc = "end" /\ errs # {} => continueOnError
==============================================================================
