------------------------------ MODULE MCExecutor ------------------------------
(* Executor for TLC. *)
EXTENDS Executor, TLC

CONSTANTS p, q, ft, fu, plain

React(ts) == [native |-> FALSE, calling |-> FALSE, tools |-> ts, maxIterations |-> 2,
              structured |-> "none", allowTools |-> FALSE, repairMax |-> 1,
              loop |-> FALSE, skipPlan |-> TRUE, rewriteOnly |-> FALSE, maxRefinements |-> 1]
Native(ts) == [React(ts) EXCEPT !.native = TRUE, !.calling = TRUE]
Gather(c, how) == [c EXCEPT !.structured = how, !.allowTools = TRUE]
Structure(c, how) == [c EXCEPT !.structured = how, !.repairMax = 0]
Looped(c) == [c EXCEPT !.loop = TRUE, !.skipPlan = FALSE]
Rewriting(c) == [Looped(c) EXCEPT !.rewriteOnly = TRUE, !.maxRefinements = 0]
Once(c) == [c EXCEPT !.maxIterations = 1]
NotCalling(c) == [c EXCEPT !.calling = FALSE]

\* One execution of every kind; a second one shares none or one of its tools.
AllConfigs == [e \in Exec |->
  IF e = p
  THEN {React({}), React({ft}), React({plain, fu}), Native({}), Native({ft, plain}),
        [Native({fu}) EXCEPT !.maxIterations = 0],
        NotCalling(Native({ft})), NotCalling(Structure(Native({}), "toolcall")),
        Structure(React({ft}), "json"), Structure(Native({ft}), "toolcall"),
        Gather(React({ft}), "json"), Gather(Native({ft}), "toolcall"),
        NotCalling(Gather(React({ft}), "toolcall")),
        Looped(React({})), Looped(Once(React({ft}))), Looped(Once(Native({ft}))),
        Looped(Once(Gather(Native({ft}), "json"))), Rewriting(Once(React({ft}))),
        Rewriting(Structure(React({}), "json"))}
  ELSE {Once(React({fu}))}]

\* Two executions with one shared tool.
SharedConfigs == [e \in Exec |-> {React({ft})}]

\* A structured task under a loop that rewrites.
RewriteConfigs == [e \in Exec |-> {Rewriting(Structure(React({}), "json"))}]
==============================================================================
