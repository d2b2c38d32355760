------------------------------- MODULE MCCrew --------------------------------
(* Small crews for TLC. *)
EXTENDS Crew

CONSTANTS a, b, c, d

NoDeps == [t \in Task |-> {}]

\* A sequential crew with the defaults of NewCrew and no memory.
Base ==
  [process |-> "sequential", tasks |-> <<a, b, c>>, context |-> NoDeps, async |-> {},
   planned |-> TRUE, waves |-> <<<<a, b, c>>>>, stages |-> <<>>,
   agentless |-> {}, manager |-> TRUE, maxWorkers |-> 8, failFast |-> TRUE,
   store |-> "none", autoSave |-> TRUE, injectAlways |-> FALSE, remember |-> FALSE,
   guarded |-> {}, crewGuarded |-> FALSE, outputFile |-> {}, faults |-> {"task"}]

\* Three independent Async tasks and one that needs two of them.
Join3 ==
  [Base EXCEPT !.tasks = <<a, b, c, d>>, !.context = [NoDeps EXCEPT ![d] = {a, c}],
               !.async = Task, !.waves = <<<<a, b, c>>, <<d>>>>]

\* Two roots and two dependents that planWaves lists in the reverse order, in the
\* same group or, when d is not Async, in two.
Crossed ==
  [Base EXCEPT !.tasks = <<a, b, c, d>>, !.context = [NoDeps EXCEPT ![c] = {b}, ![d] = {a}],
               !.async = Task, !.waves = <<<<a, b>>, <<d, c>>>>]
CrossedMixed == [Crossed EXCEPT !.async = {a, b, c}]

\* Fail-fast and continue-on-failure waves, capped and not, with memory.
MCAsyncCrews ==
  {[g EXCEPT !.failFast = ff, !.maxWorkers = w, !.store = "external",
             !.injectAlways = TRUE, !.faults = f] :
     g \in {Join3, Crossed}, ff \in BOOLEAN, w \in {0, 2},
     f \in {{"task", "cancel"}, {"panic", "put"}}}
\* A serial chain; every way Kickoff can end before or between its tasks.
SerialCrews ==
  {[Base EXCEPT !.process = p, !.context = [NoDeps EXCEPT ![b] = {a}], !.waves = <<<<a, c>>, <<b>>>>, !.store = "owned",
                !.guarded = {b}, !.crewGuarded = TRUE, !.outputFile = {c}, !.agentless = ag,
                !.remember = TRUE, !.faults = {"task", "put", "cancel"}] :
     p \in {"sequential", "hierarchical"}, ag \in {{}, {c}}}
  \cup {[Base EXCEPT !.planned = FALSE], [Base EXCEPT !.tasks = <<>>, !.waves = <<>>],
        [Base EXCEPT !.process = "hierarchical", !.manager = FALSE],
        [Base EXCEPT !.process = "hierarchical", !.async = {a}, !.agentless = {b}]}

\* Two stages; c reads a.  A required first stage has a guardrail, an optional
\* one a task without agent.
StagedCrews ==
  {[Base EXCEPT !.process = "staged", !.tasks = <<>>, !.waves = <<>>,
                !.context = [NoDeps EXCEPT ![c] = {a}], !.store = st, !.injectAlways = TRUE,
                !.stages = <<[tasks |-> <<a, b>>, optional |-> opt], [tasks |-> <<c, d>>, optional |-> FALSE]>>,
                !.guarded = IF opt THEN {} ELSE {b}, !.agentless = IF opt THEN {b} ELSE {},
                !.remember = ~opt /\ st = "owned",
                !.faults = IF st = "owned" THEN {"task"} ELSE {"task", "put"}] :
     opt \in BOOLEAN, st \in {"owned", "external"}}

\* Async waves with a task without agent, which ends a fail-fast run.
Agentless ==
  [Base EXCEPT !.async = {a, b, c}, !.context = [NoDeps EXCEPT ![c] = {a}],
               !.waves = <<<<a, b>>, <<c>>>>, !.agentless = {a}]

MCProcessCrews ==
  SerialCrews \cup StagedCrews
  \cup {Agentless}
  \cup {[CrossedMixed EXCEPT !.failFast = ff, !.store = "external", !.faults = {"task"}] : ff \in BOOLEAN}

MCAllCrews == MCAsyncCrews \cup MCProcessCrews
------------------------------------------------------------------------------
(* Crews on which the code and its documentation disagree. *)

\* AsyncFailFast = FALSE and a guardrail on a, which c depends on.
GuardedWaves ==
  {[Base EXCEPT !.async = {a, b, c}, !.context = [NoDeps EXCEPT ![c] = {a}],
                !.waves = <<<<a, b>>, <<c>>>>, !.failFast = FALSE, !.store = "external",
                !.guarded = {a}, !.faults = {}]}

\* The wave <<d, c>> in one group.
CrossedWaves == {[Crossed EXCEPT !.faults = {}]}

\* A task nobody can run and AsyncFailFast = FALSE.
AgentlessWaves == {[Agentless EXCEPT !.failFast = FALSE]}

\* Peers of one stage linked by Context.
SameStageContext ==
  {[Base EXCEPT !.process = "staged", !.context = [NoDeps EXCEPT ![b] = {a}],
                !.stages = <<[tasks |-> <<a, b>>, optional |-> FALSE]>>,
                !.tasks = <<>>, !.waves = <<>>]}

\* An optional first stage on a crew that is kicked off twice.
ReusedStages ==
  {[Base EXCEPT !.process = "staged", !.context = [NoDeps EXCEPT ![b] = {a}],
                !.stages = <<[tasks |-> <<a>>, optional |-> TRUE], [tasks |-> <<b>>, optional |-> FALSE]>>,
                !.tasks = <<>>, !.waves = <<>>]}

\* A store whose Put may fail, on a crew that is kicked off twice.
ReusedSerial == {[Base EXCEPT !.store = "external", !.faults = {"put"}]}
==============================================================================
