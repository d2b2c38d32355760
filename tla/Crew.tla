-------------------------------- MODULE Crew ---------------------------------
(***************************************************************************)
(* Crew.Kickoff (crew.go): the Sequential, Hierarchical and Staged         *)
(* processes, the barrier-bounded groups that run tasks concurrently, the  *)
(* execution of one task, the AutoSave buffer and the fold of the results. *)
(*                                                                         *)
(* Two kinds of process take steps: the goroutine that called Kickoff (pc) *)
(* and one goroutine per task of the open group (wpc).  On the serial      *)
(* paths the caller executes the task itself; the model then uses the      *)
(* task's wpc as the program counter of that call.                         *)
(*                                                                         *)
(* runMu makes Kickoff single-flight: a call while another one runs        *)
(* returns ErrCrewRunning before it touches the crew, which is a           *)
(* stuttering step; it is the guard pc = "idle" of the Kickoff actions.    *)
(*                                                                         *)
(* Abstracted: texts (an output is the number of the Kickoff that produced *)
(* it), agents (a task has one or has none), logs, progress and events.    *)
(***************************************************************************)
EXTENDS Integers, Sequences, FiniteSets

CONSTANTS Task,         \* the *Task pointers
          Crews,        \* the crews a run considers, records of CrewType
          MaxKickoffs   \* bound: Kickoffs made on one crew

\* A crew as the program configures it.  waves is what planWaves returns for
\* tasks and context; planned is FALSE when it returns an error.
CrewType ==
  [process: {"sequential", "hierarchical", "staged"},
   tasks: Seq(Task), context: [Task -> SUBSET Task], async: SUBSET Task,
   planned: BOOLEAN, waves: Seq(Seq(Task)),
   stages: Seq([tasks: Seq(Task), optional: BOOLEAN]),
   agentless: SUBSET Task, manager: BOOLEAN,
   maxWorkers: Nat, failFast: BOOLEAN,
   store: {"none", "owned", "external"}, autoSave: BOOLEAN, injectAlways: BOOLEAN,
   remember: BOOLEAN, guarded: SUBSET Task, crewGuarded: BOOLEAN,
   outputFile: SUBSET Task,
   faults: SUBSET {"task", "panic", "put", "cancel"}]

ASSUME CrewsAssumption == Crews \subseteq CrewType
ASSUME KickoffsAssumption == MaxKickoffs \in Nat

In(s, t) == \E p \in DOMAIN s : s[p] = t
\* s lists t before u.
Lists(s, t, u) == \E p, q \in DOMAIN s : p < q /\ s[p] = t /\ s[q] = u

\* What planWaves guarantees of an accepted plan: the in-crew dependencies of a wave
\* member are in earlier waves, no task is listed twice, and the waves hold every task
\* of the crew, once, and no other task.
PlanRespected(cr) ==
  \A w \in DOMAIN cr.waves : \A p \in DOMAIN cr.waves[w] :
    \A d \in cr.context[cr.waves[w][p]] :
      In(cr.tasks, d) => \E v \in 1..(w - 1) : In(cr.waves[v], d)
PlanCovers(cr) ==
  /\ \A p, q \in DOMAIN cr.tasks : cr.tasks[p] = cr.tasks[q] => p = q
  /\ \A p \in DOMAIN cr.tasks : \E w \in DOMAIN cr.waves : In(cr.waves[w], cr.tasks[p])
  /\ \A v, w \in DOMAIN cr.waves :
       \A p \in DOMAIN cr.waves[v], q \in DOMAIN cr.waves[w] :
         /\ In(cr.tasks, cr.waves[v][p])
         /\ cr.waves[v][p] = cr.waves[w][q] => v = w /\ p = q
ASSUME PlanAssumption == \A cr \in Crews : cr.planned => PlanRespected(cr) /\ PlanCovers(cr)

VARIABLES
  crew,       \* the crew; never changes
  kick,       \* Kickoffs begun so far: the current one's number
  pc,         \* control state of the goroutine that called Kickoff
  pos,        \* tasks, waves or stages already opened
  scan,       \* next task of the open wave to sort into asyncIdx / syncIdx
  asyncIdx,   \* Async tasks of the open wave that still have to run
  syncIdx,    \* the other tasks of the open wave that still have to run
  group,      \* tasks of the open group
  spawned,    \* how many of them the spawning loop has passed
  fi,         \* position of the commit and fold loops in the group
  wpc,        \* program counter of a task's goroutine
  slot,       \* the task's results slot: empty, ok or err
  werr,       \* the error its goroutine ended with
  firstErr,   \* first recorded failure of the group
  cancelled,  \* cancel() of groupCtx was called
  parent,     \* the caller's context is cancelled
  failed,     \* failedTasks
  output,     \* Kickoff that produced Task.output, 0 before there is one
  seen,       \* per executing task, the outputs its context text was built from
  injected,   \* per executing task, the store entries put in its prompt
  store,      \* the committed memory entries
  buffering, buffer,  \* AutoSave buffer: armed, tasks with a stashed entry
  warned,     \* per task, the Kickoffs that recorded a warning on it
  captured, trace,    \* TraceRecorder: pending tasks, published records
  out,        \* CrewOutput.TasksOutput
  result      \* what the last Kickoff returned

mainVars == <<pos, scan, asyncIdx, syncIdx, group, spawned, fi>>
workVars == <<wpc, slot, werr, seen, injected>>
errVars == <<firstErr, cancelled>>
memVars == <<store, buffering, buffer>>
traceVars == <<captured, trace>>
vars == <<crew, kick, pc, mainVars, workVars, errVars, parent, failed, output, memVars,
          warned, traceVars, out, result>>

Errors == {"task", "panic", "canceled", "guardrail", "file", "noagent"}

Staged == crew.process = "staged"
HasAsync == \E p \in DOMAIN crew.tasks : crew.tasks[p] \in crew.async
\* runSequentialSerial and the serial loop of runHierarchical.
Serial == ~Staged /\ ~HasAsync
Waves == ~Staged /\ HasAsync

Members == {group[p] : p \in DOMAIN group}
Optional == crew.stages[pos].optional
\* groupRun.failFast of the open group.
FailFast == IF Staged THEN ~Optional ELSE crew.failFast

HasStore == crew.store # "none"
AutoSaves == HasStore /\ crew.autoSave
Entry(t, src) == [task |-> t, kick |-> kick, src |-> src]
PutOutcomes == IF "put" \in crew.faults THEN BOOLEAN ELSE {TRUE}

\* The locals of a task's execution before it has read anything.
NoContext == [t \in Task |-> [d \in Task |-> 0]]
NoInjection == [t \in Task |-> <<>>]

Init ==
  /\ crew \in Crews
  /\ kick = 0 /\ pc = "idle"
  /\ pos = 0 /\ scan = 1 /\ asyncIdx = <<>> /\ syncIdx = <<>>
  /\ group = <<>> /\ spawned = 0 /\ fi = 1
  /\ wpc = [t \in Task |-> "none"] /\ slot = [t \in Task |-> "empty"]
  /\ werr = [t \in Task |-> "nil"]
  /\ seen = NoContext /\ injected = NoInjection
  /\ firstErr = "nil" /\ cancelled = FALSE /\ parent = FALSE
  /\ failed = {} /\ output = [t \in Task |-> 0]
  /\ store = <<>> /\ buffering = FALSE /\ buffer = {}
  /\ warned = [t \in Task |-> {}]
  /\ captured = {} /\ trace = <<>>
  /\ out = <<>> /\ result = "none"

------------------------------------------------------------------------------
(* Kickoff: validation, reset, and the return paths. *)

NoWork == IF Staged THEN crew.stages = <<>> ELSE crew.tasks = <<>>

\* ErrNoTasks / ErrNoStages: returned before anything is reset.
KickoffEmpty ==
  /\ pc = "idle" /\ kick < MaxKickoffs /\ NoWork
  /\ kick' = kick + 1 /\ result' = "nowork"
  /\ UNCHANGED <<crew, pc, mainVars, workVars, errVars, parent, failed, output, memVars,
                 warned, traceVars, out>>

\* The error Kickoff finds before a task runs: the plan of the async DAG
\* (checked for serial crews too), the manager of a hierarchical crew, and, for
\* a hierarchical crew with Async tasks, an agent for every task.
StartError ==
  CASE ~Staged /\ ~crew.planned -> "cycle"
    [] crew.process = "hierarchical" /\ ~crew.manager -> "nomanager"
    [] crew.process = "hierarchical" /\ Waves /\
       (\E p \in DOMAIN crew.tasks : crew.tasks[p] \in crew.agentless) -> "noagent"
    [] OTHER -> "nil"

\* Tracer.Reset: pending and published records of an earlier Kickoff go.
ResetTraceKeepRecords == captured' = {} /\ UNCHANGED trace
ResetTrace == captured' = {} /\ trace' = <<>>

\* The reset at the start of Kickoff.  Task.output and the tasks' warnings are
\* not part of it, and only a store the crew owns starts empty.
Kickoff ==
  /\ pc = "idle" /\ kick < MaxKickoffs /\ ~NoWork
  /\ kick' = kick + 1
  /\ failed' = {} /\ buffering' = FALSE /\ buffer' = {}
  /\ ResetTrace
  /\ store' = IF crew.store = "owned" THEN <<>> ELSE store
  /\ out' = <<>> /\ parent' = FALSE
  /\ pos' = 0 /\ scan' = 1 /\ asyncIdx' = <<>> /\ syncIdx' = <<>>
  /\ group' = <<>> /\ spawned' = 0 /\ fi' = 1
  /\ firstErr' = "nil" /\ cancelled' = FALSE
  /\ pc' = IF StartError = "nil" THEN "step" ELSE "idle"
  /\ result' = IF StartError = "nil" THEN "none" ELSE StartError
  /\ UNCHANGED <<crew, workVars, output, warned>>

\* The caller's context is cancelled or its deadline passes.
CancelParent ==
  /\ "cancel" \in crew.faults /\ pc # "idle" /\ ~parent
  /\ parent' = TRUE
  /\ UNCHANGED <<crew, kick, pc, mainVars, workVars, errVars, failed, output, memVars,
                 warned, traceVars, out, result>>

AllOpened ==
  CASE Staged -> pos = Len(crew.stages)
    [] Waves -> pos = Len(crew.waves) /\ asyncIdx = <<>> /\ syncIdx = <<>>
    [] OTHER -> pos = Len(crew.tasks)

\* Every task is folded: the crew guardrails run, then Kickoff returns.
Complete ==
  /\ pc = "step" /\ AllOpened
  /\ result' \in {"ok"} \cup IF crew.crewGuarded THEN {"guardrail"} ELSE {}
  /\ pc' = "idle"
  /\ UNCHANGED <<crew, kick, mainVars, workVars, errVars, parent, failed, output, memVars,
                 warned, traceVars, out>>

\* Kickoff returns the error of a run: the buffer is dropped.
Return(e) ==
  /\ pc' = "idle" /\ result' = e
  /\ buffering' = FALSE /\ buffer' = {}

------------------------------------------------------------------------------
(* What the processes open next. *)

\* The goroutine of a task, or the serial caller, is about to build the prompt.
Enter(s) ==
  /\ wpc' = [t \in Task |-> IF t \in s THEN "context" ELSE "none"]
  /\ slot' = [t \in Task |-> "empty"] /\ werr' = [t \in Task |-> "nil"]
  /\ seen' = NoContext /\ injected' = NoInjection

\* The next task of a serial process.  failedTasks is empty there: the first
\* error ends the run, so the failedUpstream check never skips.
SerialTask ==
  /\ pc = "step" /\ Serial /\ pos < Len(crew.tasks)
  /\ crew.tasks[pos + 1] \notin crew.agentless
  /\ group' = <<crew.tasks[pos + 1]>> /\ spawned' = 1
  /\ Enter({crew.tasks[pos + 1]})
  /\ pos' = pos + 1 /\ pc' = "group"
  /\ UNCHANGED <<crew, kick, scan, asyncIdx, syncIdx, fi, errVars, parent, failed, output,
                 memVars, warned, traceVars, out, result>>

SerialNoAgent ==
  /\ pc = "step" /\ Serial /\ pos < Len(crew.tasks)
  /\ crew.tasks[pos + 1] \in crew.agentless
  /\ Return("noagent")
  /\ UNCHANGED <<crew, kick, mainVars, workVars, errVars, parent, failed, output, store,
                 warned, traceVars, out>>

OpenWave ==
  /\ pc = "step" /\ Waves /\ asyncIdx = <<>> /\ syncIdx = <<>> /\ pos < Len(crew.waves)
  /\ pos' = pos + 1 /\ scan' = 1 /\ pc' = "scan"
  /\ UNCHANGED <<crew, kick, asyncIdx, syncIdx, group, spawned, fi, workVars, errVars, parent,
                 failed, output, memVars, warned, traceVars, out, result>>

neverFailedUpstream(t) == FALSE
failedUpstream(t) == crew.context[t] \cap failed # {}

\* One task of the wave: skipped when an upstream failed, else queued.
ScanWave ==
  /\ pc = "scan" /\ scan <= Len(crew.waves[pos])
  /\ LET t == crew.waves[pos][scan] IN
       /\ failed' = IF failedUpstream(t) THEN failed \cup {t} ELSE failed
       /\ asyncIdx' = IF ~failedUpstream(t) /\ t \in crew.async
                      THEN Append(asyncIdx, t) ELSE asyncIdx
       /\ syncIdx' = IF ~failedUpstream(t) /\ t \notin crew.async
                     THEN Append(syncIdx, t) ELSE syncIdx
  /\ scan' = scan + 1
  /\ UNCHANGED <<crew, kick, pc, pos, group, spawned, fi, workVars, errVars, parent, output,
                 memVars, warned, traceVars, out, result>>

WaveSorted ==
  /\ pc = "scan" /\ scan > Len(crew.waves[pos])
  /\ pc' = "step"
  /\ UNCHANGED <<crew, kick, mainVars, workVars, errVars, parent, failed, output, memVars,
                 warned, traceVars, out, result>>

\* runTaskGroup starts on ts with the AutoSave buffer armed.
OpenGroup(ts) ==
  /\ group' = ts /\ spawned' = 0 /\ pc' = "group"
  /\ buffering' = TRUE /\ buffer' = {}
  /\ firstErr' = "nil" /\ cancelled' = FALSE
  /\ Enter({})

\* The next chunk of at most AsyncMaxWorkers Async tasks; 0 is unlimited.
ChunkLen ==
  IF crew.maxWorkers > 0 /\ crew.maxWorkers < Len(asyncIdx)
  THEN crew.maxWorkers ELSE Len(asyncIdx)

AsyncGroup ==
  /\ pc = "step" /\ asyncIdx # <<>>
  /\ OpenGroup(SubSeq(asyncIdx, 1, ChunkLen))
  /\ asyncIdx' = SubSeq(asyncIdx, ChunkLen + 1, Len(asyncIdx))
  /\ UNCHANGED <<crew, kick, pos, scan, syncIdx, fi, parent, failed, output, store, warned,
                 traceVars, out, result>>

SyncGroupFirst ==
  /\ pc = "step" /\ syncIdx # <<>>
  /\ OpenGroup(<<Head(syncIdx)>>)
  /\ syncIdx' = Tail(syncIdx)
  /\ UNCHANGED <<crew, kick, pos, scan, asyncIdx, fi, parent, failed, output, store, warned,
                 traceVars, out, result>>

\* A task that is not Async never shares a group.
SyncGroup ==
  /\ pc = "step" /\ asyncIdx = <<>> /\ syncIdx # <<>>
  /\ OpenGroup(<<Head(syncIdx)>>)
  /\ syncIdx' = Tail(syncIdx)
  /\ UNCHANGED <<crew, kick, pos, scan, asyncIdx, fi, parent, failed, output, store, warned,
                 traceVars, out, result>>

StageGroup ==
  /\ pc = "step" /\ Staged /\ pos < Len(crew.stages)
  /\ OpenGroup(crew.stages[pos + 1].tasks)
  /\ pos' = pos + 1
  /\ UNCHANGED <<crew, kick, scan, asyncIdx, syncIdx, fi, parent, failed, output, store,
                 warned, traceVars, out, result>>
------------------------------------------------------------------------------
(* runTaskGroup: one goroutine per task, then execute. *)

Goto(t, l) == wpc' = [wpc EXCEPT ![t] = l]
groupDone == parent \/ cancelled

\* The spawning loop reaches the group's next task.  It records a missing agent
\* itself, before it goes on to the next task.
Spawn ==
  /\ pc = "group" /\ spawned < Len(group)
  /\ \A p \in 1..spawned : group[p] \in crew.agentless => wpc[group[p]] = "done"
  /\ LET t == group[spawned + 1] IN
       IF t \in crew.agentless
       THEN Goto(t, "record") /\ werr' = [werr EXCEPT ![t] = "noagent"]
       ELSE Goto(t, "acquire") /\ UNCHANGED werr
  /\ spawned' = spawned + 1
  /\ UNCHANGED <<crew, kick, pc, pos, scan, asyncIdx, syncIdx, group, fi, slot, seen, injected,
                 errVars, parent, failed, output, memVars, warned, traceVars, out, result>>

FinishNoDoneOnErr(t, e) ==
  /\ slot' = [slot EXCEPT ![t] = IF e = "nil" THEN "ok" ELSE "err"]
  /\ werr' = [werr EXCEPT ![t] = e]
  /\ Goto(t, IF e = "nil" THEN "done" ELSE "none")
  /\ UNCHANGED <<seen, injected>>

\* The worker function ends with error e ("nil" when it succeeded).
Finish(t, e) ==
  /\ slot' = [slot EXCEPT ![t] = IF e = "nil" THEN "ok" ELSE "err"]
  /\ werr' = [werr EXCEPT ![t] = e]
  /\ Goto(t, IF e # "nil" /\ ~Serial THEN "record" ELSE "done")
  /\ UNCHANGED <<seen, injected>>

Capped == Waves /\ crew.maxWorkers > 0
Running == {t \in Members : wpc[t] \notin {"none", "acquire", "done"} /\ t \notin crew.agentless}

\* select: a worker slot, or groupCtx.Done().
Acquire(t) ==
  /\ wpc[t] = "acquire"
  /\ Capped => Cardinality(Running) < crew.maxWorkers
  /\ Goto(t, "context")
  /\ UNCHANGED <<crew, kick, pc, mainVars, slot, werr, seen, injected, errVars, parent, failed,
                 output, memVars, warned, traceVars, out, result>>

AcquireCancelled(t) ==
  /\ wpc[t] = "acquire" /\ Capped /\ groupDone
  /\ Finish(t, "canceled")
  /\ UNCHANGED <<crew, kick, pc, mainVars, errVars, parent, failed, output, memVars, warned,
                 traceVars, out, result>>

\* task.contextText(): the outputs the dependencies have at this moment.
ReadContext(t) ==
  /\ wpc[t] = "context"
  /\ seen' = [seen EXCEPT ![t] = [d \in Task |-> IF d \in crew.context[t] THEN output[d] ELSE 0]]
  /\ Goto(t, "inject")
  /\ UNCHANGED <<crew, kick, pc, mainVars, slot, werr, injected, errVars, parent, failed, output,
                 memVars, warned, traceVars, out, result>>

EmptyContext(t) == \A d \in Task : seen[t][d] = 0

\* queryCommitted: the committed entries, when the policy asks for them.
Inject(t) ==
  /\ wpc[t] = "inject"
  /\ injected' = IF HasStore /\ (crew.injectAlways \/ EmptyContext(t))
                 THEN [injected EXCEPT ![t] = store] ELSE injected
  /\ Goto(t, "call")
  /\ UNCHANGED <<crew, kick, pc, mainVars, slot, werr, seen, errVars, parent, failed, output,
                 memVars, warned, traceVars, out, result>>

\* The remember tool Puts at once (D-MT4); bound: once per task and Kickoff.
Remember(t) ==
  /\ wpc[t] = "call" /\ crew.remember /\ HasStore
  /\ \A p \in DOMAIN store : store[p] # Entry(t, "tool")
  /\ store' = Append(store, Entry(t, "tool"))
  /\ UNCHANGED <<crew, kick, pc, mainVars, workVars, errVars, parent, failed, output, buffering,
                 buffer, warned, traceVars, out, result>>

\* executeTask succeeds, also under a cancelled context when it ended in time.
CallOk(t) ==
  /\ wpc[t] = "call"
  /\ captured' = captured \cup {t}
  /\ Goto(t, "output")
  /\ UNCHANGED <<crew, kick, pc, mainVars, slot, werr, seen, injected, errVars, parent, failed,
                 output, memVars, warned, trace, out, result>>

CallErrors == (crew.faults \cap {"task"}) \cup (IF groupDone THEN {"canceled"} ELSE {})

\* executeTask fails; the recorder captures the failure as well.
CallErr(t) ==
  /\ wpc[t] = "call"
  /\ \E e \in CallErrors : Finish(t, e)
  /\ captured' = captured \cup {t}
  /\ UNCHANGED <<crew, kick, pc, mainVars, errVars, parent, failed, output, memVars, warned,
                 trace, out, result>>

\* The worker panics in the model call or in the guardrail; it is recovered.
Panic(t) ==
  /\ wpc[t] \in {"call", "guard"} /\ "panic" \in crew.faults /\ ~Serial
  /\ wpc[t] = "guard" => t \in crew.guarded
  /\ Finish(t, "panic")
  /\ UNCHANGED <<crew, kick, pc, mainVars, errVars, parent, failed, output, memVars, warned,
                 traceVars, out, result>>

\* setOutputWithJail: the output is set whatever the file write does.
SetOutput(t) ==
  /\ wpc[t] = "output"
  /\ output' = [output EXCEPT ![t] = kick]
  /\ \/ Goto(t, "save") /\ UNCHANGED <<slot, werr, seen, injected>>
     \/ t \in crew.outputFile /\ Finish(t, "file")
  /\ UNCHANGED <<crew, kick, pc, mainVars, errVars, parent, failed, memVars, warned, traceVars,
                 out, result>>

Warn(t) == warned' = [warned EXCEPT ![t] = @ \cup {kick}]

PutAutoSilently(t) ==
  /\ \E ok \in PutOutcomes : store' = IF ok THEN Append(store, Entry(t, "auto")) ELSE store
  /\ UNCHANGED warned

\* Put of the AutoSave entry; a failure is a warning on the task (G11).
PutAuto(t) ==
  \E ok \in PutOutcomes :
    IF ok THEN store' = Append(store, Entry(t, "auto")) /\ UNCHANGED warned
          ELSE Warn(t) /\ UNCHANGED store

AutoSaveUnbuffered(t) ==
  /\ wpc[t] = "save"
  /\ IF AutoSaves THEN PutAuto(t) ELSE UNCHANGED <<store, warned>>
  /\ Goto(t, "guard")
  /\ UNCHANGED <<crew, kick, pc, mainVars, slot, werr, seen, injected, errVars, parent, failed,
                 output, buffering, buffer, traceVars, out, result>>

\* AutoSave: stash while a barrier is open, Put at once otherwise.
AutoSave(t) ==
  /\ wpc[t] = "save"
  /\ IF AutoSaves /\ ~buffering THEN PutAuto(t) ELSE UNCHANGED <<store, warned>>
  /\ buffer' = IF AutoSaves /\ buffering THEN buffer \cup {t} ELSE buffer
  /\ Goto(t, "guard")
  /\ UNCHANGED <<crew, kick, pc, mainVars, slot, werr, seen, injected, errVars, parent, failed,
                 output, buffering, traceVars, out, result>>

\* runTaskGuardrail, after the output is set and saved; then execute returns.
Guardrail(t) ==
  /\ wpc[t] = "guard"
  /\ \E e \in {"nil"} \cup (IF t \in crew.guarded THEN {"guardrail"} ELSE {}) : Finish(t, e)
  /\ UNCHANGED <<crew, kick, pc, mainVars, errVars, parent, failed, output, memVars, warned,
                 traceVars, out, result>>

RecordLastErr(t) ==
  /\ wpc[t] = "record"
  /\ firstErr' = werr[t]
  /\ Goto(t, IF FailFast THEN "cancel" ELSE "done")
  /\ UNCHANGED <<crew, kick, pc, mainVars, slot, werr, seen, injected, cancelled, parent, failed,
                 output, memVars, warned, traceVars, out, result>>

\* recordErr: the first failure is kept, then a fail-fast group is cancelled.
RecordErr(t) ==
  /\ wpc[t] = "record"
  /\ firstErr' = IF firstErr = "nil" THEN werr[t] ELSE firstErr
  /\ Goto(t, IF FailFast THEN "cancel" ELSE "done")
  /\ UNCHANGED <<crew, kick, pc, mainVars, slot, werr, seen, injected, cancelled, parent, failed,
                 output, memVars, warned, traceVars, out, result>>

CancelGroup(t) ==
  /\ wpc[t] = "cancel"
  /\ cancelled' = TRUE
  /\ Goto(t, "done")
  /\ UNCHANGED <<crew, kick, pc, mainVars, slot, werr, seen, injected, firstErr, parent, failed,
                 output, memVars, warned, traceVars, out, result>>

Worker(t) ==
  \/ Acquire(t) \/ AcquireCancelled(t) \/ ReadContext(t) \/ Inject(t) \/ CallOk(t)
  \/ CallErr(t) \/ Panic(t) \/ SetOutput(t) \/ AutoSave(t) \/ Guardrail(t) \/ RecordErr(t)
  \/ CancelGroup(t)

------------------------------------------------------------------------------
(* The barrier: wg.Wait, then commit and fold, or abort. *)

Joined == /\ pc = "group" /\ spawned = Len(group)
          /\ \A t \in Members : wpc[t] = "done"

\* A serial task failed: Kickoff returns its error.
SerialErr ==
  /\ Joined /\ Serial /\ slot[group[1]] = "err"
  /\ Return(werr[group[1]])
  /\ UNCHANGED <<crew, kick, mainVars, workVars, errVars, parent, failed, output, store, warned,
                 traceVars, out>>

\* The fail-fast abort: every task of an async group is marked failed, nothing
\* of the buffer is committed, Kickoff returns the first failure.
Abort ==
  /\ Joined /\ ~Serial /\ firstErr # "nil" /\ FailFast
  /\ failed' = IF Waves THEN failed \cup Members ELSE failed
  /\ Return(firstErr)
  /\ UNCHANGED <<crew, kick, mainVars, workVars, errVars, parent, output, store, warned,
                 traceVars, out>>

\* commitMemoryBuffer turns buffering off before the first Put.
StartCommit ==
  /\ Joined /\ ~Serial /\ (firstErr = "nil" \/ ~FailFast)
  /\ buffering' = FALSE /\ fi' = 1 /\ pc' = "commit"
  /\ UNCHANGED <<crew, kick, pos, scan, asyncIdx, syncIdx, group, spawned, workVars, errVars,
                 parent, failed, output, store, buffer, warned, traceVars, out, result>>

\* The entry of the group's next task, in the order of the group.
Commit ==
  /\ pc = "commit" /\ fi <= Len(group)
  /\ IF group[fi] \in buffer THEN PutAuto(group[fi]) ELSE UNCHANGED <<store, warned>>
  /\ fi' = fi + 1
  /\ UNCHANGED <<crew, kick, pc, pos, scan, asyncIdx, syncIdx, group, spawned, workVars, errVars,
                 parent, failed, output, buffering, buffer, traceVars, out, result>>

StartFold ==
  /\ \/ pc = "commit" /\ fi > Len(group) /\ buffer' = {}
     \/ Joined /\ Serial /\ slot[group[1]] = "ok" /\ UNCHANGED buffer
  /\ fi' = 1 /\ pc' = "fold"
  /\ UNCHANGED <<crew, kick, pos, scan, asyncIdx, syncIdx, group, spawned, workVars, errVars,
                 parent, failed, output, store, buffering, warned, traceVars, out, result>>

\* A success: TasksOutput, the published trace record, the task's warnings.
FoldOk ==
  /\ pc = "fold" /\ fi <= Len(group) /\ slot[group[fi]] = "ok"
  /\ out' = Append(out, [task |-> group[fi], warnings |-> warned[group[fi]]])
  /\ trace' = IF group[fi] \in captured THEN Append(trace, group[fi]) ELSE trace
  /\ captured' = captured \ {group[fi]}
  /\ fi' = fi + 1
  /\ UNCHANGED <<crew, kick, pc, pos, scan, asyncIdx, syncIdx, group, spawned, workVars, errVars,
                 parent, failed, output, memVars, warned, result>>

\* A failed result is marked in failedTasks.
MarkFailedGroup(t) == IF Waves THEN failed \cup Members ELSE failed
MarkFailed(t) == IF Waves THEN failed \cup {t} ELSE failed

\* A failure is marked in an async wave; an optional stage only logs it.
FoldErr ==
  /\ pc = "fold" /\ fi <= Len(group) /\ slot[group[fi]] = "err"
  /\ failed' = MarkFailed(group[fi])
  /\ fi' = fi + 1
  /\ UNCHANGED <<crew, kick, pc, pos, scan, asyncIdx, syncIdx, group, spawned, workVars, errVars,
                 parent, output, memVars, warned, traceVars, out, result>>

\* The zero results slot of a task without agent: err and agent are both nil,
\* so the task is neither folded nor marked failed.
FoldEmpty ==
  /\ pc = "fold" /\ fi <= Len(group) /\ slot[group[fi]] = "empty"
  /\ fi' = fi + 1
  /\ UNCHANGED <<crew, kick, pc, pos, scan, asyncIdx, syncIdx, group, spawned, workVars, errVars,
                 parent, failed, output, memVars, warned, traceVars, out, result>>

EndGroup ==
  /\ pc = "fold" /\ fi > Len(group)
  /\ pc' = "step" /\ group' = <<>> /\ spawned' = 0 /\ fi' = 1
  /\ firstErr' = "nil" /\ cancelled' = FALSE
  /\ Enter({})
  /\ UNCHANGED <<crew, kick, pos, scan, asyncIdx, syncIdx, parent, failed, output, memVars,
                 warned, traceVars, out, result>>

Main ==
  \/ Complete \/ SerialTask \/ SerialNoAgent \/ OpenWave \/ ScanWave \/ WaveSorted
  \/ AsyncGroup \/ SyncGroup \/ StageGroup \/ Spawn \/ SerialErr \/ Abort \/ StartCommit
  \/ Commit \/ StartFold \/ FoldOk \/ FoldErr \/ FoldEmpty \/ EndGroup

Next ==
  \/ KickoffEmpty \/ Kickoff \/ CancelParent \/ Main
  \/ \E t \in Task : Worker(t) \/ Remember(t)

Spec == Init /\ [][Next]_vars

\* Go runs every runnable goroutine eventually, and a model call ends (it is
\* bounded by the provider's timeout); nobody has to call Kickoff or cancel.
FairSpec == Spec /\ WF_vars(Main) /\ \A t \in Task : WF_vars(Worker(t))
------------------------------------------------------------------------------
(* Properties. *)

EntryType == [task: Task, kick: Nat, src: {"auto", "tool"}]
WorkerStates == {"none", "acquire", "context", "inject", "call", "output", "save", "guard",
                 "record", "cancel", "done"}
Results == {"none", "ok", "nowork", "cycle", "nomanager", "guardrail"} \cup Errors

TypeOK ==
  /\ crew \in Crews
  /\ kick \in Nat
  /\ pc \in {"idle", "step", "scan", "group", "commit", "fold"}
  /\ pos \in Nat /\ spawned \in Nat /\ scan \in Nat \ {0} /\ fi \in Nat \ {0}
  /\ asyncIdx \in Seq(Task) /\ syncIdx \in Seq(Task) /\ group \in Seq(Task)
  /\ wpc \in [Task -> WorkerStates]
  /\ slot \in [Task -> {"empty", "ok", "err"}]
  /\ werr \in [Task -> Errors \cup {"nil"}]
  /\ firstErr \in Errors \cup {"nil"}
  /\ cancelled \in BOOLEAN /\ parent \in BOOLEAN /\ buffering \in BOOLEAN
  /\ failed \in SUBSET Task /\ buffer \in SUBSET Task /\ captured \in SUBSET Task
  /\ output \in [Task -> Nat]
  /\ seen \in [Task -> [Task -> Nat]]
  /\ injected \in [Task -> Seq(EntryType)]
  /\ store \in Seq(EntryType)
  /\ warned \in [Task -> SUBSET Nat]
  /\ trace \in Seq(Task)
  /\ out \in Seq([task: Task, warnings: SUBSET Nat])
  /\ result \in Results

\* The goroutine has read its context and has not ended.
Executing(t) == wpc[t] \in {"inject", "call", "output", "save", "guard"}

InCrew(d) == In(crew.tasks, d)

OutTasks == {out[p].task : p \in DOMAIN out}

\* "the returned firstErr is that first failure, not a sibling's context.Canceled
\* triggered by the cancellation" (runTaskGroup): a cancellation is reported as
\* the cause only when the caller's own context was cancelled.
FirstErrIsRootCause == firstErr = "canceled" => parent

\* "Dependencies (Context) are always honored: an Async task only starts after
\* every dependency finished in an earlier wave" (Task.Async), and dependents of
\* failed tasks are skipped (D-A3): a task of an async run executes on an output
\* that this Kickoff produced for every dependency in the crew.
ContextIsFresh ==
  Waves => \A t \in Task : Executing(t) =>
             \A d \in crew.context[t] : InCrew(d) => seen[t][d] = kick

\* D-M7: the memory of a group stays apart until the group is committed.  What is
\* injected into a prompt holds no AutoSave entry of a sibling of the open group, in
\* whatever order they end (queryCommitted, stashMemoryBuffer); a fail-fast abort
\* commits nothing of the group that failed ("failed/cancelled never commit"), and no
\* group leaves an entry in the buffer for the next one.
GroupMemoryApart ==
  /\ pc = "group" =>
       \A t \in Members : \A p \in DOMAIN injected[t] :
         ~(/\ injected[t][p].src = "auto" /\ injected[t][p].kick = kick
           /\ injected[t][p].task \in Members)
  /\ pc \in {"idle", "step", "scan"} => ~buffering /\ buffer = {}
  /\ pc = "idle" /\ firstErr # "nil" =>
       \A p \in DOMAIN store :
         store[p].src = "auto" /\ store[p].kick = kick => store[p].task \notin Members

\* The plan of the crew reaches t before u: by wave, the Async tasks of a wave
\* first, or by stage, and inside these by list order.
PlannedBefore(t, u) ==
  CASE Serial -> Lists(crew.tasks, t, u)
    [] Staged -> \E a, b \in DOMAIN crew.stages :
                   /\ In(crew.stages[a].tasks, t) /\ In(crew.stages[b].tasks, u)
                   /\ a < b \/ (a = b /\ Lists(crew.stages[a].tasks, t, u))
    [] Waves -> \E a, b \in DOMAIN crew.waves :
                   /\ In(crew.waves[a], t) /\ In(crew.waves[b], u)
                   /\ \/ a < b
                      \/ a = b /\ t \in crew.async /\ u \notin crew.async
                      \/ /\ a = b /\ Lists(crew.waves[a], t, u)
                         /\ t \in crew.async <=> u \in crew.async

\* "Fold results into the output in declaration order (not completion order)": the
\* second half.  TasksOutput follows the plan, which is fixed before a task runs, and
\* names no task twice, whatever the order in which the goroutines end.  Inside a wave
\* the plan's order is the one in which planWaves unlocked the tasks, which need not be
\* that of crew.Tasks: see FoldFollowsDeclaration.
FoldFollowsPlan ==
  \A p, q \in DOMAIN out : p < q => PlannedBefore(out[p].task, out[q].task)

\* What a Kickoff remembers is what it returned: memory holds one AutoSave entry per
\* folded task, in the order of the output, except where Put failed and the task carries
\* the warning of this Kickoff (G1, G11).
MemoryMatchesOutput ==
  pc = "idle" /\ result = "ok" /\ AutoSaves =>
    LET kept == {p \in DOMAIN out : kick \notin out[p].warnings}
        saved == {q \in DOMAIN store : store[q].src = "auto" /\ store[q].kick = kick}
    IN /\ \A p \in kept : \E q \in saved : store[q].task = out[p].task
       /\ \A q \in saved : \E p \in kept : store[q].task = out[p].task
       /\ \A q, r \in saved : \A p, s \in kept :
            store[q].task = out[p].task /\ store[r].task = out[s].task => (q < r <=> p < s)

\* The records the trace publishes are those of the tasks the Kickoff folded, in the
\* order of the output, with none of a failed worker and none left from an earlier
\* Kickoff (D-X7).
TraceMatchesOutput == trace = [p \in DOMAIN out |-> out[p].task]

\* What a Kickoff keeps, in memory and in the trace, is what it returned.
RecordsMatchOutput == MemoryMatchesOutput /\ TraceMatchesOutput

\* D-A3 ("skip dependents of failed tasks only"): outside a fail-fast abort a task
\* enters failedTasks because its own execution failed or because a dependency is
\* already there, never because of an unrelated sibling; and when an async Kickoff
\* returns an output, every task of the crew is in the output or failed, and none was
\* folded on top of a failed dependency.
FailureContained ==
  /\ [][\A t \in failed' \ failed :
          pc' = "idle" \/ failedUpstream(t) \/ (t \in Members /\ werr[t] # "nil")]_vars
  /\ [](Waves /\ pc = "idle" /\ result = "ok" =>
          \A t \in {crew.tasks[p] : p \in DOMAIN crew.tasks} :
            /\ t \in OutTasks <=> t \notin failed
            /\ t \in OutTasks => ~failedUpstream(t))

\* Kickoff returns: no worker, semaphore or barrier waits for ever.
KickoffReturns == pc # "idle" ~> pc = "idle"

------------------------------------------------------------------------------
(* What comments and docs say and the code does not do; each has a run that  *)
(* shows the disagreement.                                                   *)

\* runAsyncWaves: "Aggregation folds each sub-group by ascending task index after its
\* barrier" (runWaveGroup: "in declaration order"): the Async tasks of a wave, and the
\* others, are in the output in the order of crew.Tasks.
FoldFollowsDeclaration ==
  Waves => \A w \in DOMAIN crew.waves : \A p, q \in DOMAIN out :
    LET t == out[p].task
        u == out[q].task
    IN p < q /\ In(crew.waves[w], t) /\ In(crew.waves[w], u) /\ (t \in crew.async <=> u \in crew.async)
         => Lists(crew.tasks, t, u)

\* MemoryPolicy.AutoSave: "Failures are never saved (G2)".
FailuresNeverSaved ==
  pc = "fold" =>
    \A t \in Members : slot[t] = "err" =>
      \A p \in DOMAIN store : store[p] # Entry(t, "auto")

\* Task.Guardrail: "If it returns a non-nil error, the crew execution halts and
\* Kickoff returns ErrBlockedByGuardrail": no group with a blocked task is folded.
GuardrailHalts == pc = "fold" => \A t \in Members : werr[t] # "guardrail"

\* docs/concurrency.md: tasks of a group "do not read each other's outputs, facts,
\* or warnings mid-flight".
SiblingsNotRead ==
  pc = "group" => \A t \in Members : Executing(t) =>
                    \A d \in Members : output[d] = kick => seen[t][d] # kick

\* CrewOutput.Warnings: failed tasks' "context is discarded along with their
\* output", and "Sequential reuse of the same Crew is OK" (Kickoff): no prompt
\* holds an output that this Kickoff did not produce.
NoStaleContext ==
  \A t \in Task : Executing(t) => \A d \in Task : seen[t][d] \in {0, kick}

\* TaskOutput.Warnings: "non-fatal diagnostics recorded during this task's
\* execution": the output of a Kickoff carries no warning of an earlier one.
WarningsAreThisKickoffs == \A p \in DOMAIN out : out[p].warnings \subseteq {kick}
==============================================================================
