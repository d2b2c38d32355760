----------------------------- MODULE CrewProofs ------------------------------
(***************************************************************************)
(* Theorems about Crew for every set of tasks, every crew and every number *)
(* of Kickoffs.                                                            *)
(***************************************************************************)
EXTENDS Crew, SequenceTheorems, TLAPS

USE DEF mainVars, workVars, errVars, memVars, traceVars

\* TypeOK in parts: the goroutine that called Kickoff, the workers, the memory
\* and the results.
MainType ==
  /\ crew \in Crews /\ kick \in Nat
  /\ pc \in {"idle", "step", "scan", "group", "commit", "fold"}
  /\ pos \in Nat /\ spawned \in Nat /\ scan \in Nat \ {0} /\ fi \in Nat \ {0}
  /\ asyncIdx \in Seq(Task) /\ syncIdx \in Seq(Task) /\ group \in Seq(Task)
  /\ result \in Results
WorkType ==
  /\ wpc \in [Task -> WorkerStates]
  /\ slot \in [Task -> {"empty", "ok", "err"}]
  /\ werr \in [Task -> Errors \cup {"nil"}]
  /\ firstErr \in Errors \cup {"nil"}
  /\ cancelled \in BOOLEAN /\ parent \in BOOLEAN
  /\ seen \in [Task -> [Task -> Nat]]
MemType ==
  /\ buffering \in BOOLEAN
  /\ injected \in [Task -> Seq(EntryType)] /\ store \in Seq(EntryType)
SetType ==
  /\ failed \in SUBSET Task /\ buffer \in SUBSET Task /\ captured \in SUBSET Task
  /\ output \in [Task -> Nat] /\ warned \in [Task -> SUBSET Nat]
  /\ trace \in Seq(Task)
  /\ out \in Seq([task: Task, warnings: SUBSET Nat])

\* The control facts the types depend on.
ControlInv ==
  /\ pc = "scan" => Waves /\ pos \in 1..Len(crew.waves)
  /\ pc = "group" /\ Serial => group # <<>>
  /\ Serial => asyncIdx = <<>> /\ syncIdx = <<>>
  /\ \A t \in Task : slot[t] = "err" => werr[t] # "nil"
  /\ \A t \in Task : wpc[t] = "record" => werr[t] # "nil"

TypeInv == MainType /\ WorkType /\ MemType /\ SetType /\ ControlInv

LEMMA TypeParts == MainType /\ WorkType /\ MemType /\ SetType => TypeOK
BY DEF TypeOK, MainType, WorkType, MemType, SetType

LEMMA TypeInit == Init => TypeInv
<1> SUFFICES ASSUME Init PROVE TypeInv
  OBVIOUS
<1>1. MainType
  BY DEF Init, MainType, Results
<1>2. WorkType
  BY DEF Init, WorkType, WorkerStates, NoContext
<1>3. MemType
  <2>1. <<>> \in Seq(EntryType)
    OBVIOUS
  <2>2. QED BY <2>1 DEF Init, MemType, NoInjection
<1>4. SetType
  BY DEF Init, SetType
<1>5. ControlInv
  BY DEF Init, ControlInv
<1>6. QED BY <1>1, <1>2, <1>3, <1>4, <1>5 DEF TypeInv

\* No step changes the crew, so what it derives from it stays the same.
LEMMA CrewRigid == [Next]_vars => crew' = crew
BY DEF Next, vars, Main, Worker, KickoffEmpty, Kickoff, CancelParent, Complete, SerialTask, SerialNoAgent,
       OpenWave, ScanWave, WaveSorted, AsyncGroup, SyncGroup, StageGroup, Spawn, SerialErr, Abort, StartCommit,
       Commit, StartFold, FoldOk, FoldErr, FoldEmpty, EndGroup, Acquire, AcquireCancelled, ReadContext, Inject,
       CallOk, CallErr, Panic, SetOutput, AutoSave, Guardrail, RecordErr, CancelGroup, Remember

LEMMA ProcessRigid ==
  ASSUME crew' = crew
  PROVE  (Waves' <=> Waves) /\ (Serial' <=> Serial) /\ (Staged' <=> Staged)
BY DEF Waves, Serial, Staged, HasAsync

LEMMA CrewFields ==
  ASSUME MainType
  PROVE  /\ crew.tasks \in Seq(Task) /\ crew.waves \in Seq(Seq(Task))
         /\ crew.stages \in Seq([tasks: Seq(Task), optional: BOOLEAN])
         /\ crew.maxWorkers \in Nat
         /\ crew.faults \subseteq {"task", "panic", "put", "cancel"}
BY CrewsAssumption DEF MainType, CrewType

LEMMA StartErrorType == StartError \in {"cycle", "nomanager", "noagent", "nil"}
BY DEF StartError
------------------------------------------------------------------------------
(* Every action keeps the types. *)

LEMMA EnterTypes ==
  ASSUME NEW s, Enter(s)
  PROVE  /\ wpc' \in [Task -> {"context", "none"}]
         /\ slot' \in [Task -> {"empty"}] /\ werr' \in [Task -> {"nil"}]
         /\ seen' \in [Task -> [Task -> Nat]] /\ injected' \in [Task -> Seq(EntryType)]
<1>1. <<>> \in Seq(EntryType)
  OBVIOUS
<1>2. injected' \in [Task -> Seq(EntryType)]
  BY <1>1 DEF Enter, NoInjection
<1>3. QED BY <1>2 DEF Enter, NoContext

LEMMA TypeKickoffEmpty == TypeInv /\ KickoffEmpty => TypeInv'
<1> SUFFICES ASSUME TypeInv, KickoffEmpty PROVE TypeInv'
  OBVIOUS
<1>1. MainType'
  BY DEF TypeInv, MainType, KickoffEmpty, Results
<1>2. WorkType' /\ MemType' /\ SetType'
  BY DEF TypeInv, WorkType, MemType, SetType, KickoffEmpty
<1>3. ControlInv'
  BY ProcessRigid DEF TypeInv, ControlInv, KickoffEmpty
<1>4. QED BY <1>1, <1>2, <1>3 DEF TypeInv

LEMMA TypeKickoff == TypeInv /\ Kickoff => TypeInv'
<1> SUFFICES ASSUME TypeInv, Kickoff PROVE TypeInv'
  OBVIOUS
<1>1. MainType'
  BY StartErrorType DEF TypeInv, MainType, Kickoff, Results, Errors
<1>2. WorkType'
  BY DEF TypeInv, WorkType, Kickoff
<1>3. MemType'
  <2>1. store' \in Seq(EntryType)
    <3>1. <<>> \in Seq(EntryType)
      OBVIOUS
    <3>2. store \in Seq(EntryType)
      BY DEF TypeInv, MemType
    <3>3. store' = <<>> \/ store' = store
      BY DEF Kickoff
    <3>4. QED BY <3>1, <3>2, <3>3
  <2>2. QED BY <2>1 DEF TypeInv, MemType, Kickoff
<1>4. SetType'
  BY DEF TypeInv, SetType, Kickoff, ResetTrace
<1>5. ControlInv'
  BY DEF TypeInv, ControlInv, Kickoff
<1>6. QED BY <1>1, <1>2, <1>3, <1>4, <1>5 DEF TypeInv

\* The steps that change only the control state of the caller and the result.
LEMMA TypeControl ==
  TypeInv /\ (Complete \/ SerialNoAgent \/ WaveSorted \/ CancelParent) => TypeInv'
<1> SUFFICES ASSUME TypeInv, Complete \/ SerialNoAgent \/ WaveSorted \/ CancelParent
             PROVE  TypeInv'
  OBVIOUS
<1>1. MainType'
  BY DEF TypeInv, MainType, Results, Errors, Complete, SerialNoAgent, WaveSorted, CancelParent, Return
<1>2. WorkType' /\ MemType'
  BY DEF TypeInv, WorkType, MemType, Complete, SerialNoAgent, WaveSorted, CancelParent, Return
<1>3. SetType'
  BY DEF TypeInv, SetType, Complete, SerialNoAgent, WaveSorted, CancelParent, Return
<1>4. ControlInv'
  BY ProcessRigid DEF TypeInv, ControlInv, Complete, SerialNoAgent, WaveSorted, CancelParent, Return
<1>5. QED BY <1>1, <1>2, <1>3, <1>4 DEF TypeInv

LEMMA TypeSerialTask == TypeInv /\ SerialTask => TypeInv'
<1> SUFFICES ASSUME TypeInv, SerialTask PROVE TypeInv'
  OBVIOUS
<1>0. crew.tasks[pos + 1] \in Task
  BY CrewFields DEF TypeInv, MainType, SerialTask
<1>e. Enter({crew.tasks[pos + 1]})
  BY DEF SerialTask
<1>1. MainType'
  BY <1>0 DEF TypeInv, MainType, SerialTask
<1>2. WorkType'
  BY <1>e, EnterTypes DEF TypeInv, WorkType, SerialTask, WorkerStates
<1>3. MemType'
  BY <1>e, EnterTypes DEF TypeInv, MemType, SerialTask
<1>4. SetType'
  BY DEF TypeInv, SetType, SerialTask
<1>5. ControlInv'
  BY <1>e, EnterTypes DEF TypeInv, ControlInv, SerialTask
<1>6. QED BY <1>1, <1>2, <1>3, <1>4, <1>5 DEF TypeInv

LEMMA TypeOpenWave == TypeInv /\ OpenWave => TypeInv'
<1> SUFFICES ASSUME TypeInv, OpenWave PROVE TypeInv'
  OBVIOUS
<1>1. MainType'
  BY DEF TypeInv, MainType, OpenWave
<1>2. WorkType' /\ MemType' /\ SetType'
  BY DEF TypeInv, WorkType, MemType, SetType, OpenWave
<1>3. ControlInv'
  BY CrewFields, ProcessRigid DEF TypeInv, MainType, ControlInv, OpenWave
<1>4. QED BY <1>1, <1>2, <1>3 DEF TypeInv

LEMMA TypeScanWave == TypeInv /\ ScanWave => TypeInv'
<1> SUFFICES ASSUME TypeInv, ScanWave PROVE TypeInv'
  OBVIOUS
<1>0. crew.waves[pos][scan] \in Task
  <2>1. crew.waves[pos] \in Seq(Task)
    BY CrewFields DEF TypeInv, ControlInv, ScanWave
  <2>2. QED BY <2>1 DEF TypeInv, MainType, ScanWave
<1>1. MainType'
  BY <1>0 DEF TypeInv, MainType, ScanWave
<1>2. WorkType' /\ MemType'
  BY DEF TypeInv, WorkType, MemType, ScanWave
<1>3. SetType'
  BY <1>0 DEF TypeInv, SetType, ScanWave
<1>4. ControlInv'
  <2>1. Waves /\ ~Serial
    BY DEF TypeInv, ControlInv, ScanWave, Waves, Serial
  <2>2. QED BY <2>1, ProcessRigid DEF TypeInv, ControlInv, ScanWave
<1>5. QED BY <1>1, <1>2, <1>3, <1>4 DEF TypeInv

\* Opening a group of typed tasks.
LEMMA TypeOpenGroup ==
  ASSUME TypeInv, NEW ts \in Seq(Task), OpenGroup(ts), ~Serial,
         UNCHANGED <<crew, kick, scan, fi, parent, failed, output, store, warned,
                     traceVars, out, result>>,
         pos' \in Nat, asyncIdx' \in Seq(Task), syncIdx' \in Seq(Task)
  PROVE  TypeInv'
<1>e. Enter({})
  BY DEF OpenGroup
<1>1. MainType'
  BY DEF TypeInv, MainType, OpenGroup
<1>2. WorkType'
  BY <1>e, EnterTypes DEF TypeInv, WorkType, OpenGroup, WorkerStates
<1>3. MemType'
  BY <1>e, EnterTypes DEF TypeInv, MemType, OpenGroup
<1>4. SetType'
  BY DEF TypeInv, SetType, OpenGroup
<1>5. ControlInv'
  BY <1>e, EnterTypes, ProcessRigid DEF TypeInv, ControlInv, OpenGroup
<1>6. QED BY <1>1, <1>2, <1>3, <1>4, <1>5 DEF TypeInv

LEMMA TypeGroups == TypeInv /\ (AsyncGroup \/ SyncGroup \/ StageGroup) => TypeInv'
<1> SUFFICES ASSUME TypeInv, AsyncGroup \/ SyncGroup \/ StageGroup PROVE TypeInv'
  OBVIOUS
<1>t. /\ asyncIdx \in Seq(Task) /\ syncIdx \in Seq(Task) /\ pos \in Nat
      /\ crew.maxWorkers \in Nat
  BY CrewFields DEF TypeInv, MainType
<1>1. CASE AsyncGroup
  <2>c. ChunkLen \in 0..Len(asyncIdx)
    BY <1>t DEF ChunkLen
  <2>1. SubSeq(asyncIdx, 1, ChunkLen) \in Seq(Task)
    BY <1>t, <2>c
  <2>2. SubSeq(asyncIdx, ChunkLen + 1, Len(asyncIdx)) \in Seq(Task)
    BY <1>t, <2>c
  <2>3. ~Serial
    BY <1>1 DEF AsyncGroup, TypeInv, ControlInv
  <2>4. QED BY <1>1, <1>t, <2>1, <2>2, <2>3, TypeOpenGroup DEF AsyncGroup
<1>2. CASE SyncGroup
  <2>1. <<Head(syncIdx)>> \in Seq(Task) /\ Tail(syncIdx) \in Seq(Task)
    BY <1>2, <1>t DEF SyncGroup
  <2>2. ~Serial
    BY <1>2 DEF SyncGroup, TypeInv, ControlInv
  <2>3. QED BY <1>2, <1>t, <2>1, <2>2, TypeOpenGroup DEF SyncGroup
<1>3. CASE StageGroup
  <2>1. crew.stages[pos + 1].tasks \in Seq(Task)
    <3>1. crew.stages \in Seq([tasks: Seq(Task), optional: BOOLEAN])
      BY CrewFields DEF TypeInv
    <3>2. pos + 1 \in 1..Len(crew.stages)
      BY <1>3, <1>t, <3>1 DEF StageGroup
    <3>3. crew.stages[pos + 1] \in [tasks: Seq(Task), optional: BOOLEAN]
      BY <3>1, <3>2, ElementOfSeq
    <3>4. QED BY <3>3
  <2>2. ~Serial
    BY <1>3 DEF StageGroup, Serial
  <2>3. QED BY <1>3, <1>t, <2>1, <2>2, TypeOpenGroup DEF StageGroup
<1>4. QED BY <1>1, <1>2, <1>3
\* A step of one worker that moves its wpc and at most its own slot and error.
LEMMA TypeGoto ==
  ASSUME TypeInv, NEW t \in Task, NEW l \in WorkerStates, Goto(t, l),
         l = "record" => werr'[t] # "nil",
         UNCHANGED <<crew, kick, pc, mainVars, parent, result>>,
         slot' \in [Task -> {"empty", "ok", "err"}],
         werr' \in [Task -> Errors \cup {"nil"}],
         \A u \in Task \ {t} : slot'[u] = slot[u] /\ werr'[u] = werr[u],
         slot'[t] = "err" => werr'[t] # "nil"
  PROVE  MainType' /\ ControlInv' /\ wpc' \in [Task -> WorkerStates]
<1>1. MainType'
  BY DEF TypeInv, MainType
<1>2. wpc' \in [Task -> WorkerStates]
  BY DEF Goto, TypeInv, WorkType
<1>3. ControlInv'
  <2>1. \A u \in Task : slot'[u] = "err" => werr'[u] # "nil"
    BY DEF TypeInv, ControlInv
  <2>2. \A u \in Task : wpc'[u] = "record" => werr'[u] # "nil"
    BY DEF Goto, TypeInv, ControlInv, WorkType
  <2>3. QED BY <2>1, <2>2, ProcessRigid DEF TypeInv, ControlInv
<1>4. QED BY <1>1, <1>2, <1>3

LEMMA TypeFinish ==
  ASSUME TypeInv, NEW t \in Task, NEW e \in Errors \cup {"nil"}, Finish(t, e),
         UNCHANGED <<crew, kick, pc, mainVars, errVars, parent, result>>
  PROVE  MainType' /\ ControlInv' /\ WorkType' /\ UNCHANGED injected
<1>1. PICK l \in {"record", "done"} :
        Goto(t, l) /\ (l = "record" => e # "nil")
  BY DEF Finish
<1>2. slot' \in [Task -> {"empty", "ok", "err"}]
  BY DEF Finish, TypeInv, WorkType
<1>3. werr' \in [Task -> Errors \cup {"nil"}]
  BY DEF Finish, TypeInv, WorkType
<1>4. /\ \A u \in Task \ {t} : slot'[u] = slot[u] /\ werr'[u] = werr[u]
      /\ slot'[t] = "err" => werr'[t] # "nil"
      /\ werr'[t] = e
  BY DEF Finish, TypeInv, WorkType
<1>5. l \in WorkerStates
  BY DEF WorkerStates
<1>6. MainType' /\ ControlInv' /\ wpc' \in [Task -> WorkerStates]
  BY <1>1, <1>2, <1>3, <1>4, <1>5, TypeGoto
<1>7. WorkType'
  BY <1>2, <1>3, <1>6 DEF TypeInv, WorkType, Finish
<1>8. QED BY <1>6, <1>7 DEF Finish

LEMMA CallErrorsType == TypeInv => CallErrors \subseteq Errors
BY DEF CallErrors, Errors

\* The steps that move a worker and touch nothing of its slot.
LEMMA TypeMoves ==
  ASSUME TypeInv, NEW t \in Task,
         Acquire(t) \/ ReadContext(t) \/ Inject(t) \/ CallOk(t) \/ RecordErr(t) \/ CancelGroup(t)
  PROVE  TypeInv'
<1>w. PICK l \in {"context", "inject", "call", "output", "cancel", "done"} : Goto(t, l)
  BY DEF Acquire, ReadContext, Inject, CallOk, RecordErr, CancelGroup
<1>l. l \in WorkerStates /\ l # "record"
  BY DEF WorkerStates
<1>u. UNCHANGED <<crew, kick, pc, mainVars, parent, result, slot, werr, failed, output, memVars,
                  warned, trace, out>>
  BY DEF Acquire, ReadContext, Inject, CallOk, RecordErr, CancelGroup
<1>1. MainType' /\ ControlInv' /\ wpc' \in [Task -> WorkerStates]
  <2>1. slot' \in [Task -> {"empty", "ok", "err"}] /\ werr' \in [Task -> Errors \cup {"nil"}]
    BY <1>u DEF TypeInv, WorkType
  <2>2. \A u \in Task \ {t} : slot'[u] = slot[u] /\ werr'[u] = werr[u]
    BY <1>u
  <2>3. slot'[t] = "err" => werr'[t] # "nil"
    BY <1>u DEF TypeInv, ControlInv
  <2>4. QED BY <1>w, <1>l, <1>u, <2>1, <2>2, <2>3, TypeGoto
<1>2. WorkType'
  <2>1. seen' \in [Task -> [Task -> Nat]]
    <3>1. CASE ReadContext(t)
      <4>1. [d \in Task |-> IF d \in crew.context[t] THEN output[d] ELSE 0] \in [Task -> Nat]
        BY DEF TypeInv, SetType
      <4>2. QED BY <3>1, <4>1 DEF ReadContext, TypeInv, WorkType
    <3>2. CASE UNCHANGED seen
      BY <3>2 DEF TypeInv, WorkType
    <3>3. QED BY <3>1, <3>2 DEF Acquire, Inject, CallOk, RecordErr, CancelGroup
  <2>2. firstErr' \in Errors \cup {"nil"}
    BY DEF TypeInv, WorkType, Acquire, ReadContext, Inject, CallOk, RecordErr, CancelGroup
  <2>3. cancelled' \in BOOLEAN
    BY DEF TypeInv, WorkType, Acquire, ReadContext, Inject, CallOk, RecordErr, CancelGroup
  <2>4. QED BY <1>1, <1>u, <2>1, <2>2, <2>3 DEF TypeInv, WorkType
<1>3. MemType'
  <2>1. injected' \in [Task -> Seq(EntryType)]
    <3>1. CASE Inject(t)
      <4>1. injected' = [injected EXCEPT ![t] = store] \/ injected' = injected
        BY <3>1 DEF Inject
      <4>2. QED BY <4>1 DEF TypeInv, MemType
    <3>2. CASE UNCHANGED injected
      BY <3>2 DEF TypeInv, MemType
    <3>3. QED BY <3>1, <3>2 DEF Acquire, ReadContext, CallOk, RecordErr, CancelGroup
  <2>2. QED BY <1>u, <2>1 DEF TypeInv, MemType
<1>4. SetType'
  <2>1. captured' = captured \/ captured' = captured \cup {t}
    BY DEF Acquire, ReadContext, Inject, CallOk, RecordErr, CancelGroup
  <2>2. QED BY <1>u, <2>1 DEF TypeInv, SetType
<1>5. QED BY <1>1, <1>2, <1>3, <1>4 DEF TypeInv
LEMMA EntryTyped ==
  ASSUME TypeInv, NEW t \in Task, NEW src \in {"auto", "tool"}
  PROVE  Entry(t, src) \in EntryType
BY DEF Entry, EntryType, TypeInv, MainType

LEMMA PutAutoTypes ==
  ASSUME TypeInv, NEW t \in Task, PutAuto(t)
  PROVE  store' \in Seq(EntryType) /\ warned' \in [Task -> SUBSET Nat]
<1>0. store \in Seq(EntryType) /\ warned \in [Task -> SUBSET Nat] /\ kick \in Nat
  BY DEF TypeInv, MemType, SetType, MainType
<1>1. CASE store' = Append(store, Entry(t, "auto")) /\ UNCHANGED warned
  <2>1. Entry(t, "auto") \in EntryType
    BY EntryTyped
  <2>2. QED BY <1>0, <1>1, <2>1, AppendProperties
<1>2. CASE Warn(t) /\ UNCHANGED store
  BY <1>0, <1>2 DEF Warn
<1>3. QED BY <1>1, <1>2 DEF PutAuto

\* A worker's execution ends, with or without error.
LEMMA TypeEnds ==
  ASSUME TypeInv, NEW t \in Task,
         AcquireCancelled(t) \/ CallErr(t) \/ Panic(t) \/ Guardrail(t)
  PROVE  TypeInv'
<1>1. PICK e \in Errors \cup {"nil"} : Finish(t, e)
  BY CallErrorsType DEF AcquireCancelled, CallErr, Panic, Guardrail, Errors
<1>2. UNCHANGED <<crew, kick, pc, mainVars, errVars, parent, result, failed, output, memVars,
                  warned, trace, out>>
  BY DEF AcquireCancelled, CallErr, Panic, Guardrail
<1>3. MainType' /\ ControlInv' /\ WorkType' /\ UNCHANGED injected
  BY <1>1, <1>2, TypeFinish
<1>4. MemType'
  BY <1>2, <1>3 DEF TypeInv, MemType
<1>5. SetType'
  <2>1. captured' = captured \/ captured' = captured \cup {t}
    BY DEF AcquireCancelled, CallErr, Panic, Guardrail
  <2>2. QED BY <1>2, <2>1 DEF TypeInv, SetType
<1>6. QED BY <1>3, <1>4, <1>5 DEF TypeInv

LEMMA TypeSetOutput ==
  ASSUME TypeInv, NEW t \in Task, SetOutput(t)
  PROVE  TypeInv'
<1>u. UNCHANGED <<crew, kick, pc, mainVars, errVars, parent, result, failed, memVars, warned,
                  traceVars, out>>
  BY DEF SetOutput
<1>1. SetType'
  BY <1>u DEF TypeInv, SetType, MainType, SetOutput
<1>2. CASE Finish(t, "file")
  <2>1. MainType' /\ ControlInv' /\ WorkType' /\ UNCHANGED injected
    BY <1>u, <1>2, TypeFinish DEF Errors
  <2>2. QED BY <1>u, <1>1, <2>1 DEF TypeInv, MemType
<1>3. CASE Goto(t, "save") /\ UNCHANGED <<slot, werr, seen, injected>>
  <2>1. slot' \in [Task -> {"empty", "ok", "err"}] /\ werr' \in [Task -> Errors \cup {"nil"}]
    BY <1>3 DEF TypeInv, WorkType
  <2>2. slot'[t] = "err" => werr'[t] # "nil"
    BY <1>3 DEF TypeInv, ControlInv
  <2>3. MainType' /\ ControlInv' /\ wpc' \in [Task -> WorkerStates]
    BY <1>u, <1>3, <2>1, <2>2, TypeGoto DEF WorkerStates
  <2>4. WorkType' /\ MemType'
    BY <1>u, <1>3, <2>3 DEF TypeInv, WorkType, MemType
  <2>5. QED BY <1>1, <2>3, <2>4 DEF TypeInv
<1>4. QED BY <1>2, <1>3 DEF SetOutput

LEMMA TypeAutoSave ==
  ASSUME TypeInv, NEW t \in Task, AutoSave(t)
  PROVE  TypeInv'
<1>u. UNCHANGED <<crew, kick, pc, mainVars, slot, werr, seen, injected, errVars, parent, failed,
                  output, buffering, traceVars, out, result>>
  BY DEF AutoSave
<1>1. store' \in Seq(EntryType) /\ warned' \in [Task -> SUBSET Nat]
  <2>1. CASE PutAuto(t)
    BY <2>1, PutAutoTypes
  <2>2. CASE UNCHANGED <<store, warned>>
    BY <2>2 DEF TypeInv, MemType, SetType
  <2>3. QED BY <2>1, <2>2 DEF AutoSave
<1>2. buffer' \in SUBSET Task
  BY DEF AutoSave, TypeInv, SetType
<1>3. MemType' /\ SetType'
  BY <1>u, <1>1, <1>2 DEF TypeInv, MemType, SetType
<1>4. MainType' /\ ControlInv' /\ wpc' \in [Task -> WorkerStates]
  <2>1. slot' \in [Task -> {"empty", "ok", "err"}] /\ werr' \in [Task -> Errors \cup {"nil"}]
    BY <1>u DEF TypeInv, WorkType
  <2>2. slot'[t] = "err" => werr'[t] # "nil"
    BY <1>u DEF TypeInv, ControlInv
  <2>3. Goto(t, "guard") /\ "guard" \in WorkerStates
    BY DEF AutoSave, WorkerStates
  <2>4. QED BY <1>u, <2>1, <2>2, <2>3, TypeGoto
<1>5. WorkType'
  BY <1>u, <1>4 DEF TypeInv, WorkType
<1>6. QED BY <1>3, <1>4, <1>5 DEF TypeInv

LEMMA TypeRemember ==
  ASSUME TypeInv, NEW t \in Task, Remember(t)
  PROVE  TypeInv'
<1>u. UNCHANGED <<crew, kick, pc, mainVars, workVars, errVars, parent, failed, output, buffering,
                  buffer, warned, traceVars, out, result>>
  BY DEF Remember
<1>1. store' \in Seq(EntryType)
  <2>1. Entry(t, "tool") \in EntryType /\ store \in Seq(EntryType)
    BY EntryTyped DEF TypeInv, MemType
  <2>2. QED BY <2>1, AppendProperties DEF Remember
<1>2. MainType' /\ WorkType'
  BY <1>u DEF TypeInv, MainType, WorkType
<1>3. MemType' /\ SetType'
  BY <1>u, <1>1 DEF TypeInv, MemType, SetType
<1>4. ControlInv'
  BY <1>u, ProcessRigid DEF TypeInv, ControlInv
<1>5. QED BY <1>2, <1>3, <1>4 DEF TypeInv
LEMMA TypeSpawn == TypeInv /\ Spawn => TypeInv'
<1> SUFFICES ASSUME TypeInv, Spawn PROVE TypeInv'
  OBVIOUS
<1> DEFINE t == group[spawned + 1]
<1>t. t \in Task
  BY DEF TypeInv, MainType, Spawn
<1>u. UNCHANGED <<crew, kick, pc, pos, scan, asyncIdx, syncIdx, group, fi, slot, seen, injected,
                  errVars, parent, failed, output, memVars, warned, traceVars, out, result>>
  BY DEF Spawn
<1>w. \/ Goto(t, "record") /\ werr' = [werr EXCEPT ![t] = "noagent"]
      \/ Goto(t, "acquire") /\ UNCHANGED werr
  BY DEF Spawn
<1> HIDE DEF t
<1>1. MainType'
  BY <1>u DEF TypeInv, MainType, Spawn
<1>2. wpc' \in [Task -> WorkerStates]
  BY <1>t, <1>w DEF Goto, TypeInv, WorkType, WorkerStates
<1>3. werr' \in [Task -> Errors \cup {"nil"}]
  BY <1>t, <1>w DEF TypeInv, WorkType, Errors
<1>4. WorkType' /\ MemType' /\ SetType'
  BY <1>u, <1>2, <1>3 DEF TypeInv, WorkType, MemType, SetType
<1>5. ControlInv'
  <2>1. \A u \in Task : slot'[u] = "err" => werr'[u] # "nil"
    BY <1>u, <1>t, <1>w DEF TypeInv, ControlInv, WorkType
  <2>2. \A u \in Task : wpc'[u] = "record" => werr'[u] # "nil"
    BY <1>t, <1>w DEF Goto, TypeInv, ControlInv, WorkType
  <2>3. QED BY <1>u, <2>1, <2>2, ProcessRigid DEF TypeInv, ControlInv
<1>6. QED BY <1>1, <1>4, <1>5 DEF TypeInv

\* Kickoff returns the error of a task or of a group.
LEMMA TypeFailures == TypeInv /\ (SerialErr \/ Abort) => TypeInv'
<1> SUFFICES ASSUME TypeInv, SerialErr \/ Abort PROVE TypeInv'
  OBVIOUS
<1>u. UNCHANGED <<crew, kick, mainVars, workVars, errVars, parent, output, store, warned,
                  traceVars, out>>
  BY DEF SerialErr, Abort
<1>m. Members \subseteq Task
  BY DEF Members, TypeInv, MainType
<1>r. result' \in Errors
  <2>1. CASE SerialErr
    <3>1. group # <<>> /\ group \in Seq(Task)
      BY <2>1 DEF SerialErr, Joined, TypeInv, ControlInv, MainType
    <3>2. group[1] \in Task
      BY <3>1
    <3>3. werr[group[1]] # "nil" /\ werr[group[1]] \in Errors \cup {"nil"}
      BY <2>1, <3>2 DEF SerialErr, TypeInv, ControlInv, WorkType
    <3>4. QED BY <2>1, <3>3 DEF SerialErr, Return
  <2>2. CASE Abort
    BY <2>2 DEF Abort, Return, TypeInv, WorkType
  <2>3. QED BY <2>1, <2>2
<1>1. MainType'
  BY <1>u, <1>r DEF TypeInv, MainType, Results, SerialErr, Abort, Return
<1>2. WorkType' /\ MemType'
  BY <1>u DEF TypeInv, WorkType, MemType, SerialErr, Abort, Return
<1>3. SetType'
  BY <1>u, <1>m DEF TypeInv, SetType, SerialErr, Abort, Return
<1>4. ControlInv'
  BY <1>u, ProcessRigid DEF TypeInv, ControlInv, SerialErr, Abort, Return
<1>5. QED BY <1>1, <1>2, <1>3, <1>4 DEF TypeInv

LEMMA TypeCommit == TypeInv /\ (StartCommit \/ Commit \/ StartFold) => TypeInv'
<1> SUFFICES ASSUME TypeInv, StartCommit \/ Commit \/ StartFold PROVE TypeInv'
  OBVIOUS
<1>u. UNCHANGED <<crew, kick, pos, scan, asyncIdx, syncIdx, group, spawned, workVars, errVars,
                  parent, failed, output, traceVars, out, result>>
  BY DEF StartCommit, Commit, StartFold
<1>1. store' \in Seq(EntryType) /\ warned' \in [Task -> SUBSET Nat]
  <2>1. CASE Commit /\ PutAuto(group[fi])
    <3>1. group[fi] \in Task
      BY <2>1 DEF Commit, TypeInv, MainType
    <3>2. QED BY <2>1, <3>1, PutAutoTypes
  <2>2. CASE UNCHANGED <<store, warned>>
    BY <2>2 DEF TypeInv, MemType, SetType
  <2>3. QED BY <2>1, <2>2 DEF StartCommit, Commit, StartFold
<1>2. MainType'
  BY <1>u DEF TypeInv, MainType, StartCommit, Commit, StartFold
<1>3. WorkType'
  BY <1>u DEF TypeInv, WorkType
<1>4. MemType'
  BY <1>u, <1>1 DEF TypeInv, MemType, StartCommit, Commit, StartFold
<1>5. SetType'
  BY <1>u, <1>1 DEF TypeInv, SetType, StartCommit, Commit, StartFold
<1>6. ControlInv'
  BY <1>u, ProcessRigid DEF TypeInv, ControlInv, StartCommit, Commit, StartFold
<1>7. QED BY <1>2, <1>3, <1>4, <1>5, <1>6 DEF TypeInv

LEMMA TypeFold == TypeInv /\ (FoldOk \/ FoldErr \/ FoldEmpty) => TypeInv'
<1> SUFFICES ASSUME TypeInv, FoldOk \/ FoldErr \/ FoldEmpty PROVE TypeInv'
  OBVIOUS
<1>u. UNCHANGED <<crew, kick, pc, pos, scan, asyncIdx, syncIdx, group, spawned, workVars, errVars,
                  parent, output, memVars, warned, result>>
  BY DEF FoldOk, FoldErr, FoldEmpty
<1>t. group[fi] \in Task
  BY DEF FoldOk, FoldErr, FoldEmpty, TypeInv, MainType
<1>1. MainType'
  BY <1>u DEF TypeInv, MainType, FoldOk, FoldErr, FoldEmpty
<1>2. WorkType' /\ MemType'
  BY <1>u DEF TypeInv, WorkType, MemType
<1>3. SetType'
  <2>1. out' \in Seq([task: Task, warnings: SUBSET Nat])
    <3>1. [task |-> group[fi], warnings |-> warned[group[fi]]] \in [task: Task, warnings: SUBSET Nat]
      BY <1>t DEF TypeInv, SetType
    <3>2. out \in Seq([task: Task, warnings: SUBSET Nat])
      BY DEF TypeInv, SetType
    <3>3. CASE FoldOk
      BY <3>1, <3>2, <3>3, AppendProperties DEF FoldOk
    <3>4. CASE UNCHANGED out
      BY <3>2, <3>4
    <3>5. QED BY <3>3, <3>4 DEF FoldErr, FoldEmpty
  <2>2. trace' \in Seq(Task)
    <3>1. trace' = Append(trace, group[fi]) \/ trace' = trace
      BY DEF FoldOk, FoldErr, FoldEmpty
    <3>2. trace \in Seq(Task)
      BY DEF TypeInv, SetType
    <3>3. QED BY <1>t, <3>1, <3>2, AppendProperties
  <2>3. failed' \in SUBSET Task /\ captured' \in SUBSET Task
    BY <1>t DEF FoldOk, FoldErr, FoldEmpty, MarkFailed, TypeInv, SetType
  <2>4. QED BY <1>u, <2>1, <2>2, <2>3 DEF TypeInv, SetType
<1>4. ControlInv'
  BY <1>u, ProcessRigid DEF TypeInv, ControlInv, FoldOk, FoldErr, FoldEmpty
<1>5. QED BY <1>1, <1>2, <1>3, <1>4 DEF TypeInv

LEMMA TypeEndGroup == TypeInv /\ EndGroup => TypeInv'
<1> SUFFICES ASSUME TypeInv, EndGroup PROVE TypeInv'
  OBVIOUS
<1>e. Enter({})
  BY DEF EndGroup
<1>1. MainType'
  BY DEF TypeInv, MainType, EndGroup
<1>2. WorkType'
  BY <1>e, EnterTypes DEF TypeInv, WorkType, EndGroup, WorkerStates
<1>3. MemType'
  BY <1>e, EnterTypes DEF TypeInv, MemType, EndGroup
<1>4. SetType'
  BY DEF TypeInv, SetType, EndGroup
<1>5. ControlInv'
  BY <1>e, EnterTypes, ProcessRigid DEF TypeInv, ControlInv, EndGroup
<1>6. QED BY <1>1, <1>2, <1>3, <1>4, <1>5 DEF TypeInv

LEMMA TypeStep == TypeInv /\ [Next]_vars => TypeInv'
<1> SUFFICES ASSUME TypeInv, [Next]_vars PROVE TypeInv'
  OBVIOUS
<1>1. CASE KickoffEmpty \/ Kickoff \/ CancelParent
  BY <1>1, TypeKickoffEmpty, TypeKickoff, TypeControl
<1>2. CASE Main
  BY <1>2, TypeControl, TypeSerialTask, TypeOpenWave, TypeScanWave, TypeGroups, TypeSpawn,
     TypeFailures, TypeCommit, TypeFold, TypeEndGroup DEF Main
<1>3. ASSUME NEW t \in Task, Worker(t) PROVE TypeInv'
  BY <1>3, TypeMoves, TypeEnds, TypeSetOutput, TypeAutoSave DEF Worker
<1>4. ASSUME NEW t \in Task, Remember(t) PROVE TypeInv'
  BY <1>4, TypeRemember
<1>5. CASE UNCHANGED vars
  <2>1. MainType' /\ WorkType' /\ MemType' /\ SetType'
    BY <1>5 DEF vars, TypeInv, MainType, WorkType, MemType, SetType
  <2>2. ControlInv'
    BY <1>5, ProcessRigid DEF vars, TypeInv, ControlInv
  <2>3. QED BY <2>1, <2>2 DEF TypeInv
<1>6. QED BY <1>1, <1>2, <1>3, <1>4, <1>5 DEF Next

LEMMA TypeInvariant == Spec => []TypeInv
BY TypeInit, TypeStep, PTL DEF Spec

\* Type correctness of Kickoff's state, for every crew: among others no result
\* slot, error or control state outside the ones the code has, and every error
\* Kickoff returns is one of its errors.
THEOREM TypeCorrect == Spec => []TypeOK
<1>1. TypeInv => TypeOK
  BY TypeParts DEF TypeInv
<1>2. QED BY <1>1, TypeInvariant, PTL
------------------------------------------------------------------------------
(* Goroutines run only inside an open group, and only for its tasks. *)

Quiet(t) == wpc[t] \in {"none", "done"}

QuietInv ==
  /\ pc # "group" => \A t \in Task : Quiet(t)
  /\ \A t \in Task : t \notin Members => Quiet(t)

\* What every step of a worker has in common.
LEMMA WorkerMove ==
  ASSUME NEW t \in Task, Worker(t)
  PROVE  /\ wpc[t] \in {"acquire", "context", "inject", "call", "output", "save", "guard",
                        "record", "cancel"}
         /\ \E l \in {"context", "inject", "call", "output", "save", "guard",
                       "record", "cancel", "done"} : Goto(t, l)
         /\ UNCHANGED <<crew, kick, pc, mainVars, parent, failed, buffering, trace, out, result>>
<1>1. CASE Acquire(t) \/ ReadContext(t) \/ Inject(t) \/ CallOk(t) \/ RecordErr(t) \/ CancelGroup(t)
  BY <1>1 DEF Acquire, ReadContext, Inject, CallOk, RecordErr, CancelGroup
<1>2. CASE AcquireCancelled(t) \/ CallErr(t) \/ Panic(t) \/ Guardrail(t)
  BY <1>2 DEF AcquireCancelled, CallErr, Panic, Guardrail, Finish
<1>3. CASE SetOutput(t) \/ AutoSave(t)
  BY <1>3 DEF SetOutput, AutoSave, Finish
<1>4. QED BY <1>1, <1>2, <1>3 DEF Worker

LEMMA MembersRigid == ASSUME group' = group PROVE Members' = Members
BY DEF Members

\* The steps of the caller that leave the workers and the group alone.
LEMMA QuietKept ==
  ASSUME QuietInv, UNCHANGED <<wpc, group>>, pc' = pc \/ pc # "group"
  PROVE  QuietInv'
BY MembersRigid DEF QuietInv, Quiet

LEMMA QuietStep == TypeInv /\ QuietInv /\ [Next]_vars => QuietInv'
<1> SUFFICES ASSUME TypeInv, QuietInv, [Next]_vars PROVE QuietInv'
  OBVIOUS
<1>1. CASE Kickoff
  BY <1>1 DEF Kickoff, QuietInv, Quiet
<1>2. CASE \/ KickoffEmpty \/ CancelParent \/ Complete \/ SerialNoAgent \/ OpenWave \/ ScanWave
           \/ WaveSorted \/ Commit \/ FoldOk \/ FoldErr \/ FoldEmpty
           \/ \E t \in Task : Remember(t)
  <2>1. UNCHANGED <<wpc, group>> /\ (pc' = pc \/ pc # "group")
    BY <1>2 DEF KickoffEmpty, CancelParent, Complete, SerialNoAgent, OpenWave, ScanWave, WaveSorted,
                Commit, FoldOk, FoldErr, FoldEmpty, Remember
  <2>2. QED BY <2>1, QuietKept
<1>3. CASE SerialTask
  <2>1. Members' = {crew.tasks[pos + 1]}
    BY <1>3 DEF SerialTask, Members
  <2>2. pc' = "group"
    BY <1>3 DEF SerialTask
  <2>3. QED BY <1>3, <2>1, <2>2 DEF SerialTask, QuietInv, Quiet, Enter
<1>4. CASE AsyncGroup \/ SyncGroup \/ StageGroup \/ EndGroup
  <2>1. Enter({})
    BY <1>4 DEF AsyncGroup, SyncGroup, StageGroup, EndGroup, OpenGroup
  <2>2. QED BY <2>1 DEF Enter, QuietInv, Quiet
<1>5. CASE Spawn
  <2>t. group[spawned + 1] \in Members
    BY <1>5 DEF Spawn, Members, TypeInv, MainType
  <2>1. pc' = "group" /\ group' = group
    BY <1>5 DEF Spawn
  <2>2. \A u \in Task : u # group[spawned + 1] => wpc'[u] = wpc[u]
    BY <1>5 DEF Spawn, Goto, TypeInv, WorkType
  <2>3. QED BY <2>t, <2>1, <2>2, MembersRigid DEF QuietInv, Quiet
<1>6. CASE SerialErr \/ Abort \/ StartCommit \/ StartFold
  <2>1. UNCHANGED <<wpc, group>>
    BY <1>6 DEF SerialErr, Abort, StartCommit, StartFold
  <2>2. \A t \in Task : Quiet(t)
    BY <1>6 DEF SerialErr, Abort, StartCommit, StartFold, Joined, QuietInv, Quiet
  <2>3. QED BY <2>1, <2>2, MembersRigid DEF QuietInv, Quiet
<1>7. ASSUME NEW t \in Task, Worker(t) PROVE QuietInv'
  <2>1. ~Quiet(t) /\ UNCHANGED <<pc, group>>
    BY <1>7, WorkerMove DEF Quiet
  <2>2. \A u \in Task \ {t} : wpc'[u] = wpc[u]
    BY <1>7, WorkerMove DEF Goto, TypeInv, WorkType
  <2>3. pc = "group" /\ t \in Members
    BY <2>1 DEF QuietInv
  <2>4. QED BY <2>1, <2>2, <2>3, MembersRigid DEF QuietInv, Quiet
<1>8. CASE UNCHANGED vars
  BY <1>8, QuietKept DEF vars
<1>9. QED BY <1>1, <1>2, <1>3, <1>4, <1>5, <1>6, <1>7, <1>8 DEF Next, Main

LEMMA QuietInit == Init => QuietInv
BY DEF Init, QuietInv, Quiet
------------------------------------------------------------------------------
(* The first error of a group is its root cause. *)

\* Inductive strengthening: the group is cancelled only after a failure has been
\* recorded, so whoever records a cancellation comes second.
CauseInv ==
  /\ cancelled => firstErr # "nil"
  /\ \A t \in Task : wpc[t] = "cancel" => firstErr # "nil"
  /\ \A t \in Task : wpc[t] = "record" /\ werr[t] = "canceled" => parent \/ firstErr # "nil"
  /\ FirstErrIsRootCause

LEMMA CauseInit == Init => CauseInv
BY DEF Init, CauseInv, FirstErrIsRootCause

\* A goroutine ends with a cancellation only when its context is cancelled.
LEMMA CauseFinish ==
  ASSUME TypeInv, CauseInv, NEW t \in Task, NEW e \in Errors \cup {"nil"}, Finish(t, e),
         e = "canceled" => groupDone, UNCHANGED <<errVars, parent>>
  PROVE  CauseInv'
<1>1. PICK l \in {"record", "done"} : Goto(t, l)
  BY DEF Finish
<1>2. \A u \in Task \ {t} : wpc'[u] = wpc[u] /\ werr'[u] = werr[u]
  BY DEF Finish, Goto, TypeInv, WorkType
<1>3. wpc'[t] = l /\ werr'[t] = e
  BY <1>1 DEF Finish, Goto, TypeInv, WorkType
<1>4. e = "canceled" => parent \/ firstErr # "nil"
  BY DEF groupDone, CauseInv
<1>5. QED BY <1>2, <1>3, <1>4 DEF CauseInv, FirstErrIsRootCause

LEMMA CauseStep == TypeInv /\ QuietInv /\ CauseInv /\ [Next]_vars => CauseInv'
<1> SUFFICES ASSUME TypeInv, QuietInv, CauseInv, [Next]_vars PROVE CauseInv'
  OBVIOUS
<1>1. CASE Kickoff
  BY <1>1 DEF Kickoff, QuietInv, Quiet, CauseInv, FirstErrIsRootCause
<1>2. CASE \/ KickoffEmpty \/ CancelParent \/ Complete \/ SerialNoAgent \/ OpenWave \/ ScanWave
           \/ WaveSorted \/ Commit \/ FoldOk \/ FoldErr \/ FoldEmpty \/ SerialErr \/ Abort
           \/ StartCommit \/ StartFold \/ \E t \in Task : Remember(t)
  <2>1. UNCHANGED <<wpc, werr, errVars>> /\ (parent => parent')
    BY <1>2 DEF KickoffEmpty, CancelParent, Complete, SerialNoAgent, OpenWave, ScanWave, WaveSorted,
                Commit, FoldOk, FoldErr, FoldEmpty, SerialErr, Abort, StartCommit, StartFold, Remember
  <2>2. QED BY <2>1 DEF CauseInv, FirstErrIsRootCause
<1>3. CASE SerialTask
  <2>1. UNCHANGED <<errVars, parent>> /\ Enter({crew.tasks[pos + 1]})
    BY <1>3 DEF SerialTask
  <2>2. \A t \in Task : wpc'[t] \in {"context", "none"}
    BY <2>1, EnterTypes
  <2>3. QED BY <2>1, <2>2 DEF CauseInv, FirstErrIsRootCause
<1>4. CASE AsyncGroup \/ SyncGroup \/ StageGroup \/ EndGroup
  <2>1. Enter({}) /\ firstErr' = "nil" /\ cancelled' = FALSE
    BY <1>4 DEF AsyncGroup, SyncGroup, StageGroup, EndGroup, OpenGroup
  <2>2. \A t \in Task : wpc'[t] \in {"context", "none"}
    BY <2>1, EnterTypes
  <2>3. QED BY <2>1, <2>2 DEF CauseInv, FirstErrIsRootCause
<1>5. CASE Spawn
  <2>1. UNCHANGED <<errVars, parent>>
    BY <1>5 DEF Spawn
  <2>2. group[spawned + 1] \in Task
    BY <1>5 DEF Spawn, TypeInv, MainType
  <2>3. \A u \in Task : u # group[spawned + 1] => wpc'[u] = wpc[u] /\ werr'[u] = werr[u]
    BY <1>5 DEF Spawn, Goto, TypeInv, WorkType
  <2>4. \/ wpc'[group[spawned + 1]] = "acquire"
        \/ wpc'[group[spawned + 1]] = "record" /\ werr'[group[spawned + 1]] = "noagent"
    BY <1>5, <2>2 DEF Spawn, Goto, TypeInv, WorkType
  <2>5. QED BY <2>1, <2>2, <2>3, <2>4 DEF CauseInv, FirstErrIsRootCause
<1>6. ASSUME NEW t \in Task, Worker(t) PROVE CauseInv'
  <2>1. CASE AcquireCancelled(t) \/ CallErr(t) \/ Panic(t) \/ Guardrail(t)
    <3>1. UNCHANGED <<errVars, parent>>
      BY <2>1 DEF AcquireCancelled, CallErr, Panic, Guardrail
    <3>2. \E e \in Errors \cup {"nil"} : Finish(t, e) /\ (e = "canceled" => groupDone)
      BY <2>1, CallErrorsType DEF AcquireCancelled, CallErr, CallErrors, Panic, Guardrail, Errors
    <3>3. QED BY <3>1, <3>2, CauseFinish
  <2>2. CASE SetOutput(t) /\ Finish(t, "file")
    <3>1. UNCHANGED <<errVars, parent>> /\ "file" \in Errors
      BY <2>2 DEF SetOutput, Errors
    <3>2. QED BY <2>2, <3>1, CauseFinish
  <2>3. CASE \/ Acquire(t) \/ ReadContext(t) \/ Inject(t) \/ CallOk(t) \/ AutoSave(t)
             \/ SetOutput(t) /\ Goto(t, "save") /\ UNCHANGED werr
    <3>1. UNCHANGED <<errVars, parent, werr>>
      BY <2>3 DEF Acquire, ReadContext, Inject, CallOk, AutoSave, SetOutput
    <3>2. \A u \in Task : wpc'[u] = wpc[u] \/ wpc'[u] \notin {"record", "cancel"}
      BY <2>3 DEF Acquire, ReadContext, Inject, CallOk, AutoSave, Goto, TypeInv, WorkType
    <3>3. QED BY <3>1, <3>2 DEF CauseInv, FirstErrIsRootCause
  <2>4. CASE RecordErr(t)
    <3>1. UNCHANGED <<cancelled, parent, werr>>
      BY <2>4 DEF RecordErr
    <3>2. firstErr' # "nil" /\ (firstErr # "nil" => firstErr' = firstErr)
      BY <2>4 DEF RecordErr, TypeInv, ControlInv
    <3>3. firstErr' = "canceled" => parent
      BY <2>4 DEF RecordErr, CauseInv, FirstErrIsRootCause
    <3>4. QED BY <3>1, <3>2, <3>3 DEF CauseInv, FirstErrIsRootCause
  <2>5. CASE CancelGroup(t)
    <3>1. UNCHANGED <<firstErr, parent, werr>> /\ firstErr # "nil"
      BY <2>5 DEF CancelGroup, CauseInv
    <3>2. QED BY <3>1 DEF CauseInv, FirstErrIsRootCause
  <2>6. QED BY <1>6, <2>1, <2>2, <2>3, <2>4, <2>5 DEF Worker, SetOutput
<1>7. CASE UNCHANGED vars
  BY <1>7 DEF vars, CauseInv, FirstErrIsRootCause
<1>8. QED BY <1>1, <1>2, <1>3, <1>4, <1>5, <1>6, <1>7 DEF Next, Main

LEMMA QuietInvariant == Spec => [](TypeInv /\ QuietInv)
BY TypeInit, TypeStep, QuietInit, QuietStep, PTL DEF Spec

\* runTaskGroup: "the returned firstErr is that first failure, not a sibling's
\* context.Canceled triggered by the cancellation", for every crew, every number
\* of workers and every interleaving of their ends.
THEOREM RootCause == Spec => []FirstErrIsRootCause
<1>1. CauseInv => FirstErrIsRootCause
  BY DEF CauseInv
<1>2. QED BY <1>1, TypeInit, TypeStep, QuietInit, QuietStep, CauseInit, CauseStep, PTL DEF Spec

-------------------------------------------------------------------------------
(***************************************************************************)
(* Async waves honour Task.Context: ContextIsFresh for every crew whose    *)
(* waves fail fast or whose tasks all have an agent.                       *)
(***************************************************************************)

\* A task whose agent is nil is neither folded nor marked failed, so without
\* fail-fast its dependents run on nothing: the theorem excludes that case.
AgentsOrFailFast == \A cr \in Crews : cr.failFast \/ cr.agentless = {}

\* A dependency of this task in the crew has produced its output in this Kickoff.
Ready(t) == \A d \in crew.context[t] : InCrew(d) => output[d] = kick

Settled(t) == output[t] = kick \/ t \in failed

\* The tasks of the waves before the open one have run or are marked failed.
ClosedSettled ==
  \A v \in 1..(pos - 1) : \A p \in DOMAIN crew.waves[v] : Settled(crew.waves[v][p])

\* A task of the open wave is settled, queued, in the open group, or still to
\* be sorted.
OpenAccounted ==
  pos > 0 => \A p \in DOMAIN crew.waves[pos] :
    \/ Settled(crew.waves[pos][p])
    \/ In(asyncIdx, crew.waves[pos][p]) \/ In(syncIdx, crew.waves[pos][p])
    \/ crew.waves[pos][p] \in Members
    \/ pc = "scan" /\ p >= scan

QueuedReady ==
  \A t \in Task : In(asyncIdx, t) \/ In(syncIdx, t) \/ t \in Members => Ready(t)

\* What the results slots of the open group stand for.
SlotsFresh ==
  pc \in {"group", "commit", "fold"} =>
    \A t \in Task :
      /\ slot[t] = "ok" \/ wpc[t] \in {"save", "guard"} => output[t] = kick
      /\ wpc[t] \in {"record", "cancel", "done"} =>
           slot[t] \in {"ok", "err"} \/ t \in crew.agentless
      /\ wpc[t] \in {"cancel", "done"} =>
           slot[t] \in {"ok", "err"} \/ firstErr # "nil"

FoldSettles ==
  /\ pc \in {"commit", "fold"} => \A t \in Members : slot[t] \in {"ok", "err"}
  /\ pc = "fold" => \A p \in DOMAIN group : p < fi => Settled(group[p])

SeenFresh ==
  \A t \in Task : Executing(t) => \A d \in crew.context[t] : InCrew(d) => seen[t][d] = kick

WaveInv ==
  /\ crew.planned /\ pos <= Len(crew.waves)
  /\ pc \in {"step", "scan"} => group = <<>>
  /\ ClosedSettled /\ OpenAccounted /\ QueuedReady /\ SlotsFresh /\ FoldSettles /\ SeenFresh

FreshInv == Waves /\ pc # "idle" => WaveInv

\* What every step of this argument assumes before it.
Before == TypeInv /\ QuietInv /\ Waves /\ WaveInv

\* Within a Kickoff outputs and failures only accumulate.
Grows == /\ crew' = crew /\ kick' = kick /\ failed \subseteq failed'
         /\ \A t \in Task : output[t] = kick => output'[t] = kick

LEMMA CrewInTask ==
  ASSUME MainType
  PROVE  /\ \A t \in Task : crew.context[t] \subseteq Task
         /\ crew.waves \in Seq(Seq(Task))
BY CrewsAssumption DEF MainType, CrewType

LEMMA WaveMember ==
  ASSUME MainType, NEW v \in DOMAIN crew.waves, NEW p \in DOMAIN crew.waves[v]
  PROVE  crew.waves[v][p] \in Task
<1>1. crew.waves \in Seq(Seq(Task))
  BY CrewInTask
<1>2. crew.waves[v] \in Seq(Task)
  BY <1>1
<1>3. QED BY <1>2

LEMMA ReadyGrows ==
  ASSUME TypeInv, Grows, NEW t \in Task, Ready(t)
  PROVE  Ready(t)'
<1>1. crew.context[t] \subseteq Task
  BY CrewInTask DEF TypeInv
<1>2. QED BY <1>1 DEF Grows, Ready, InCrew, In

LEMMA SettledGrows ==
  ASSUME Grows, NEW t \in Task, Settled(t)
  PROVE  Settled(t)'
BY DEF Grows, Settled

\* The parts about waves and queues survive every step that leaves the queues
\* and the group alone.
LEMMA QueuesKept ==
  ASSUME Before, Grows, UNCHANGED <<pos, scan, asyncIdx, syncIdx, group>>,
         pc = "scan" => pc' = "scan"
  PROVE  ClosedSettled' /\ OpenAccounted' /\ QueuedReady'
<1>p. pos \in Nat /\ crew' = crew /\ pos <= Len(crew.waves) /\ crew.waves \in Seq(Seq(Task))
  BY CrewInTask DEF Before, TypeInv, MainType, WaveInv, Grows
<1>m. Members' = Members
  BY MembersRigid
<1>1. ClosedSettled'
  <2> SUFFICES ASSUME NEW v \in 1..(pos - 1), NEW p \in DOMAIN crew.waves[v]
               PROVE  Settled(crew.waves[v][p])'
    BY <1>p DEF ClosedSettled
  <2>1. crew.waves[v][p] \in Task
    BY <1>p, WaveMember DEF Before, TypeInv
  <2>2. Settled(crew.waves[v][p])
    BY DEF Before, WaveInv, ClosedSettled
  <2>3. output'[crew.waves[v][p]] = kick' \/ crew.waves[v][p] \in failed'
    BY <2>1, <2>2 DEF Grows, Settled
  <2>4. QED BY <1>p, <2>3 DEF Settled
<1>2. OpenAccounted'
  <2> SUFFICES ASSUME pos > 0, NEW p \in DOMAIN crew.waves[pos]
               PROVE  \/ output'[crew.waves[pos][p]] = kick' \/ crew.waves[pos][p] \in failed'
                      \/ In(asyncIdx, crew.waves[pos][p]) \/ In(syncIdx, crew.waves[pos][p])
                      \/ crew.waves[pos][p] \in Members
                      \/ pc' = "scan" /\ p >= scan
    BY <1>p, <1>m DEF OpenAccounted, Settled, In
  <2>1. crew.waves[pos][p] \in Task
    BY <1>p, WaveMember DEF Before, TypeInv
  <2>2. QED BY <2>1 DEF Before, WaveInv, OpenAccounted, Settled, Grows
<1>3. QueuedReady'
  <2> SUFFICES ASSUME NEW t \in Task, In(asyncIdx, t) \/ In(syncIdx, t) \/ t \in Members
               PROVE  Ready(t)'
    BY <1>m DEF QueuedReady, In
  <2>1. Ready(t)
    BY DEF Before, WaveInv, QueuedReady
  <2>2. QED BY <2>1, ReadyGrows DEF Before
<1>4. QED BY <1>1, <1>2, <1>3

LEMMA FreshKickoff ==
  ASSUME TypeInv, QuietInv, Waves, Kickoff, pc' # "idle"
  PROVE  WaveInv'
<1>1. crew' = crew /\ crew.planned
  BY DEF Kickoff, StartError, Waves
<1>2. pos' = 0 /\ pc' = "step" /\ group' = <<>> /\ asyncIdx' = <<>> /\ syncIdx' = <<>>
      /\ wpc' = wpc
  BY DEF Kickoff
<1>3. pos' <= Len(crew'.waves)
  BY <1>1, <1>2, CrewInTask DEF TypeInv
<1>4. ClosedSettled' /\ OpenAccounted'
  BY <1>2 DEF ClosedSettled, OpenAccounted
<1>5. QueuedReady'
  BY <1>2 DEF QueuedReady, In, Members
<1>6. SlotsFresh' /\ FoldSettles'
  BY <1>2 DEF SlotsFresh, FoldSettles
<1>7. SeenFresh'
  BY <1>2 DEF SeenFresh, Executing, QuietInv, Quiet, Kickoff
<1>8. QED BY <1>1, <1>2, <1>3, <1>4, <1>5, <1>6, <1>7 DEF WaveInv
\* Nothing executes outside an open group.
LEMMA SeenOutside == ASSUME QuietInv, pc # "group" PROVE SeenFresh
BY DEF QuietInv, Quiet, SeenFresh, Executing

LEMMA FreshOpenWave ==
  ASSUME Before, OpenWave, QuietInv'
  PROVE  WaveInv'
<1>p. /\ pos \in Nat /\ pos < Len(crew.waves) /\ crew.waves \in Seq(Seq(Task))
      /\ pos' = pos + 1 /\ scan' = 1 /\ pc' = "scan" /\ group = <<>> /\ crew.planned
      /\ asyncIdx = <<>> /\ syncIdx = <<>>
      /\ UNCHANGED <<crew, kick, asyncIdx, syncIdx, group, failed, output>>
  BY CrewInTask DEF Before, TypeInv, MainType, WaveInv, OpenWave
<1>1. ClosedSettled'
  <2> SUFFICES ASSUME NEW v \in 1..pos, NEW p \in DOMAIN crew.waves[v]
               PROVE  Settled(crew.waves[v][p])
    BY <1>p DEF ClosedSettled, Settled
  <2>1. CASE v < pos
    BY <1>p, <2>1 DEF Before, WaveInv, ClosedSettled
  <2>2. CASE v = pos
    BY <1>p, <2>2 DEF Before, WaveInv, OpenAccounted, In, Members, OpenWave
  <2>3. QED BY <1>p, <2>1, <2>2
<1>2. OpenAccounted'
  <2>1. crew.waves[pos + 1] \in Seq(Task)
    BY <1>p
  <2>2. \A p \in DOMAIN crew.waves[pos + 1] : p >= 1
    BY <2>1
  <2>3. QED BY <1>p, <2>2 DEF OpenAccounted
<1>3. QueuedReady'
  BY <1>p DEF QueuedReady, In, Members
<1>4. SlotsFresh' /\ FoldSettles'
  BY <1>p DEF SlotsFresh, FoldSettles
<1>5. SeenFresh'
  BY <1>p DEF QuietInv, Quiet, SeenFresh, Executing
<1>6. QED BY <1>p, <1>1, <1>2, <1>3, <1>4, <1>5 DEF WaveInv

\* The heart of the argument: a task of the wave without a failed dependency has
\* all of its dependencies in closed waves, which are settled, hence fresh.
LEMMA ScannedReady ==
  ASSUME Before, ScanWave, ~failedUpstream(crew.waves[pos][scan])
  PROVE  Ready(crew.waves[pos][scan])
<1> DEFINE t == crew.waves[pos][scan]
<1>p. /\ crew \in Crews /\ crew.planned /\ pos \in 1..Len(crew.waves)
      /\ crew.waves \in Seq(Seq(Task)) /\ scan \in Nat \ {0} /\ scan <= Len(crew.waves[pos])
  BY CrewInTask DEF Before, TypeInv, MainType, WaveInv, ControlInv, ScanWave
<1>q. pos \in DOMAIN crew.waves /\ scan \in DOMAIN crew.waves[pos]
  <2>1. crew.waves[pos] \in Seq(Task)
    BY <1>p
  <2>2. QED BY <1>p, <2>1
<1> SUFFICES ASSUME NEW d \in crew.context[t], InCrew(d) PROVE output[d] = kick
  BY DEF Ready
<1>1. PICK v \in 1..(pos - 1) : In(crew.waves[v], d)
  <2>1. PlanRespected(crew)
    BY <1>p, PlanAssumption
  <2>2. QED BY <1>q, <2>1 DEF PlanRespected, InCrew
<1>2. Settled(d)
  BY <1>1 DEF In, Before, WaveInv, ClosedSettled
<1>3. d \notin failed
  BY DEF failedUpstream
<1>4. QED BY <1>2, <1>3 DEF Settled

LEMMA InAppend ==
  ASSUME NEW s \in Seq(Task), NEW t \in Task
  PROVE  \A x : In(Append(s, t), x) <=> In(s, x) \/ x = t
<1> DEFINE u == Append(s, t)
<1>1. /\ DOMAIN s = 1..Len(s) /\ DOMAIN u = 1..(Len(s) + 1) /\ Len(s) \in Nat
      /\ u[Len(s) + 1] = t /\ \A a \in 1..Len(s) : u[a] = s[a]
  OBVIOUS
<1> HIDE DEF u
<1>2. \A a : a \in 1..(Len(s) + 1) <=> a \in 1..Len(s) \/ a = Len(s) + 1
  BY <1>1
<1>3. \A x : In(u, x) <=> In(s, x) \/ x = t
  BY <1>1, <1>2 DEF In
<1>4. QED BY <1>3 DEF u

LEMMA FreshScanWave ==
  ASSUME Before, ScanWave, QuietInv'
  PROVE  WaveInv'
<1> DEFINE t == crew.waves[pos][scan]
<1>p. /\ pos \in 1..Len(crew.waves) /\ crew.waves \in Seq(Seq(Task))
      /\ scan \in Nat \ {0} /\ scan <= Len(crew.waves[pos]) /\ pc = "scan" /\ group = <<>>
      /\ asyncIdx \in Seq(Task) /\ syncIdx \in Seq(Task) /\ crew.planned
      /\ scan' = scan + 1
      /\ UNCHANGED <<crew, kick, pc, pos, group, output>>
  BY CrewInTask DEF Before, TypeInv, MainType, WaveInv, ControlInv, ScanWave
<1>g. Grows
  BY DEF Grows, ScanWave
<1>t. t \in Task
  <2>1. crew.waves[pos] \in Seq(Task)
    BY <1>p
  <2>2. QED BY <1>p, <2>1
<1>f. failedUpstream(t) => t \in failed'
  BY DEF ScanWave
<1>a. \A x \in Task : In(asyncIdx', x) <=>
        In(asyncIdx, x) \/ (x = t /\ ~failedUpstream(t) /\ t \in crew.async)
  <2>1. CASE asyncIdx' = Append(asyncIdx, t)
    <3>1. ~failedUpstream(t) /\ t \in crew.async
      <4>1. asyncIdx' # asyncIdx
        BY <1>p, <2>1
      <4>2. QED BY <4>1 DEF ScanWave
    <3>2. QED BY <1>p, <1>t, <2>1, <3>1, InAppend
  <2>2. CASE asyncIdx' = asyncIdx
    <3>1. ~(~failedUpstream(t) /\ t \in crew.async)
      <4>1. asyncIdx # Append(asyncIdx, t)
        BY <1>p
      <4>2. QED BY <2>2, <4>1 DEF ScanWave
    <3>2. QED BY <2>2, <3>1 DEF In
  <2>3. QED BY <2>1, <2>2 DEF ScanWave
<1>s. \A x \in Task : In(syncIdx', x) <=>
        In(syncIdx, x) \/ (x = t /\ ~failedUpstream(t) /\ t \notin crew.async)
  <2>1. CASE syncIdx' = Append(syncIdx, t)
    <3>1. ~failedUpstream(t) /\ t \notin crew.async
      <4>1. syncIdx' # syncIdx
        BY <1>p, <2>1
      <4>2. QED BY <4>1 DEF ScanWave
    <3>2. QED BY <1>p, <1>t, <2>1, <3>1, InAppend
  <2>2. CASE syncIdx' = syncIdx
    <3>1. ~(~failedUpstream(t) /\ t \notin crew.async)
      <4>1. syncIdx # Append(syncIdx, t)
        BY <1>p
      <4>2. QED BY <2>2, <4>1 DEF ScanWave
    <3>2. QED BY <2>2, <3>1 DEF In
  <2>3. QED BY <2>1, <2>2 DEF ScanWave
<1>1. ClosedSettled'
  <2> SUFFICES ASSUME NEW v \in 1..(pos - 1), NEW p \in DOMAIN crew.waves[v]
               PROVE  output[crew.waves[v][p]] = kick \/ crew.waves[v][p] \in failed'
    BY <1>p DEF ClosedSettled, Settled
  <2>1. QED BY <1>g DEF Before, WaveInv, ClosedSettled, Settled, Grows
<1>2. OpenAccounted'
  <2> SUFFICES ASSUME NEW p \in DOMAIN crew.waves[pos]
               PROVE  \/ output[crew.waves[pos][p]] = kick \/ crew.waves[pos][p] \in failed'
                      \/ In(asyncIdx', crew.waves[pos][p]) \/ In(syncIdx', crew.waves[pos][p])
                      \/ p >= scan + 1
    BY <1>p DEF OpenAccounted, Settled, In
  <2>x. crew.waves[pos][p] \in Task /\ p \in Nat
    <3>1. crew.waves[pos] \in Seq(Task)
      BY <1>p
    <3>2. QED BY <3>1
  <2>1. CASE p = scan
    BY <1>f, <1>a, <1>s, <1>t, <2>1
  <2>2. CASE p # scan
    <3>1. \/ Settled(crew.waves[pos][p])
          \/ In(asyncIdx, crew.waves[pos][p]) \/ In(syncIdx, crew.waves[pos][p])
          \/ p >= scan
      BY <1>p DEF Before, WaveInv, OpenAccounted, Members
    <3>2. p >= scan => p >= scan + 1
      BY <1>p, <2>x, <2>2
    <3>3. QED BY <1>a, <1>s, <1>g, <2>x, <3>1, <3>2 DEF Settled, Grows
  <2>3. QED BY <2>1, <2>2
<1>3. QueuedReady'
  <2> SUFFICES ASSUME NEW x \in Task, In(asyncIdx', x) \/ In(syncIdx', x)
               PROVE  Ready(x)'
    BY <1>p DEF QueuedReady, In, Members
  <2>1. Ready(x)
    BY <1>a, <1>s, ScannedReady DEF Before, WaveInv, QueuedReady
  <2>2. QED BY <1>g, <2>1, ReadyGrows DEF Before
<1>4. SlotsFresh' /\ FoldSettles'
  BY <1>p DEF SlotsFresh, FoldSettles
<1>5. SeenFresh'
  BY <1>p DEF QuietInv, Quiet, SeenFresh, Executing
<1>6. QED BY <1>p, <1>1, <1>2, <1>3, <1>4, <1>5 DEF WaveInv
\* Opening a group with part of the queues: nothing gets lost between them.
LEMMA FreshOpenGroup ==
  ASSUME Before, NEW ts \in Seq(Task), OpenGroup(ts), group = <<>>, pc = "step",
         UNCHANGED <<crew, kick, pos, failed, output>>,
         \A x : In(asyncIdx, x) \/ In(syncIdx, x)
                  <=> In(ts, x) \/ In(asyncIdx', x) \/ In(syncIdx', x)
  PROVE  WaveInv'
<1>o. /\ group' = ts /\ pc' = "group" /\ Enter({}) /\ crew' = crew /\ pos' = pos
      /\ crew.planned /\ pos <= Len(crew.waves)
  BY DEF OpenGroup, Before, WaveInv
<1>m. \A x : x \in Members' <=> In(ts, x)
  BY <1>o DEF Members, In
<1>e. \A t \in Task : wpc'[t] = "none" /\ slot'[t] = "empty"
  BY <1>o DEF Enter
<1>1. ClosedSettled'
  BY <1>o DEF Before, WaveInv, ClosedSettled, Settled
<1>2. OpenAccounted'
  <2> SUFFICES ASSUME pos > 0, NEW p \in DOMAIN crew.waves[pos]
               PROVE  \/ Settled(crew.waves[pos][p])
                      \/ In(asyncIdx', crew.waves[pos][p]) \/ In(syncIdx', crew.waves[pos][p])
                      \/ In(ts, crew.waves[pos][p])
    BY <1>o, <1>m DEF OpenAccounted, Settled, In
  <2>1. QED BY DEF Before, WaveInv, OpenAccounted, Members
<1>3. QueuedReady'
  <2> SUFFICES ASSUME NEW x \in Task, In(asyncIdx', x) \/ In(syncIdx', x) \/ In(ts, x)
               PROVE  Ready(x)'
    BY <1>m DEF QueuedReady, In
  <2>1. Ready(x)
    BY DEF Before, WaveInv, QueuedReady
  <2>2. QED BY <2>1 DEF Ready, InCrew, In
<1>4. SlotsFresh' /\ FoldSettles'
  BY <1>o, <1>e DEF SlotsFresh, FoldSettles
<1>5. SeenFresh'
  BY <1>e DEF SeenFresh, Executing
<1>6. QED BY <1>o, <1>1, <1>2, <1>3, <1>4, <1>5 DEF WaveInv

\* Cutting a sequence in two keeps its elements.
LEMMA InCut ==
  ASSUME NEW s \in Seq(Task), NEW k \in 0..Len(s)
  PROVE  \A x : In(s, x) <=> In(SubSeq(s, 1, k), x) \/ In(SubSeq(s, k + 1, Len(s)), x)
<1> DEFINE u == SubSeq(s, 1, k)  w == SubSeq(s, k + 1, Len(s))
<1>1. /\ DOMAIN s = 1..Len(s) /\ Len(s) \in Nat /\ k \in Nat /\ k <= Len(s)
  OBVIOUS
<1>2. DOMAIN u = 1..k /\ \A a \in 1..k : u[a] = s[a]
  BY <1>1
<1>3. DOMAIN w = 1..(Len(s) - k) /\ \A a \in 1..(Len(s) - k) : w[a] = s[k + a]
  BY <1>1
<1> HIDE DEF u, w
<1>4. \A x : In(u, x) \/ In(w, x) => In(s, x)
  <2>1. \A x : In(u, x) => In(s, x)
    BY <1>1, <1>2 DEF In
  <2>2. ASSUME NEW x, NEW a \in DOMAIN w, w[a] = x PROVE In(s, x)
    <3>1. k + a \in DOMAIN s /\ s[k + a] = x
      BY <1>1, <1>3, <2>2
    <3>2. QED BY <3>1 DEF In
  <2>3. QED BY <2>1, <2>2 DEF In
<1>5. ASSUME NEW x, NEW a \in DOMAIN s, s[a] = x PROVE In(u, x) \/ In(w, x)
  <2>1. CASE a <= k
    BY <1>1, <1>2, <1>5, <2>1 DEF In
  <2>2. CASE a > k
    <3>1. a - k \in DOMAIN w /\ w[a - k] = s[k + (a - k)] /\ k + (a - k) = a
      BY <1>1, <1>3, <2>2
    <3>2. QED BY <1>5, <3>1 DEF In
  <2>3. QED BY <1>1, <2>1, <2>2
<1>6. \A x : In(s, x) <=> In(u, x) \/ In(w, x)
  BY <1>4, <1>5 DEF In
<1>7. QED BY <1>6 DEF u, w

LEMMA FreshAsyncGroup == ASSUME Before, AsyncGroup PROVE WaveInv'
<1>t. asyncIdx \in Seq(Task) /\ crew.maxWorkers \in Nat
  BY CrewFields DEF Before, TypeInv, MainType
<1>c. ChunkLen \in 0..Len(asyncIdx)
  BY <1>t DEF ChunkLen
<1>1. SubSeq(asyncIdx, 1, ChunkLen) \in Seq(Task)
  BY <1>t, <1>c
<1>2. \A x : In(asyncIdx, x) <=> In(SubSeq(asyncIdx, 1, ChunkLen), x)
                                \/ In(SubSeq(asyncIdx, ChunkLen + 1, Len(asyncIdx)), x)
  BY <1>t, <1>c, InCut
<1>3. group = <<>> /\ pc = "step"
  BY DEF Before, WaveInv, AsyncGroup
<1>4. \A x : In(asyncIdx, x) \/ In(syncIdx, x) <=>
        In(SubSeq(asyncIdx, 1, ChunkLen), x) \/ In(asyncIdx', x) \/ In(syncIdx', x)
  BY <1>2 DEF AsyncGroup
<1>5. OpenGroup(SubSeq(asyncIdx, 1, ChunkLen)) /\ UNCHANGED <<crew, kick, pos, failed, output>>
  BY DEF AsyncGroup
<1>6. QED BY <1>1, <1>3, <1>4, <1>5, FreshOpenGroup

LEMMA FreshSyncGroup == ASSUME Before, SyncGroup PROVE WaveInv'
<1>t. syncIdx \in Seq(Task) /\ syncIdx # <<>>
  BY DEF Before, TypeInv, MainType, SyncGroup
<1>1. <<Head(syncIdx)>> \in Seq(Task)
  BY <1>t
<1>2. \A x : In(syncIdx, x) <=> In(<<Head(syncIdx)>>, x) \/ In(Tail(syncIdx), x)
  <2>1. 1 \in 0..Len(syncIdx)
    BY <1>t
  <2>2. \A x : In(SubSeq(syncIdx, 1, 1), x) <=> x = Head(syncIdx)
    <3> DEFINE u == SubSeq(syncIdx, 1, 1)
    <3>1. DOMAIN u = {1} /\ u[1] = Head(syncIdx)
      BY <1>t
    <3> HIDE DEF u
    <3>2. \A x : In(u, x) <=> x = Head(syncIdx)
      BY <3>1 DEF In
    <3>3. QED BY <3>2 DEF u
  <2>3. \A x : In(<<Head(syncIdx)>>, x) <=> x = Head(syncIdx)
    BY DEF In
  <2>4. SubSeq(syncIdx, 1 + 1, Len(syncIdx)) = Tail(syncIdx)
    BY <1>t
  <2>5. \A x : In(syncIdx, x) <=> In(SubSeq(syncIdx, 1, 1), x)
                                 \/ In(SubSeq(syncIdx, 1 + 1, Len(syncIdx)), x)
    BY <1>t, <2>1, InCut
  <2>6. QED BY <2>2, <2>3, <2>4, <2>5
<1>3. group = <<>> /\ pc = "step"
  BY DEF Before, WaveInv, SyncGroup
<1>4. \A x : In(asyncIdx, x) \/ In(syncIdx, x) <=>
        In(<<Head(syncIdx)>>, x) \/ In(asyncIdx', x) \/ In(syncIdx', x)
  BY <1>2 DEF SyncGroup
<1>5. OpenGroup(<<Head(syncIdx)>>) /\ UNCHANGED <<crew, kick, pos, failed, output>>
  BY DEF SyncGroup
<1>6. QED BY <1>1, <1>3, <1>4, <1>5, FreshOpenGroup
LEMMA FreshSpawn == ASSUME Before, Spawn PROVE WaveInv'
<1> DEFINE t == group[spawned + 1]
<1>u. /\ UNCHANGED <<crew, kick, pc, pos, scan, asyncIdx, syncIdx, group, slot, seen, firstErr,
                     failed, output>>
      /\ pc = "group" /\ t \in Task /\ crew.planned /\ pos <= Len(crew.waves)
  BY DEF Spawn, Before, WaveInv, TypeInv, MainType
<1>w. /\ \A u \in Task : u # t => wpc'[u] = wpc[u]
      /\ wpc'[t] = "acquire" \/ (wpc'[t] = "record" /\ t \in crew.agentless)
  <2>1. \/ t \in crew.agentless /\ Goto(t, "record")
        \/ Goto(t, "acquire")
    BY DEF Spawn
  <2>2. QED BY <1>u, <2>1 DEF Goto, Before, TypeInv, WorkType
<1> HIDE DEF t
<1>1. ClosedSettled' /\ OpenAccounted' /\ QueuedReady'
  BY <1>u, QueuesKept DEF Grows
<1>2. SlotsFresh'
  BY <1>u, <1>w DEF Before, WaveInv, SlotsFresh
<1>3. FoldSettles'
  BY <1>u DEF FoldSettles
<1>4. SeenFresh'
  BY <1>u, <1>w DEF Before, WaveInv, SeenFresh, Executing, InCrew, In
<1>5. QED BY <1>u, <1>1, <1>2, <1>3, <1>4 DEF WaveInv

\* What the steps of a worker do to slots, outputs and the first error.
LEMMA WorkerEffect ==
  ASSUME TypeInv, NEW t \in Task, Worker(t),
         wpc[t] \in {"save", "guard"} \/ slot[t] = "ok" => output[t] = kick,
         wpc[t] \in {"record", "cancel", "done"} => slot[t] \in {"ok", "err"} \/ t \in crew.agentless
  PROVE  /\ \A u \in Task \ {t} : wpc'[u] = wpc[u] /\ slot'[u] = slot[u] /\ output'[u] = output[u]
                                   /\ seen'[u] = seen[u]
         /\ output'[t] = output[t] \/ output'[t] = kick
         /\ slot'[t] = "ok" \/ wpc'[t] \in {"save", "guard"} => output'[t] = kick
         /\ wpc'[t] \in {"record", "cancel", "done"} =>
              slot'[t] \in {"ok", "err"} \/ t \in crew.agentless
         /\ wpc'[t] \in {"cancel", "done"} => slot'[t] \in {"ok", "err"} \/ firstErr' # "nil"
                                            \/ wpc[t] = "cancel"
         /\ firstErr # "nil" => firstErr' = firstErr
<1>t. /\ wpc \in [Task -> WorkerStates] /\ slot \in [Task -> {"empty", "ok", "err"}]
      /\ output \in [Task -> Nat] /\ seen \in [Task -> [Task -> Nat]]
  BY DEF TypeInv, WorkType, SetType
<1>1. CASE AcquireCancelled(t) \/ CallErr(t) \/ Panic(t)
  <2>1. PICK e : Finish(t, e) /\ e # "nil"
    BY <1>1, CallErrorsType DEF AcquireCancelled, CallErr, Panic, Errors
  <2>2. UNCHANGED <<output, firstErr>>
    BY <1>1 DEF AcquireCancelled, CallErr, Panic
  <2>3. slot'[t] = "err" /\ wpc'[t] \in {"record", "done"}
    BY <1>t, <2>1 DEF Finish, Goto
  <2>4. QED BY <1>t, <2>1, <2>2, <2>3 DEF Finish, Goto
<1>2. CASE Guardrail(t)
  <2>1. PICK e : Finish(t, e)
    BY <1>2 DEF Guardrail
  <2>2. UNCHANGED <<output, firstErr>> /\ output[t] = kick
    BY <1>2 DEF Guardrail
  <2>3. slot'[t] \in {"ok", "err"} /\ wpc'[t] \in {"record", "done"}
    BY <1>t, <2>1 DEF Finish, Goto
  <2>4. QED BY <1>t, <2>1, <2>2, <2>3 DEF Finish, Goto
<1>3. CASE SetOutput(t)
  <2>1. UNCHANGED firstErr /\ output' = [output EXCEPT ![t] = kick]
    BY <1>3 DEF SetOutput
  <2>2. CASE Finish(t, "file")
    BY <1>t, <2>1, <2>2 DEF Finish, Goto
  <2>3. CASE Goto(t, "save") /\ UNCHANGED <<slot, seen>>
    BY <1>t, <2>1, <2>3 DEF Goto
  <2>4. QED BY <1>3, <2>2, <2>3 DEF SetOutput
<1>4. CASE AutoSave(t)
  BY <1>t, <1>4 DEF AutoSave, Goto
<1>5. CASE Acquire(t) \/ ReadContext(t) \/ Inject(t) \/ CallOk(t)
  BY <1>t, <1>5 DEF Acquire, ReadContext, Inject, CallOk, Goto
<1>6. CASE RecordErr(t)
  <2>1. firstErr' # "nil" /\ (firstErr # "nil" => firstErr' = firstErr) /\ UNCHANGED <<slot, output, seen>>
    BY <1>6 DEF RecordErr, TypeInv, ControlInv
  <2>2. wpc[t] = "record" /\ (Goto(t, "cancel") \/ Goto(t, "done"))
    BY <1>6 DEF RecordErr
  <2>3. QED BY <1>t, <2>1, <2>2 DEF Goto
<1>7. CASE CancelGroup(t)
  BY <1>t, <1>7 DEF CancelGroup, Goto
<1>8. QED BY <1>1, <1>2, <1>3, <1>4, <1>5, <1>6, <1>7 DEF Worker

LEMMA FreshWorker == ASSUME Before, NEW t \in Task, Worker(t) PROVE WaveInv'
<1>u. UNCHANGED <<crew, kick, pc, pos, scan, asyncIdx, syncIdx, group, failed>>
  BY WorkerMove
<1>g. pc = "group" /\ t \in Members
  BY WorkerMove DEF Before, QuietInv, Quiet
<1>e. /\ \A u \in Task \ {t} : wpc'[u] = wpc[u] /\ slot'[u] = slot[u] /\ output'[u] = output[u]
                                /\ seen'[u] = seen[u]
      /\ output'[t] = output[t] \/ output'[t] = kick
      /\ slot'[t] = "ok" \/ wpc'[t] \in {"save", "guard"} => output'[t] = kick
      /\ wpc'[t] \in {"record", "cancel", "done"} =>
           slot'[t] \in {"ok", "err"} \/ t \in crew.agentless
      /\ wpc'[t] \in {"cancel", "done"} => slot'[t] \in {"ok", "err"} \/ firstErr' # "nil"
                                         \/ wpc[t] = "cancel"
      /\ firstErr # "nil" => firstErr' = firstErr
  <2>1. /\ wpc[t] \in {"save", "guard"} \/ slot[t] = "ok" => output[t] = kick
        /\ wpc[t] \in {"record", "cancel", "done"} => slot[t] \in {"ok", "err"} \/ t \in crew.agentless
    BY <1>g DEF Before, WaveInv, SlotsFresh
  <2>2. TypeInv
    BY DEF Before
  <2>3. QED BY <2>1, <2>2, WorkerEffect
<1>o. Grows
  BY <1>u, <1>e DEF Grows
<1>1. ClosedSettled' /\ OpenAccounted' /\ QueuedReady'
  BY <1>u, <1>o, QueuesKept
<1>2. SlotsFresh'
  <2>1. wpc[t] = "cancel" => slot[t] \in {"ok", "err"} \/ firstErr # "nil"
    BY <1>g DEF Before, WaveInv, SlotsFresh
  <2>2. wpc[t] = "cancel" => slot'[t] = slot[t]
    BY DEF Worker, Acquire, AcquireCancelled, ReadContext, Inject, CallOk, CallErr, Panic, SetOutput,
           AutoSave, Guardrail, RecordErr, CancelGroup
  <2>3. wpc'[t] \in {"cancel", "done"} => slot'[t] \in {"ok", "err"} \/ firstErr' # "nil"
    BY <1>e, <2>1, <2>2
  <2>4. \A u \in Task \ {t} :
          /\ slot'[u] = "ok" \/ wpc'[u] \in {"save", "guard"} => output'[u] = kick'
          /\ wpc'[u] \in {"record", "cancel", "done"} =>
               slot'[u] \in {"ok", "err"} \/ u \in crew'.agentless
          /\ wpc'[u] \in {"cancel", "done"} =>
               slot'[u] \in {"ok", "err"} \/ firstErr' # "nil"
    BY <1>u, <1>g, <1>e DEF Before, WaveInv, SlotsFresh
  <2>5. QED BY <1>u, <1>e, <2>3, <2>4 DEF SlotsFresh
<1>3. FoldSettles'
  BY <1>u, <1>g DEF FoldSettles
<1>4. SeenFresh'
  <2> SUFFICES ASSUME NEW u \in Task, Executing(u)', NEW d \in crew.context[u], InCrew(d)
               PROVE  seen'[u][d] = kick
    BY <1>u DEF SeenFresh, InCrew, In
  <2>d. d \in Task
    BY CrewInTask DEF Before, TypeInv
  <2>1. CASE u # t
    BY <1>e, <2>1 DEF Before, WaveInv, SeenFresh, Executing
  <2>2. CASE u = t /\ ReadContext(t)
    <3>1. output[d] = kick
      BY <1>g, <2>2 DEF Before, WaveInv, QueuedReady, Ready
    <3>2. seen'[t] = [x \in Task |-> IF x \in crew.context[t] THEN output[x] ELSE 0]
      BY <2>2 DEF ReadContext, Before, TypeInv, WorkType
    <3>3. QED BY <2>d, <2>2, <3>1, <3>2
  <2>3. CASE u = t /\ ~ReadContext(t)
    <3>1. seen' = seen
      BY <2>3 DEF Worker, Acquire, AcquireCancelled, Inject, CallOk, CallErr, Panic, SetOutput,
                  AutoSave, Guardrail, RecordErr, CancelGroup, Finish
    <3>2. Executing(t)
      <4>1. wpc[t] \in {"acquire", "context", "record", "cancel"} =>
              wpc'[t] \in {"context", "record", "cancel", "done"}
        BY <2>3 DEF Worker, Acquire, AcquireCancelled, Inject, CallOk, CallErr, Panic, SetOutput,
                    AutoSave, Guardrail, RecordErr, CancelGroup, Finish, Goto, Before, TypeInv, WorkType
      <4>2. QED BY <2>3, <4>1, WorkerMove DEF Executing
    <3>3. QED BY <2>3, <3>1, <3>2 DEF Before, WaveInv, SeenFresh
  <2>4. QED BY <2>1, <2>2, <2>3
<1>5. QED BY <1>u, <1>g, <1>1, <1>2, <1>3, <1>4 DEF Before, WaveInv
\* The barrier: with fail-fast no slot of a group that is committed is empty
\* (a task without agent records an error); without it no task lacks an agent.
LEMMA FreshStartCommit ==
  ASSUME Before, AgentsOrFailFast, StartCommit, QuietInv'
  PROVE  WaveInv'
<1>u. /\ UNCHANGED <<crew, kick, pos, scan, asyncIdx, syncIdx, group, wpc, slot, seen, firstErr,
                     failed, output>>
      /\ pc = "group" /\ pc' = "commit" /\ crew.planned /\ pos <= Len(crew.waves)
  BY DEF StartCommit, Joined, Before, WaveInv
<1>m. Members' = Members
  BY <1>u, MembersRigid
<1>1. ClosedSettled' /\ OpenAccounted' /\ QueuedReady'
  BY <1>u, QueuesKept DEF Grows
<1>2. SlotsFresh'
  BY <1>u DEF Before, WaveInv, SlotsFresh
<1>3. FoldSettles'
  <2>1. ASSUME NEW t \in Members PROVE slot[t] \in {"ok", "err"}
    <3>1. t \in Task
      BY DEF Members, Before, TypeInv, MainType
    <3>2. wpc[t] = "done"
      BY DEF StartCommit, Joined
    <3>3. slot[t] \in {"ok", "err"} \/ (t \in crew.agentless /\ firstErr # "nil")
      BY <1>u, <3>1, <3>2 DEF Before, WaveInv, SlotsFresh
    <3>4. firstErr # "nil" => ~crew.failFast
      BY DEF StartCommit, FailFast, Before, Waves
    <3>5. crew.failFast \/ crew.agentless = {}
      BY DEF AgentsOrFailFast, Before, TypeInv, MainType
    <3>6. QED BY <3>3, <3>4, <3>5
  <2>2. QED BY <1>u, <1>m, <2>1 DEF FoldSettles
<1>4. SeenFresh'
  BY <1>u DEF QuietInv, Quiet, SeenFresh, Executing
<1>5. QED BY <1>u, <1>1, <1>2, <1>3, <1>4 DEF WaveInv

LEMMA FreshCommit ==
  ASSUME Before, Commit \/ StartFold, QuietInv'
  PROVE  WaveInv'
<1>u. /\ UNCHANGED <<crew, kick, pos, scan, asyncIdx, syncIdx, group, wpc, slot, seen, firstErr,
                     failed, output>>
      /\ pc = "commit" /\ pc' \in {"commit", "fold"} /\ (pc' = "fold" => fi' = 1)
      /\ crew.planned /\ pos <= Len(crew.waves)
  BY DEF Commit, StartFold, Before, WaveInv, Waves, Serial
<1>m. Members' = Members
  BY <1>u, MembersRigid
<1>1. ClosedSettled' /\ OpenAccounted' /\ QueuedReady'
  BY <1>u, QueuesKept DEF Grows
<1>2. SlotsFresh'
  BY <1>u DEF Before, WaveInv, SlotsFresh
<1>3. FoldSettles'
  <2>1. \A t \in Members : slot[t] \in {"ok", "err"}
    BY <1>u DEF Before, WaveInv, FoldSettles
  <2>2. \A p \in DOMAIN group : ~(p < 1)
    BY DEF Before, TypeInv, MainType
  <2>3. QED BY <1>u, <1>m, <2>1, <2>2 DEF FoldSettles
<1>4. SeenFresh'
  BY <1>u DEF QuietInv, Quiet, SeenFresh, Executing
<1>5. QED BY <1>u, <1>1, <1>2, <1>3, <1>4 DEF WaveInv

LEMMA FreshFold ==
  ASSUME Before, FoldOk \/ FoldErr \/ FoldEmpty, QuietInv'
  PROVE  WaveInv'
<1>u. /\ UNCHANGED <<crew, kick, pc, pos, scan, asyncIdx, syncIdx, group, wpc, slot, seen, firstErr,
                     output>>
      /\ pc = "fold" /\ fi' = fi + 1 /\ fi \in 1..Len(group) /\ group \in Seq(Task)
      /\ crew.planned /\ pos <= Len(crew.waves)
  BY DEF FoldOk, FoldErr, FoldEmpty, Before, WaveInv, TypeInv, MainType
<1>m. Members' = Members /\ group[fi] \in Members /\ group[fi] \in Task
  BY <1>u, MembersRigid DEF Members
<1>f. failed \subseteq failed'
  BY DEF FoldOk, FoldErr, FoldEmpty, MarkFailed
<1>s. output[group[fi]] = kick \/ group[fi] \in failed'
  <2>1. slot[group[fi]] \in {"ok", "err"}
    BY <1>u, <1>m DEF Before, WaveInv, FoldSettles
  <2>2. CASE slot[group[fi]] = "ok"
    BY <1>u, <1>m, <2>2 DEF Before, WaveInv, SlotsFresh
  <2>3. CASE slot[group[fi]] = "err"
    <3>1. failed' = failed \cup {group[fi]}
      BY <2>3 DEF FoldOk, FoldErr, FoldEmpty, MarkFailed, Before
    <3>2. QED BY <3>1
  <2>4. QED BY <2>1, <2>2, <2>3
<1>1. ClosedSettled' /\ OpenAccounted' /\ QueuedReady'
  BY <1>u, <1>f, QueuesKept DEF Grows
<1>2. SlotsFresh'
  BY <1>u DEF Before, WaveInv, SlotsFresh
<1>3. FoldSettles'
  <2>1. \A t \in Members : slot[t] \in {"ok", "err"}
    BY <1>u DEF Before, WaveInv, FoldSettles
  <2>2. ASSUME NEW p \in DOMAIN group, p < fi + 1
        PROVE  output[group[p]] = kick \/ group[p] \in failed'
    <3>1. CASE p = fi
      BY <1>s, <3>1
    <3>2. CASE p < fi
      BY <1>u, <1>f, <3>2 DEF Before, WaveInv, FoldSettles, Settled
    <3>3. QED BY <1>u, <2>2, <3>1, <3>2
  <2>3. QED BY <1>u, <1>m, <2>1, <2>2 DEF FoldSettles, Settled
<1>4. SeenFresh'
  BY <1>u DEF QuietInv, Quiet, SeenFresh, Executing
<1>5. QED BY <1>u, <1>1, <1>2, <1>3, <1>4 DEF WaveInv

LEMMA FreshEndGroup == ASSUME Before, EndGroup, QuietInv' PROVE WaveInv'
<1>u. /\ UNCHANGED <<crew, kick, pos, scan, asyncIdx, syncIdx, failed, output>>
      /\ pc = "fold" /\ pc' = "step" /\ group' = <<>> /\ crew.planned /\ pos <= Len(crew.waves)
      /\ group \in Seq(Task) /\ fi \in Nat /\ fi > Len(group)
  BY DEF EndGroup, Before, WaveInv, TypeInv, MainType
<1>s. \A t \in Members : Settled(t)
  <2>1. \A p \in DOMAIN group : p < fi
    BY <1>u
  <2>2. QED BY <1>u, <2>1 DEF Members, Before, WaveInv, FoldSettles
<1>m. Members' = {}
  BY <1>u DEF Members
<1>1. ClosedSettled'
  BY <1>u DEF Before, WaveInv, ClosedSettled, Settled
<1>2. OpenAccounted'
  <2> SUFFICES ASSUME pos > 0, NEW p \in DOMAIN crew.waves[pos]
               PROVE  \/ Settled(crew.waves[pos][p])
                      \/ In(asyncIdx, crew.waves[pos][p]) \/ In(syncIdx, crew.waves[pos][p])
    BY <1>u DEF OpenAccounted, Settled, In
  <2>1. QED BY <1>u, <1>s DEF Before, WaveInv, OpenAccounted
<1>3. QueuedReady'
  <2> SUFFICES ASSUME NEW x \in Task, In(asyncIdx, x) \/ In(syncIdx, x) PROVE Ready(x)'
    BY <1>u, <1>m DEF QueuedReady, In
  <2>1. Ready(x)
    BY DEF Before, WaveInv, QueuedReady
  <2>2. QED BY <1>u, <2>1 DEF Ready, InCrew, In
<1>4. SlotsFresh' /\ FoldSettles'
  BY <1>u DEF SlotsFresh, FoldSettles
<1>5. SeenFresh'
  BY <1>u DEF QuietInv, Quiet, SeenFresh, Executing
<1>6. QED BY <1>u, <1>1, <1>2, <1>3, <1>4, <1>5 DEF WaveInv

\* The end of the scan, and the steps that leave all of this alone.
LEMMA FreshOther ==
  ASSUME Before, QuietInv',
         WaveSorted \/ CancelParent \/ (\E t \in Task : Remember(t)) \/ UNCHANGED vars
  PROVE  WaveInv'
<1>u. /\ UNCHANGED <<crew, kick, pos, scan, asyncIdx, syncIdx, group, fi, wpc, slot, seen, firstErr,
                     failed, output>>
      /\ crew.planned /\ pos <= Len(crew.waves)
      /\ pc' = pc \/ (WaveSorted /\ pc = "scan" /\ pc' = "step")
  BY DEF WaveSorted, CancelParent, Remember, vars, Before, WaveInv
<1>m. Members' = Members
  BY <1>u, MembersRigid
<1>1. ClosedSettled' /\ OpenAccounted' /\ QueuedReady'
  <2>1. CASE pc' = pc
    BY <1>u, <2>1, QueuesKept DEF Grows
  <2>2. CASE WaveSorted /\ pc = "scan" /\ pc' = "step"
    <3>p. /\ pos \in 1..Len(crew.waves) /\ scan \in Nat /\ scan > Len(crew.waves[pos])
          /\ crew.waves[pos] \in Seq(Task)
      BY <2>2, CrewInTask DEF WaveSorted, Before, TypeInv, ControlInv, MainType
    <3>1. ClosedSettled'
      BY <1>u DEF Before, WaveInv, ClosedSettled, Settled
    <3>2. OpenAccounted'
      <4> SUFFICES ASSUME NEW p \in DOMAIN crew.waves[pos]
                   PROVE  \/ Settled(crew.waves[pos][p])
                          \/ In(asyncIdx, crew.waves[pos][p]) \/ In(syncIdx, crew.waves[pos][p])
                          \/ crew.waves[pos][p] \in Members
        BY <1>u, <1>m DEF OpenAccounted, Settled, In
      <4>1. ~(p >= scan)
        BY <3>p
      <4>2. QED BY <3>p, <4>1 DEF Before, WaveInv, OpenAccounted
    <3>3. QueuedReady'
      BY <1>u, <1>m DEF Before, WaveInv, QueuedReady, Ready, InCrew, In
    <3>4. QED BY <3>1, <3>2, <3>3
  <2>3. QED BY <1>u, <2>1, <2>2
<1>2. SlotsFresh'
  BY <1>u DEF Before, WaveInv, SlotsFresh
<1>3. FoldSettles'
  BY <1>u, <1>m DEF Before, WaveInv, FoldSettles, Settled
<1>4. SeenFresh'
  BY <1>u DEF Before, WaveInv, SeenFresh, Executing, InCrew, In
<1>5. pc' \in {"step", "scan"} => group' = <<>>
  BY <1>u DEF Before, WaveInv
<1>6. QED BY <1>u, <1>1, <1>2, <1>3, <1>4, <1>5 DEF WaveInv

LEMMA FreshStep ==
  ASSUME AgentsOrFailFast
  PROVE  TypeInv /\ QuietInv /\ FreshInv /\ [Next]_vars => FreshInv'
<1> SUFFICES ASSUME TypeInv, QuietInv, FreshInv, [Next]_vars, Waves', pc' # "idle"
             PROVE  WaveInv'
  BY DEF FreshInv
<1>w. Waves /\ ~Serial /\ ~Staged
  BY CrewRigid, ProcessRigid DEF Waves, Serial
<1>q. QuietInv'
  BY QuietStep
<1>1. CASE pc = "idle"
  <2>1. \A t \in Task : ~Worker(t) /\ ~Remember(t)
    BY <1>1, WorkerMove DEF QuietInv, Quiet, Remember
  <2>2. Kickoff
    BY <1>1, <2>1 DEF Next, Main, KickoffEmpty, CancelParent, Complete, SerialTask, SerialNoAgent, OpenWave,
       ScanWave, WaveSorted, AsyncGroup, SyncGroup, StageGroup, Spawn, SerialErr, Abort, StartCommit, Joined,
       Commit, StartFold, FoldOk, FoldErr, FoldEmpty, EndGroup, vars
  <2>3. QED BY <1>w, <2>2, FreshKickoff
<1>2. CASE pc # "idle"
  <2>b. Before
    BY <1>w, <1>2 DEF Before, FreshInv
  <2>1. ~Kickoff /\ ~KickoffEmpty /\ ~SerialTask /\ ~SerialNoAgent /\ ~StageGroup
        /\ ~SerialErr /\ ~Complete /\ ~Abort
    BY <1>w, <1>2 DEF Kickoff, KickoffEmpty, SerialTask, SerialNoAgent, StageGroup, SerialErr, Complete,
                      Abort, Return
  <2>2. CASE CancelParent \/ WaveSorted \/ (\E t \in Task : Remember(t)) \/ UNCHANGED vars
    BY <1>q, <2>b, <2>2, FreshOther
  <2>3. CASE \E t \in Task : Worker(t)
    BY <2>b, <2>3, FreshWorker
  <2>4. CASE OpenWave \/ ScanWave \/ AsyncGroup \/ SyncGroup \/ Spawn
    BY <1>q, <2>b, <2>4, FreshOpenWave, FreshScanWave, FreshAsyncGroup, FreshSyncGroup, FreshSpawn
  <2>5. CASE \/ StartCommit \/ Commit \/ StartFold \/ FoldOk \/ FoldErr \/ FoldEmpty \/ EndGroup
    BY <1>q, <2>b, <2>5, FreshStartCommit, FreshCommit, FreshFold, FreshEndGroup
  <2>6. QED BY <2>1, <2>2, <2>3, <2>4, <2>5 DEF Next, Main
<1>3. QED BY <1>1, <1>2

\* "Dependencies (Context) are always honored" (Task.Async): whatever the crew,
\* its wave plan, the failures, the worker cap and the interleaving, a task of an
\* async run executes on outputs of this Kickoff, provided the waves fail fast or
\* every task has an agent.
THEOREM ContextFresh ==
  ASSUME AgentsOrFailFast
  PROVE  Spec => []ContextIsFresh
<1>1. Init => FreshInv
  BY DEF Init, FreshInv
<1>2. TypeInv /\ QuietInv /\ FreshInv /\ [Next]_vars => FreshInv'
  BY FreshStep
<1>3. QuietInv /\ FreshInv => ContextIsFresh
  BY DEF ContextIsFresh, FreshInv, WaveInv, SeenFresh, QuietInv, Quiet, Executing
<1>4. QED BY <1>1, <1>2, <1>3, TypeInit, TypeStep, QuietInit, QuietStep, PTL DEF Spec

-------------------------------------------------------------------------------
(***************************************************************************)
(* The shape of a Kickoff: which group is open in which process, and what  *)
(* is armed while it is.                                                   *)
(***************************************************************************)

\* The group that runs, is committed or is folded.
Open == pc \in {"group", "commit", "fold"}

ShapeInv ==
  /\ buffering <=> pc = "group" /\ ~Serial
  /\ pc \notin {"group", "commit"} \/ Serial => buffer = {}
  /\ Serial => firstErr = "nil"
  /\ Serial => \A t \in Task : wpc[t] \notin {"acquire", "record", "cancel"}
  /\ pc # "idle" => Staged \/ crew.planned
  /\ pc \in {"step", "scan"} => firstErr = "nil" /\ group = <<>>
  /\ Serial => pc \notin {"scan", "commit"}
  /\ ~Waves => asyncIdx = <<>> /\ syncIdx = <<>> /\ pc # "scan"
  /\ Open /\ Serial => pos \in 1..Len(crew.tasks) /\ group = <<crew.tasks[pos]>> /\ spawned = 1
  /\ Open /\ Staged => pos \in 1..Len(crew.stages) /\ group = crew.stages[pos].tasks
  /\ pc # "idle" => /\ Serial => pos <= Len(crew.tasks)
                    /\ Staged => pos <= Len(crew.stages)
                    /\ Waves => pos <= Len(crew.waves)

LEMMA OneProcess ==
  /\ Serial <=> ~Staged /\ ~Waves
  /\ Waves <=> ~Staged /\ ~Serial
BY DEF Serial, Waves

\* On a serial path a worker never waits for a slot and records no group error.
LEMMA SerialWorker ==
  ASSUME TypeInv, ShapeInv, Serial, NEW t \in Task, Worker(t)
  PROVE  /\ firstErr' = "nil" /\ \A u \in Task : wpc'[u] \notin {"acquire", "record", "cancel"}
         /\ buffer' = buffer
<1>1. wpc[t] \notin {"acquire", "record", "cancel"} /\ firstErr = "nil" /\ ~buffering
  BY DEF ShapeInv
<1>2. \E l \in {"context", "inject", "call", "output", "save", "guard", "done"} : Goto(t, l)
  BY <1>1 DEF Worker, Acquire, AcquireCancelled, ReadContext, Inject, CallOk, CallErr, Panic, SetOutput,
              AutoSave, Guardrail, RecordErr, CancelGroup, Finish
<1>3. firstErr' = firstErr /\ buffer' = buffer
  BY <1>1 DEF Worker, Acquire, AcquireCancelled, ReadContext, Inject, CallOk, CallErr, Panic, SetOutput,
              AutoSave, Guardrail, RecordErr, CancelGroup
<1>4. QED BY <1>1, <1>2, <1>3 DEF Goto, TypeInv, WorkType, ShapeInv

LEMMA ShapeInit == Init => ShapeInv
BY DEF Init, ShapeInv, Open

LEMMA ShapeStep == TypeInv /\ QuietInv /\ ShapeInv /\ [Next]_vars => ShapeInv'
<1> SUFFICES ASSUME TypeInv, QuietInv, ShapeInv, [Next]_vars PROVE ShapeInv'
  OBVIOUS
<1>c. crew' = crew /\ (Waves' <=> Waves) /\ (Serial' <=> Serial) /\ (Staged' <=> Staged)
  BY CrewRigid, ProcessRigid
<1>t. /\ pos \in Nat /\ asyncIdx \in Seq(Task) /\ syncIdx \in Seq(Task) /\ group \in Seq(Task)
      /\ crew.tasks \in Seq(Task) /\ crew.waves \in Seq(Seq(Task))
      /\ crew.stages \in Seq([tasks: Seq(Task), optional: BOOLEAN])
  BY CrewFields DEF TypeInv, MainType
<1>1. CASE Kickoff
  <2>1. \A t \in Task : wpc'[t] \in {"none", "done"}
    BY <1>1 DEF Kickoff, QuietInv, Quiet
  <2>2. pc' # "idle" => Staged \/ crew.planned
    BY <1>1 DEF Kickoff, StartError
  <2>3. QED BY <1>1, <1>c, <1>t, <2>1, <2>2 DEF Kickoff, ShapeInv, Open
<1>2. CASE KickoffEmpty \/ CancelParent \/ Complete \/ SerialNoAgent
  BY <1>2, <1>c DEF KickoffEmpty, CancelParent, Complete, SerialNoAgent, Return, ShapeInv, Open
<1>3. CASE SerialTask
  <2>1. Enter({crew.tasks[pos + 1]}) /\ UNCHANGED <<buffering, buffer, firstErr, asyncIdx, syncIdx>>
        /\ pc' = "group" /\ pos' = pos + 1 /\ spawned' = 1
    BY <1>3 DEF SerialTask
  <2>2. \A t \in Task : wpc'[t] \in {"context", "none"}
    BY <2>1, EnterTypes
  <2>3. pos + 1 \in 1..Len(crew.tasks) /\ group' = <<crew.tasks[pos + 1]>> /\ Serial
    BY <1>3, <1>t DEF SerialTask
  <2>4. crew.planned
    BY <1>3, <2>3, OneProcess DEF SerialTask, ShapeInv
  <2>5. QED BY <1>3, <1>c, <2>1, <2>2, <2>3, <2>4, OneProcess DEF SerialTask, ShapeInv, Open
<1>4. CASE OpenWave
  BY <1>4, <1>c, <1>t, OneProcess DEF OpenWave, ShapeInv, Open
<1>5. CASE ScanWave \/ WaveSorted
  <2>1. Waves
    BY <1>5 DEF ScanWave, WaveSorted, TypeInv, ControlInv
  <2>2. QED BY <1>5, <1>c, <1>t, <2>1, OneProcess DEF ScanWave, WaveSorted, ShapeInv, Open
<1>6. CASE AsyncGroup \/ SyncGroup
  <2>1. Waves /\ ~Serial /\ ~Staged
    BY <1>6, OneProcess DEF AsyncGroup, SyncGroup, ShapeInv
  <2>2. Enter({})
    BY <1>6 DEF AsyncGroup, SyncGroup, OpenGroup
  <2>3. QED BY <1>6, <1>c, <1>t, <2>1, <2>2 DEF AsyncGroup, SyncGroup, OpenGroup, ShapeInv, Open
<1>7. CASE StageGroup
  <2>1. ~Waves /\ ~Serial /\ Staged
    BY <1>7, OneProcess DEF StageGroup
  <2>2. pos' = pos + 1 /\ pos + 1 \in 1..Len(crew.stages)
    BY <1>7, <1>t DEF StageGroup
  <2>3. QED BY <1>7, <1>c, <2>1, <2>2 DEF StageGroup, OpenGroup, ShapeInv, Open
<1>8. CASE EndGroup
  <2>1. \A t \in Task : wpc'[t] \in {"context", "none"}
    BY <1>8, EnterTypes DEF EndGroup
  <2>2. QED BY <1>8, <1>c, <2>1 DEF EndGroup, ShapeInv, Open
<1>9. CASE Spawn
  <2>1. ~Serial
    BY <1>9, <1>t DEF Spawn, ShapeInv, Open
  <2>2. UNCHANGED <<pc, pos, group, asyncIdx, syncIdx, firstErr, buffering, buffer>>
    BY <1>9 DEF Spawn
  <2>3. QED BY <1>c, <2>1, <2>2 DEF ShapeInv, Open
<1>10. CASE SerialErr \/ Abort
  BY <1>10, <1>c DEF SerialErr, Abort, Return, ShapeInv, Open
<1>11. CASE StartCommit \/ Commit \/ StartFold
  BY <1>11, <1>c DEF StartCommit, Commit, StartFold, Joined, ShapeInv, Open
<1>12. CASE FoldOk \/ FoldErr \/ FoldEmpty
  BY <1>12, <1>c DEF FoldOk, FoldErr, FoldEmpty, ShapeInv, Open
<1>13. ASSUME NEW t \in Task, Worker(t) PROVE ShapeInv'
  <2>1. UNCHANGED <<pc, mainVars, buffering>>
    BY <1>13, WorkerMove
  <2>2. pc = "group"
    BY <1>13, WorkerMove DEF QuietInv, Quiet
  <2>3. CASE Serial
    BY <1>c, <1>13, <2>1, <2>2, <2>3, SerialWorker DEF ShapeInv, Open
  <2>4. CASE ~Serial
    BY <1>c, <2>1, <2>2, <2>4 DEF ShapeInv, Open
  <2>5. QED BY <2>3, <2>4
<1>14. ASSUME NEW t \in Task, Remember(t) PROVE ShapeInv'
  BY <1>c, <1>14 DEF Remember, ShapeInv, Open
<1>15. CASE UNCHANGED vars
  BY <1>15, <1>c DEF vars, ShapeInv, Open
<1>16. QED
  BY <1>1, <1>2, <1>3, <1>4, <1>5, <1>6, <1>7, <1>8, <1>9, <1>10, <1>11, <1>12, <1>13, <1>14, <1>15
  DEF Next, Main

-------------------------------------------------------------------------------
(***************************************************************************)
(* The agenda of a Kickoff: every task that is still to run is listed      *)
(* ahead, sorted or queued once, and no task of the open group is.         *)
(***************************************************************************)

Once(s) == \A p, q \in DOMAIN s : s[p] = s[q] => p = q

\* No task is in two stages or twice in one.  planWaves refuses a task that is listed
\* twice in Crew.Tasks; nothing checks Crew.Stages, so the theorems assume it.
StagesListOnce ==
  \A cr \in Crews : \A v, w \in DOMAIN cr.stages :
    \A p \in DOMAIN cr.stages[v].tasks, q \in DOMAIN cr.stages[w].tasks :
      cr.stages[v].tasks[p] = cr.stages[w].tasks[q] => v = w /\ p = q

\* In the lists, stages or waves that are not opened yet, or not yet sorted in the
\* open wave.
Later(t) ==
  \/ Serial /\ \E p \in DOMAIN crew.tasks : p > pos /\ crew.tasks[p] = t
  \/ Staged /\ \E v \in DOMAIN crew.stages : v > pos /\ In(crew.stages[v].tasks, t)
  \/ Waves /\ \E v \in DOMAIN crew.waves : v > pos /\ In(crew.waves[v], t)
  \/ pc = "scan" /\ \E p \in DOMAIN crew.waves[pos] : p >= scan /\ crew.waves[pos][p] = t

Queued(t) == In(asyncIdx, t) \/ In(syncIdx, t)

Coming == {t \in Task : Later(t) \/ Queued(t)}

AgendaInv ==
  /\ Once(asyncIdx) /\ Once(syncIdx) /\ Once(group)
  /\ \A t \in Task : In(asyncIdx, t) => t \in crew.async
  /\ \A t \in Task : In(syncIdx, t) => t \notin crew.async
  /\ pc # "idle" => \A t \in Task : Queued(t) => ~Later(t)
  /\ pc # "idle" => Members \cap Coming = {}

\* What a step inside a Kickoff does to the agenda.
Agenda == AgendaInv' /\ Coming' \subseteq Coming /\ Members' \subseteq Members \cup Coming

LEMMA PlanOnce ==
  ASSUME MainType, crew.planned
  PROVE  /\ Once(crew.tasks)
         /\ \A v, w \in DOMAIN crew.waves :
              \A p \in DOMAIN crew.waves[v], q \in DOMAIN crew.waves[w] :
                crew.waves[v][p] = crew.waves[w][q] => v = w /\ p = q
BY PlanAssumption DEF MainType, PlanCovers, Once

LEMMA OnceEmpty == Once(<<>>) /\ \A x : ~In(<<>>, x)
BY DEF Once, In

LEMMA OnceOne == \A x : Once(<<x>>) /\ \A y : In(<<x>>, y) <=> y = x
BY DEF Once, In

LEMMA MembersIn == \A x : x \in Members <=> In(group, x)
BY DEF Members, In

LEMMA OnceAppend ==
  ASSUME NEW s \in Seq(Task), NEW t \in Task, Once(s), ~In(s, t)
  PROVE  Once(Append(s, t))
<1> DEFINE u == Append(s, t)
<1>1. /\ DOMAIN s = 1..Len(s) /\ DOMAIN u = 1..(Len(s) + 1) /\ Len(s) \in Nat
      /\ u[Len(s) + 1] = t /\ \A p \in 1..Len(s) : u[p] = s[p]
  OBVIOUS
<1> HIDE DEF u
<1>2. \A p : p \in 1..(Len(s) + 1) <=> p \in 1..Len(s) \/ p = Len(s) + 1
  BY <1>1
<1>3. Once(u)
  BY <1>1, <1>2 DEF Once, In
<1>4. QED BY <1>3 DEF u

\* A cut of a sequence without repetition: both parts have none and share nothing.
LEMMA OnceCut ==
  ASSUME NEW s \in Seq(Task), NEW k \in 0..Len(s), Once(s)
  PROVE  /\ Once(SubSeq(s, 1, k)) /\ Once(SubSeq(s, k + 1, Len(s)))
         /\ \A x : ~(In(SubSeq(s, 1, k), x) /\ In(SubSeq(s, k + 1, Len(s)), x))
<1> DEFINE u == SubSeq(s, 1, k)  w == SubSeq(s, k + 1, Len(s))
<1>1. DOMAIN s = 1..Len(s) /\ Len(s) \in Nat /\ k \in Nat /\ k <= Len(s)
  OBVIOUS
<1>2. DOMAIN u = 1..k /\ \A p \in 1..k : u[p] = s[p]
  BY <1>1
<1>3. DOMAIN w = 1..(Len(s) - k) /\ \A p \in 1..(Len(s) - k) : w[p] = s[k + p]
  BY <1>1
<1> HIDE DEF u, w
<1>4. \A p \in 1..k : p \in DOMAIN s
  BY <1>1
<1>5. \A p \in 1..(Len(s) - k) : k + p \in DOMAIN s /\ k + p \notin 1..k
  BY <1>1
<1>6. \A p, q \in 1..(Len(s) - k) : k + p = k + q => p = q
  BY <1>1
<1>7. Once(u)
  BY <1>2, <1>4 DEF Once
<1>8. Once(w)
  BY <1>3, <1>5, <1>6 DEF Once
<1>9. ASSUME NEW x, In(u, x), In(w, x) PROVE FALSE
  <2>1. PICK p \in 1..k : s[p] = x
    BY <1>2, <1>9 DEF In
  <2>2. PICK q \in 1..(Len(s) - k) : s[k + q] = x
    BY <1>3, <1>9 DEF In
  <2>3. p = k + q
    BY <2>1, <2>2, <1>4, <1>5 DEF Once
  <2>4. QED BY <2>3, <1>5
<1>10. QED BY <1>7, <1>8, <1>9 DEF u, w

LEMMA AgendaInit == Init => AgendaInv
BY OnceEmpty DEF Init, AgendaInv

\* Steps that leave the agenda alone.
LEMMA AgendaKept ==
  ASSUME AgendaInv, UNCHANGED <<crew, pos, scan, asyncIdx, syncIdx, group>>,
         pc # "idle" \/ pc' = "idle", pc' = "scan" <=> pc = "scan"
  PROVE  Agenda
<1>1. \A t : (Later(t)' <=> Later(t)) /\ (Queued(t)' <=> Queued(t))
  BY ProcessRigid DEF Later, Queued, In
<1>2. Coming' = Coming
  BY <1>1 DEF Coming
<1>3. Members' = Members
  BY MembersRigid
<1>4. AgendaInv'
  BY <1>1, <1>2, <1>3 DEF AgendaInv, Once, In
<1>5. QED BY <1>2, <1>3, <1>4 DEF Agenda

\* Steps that open nothing and sort nothing: group' is empty, less is ahead.
LEMMA AgendaShrinks ==
  ASSUME AgendaInv, UNCHANGED <<crew, asyncIdx, syncIdx>>, group' = <<>>, pc # "idle",
         \A t \in Task : Later(t)' => Later(t)
  PROVE  Agenda
<1>1. \A t : Queued(t)' <=> Queued(t)
  BY DEF Queued, In
<1>2. Coming' \subseteq Coming
  BY <1>1 DEF Coming
<1>3. Members' = {}
  BY DEF Members
<1>4. AgendaInv'
  BY <1>1, <1>3, OnceEmpty DEF AgendaInv, Once, In
<1>5. QED BY <1>2, <1>3, <1>4 DEF Agenda

LEMMA AgendaOpenWave == TypeInv /\ ShapeInv /\ AgendaInv /\ OpenWave => Agenda
<1> SUFFICES ASSUME TypeInv, ShapeInv, AgendaInv, OpenWave PROVE Agenda
  OBVIOUS
<1>1. /\ pos \in Nat /\ pos' = pos + 1 /\ scan' = 1 /\ pc' = "scan" /\ pc = "step" /\ Waves /\ group' = <<>>
      /\ crew.waves \in Seq(Seq(Task)) /\ pos < Len(crew.waves)
      /\ UNCHANGED <<crew, asyncIdx, syncIdx, group>>
  BY CrewFields DEF TypeInv, MainType, ShapeInv, OpenWave
<1>2. ASSUME NEW t \in Task, Later(t)' PROVE Later(t)
  <2>1. pos + 1 \in DOMAIN crew.waves /\ pos + 1 > pos /\ ~Serial /\ ~Staged
    BY <1>1, OneProcess
  <2>2. CASE \E v \in DOMAIN crew.waves : v > pos + 1 /\ In(crew.waves[v], t)
    <3>1. PICK v \in DOMAIN crew.waves : v > pos + 1 /\ In(crew.waves[v], t)
      BY <2>2
    <3>2. v > pos
      BY <1>1, <3>1
    <3>3. QED BY <1>1, <3>1, <3>2 DEF Later
  <2>3. CASE \E p \in DOMAIN crew.waves[pos + 1] : crew.waves[pos + 1][p] = t
    <3>1. In(crew.waves[pos + 1], t)
      BY <2>3 DEF In
    <3>2. QED BY <1>1, <2>1, <3>1 DEF Later
  <2>4. \/ \E v \in DOMAIN crew.waves : v > pos + 1 /\ In(crew.waves[v], t)
        \/ \E p \in DOMAIN crew.waves[pos + 1] : crew.waves[pos + 1][p] = t
    <3>1. crew' = crew /\ pos' = pos + 1 /\ ~Serial' /\ ~Staged'
      BY <1>1, <2>1, ProcessRigid
    <3>2. Later(t)'
      BY <1>2
    <3>3. QED BY <3>1, <3>2 DEF Later, In
  <2>5. QED BY <2>2, <2>3, <2>4
<1>3. QED BY <1>1, <1>2, AgendaShrinks

LEMMA AgendaScanWave == TypeInv /\ ShapeInv /\ AgendaInv /\ ScanWave => Agenda
<1> SUFFICES ASSUME TypeInv, ShapeInv, AgendaInv, ScanWave PROVE Agenda
  OBVIOUS
<1> DEFINE t == crew.waves[pos][scan]
<1>1. /\ pos \in 1..Len(crew.waves) /\ crew.waves \in Seq(Seq(Task)) /\ scan \in Nat \ {0}
      /\ scan <= Len(crew.waves[pos]) /\ pc = "scan" /\ Waves /\ group = <<>>
      /\ asyncIdx \in Seq(Task) /\ syncIdx \in Seq(Task) /\ scan' = scan + 1
      /\ UNCHANGED <<crew, pc, pos, group>>
  BY CrewFields DEF TypeInv, MainType, ControlInv, ShapeInv, ScanWave
<1>2. crew.waves[pos] \in Seq(Task) /\ scan \in DOMAIN crew.waves[pos] /\ t \in Task
      /\ pos \in DOMAIN crew.waves
  <2>1. crew.waves[pos] \in Seq(Task)
    BY <1>1
  <2>2. QED BY <1>1, <2>1
<1>3. crew.planned /\ ~Serial /\ ~Staged
  BY <1>1, OneProcess DEF ShapeInv
<1>4. Later(t)
  BY <1>1, <1>2 DEF Later
<1>5. ~In(asyncIdx, t) /\ ~In(syncIdx, t)
  BY <1>1, <1>2, <1>4 DEF AgendaInv, Queued
<1>6. ASSUME NEW x \in Task, Later(x)' PROVE Later(x) /\ x # t
  <2>1. CASE \E v \in DOMAIN crew.waves : v > pos /\ In(crew.waves[v], x)
    <3>1. PICK v \in DOMAIN crew.waves : v > pos /\ In(crew.waves[v], x)
      BY <2>1
    <3>2. x # t
      <4>1. PICK p \in DOMAIN crew.waves[v] : crew.waves[v][p] = x
        BY <3>1 DEF In
      <4>2. v # pos
        BY <1>1, <3>1
      <4>3. QED BY <1>2, <1>3, <4>1, <4>2, PlanOnce DEF TypeInv
    <3>3. QED BY <1>1, <3>1, <3>2 DEF Later
  <2>2. CASE \E p \in DOMAIN crew.waves[pos] : p >= scan + 1 /\ crew.waves[pos][p] = x
    <3>1. PICK p \in DOMAIN crew.waves[pos] : p >= scan + 1 /\ crew.waves[pos][p] = x
      BY <2>2
    <3>2. p >= scan /\ p # scan
      BY <1>1, <1>2, <3>1
    <3>3. x # t
      BY <1>2, <1>3, <3>1, <3>2, PlanOnce DEF TypeInv
    <3>4. QED BY <1>1, <3>1, <3>2, <3>3 DEF Later
  <2>3. QED BY <1>1, <1>3, <1>6, <2>1, <2>2, ProcessRigid DEF Later, In
<1>7. asyncIdx' = asyncIdx \/ (asyncIdx' = Append(asyncIdx, t) /\ t \in crew.async)
  BY DEF ScanWave
<1>8. syncIdx' = syncIdx \/ (syncIdx' = Append(syncIdx, t) /\ t \notin crew.async)
  BY DEF ScanWave
<1> HIDE DEF t
<1>9. Once(asyncIdx)' /\ Once(syncIdx)'
  BY <1>1, <1>2, <1>5, <1>7, <1>8, OnceAppend DEF AgendaInv, Once
<1>10. \A x \in Task : In(asyncIdx', x) => In(asyncIdx, x) \/ (x = t /\ t \in crew.async)
  BY <1>1, <1>2, <1>7, InAppend
<1>11. \A x \in Task : In(syncIdx', x) => In(syncIdx, x) \/ (x = t /\ t \notin crew.async)
  BY <1>1, <1>2, <1>8, InAppend
<1>12. \A x \in Task : Queued(x)' => Queued(x) \/ x = t
  BY <1>10, <1>11 DEF Queued, In
<1>13. Coming' \subseteq Coming
  BY <1>4, <1>6, <1>12 DEF Coming
<1>14. Members' = {} /\ Once(group)'
  BY <1>1, OnceEmpty DEF Members
<1>15. AgendaInv'
  <2>1. \A x \in Task : In(asyncIdx', x) => x \in crew'.async
    BY <1>1, <1>10 DEF AgendaInv
  <2>2. \A x \in Task : In(syncIdx', x) => x \notin crew'.async
    BY <1>1, <1>11 DEF AgendaInv
  <2>3. \A x \in Task : Queued(x)' => ~Later(x)'
    BY <1>1, <1>6, <1>12 DEF AgendaInv
  <2>4. QED BY <1>9, <1>14, <2>1, <2>2, <2>3 DEF AgendaInv, In
<1>16. QED BY <1>13, <1>14, <1>15 DEF Agenda

\* A group of the Async wave: the head of the queue leaves it.
LEMMA AgendaAsyncGroup == TypeInv /\ ShapeInv /\ AgendaInv /\ AsyncGroup => Agenda
<1> SUFFICES ASSUME TypeInv, ShapeInv, AgendaInv, AsyncGroup PROVE Agenda
  OBVIOUS
<1>1. /\ asyncIdx \in Seq(Task) /\ crew.maxWorkers \in Nat /\ pc = "step" /\ pc' = "group"
      /\ UNCHANGED <<crew, pos, scan, syncIdx>>
  BY CrewFields DEF TypeInv, MainType, AsyncGroup, OpenGroup
<1>2. ChunkLen \in 0..Len(asyncIdx)
  BY <1>1 DEF ChunkLen
<1>3. /\ group' = SubSeq(asyncIdx, 1, ChunkLen)
      /\ asyncIdx' = SubSeq(asyncIdx, ChunkLen + 1, Len(asyncIdx))
  BY DEF AsyncGroup, OpenGroup
<1>4. \A x : In(asyncIdx, x) <=> In(group', x) \/ In(asyncIdx', x)
  BY <1>1, <1>2, <1>3, InCut
<1>5. Once(group') /\ Once(asyncIdx') /\ \A x : ~(In(group', x) /\ In(asyncIdx', x))
  BY <1>1, <1>2, <1>3, OnceCut DEF AgendaInv
<1>6. \A x : x \in Members' <=> In(group', x)
  BY DEF Members, In
<1>7. \A x : (Later(x)' <=> Later(x))
  BY <1>1, ProcessRigid DEF Later, In
<1>8. \A x : Queued(x)' => Queued(x)
  BY <1>1, <1>4 DEF Queued, In
<1>9. \A x : Queued(x)' <=> In(asyncIdx', x) \/ In(syncIdx, x)
  BY <1>1 DEF Queued, In
<1>10. Coming' \subseteq Coming
  BY <1>7, <1>8 DEF Coming
<1>11. Members' \subseteq Coming
  <2>1. ASSUME NEW x \in Members' PROVE In(asyncIdx, x)
    BY <1>4, <1>6
  <2>2. ASSUME NEW x, In(asyncIdx, x) PROVE x \in Task
    BY <1>1, <2>2 DEF In
  <2>3. QED BY <2>1, <2>2 DEF Coming, Queued
<1>12. AgendaInv'
  <2>1. \A x \in Task : In(asyncIdx', x) => x \in crew'.async
    BY <1>1, <1>4 DEF AgendaInv
  <2>2. \A x \in Task : In(syncIdx', x) => x \notin crew'.async
    BY <1>1 DEF AgendaInv
  <2>3. \A x \in Task : Queued(x)' => ~Later(x)'
    BY <1>1, <1>7, <1>8 DEF AgendaInv
  <2>4. ASSUME NEW x \in Members', x \in Coming' PROVE FALSE
    <3>1. x \in Task /\ In(asyncIdx, x) /\ ~In(asyncIdx', x)
      BY <2>4, <1>4, <1>5, <1>6 DEF Coming
    <3>2. ~Later(x)' /\ ~In(syncIdx, x)
      BY <1>1, <1>7, <3>1 DEF AgendaInv, Queued
    <3>3. QED BY <2>4, <1>9, <3>1, <3>2 DEF Coming
  <2>5. Once(syncIdx)'
    BY <1>1 DEF AgendaInv, Once
  <2>6. Once(asyncIdx)' /\ Once(group)'
    BY <1>5 DEF Once
  <2>7. QED BY <2>1, <2>2, <2>3, <2>4, <2>5, <2>6 DEF AgendaInv, In
<1>13. QED BY <1>10, <1>11, <1>12 DEF Agenda

\* A sequence without repetition and its head and tail.
LEMMA OnceHead ==
  ASSUME NEW s \in Seq(Task), s # <<>>, Once(s)
  PROVE  /\ \A x : In(s, x) <=> x = Head(s) \/ In(Tail(s), x)
         /\ Once(Tail(s)) /\ ~In(Tail(s), Head(s))
<1>0. 1 \in 0..Len(s)
  OBVIOUS
<1>1. \A x : In(SubSeq(s, 1, 1), x) <=> x = Head(s)
  <2> DEFINE u == SubSeq(s, 1, 1)
  <2>1. DOMAIN u = {1} /\ u[1] = Head(s)
    OBVIOUS
  <2> HIDE DEF u
  <2>2. \A x : In(u, x) <=> x = Head(s)
    BY <2>1 DEF In
  <2>3. QED BY <2>2 DEF u
<1>2. SubSeq(s, 1 + 1, Len(s)) = Tail(s)
  OBVIOUS
<1>3. \A x : In(s, x) <=> In(SubSeq(s, 1, 1), x) \/ In(SubSeq(s, 1 + 1, Len(s)), x)
  BY <1>0, InCut
<1>4. /\ Once(SubSeq(s, 1 + 1, Len(s)))
      /\ \A x : ~(In(SubSeq(s, 1, 1), x) /\ In(SubSeq(s, 1 + 1, Len(s)), x))
  BY <1>0, OnceCut
<1>5. QED BY <1>1, <1>2, <1>3, <1>4

LEMMA AgendaSyncGroup == TypeInv /\ ShapeInv /\ AgendaInv /\ SyncGroup => Agenda
<1> SUFFICES ASSUME TypeInv, ShapeInv, AgendaInv, SyncGroup PROVE Agenda
  OBVIOUS
<1>1. /\ syncIdx \in Seq(Task) /\ syncIdx # <<>> /\ pc = "step" /\ pc' = "group"
      /\ asyncIdx = <<>> /\ UNCHANGED <<crew, pos, scan, asyncIdx>>
  BY DEF TypeInv, MainType, SyncGroup, OpenGroup
<1>3. group' = <<Head(syncIdx)>> /\ syncIdx' = Tail(syncIdx)
  BY DEF SyncGroup, OpenGroup
<1>5. \A x : In(syncIdx, x) <=> In(group', x) \/ In(syncIdx', x)
  BY <1>1, <1>3, OnceHead, OnceOne DEF AgendaInv
<1>6. Once(syncIdx') /\ \A x : ~(In(group', x) /\ In(syncIdx', x))
  BY <1>1, <1>3, OnceHead, OnceOne DEF AgendaInv
<1>7. \A x : x \in Members' <=> In(group', x)
  BY DEF Members, In
<1>8. \A x : (Later(x)' <=> Later(x))
  BY <1>1, ProcessRigid DEF Later, In
<1>9. \A x : Queued(x)' <=> In(syncIdx', x)
  BY <1>1, OnceEmpty DEF Queued, In
<1>10. Coming' \subseteq Coming
  BY <1>5, <1>8, <1>9 DEF Coming, Queued
<1>m. \A x : In(syncIdx, x) => x \in Task
  BY <1>1 DEF In
<1>11. Members' \subseteq Coming
  BY <1>5, <1>7, <1>m DEF Coming, Queued
<1>12. AgendaInv'
  <2>1. \A x \in Task : In(syncIdx', x) => x \notin crew'.async
    BY <1>1, <1>5 DEF AgendaInv
  <2>2. \A x \in Task : Queued(x)' => ~Later(x)'
    BY <1>1, <1>5, <1>8, <1>9 DEF AgendaInv, Queued
  <2>3. ASSUME NEW x \in Members', x \in Coming' PROVE FALSE
    <3>1. x \in Task /\ In(syncIdx, x) /\ ~In(syncIdx', x)
      BY <2>3, <1>5, <1>6, <1>7 DEF Coming
    <3>2. ~Later(x)'
      BY <1>1, <1>8, <3>1 DEF AgendaInv, Queued
    <3>3. QED BY <2>3, <1>9, <3>1, <3>2 DEF Coming
  <2>4. Once(asyncIdx)' /\ \A x : ~In(asyncIdx', x)
    BY <1>1, OnceEmpty DEF Once, In
  <2>5. Once(syncIdx)' /\ Once(group)'
    BY <1>3, <1>6, OnceOne DEF Once
  <2>6. QED BY <2>1, <2>2, <2>3, <2>4, <2>5 DEF AgendaInv, In
<1>13. QED BY <1>10, <1>11, <1>12 DEF Agenda

\* A group of tasks that were still ahead, where nothing is ever queued.
LEMMA AgendaOpen ==
  ASSUME TypeInv, AgendaInv, asyncIdx = <<>>, syncIdx = <<>>,
         UNCHANGED <<crew, asyncIdx, syncIdx>>,
         NEW ts \in Seq(Task), group' = ts, Once(ts),
         \A x \in Task : In(ts, x) => Later(x) /\ ~Later(x)',
         \A x \in Task : Later(x)' => Later(x)
  PROVE  Agenda
<1>1. \A x : ~Queued(x)'
  BY OnceEmpty DEF Queued, In
<1>2. \A x : x \in Members' <=> In(ts, x)
  BY DEF Members, In
<1>3. \A x : In(ts, x) => x \in Task
  BY DEF In
<1>4. Coming' \subseteq Coming /\ Members' \subseteq Coming
  BY <1>1, <1>2, <1>3 DEF Coming
<1>5. Members' \cap Coming' = {}
  BY <1>1, <1>2 DEF Coming
<1>6. \A x : ~In(asyncIdx', x) /\ ~In(syncIdx', x)
  BY OnceEmpty DEF In
<1>7. Once(asyncIdx)' /\ Once(syncIdx)' /\ Once(group)'
  BY OnceEmpty DEF Once
<1>8. AgendaInv'
  BY <1>1, <1>5, <1>6, <1>7 DEF AgendaInv, In
<1>9. QED BY <1>4, <1>8 DEF Agenda

LEMMA AgendaSerialTask == TypeInv /\ ShapeInv /\ AgendaInv /\ SerialTask => Agenda
<1> SUFFICES ASSUME TypeInv, ShapeInv, AgendaInv, SerialTask PROVE Agenda
  OBVIOUS
<1> DEFINE t == crew.tasks[pos + 1]
<1>1. /\ pos \in Nat /\ crew.tasks \in Seq(Task) /\ pos < Len(crew.tasks) /\ pc = "step" /\ pc' = "group"
      /\ pos' = pos + 1 /\ group' = <<t>> /\ Serial /\ UNCHANGED <<crew, asyncIdx, syncIdx>>
  BY CrewFields DEF TypeInv, MainType, SerialTask
<1>2. pos + 1 \in DOMAIN crew.tasks /\ t \in Task /\ pos + 1 > pos
  BY <1>1
<1>3. crew.planned /\ ~Staged /\ ~Waves /\ asyncIdx = <<>> /\ syncIdx = <<>>
  BY <1>1, OneProcess DEF ShapeInv
<1>4. Once(crew.tasks)
  BY <1>3, PlanOnce DEF TypeInv
<1> HIDE DEF t
<1>5. ASSUME NEW x \in Task, Later(x)' PROVE Later(x) /\ x # t
  <2>1. PICK p \in DOMAIN crew.tasks : p > pos + 1 /\ crew.tasks[p] = x
    BY <1>1, <1>3, <1>5, ProcessRigid DEF Later
  <2>2. p > pos /\ p # pos + 1
    BY <1>1, <2>1
  <2>3. QED BY <1>1, <1>2, <1>4, <2>1, <2>2 DEF Later, Once, t
<1>6. Later(t)
  BY <1>1, <1>2 DEF Later, t
<1>7. <<t>> \in Seq(Task) /\ Once(<<t>>) /\ \A x : In(<<t>>, x) <=> x = t
  BY <1>2, OnceOne
<1>8. QED BY <1>1, <1>2, <1>3, <1>5, <1>6, <1>7, AgendaOpen

LEMMA AgendaStageGroup ==
  ASSUME StagesListOnce, TypeInv, ShapeInv, AgendaInv, StageGroup
  PROVE  Agenda
<1> DEFINE ts == crew.stages[pos + 1].tasks
<1>1. /\ pos \in Nat /\ crew.stages \in Seq([tasks: Seq(Task), optional: BOOLEAN])
      /\ pos < Len(crew.stages) /\ pc = "step" /\ pc' = "group" /\ crew \in Crews
      /\ pos' = pos + 1 /\ group' = ts /\ Staged /\ UNCHANGED <<crew, asyncIdx, syncIdx>>
  BY CrewFields DEF TypeInv, MainType, StageGroup, OpenGroup
<1>2. pos + 1 \in DOMAIN crew.stages /\ pos + 1 > pos
  BY <1>1
<1>3. ts \in Seq(Task)
  <2>1. pos + 1 \in 1..Len(crew.stages)
    BY <1>1
  <2>2. crew.stages[pos + 1] \in [tasks: Seq(Task), optional: BOOLEAN]
    BY <1>1, <2>1, ElementOfSeq
  <2>3. QED BY <2>2
<1>4. ~Serial /\ ~Waves /\ asyncIdx = <<>> /\ syncIdx = <<>>
  BY <1>1, OneProcess DEF ShapeInv
<1>5. Once(ts)
  BY <1>1, <1>2 DEF StagesListOnce, Once
<1>6. ASSUME NEW x \in Task, Later(x)' PROVE Later(x) /\ ~In(ts, x)
  <2>1. PICK v \in DOMAIN crew.stages : v > pos + 1 /\ In(crew.stages[v].tasks, x)
    BY <1>1, <1>4, <1>6, ProcessRigid DEF Later, In
  <2>2. v > pos /\ v # pos + 1
    BY <1>1, <2>1
  <2>3. ~In(ts, x)
    BY <1>1, <1>2, <2>1, <2>2 DEF StagesListOnce, In
  <2>4. QED BY <1>1, <2>1, <2>2, <2>3 DEF Later
<1>7. \A x \in Task : In(ts, x) => Later(x)
  BY <1>1, <1>2 DEF Later
<1> HIDE DEF ts
<1>8. QED BY <1>1, <1>3, <1>4, <1>5, <1>6, <1>7, AgendaOpen

\* One step inside a Kickoff.
LEMMA AgendaMoves ==
  ASSUME StagesListOnce
  PROVE  TypeInv /\ QuietInv /\ ShapeInv /\ AgendaInv /\ [Next]_vars /\ pc # "idle" => Agenda
<1> SUFFICES ASSUME TypeInv, QuietInv, ShapeInv, AgendaInv, [Next]_vars, pc # "idle" PROVE Agenda
  OBVIOUS
<1>1. CASE OpenWave \/ ScanWave \/ AsyncGroup \/ SyncGroup \/ SerialTask \/ StageGroup
  BY <1>1, AgendaOpenWave, AgendaScanWave, AgendaAsyncGroup, AgendaSyncGroup, AgendaSerialTask, AgendaStageGroup
<1>2. CASE WaveSorted
  <2>1. /\ crew.waves[pos] \in Seq(Task) /\ scan \in Nat /\ scan > Len(crew.waves[pos])
        /\ pc = "scan" /\ pc' = "step" /\ group = <<>>
        /\ UNCHANGED <<crew, pos, scan, asyncIdx, syncIdx, group>>
    BY <1>2, CrewFields DEF WaveSorted, TypeInv, MainType, ControlInv, ShapeInv
  <2>2. \A t \in Task : Later(t)' => Later(t)
    BY <2>1, ProcessRigid DEF Later, In
  <2>3. QED BY <2>1, <2>2, AgendaShrinks
<1>3. CASE EndGroup
  <2>1. \A t \in Task : Later(t)' => Later(t)
    BY <1>3, ProcessRigid DEF EndGroup, Later, In
  <2>2. QED BY <1>3, <2>1, AgendaShrinks DEF EndGroup
<1>4. CASE Complete \/ SerialNoAgent \/ SerialErr \/ Abort
  <2>1. /\ UNCHANGED <<crew, pos, scan, asyncIdx, syncIdx, group>>
        /\ pc # "scan" /\ pc' = "idle"
    BY <1>4 DEF Complete, SerialNoAgent, SerialErr, Abort, Joined, Return
  <2>2. QED BY <2>1, AgendaKept
<1>5. CASE \/ CancelParent \/ Spawn \/ StartCommit \/ Commit \/ StartFold \/ FoldOk \/ FoldErr
           \/ FoldEmpty \/ UNCHANGED vars
  <2>1. /\ UNCHANGED <<crew, pos, scan, asyncIdx, syncIdx, group>>
        /\ pc' = "scan" <=> pc = "scan"
    BY <1>5 DEF CancelParent, Spawn, StartCommit, Commit, StartFold, Joined, FoldOk, FoldErr, FoldEmpty, vars
  <2>2. QED BY <2>1, AgendaKept
<1>6. ASSUME NEW t \in Task, Worker(t) \/ Remember(t) PROVE Agenda
  <2>1. UNCHANGED <<crew, pc, pos, scan, asyncIdx, syncIdx, group>>
    BY <1>6, WorkerMove DEF Remember
  <2>2. QED BY <2>1, AgendaKept
<1>7. QED
  BY <1>1, <1>2, <1>3, <1>4, <1>5, <1>6 DEF Next, Main, Kickoff, KickoffEmpty

\* What happens while no Kickoff runs: only a Kickoff.
LEMMA IdleStep ==
  ASSUME TypeInv, QuietInv, [Next]_vars, pc = "idle"
  PROVE  Kickoff \/ KickoffEmpty \/ UNCHANGED vars
<1>1. \A t \in Task : ~Worker(t) /\ ~Remember(t)
  BY WorkerMove DEF QuietInv, Quiet, Remember
<1>2. QED
  BY <1>1 DEF Next, Main, CancelParent, Complete, SerialTask, SerialNoAgent, OpenWave, ScanWave, WaveSorted,
     AsyncGroup, SyncGroup, StageGroup, Spawn, SerialErr, Abort, StartCommit, Joined, Commit, StartFold,
     FoldOk, FoldErr, FoldEmpty, EndGroup

LEMMA AgendaStep ==
  ASSUME StagesListOnce
  PROVE  TypeInv /\ QuietInv /\ ShapeInv /\ AgendaInv /\ [Next]_vars => AgendaInv'
<1> SUFFICES ASSUME TypeInv, QuietInv, ShapeInv, AgendaInv, [Next]_vars PROVE AgendaInv'
  OBVIOUS
<1>1. CASE pc # "idle"
  BY <1>1, AgendaMoves DEF Agenda
<1>2. CASE pc = "idle" /\ Kickoff
  <2>1. group' = <<>> /\ asyncIdx' = <<>> /\ syncIdx' = <<>>
    BY <1>2 DEF Kickoff
  <2>2. Members' = {} /\ \A t : ~Queued(t)'
    BY <2>1 DEF Members, Queued, In
  <2>3. QED BY <2>1, <2>2, OnceEmpty DEF AgendaInv, Queued, Once, In
<1>3. CASE pc = "idle" /\ (KickoffEmpty \/ UNCHANGED vars)
  <2>1. UNCHANGED <<crew, pos, scan, asyncIdx, syncIdx, group, pc>>
    BY <1>3 DEF KickoffEmpty, vars
  <2>2. QED BY <1>3, <2>1, AgendaKept DEF Agenda
<1>4. QED BY <1>1, <1>2, <1>3, IdleStep

-------------------------------------------------------------------------------
(***************************************************************************)
(* The memory of a group stays apart until the group is committed.         *)
(***************************************************************************)

\* This Kickoff's AutoSave entry of t is in the store.
SavedAt(p, t) == store[p].src = "auto" /\ store[p].kick = kick /\ store[p].task = t
AutoSaved(t) == \E p \in DOMAIN store : SavedAt(p, t)

\* The prompts of the open group hold no entry of the group.
InjectedApart ==
  pc = "group" =>
    \A t \in Members : \A p \in DOMAIN injected[t] :
      ~(/\ injected[t][p].src = "auto" /\ injected[t][p].kick = kick
        /\ injected[t][p].task \in Members)

\* Inductive strengthening: whatever is still ahead, and the open group until it is
\* committed, has no entry of this Kickoff in the store.  A serial task is saved at
\* once, after it has read the store.
ApartInv ==
  /\ \A p \in DOMAIN store : store[p].kick <= kick
  /\ pc # "idle" => \A t \in Coming : ~AutoSaved(t)
  /\ pc = "group" => \A t \in Members :
       ~Serial \/ wpc[t] \in {"none", "context", "inject"} => ~AutoSaved(t)
  /\ pc = "idle" /\ firstErr # "nil" => \A t \in Members : ~AutoSaved(t)
  /\ InjectedApart

LEMMA ApartInit == Init => ApartInv
BY DEF Init, ApartInv, InjectedApart

LEMMA SavedSame ==
  ASSUME UNCHANGED <<store, kick>>
  PROVE  \A t : AutoSaved(t)' <=> AutoSaved(t)
BY DEF AutoSaved, SavedAt

LEMMA SavedAppend ==
  ASSUME TypeInv, NEW t \in Task, NEW src \in {"auto", "tool"}, kick' = kick,
         store' = Append(store, Entry(t, src))
  PROVE  /\ \A p \in DOMAIN store : p \in DOMAIN store' /\ store'[p] = store[p]
         /\ DOMAIN store' = 1..(Len(store) + 1) /\ DOMAIN store = 1..Len(store)
         /\ store'[Len(store) + 1] = Entry(t, src)
         /\ \A x : AutoSaved(x)' <=> AutoSaved(x) \/ (src = "auto" /\ x = t)
<1>1. store \in Seq(EntryType) /\ Len(store) \in Nat
  BY DEF TypeInv, MemType
<1> DEFINE e == Entry(t, src)
<1>2. /\ DOMAIN store = 1..Len(store) /\ DOMAIN store' = 1..(Len(store) + 1)
      /\ store'[Len(store) + 1] = e /\ \A p \in 1..Len(store) : store'[p] = store[p]
  BY <1>1
<1>3. e.src = src /\ e.kick = kick /\ e.task = t
  BY DEF Entry
<1> HIDE DEF e
<1>4. \A p : p \in 1..(Len(store) + 1) <=> p \in 1..Len(store) \/ p = Len(store) + 1
  BY <1>1
<1>5. \A x : AutoSaved(x)' <=> AutoSaved(x) \/ (src = "auto" /\ x = t)
  BY <1>2, <1>3, <1>4 DEF AutoSaved, SavedAt
<1>6. QED BY <1>2, <1>4, <1>5 DEF e

\* Steps that leave the store alone.
LEMMA ApartKept ==
  ASSUME ApartInv, Agenda, UNCHANGED <<kick, store>>, pc # "idle",
         Serial' <=> Serial,
         pc' = "group" =>
           /\ pc = "group" => group' = group
           /\ pc # "group" => Members = {}
           /\ \A t \in Members : wpc'[t] \in {"none", "context", "inject"}
                => wpc[t] \in {"none", "context", "inject"}
           /\ InjectedApart',
         pc' = "idle" /\ firstErr' # "nil" => pc = "group" /\ ~Serial /\ group' = group
  PROVE  ApartInv'
<1>1. \A t : AutoSaved(t)' <=> AutoSaved(t)
  BY SavedSame
<1>2. \A p \in DOMAIN store' : store'[p].kick <= kick'
  BY DEF ApartInv
<1>3. pc' # "idle" => \A t \in Coming' : ~AutoSaved(t)'
  BY <1>1 DEF ApartInv, Agenda
<1>4. pc' = "group" => \A t \in Members' :
        ~Serial' \/ wpc'[t] \in {"none", "context", "inject"} => ~AutoSaved(t)'
  <2>1. CASE pc = "group"
    BY <1>1, <2>1, MembersRigid DEF ApartInv
  <2>2. CASE pc # "group"
    BY <1>1, <2>2 DEF ApartInv, Agenda
  <2>3. QED BY <2>1, <2>2
<1>5. pc' = "idle" /\ firstErr' # "nil" => \A t \in Members' : ~AutoSaved(t)'
  BY <1>1, MembersRigid DEF ApartInv
<1>6. QED BY <1>2, <1>3, <1>4, <1>5 DEF ApartInv, InjectedApart

LEMMA InjectedKept ==
  ASSUME InjectedApart, UNCHANGED <<kick, group, injected>>, pc = "group"
  PROVE  InjectedApart'
BY MembersRigid DEF InjectedApart

LEMMA ApartWorker ==
  ASSUME TypeInv, QuietInv, ShapeInv, ApartInv, Agenda, NEW t \in Task, Worker(t)
  PROVE  ApartInv'
<1>1. UNCHANGED <<crew, kick, pc, mainVars>> /\ (Serial' <=> Serial)
  BY WorkerMove, ProcessRigid
<1>2. pc = "group" /\ t \in Members
  BY WorkerMove DEF QuietInv, Quiet
<1>3. \A u \in Task \ {t} : wpc'[u] = wpc[u]
  BY WorkerMove DEF Goto, TypeInv, WorkType
<1>4. Members \subseteq Task
  BY DEF Members, TypeInv, MainType
<1>w. wpc'[t] \in {"none", "context", "inject"} => wpc[t] \in {"none", "context", "inject"} \/ ~Serial
  <2>1. wpc[t] # "acquire" \/ ~Serial
    BY DEF ShapeInv
  <2>3. CASE Acquire(t) \/ ReadContext(t)
    BY <2>1, <2>3 DEF Acquire, ReadContext
  <2>4. CASE ~Acquire(t) /\ ~ReadContext(t)
    BY <2>4 DEF Worker, AcquireCancelled, Inject, CallOk, CallErr, Panic, SetOutput, AutoSave, Guardrail,
                RecordErr, CancelGroup, Finish, Goto, TypeInv, WorkType
  <2>5. QED BY <2>3, <2>4
<1>5. CASE AutoSave(t) /\ Serial
  <2>1. wpc[t] = "save" /\ wpc'[t] = "guard" /\ UNCHANGED injected
    BY <1>5 DEF AutoSave, Goto, TypeInv, WorkType
  <2>2. Members = {t}
    BY <1>2, <1>5 DEF ShapeInv, Open, Members
  <2>3. CASE UNCHANGED store
    <3>1. InjectedApart'
      BY <1>1, <1>2, <2>1, InjectedKept DEF ApartInv
    <3>2. \A u \in Members : wpc'[u] \in {"none", "context", "inject"} => wpc[u] \in {"none", "context", "inject"}
      BY <2>1, <2>2
    <3>3. QED BY <1>1, <1>2, <2>3, <3>1, <3>2, ApartKept
  <2>4. CASE store' = Append(store, Entry(t, "auto"))
    <3>1. /\ \A p \in DOMAIN store : store'[p] = store[p]
          /\ DOMAIN store' = 1..(Len(store) + 1) /\ DOMAIN store = 1..Len(store)
          /\ store'[Len(store) + 1] = Entry(t, "auto")
          /\ \A x : AutoSaved(x)' <=> AutoSaved(x) \/ x = t
      BY <1>1, <2>4, SavedAppend
    <3>2. Entry(t, "auto").kick = kick /\ kick \in Nat /\ Len(store) \in Nat
      BY DEF Entry, TypeInv, MainType, MemType
    <3>3. \A p \in DOMAIN store' : store'[p].kick <= kick'
      <4>1. \A p \in 1..(Len(store) + 1) : p \in 1..Len(store) \/ p = Len(store) + 1
        BY <3>2
      <4>2. kick <= kick
        BY <3>2
      <4>3. QED BY <1>1, <3>1, <3>2, <4>1, <4>2 DEF ApartInv
    <3>4. \A x \in Coming' : ~AutoSaved(x)'
      <4>1. t \notin Coming'
        BY <1>1, <1>2, MembersRigid DEF Agenda, AgendaInv
      <4>2. QED BY <1>2, <3>1, <4>1 DEF Agenda, ApartInv
    <3>5. InjectedApart'
      BY <1>1, <1>2, <2>1, InjectedKept DEF ApartInv
    <3>6. Members' = Members
      BY <1>1, MembersRigid
    <3>7. QED BY <1>1, <1>2, <1>5, <2>1, <2>2, <3>3, <3>4, <3>5, <3>6 DEF ApartInv
  <2>5. QED BY <1>5, <2>3, <2>4 DEF AutoSave, PutAuto
<1>6. CASE ~(AutoSave(t) /\ Serial)
  <2>1. UNCHANGED store
    <3>1. ~Serial => buffering
      BY <1>2 DEF ShapeInv
    <3>2. QED BY <1>6, <3>1 DEF Worker, Acquire, AcquireCancelled, ReadContext, Inject, CallOk, CallErr, Panic,
                                SetOutput, AutoSave, Guardrail, RecordErr, CancelGroup
  <2>2. InjectedApart'
    <3>1. CASE Inject(t) /\ injected' = [injected EXCEPT ![t] = store]
      <4>1. \A u \in Members : ~AutoSaved(u)
        <5>1. CASE Serial
          <6>1. Members = {t} /\ wpc[t] = "inject"
            BY <1>2, <3>1, <5>1 DEF ShapeInv, Open, Members, Inject
          <6>2. QED BY <1>2, <6>1 DEF ApartInv
        <5>2. CASE ~Serial
          BY <1>2, <5>2 DEF ApartInv
        <5>3. QED BY <5>1, <5>2
      <4>2. \A p \in DOMAIN store :
              ~(store[p].src = "auto" /\ store[p].kick = kick /\ store[p].task \in Members)
        BY <4>1 DEF AutoSaved, SavedAt
      <4>3. Members' = Members /\ kick' = kick
        BY <1>1, MembersRigid
      <4>4. \A u \in Members : injected'[u] = IF u = t THEN store ELSE injected[u]
        BY <1>4, <3>1 DEF TypeInv, MemType
      <4>5. QED BY <1>2, <4>2, <4>3, <4>4 DEF ApartInv, InjectedApart
    <3>2. CASE UNCHANGED injected
      BY <1>1, <1>2, <3>2, InjectedKept DEF ApartInv
    <3>3. QED BY <3>1, <3>2 DEF Worker, Acquire, AcquireCancelled, ReadContext, Inject, CallOk, CallErr, Panic,
                                SetOutput, AutoSave, Guardrail, RecordErr, CancelGroup, Finish
  <2>3. \A x : AutoSaved(x)' <=> AutoSaved(x)
    BY <1>1, <2>1, SavedSame
  <2>4. Members' = Members
    BY <1>1, MembersRigid
  <2>5. \A u \in Members' : ~Serial' \/ wpc'[u] \in {"none", "context", "inject"} => ~AutoSaved(u)'
    BY <1>1, <1>2, <1>3, <1>4, <1>w, <2>3, <2>4 DEF ApartInv
  <2>6. \A u \in Coming' : ~AutoSaved(u)'
    BY <1>2, <2>3 DEF ApartInv, Agenda
  <2>7. QED BY <1>1, <1>2, <2>1, <2>2, <2>5, <2>6 DEF ApartInv
<1>7. QED BY <1>5, <1>6

\* The remember tool writes entries of another source.
LEMMA ApartRemember ==
  ASSUME TypeInv, QuietInv, ApartInv, Agenda, NEW t \in Task, Remember(t)
  PROVE  ApartInv'
<1>1. /\ UNCHANGED <<crew, kick, pc, group, wpc, injected, firstErr>> /\ (Serial' <=> Serial)
      /\ store' = Append(store, Entry(t, "tool"))
  BY ProcessRigid DEF Remember
<1>2. pc = "group"
  BY DEF Remember, QuietInv, Quiet
<1>3. /\ \A p \in DOMAIN store : store'[p] = store[p]
      /\ DOMAIN store' = 1..(Len(store) + 1) /\ DOMAIN store = 1..Len(store)
      /\ store'[Len(store) + 1] = Entry(t, "tool")
      /\ \A x : AutoSaved(x)' <=> AutoSaved(x)
  BY <1>1, SavedAppend
<1>4. Entry(t, "tool").kick = kick /\ kick \in Nat /\ Len(store) \in Nat
  BY DEF Entry, TypeInv, MainType, MemType
<1>5. \A p \in DOMAIN store' : store'[p].kick <= kick'
  <2>1. \A p \in 1..(Len(store) + 1) : p \in 1..Len(store) \/ p = Len(store) + 1
    BY <1>4
  <2>2. kick <= kick
    BY <1>4
  <2>3. QED BY <1>1, <1>3, <1>4, <2>1, <2>2 DEF ApartInv
<1>6. InjectedApart'
  BY <1>1, <1>2, InjectedKept DEF ApartInv
<1>7. Members' = Members
  BY <1>1, MembersRigid
<1>8. QED BY <1>1, <1>2, <1>3, <1>5, <1>6, <1>7 DEF ApartInv, Agenda

\* The entries of a group are committed when the group is over.
LEMMA ApartCommit ==
  ASSUME TypeInv, ShapeInv, ApartInv, Agenda, Commit
  PROVE  ApartInv'
<1>1. UNCHANGED <<crew, kick, pc, group>> /\ pc = "commit" /\ (Serial' <=> Serial)
  BY ProcessRigid DEF Commit
<1>2. CASE UNCHANGED store
  BY <1>1, <1>2, ApartKept
<1>3. CASE store' = Append(store, Entry(group[fi], "auto"))
  <2>1. group[fi] \in Task /\ group[fi] \in Members
    BY DEF Commit, TypeInv, MainType, Members
  <2>2. /\ \A p \in DOMAIN store : store'[p] = store[p]
        /\ DOMAIN store' = 1..(Len(store) + 1) /\ DOMAIN store = 1..Len(store)
        /\ store'[Len(store) + 1] = Entry(group[fi], "auto")
        /\ \A x : AutoSaved(x)' <=> AutoSaved(x) \/ x = group[fi]
    BY <1>1, <1>3, <2>1, SavedAppend
  <2>3. Entry(group[fi], "auto").kick = kick /\ kick \in Nat /\ Len(store) \in Nat
    BY DEF Entry, TypeInv, MainType, MemType
  <2>4. \A p \in DOMAIN store' : store'[p].kick <= kick'
    <3>1. \A p \in 1..(Len(store) + 1) : p \in 1..Len(store) \/ p = Len(store) + 1
      BY <2>3
    <3>2. kick <= kick
      BY <2>3
    <3>3. QED BY <1>1, <2>2, <2>3, <3>1, <3>2 DEF ApartInv
  <2>5. group[fi] \notin Coming'
    BY <1>1, <2>1, MembersRigid DEF Agenda, AgendaInv
  <2>6. \A x \in Coming' : ~AutoSaved(x)'
    BY <1>1, <2>2, <2>5 DEF ApartInv, Agenda
  <2>7. QED BY <1>1, <2>4, <2>6 DEF ApartInv, InjectedApart
<1>4. QED BY <1>2, <1>3 DEF Commit, PutAuto

LEMMA ApartStep ==
  ASSUME StagesListOnce
  PROVE  TypeInv /\ QuietInv /\ ShapeInv /\ AgendaInv /\ ApartInv /\ [Next]_vars => ApartInv'
<1> SUFFICES ASSUME TypeInv, QuietInv, ShapeInv, AgendaInv, ApartInv, [Next]_vars PROVE ApartInv'
  OBVIOUS
<1>k. kick \in Nat /\ \A p \in DOMAIN store : store[p].kick \in Nat
  <2>1. store \in Seq(EntryType)
    BY DEF TypeInv, MemType
  <2>2. \A p \in DOMAIN store : store[p] \in EntryType
    BY <2>1
  <2>3. QED BY <2>2 DEF EntryType, TypeInv, MainType
<1>1. CASE pc = "idle" /\ (Kickoff \/ KickoffEmpty)
  <2>1. kick' = kick + 1 /\ (store' = <<>> \/ store' = store)
    BY <1>1 DEF Kickoff, KickoffEmpty
  <2>2. \A p \in DOMAIN store' : store'[p].kick < kick'
    BY <1>k, <2>1 DEF ApartInv
  <2>3. \A p \in DOMAIN store' : store'[p].kick <= kick' /\ store'[p].kick # kick'
    <3>1. \A p \in DOMAIN store' : store'[p].kick \in Nat
      BY <1>k, <2>1
    <3>2. QED BY <1>k, <2>1, <2>2, <3>1
  <2>4. \A t : ~AutoSaved(t)'
    BY <2>3 DEF AutoSaved, SavedAt
  <2>5. pc' # "group"
    BY <1>1 DEF Kickoff, KickoffEmpty
  <2>6. QED BY <2>3, <2>4, <2>5 DEF ApartInv, InjectedApart
<1>2. CASE pc = "idle" /\ UNCHANGED vars
  <2>1. \A t : AutoSaved(t)' <=> AutoSaved(t)
    BY <1>2, SavedSame DEF vars
  <2>2. QED BY <1>2, <2>1, MembersRigid DEF vars, ApartInv, InjectedApart
<1>3. CASE pc # "idle"
  <2>a. Agenda
    BY <1>3, AgendaMoves
  <2>c. Serial' <=> Serial
    BY CrewRigid, ProcessRigid
  <2>1. ASSUME NEW t \in Task, Worker(t) \/ Remember(t) PROVE ApartInv'
    BY <2>a, <2>1, ApartWorker, ApartRemember
  <2>2. CASE Commit
    BY <2>a, <2>2, ApartCommit
  <2>3. CASE \/ OpenWave \/ ScanWave \/ WaveSorted \/ StartCommit \/ StartFold \/ FoldOk \/ FoldErr \/ FoldEmpty
             \/ EndGroup
    <3>1. UNCHANGED <<kick, store>> /\ pc' \notin {"idle", "group"}
      BY <2>3 DEF OpenWave, ScanWave, WaveSorted, StartCommit, StartFold, FoldOk, FoldErr, FoldEmpty, EndGroup
    <3>2. QED BY <1>3, <2>a, <2>c, <3>1, ApartKept
  <2>4. CASE AsyncGroup \/ SyncGroup \/ StageGroup \/ SerialTask
    <3>1. UNCHANGED <<kick, store>> /\ pc' = "group" /\ pc = "step"
      BY <2>4 DEF AsyncGroup, SyncGroup, StageGroup, SerialTask, OpenGroup
    <3>2. Members = {}
      BY <3>1 DEF ShapeInv, Members
    <3>3. \A t \in Task : injected'[t] = <<>>
      BY <2>4 DEF AsyncGroup, SyncGroup, StageGroup, SerialTask, OpenGroup, Enter, NoInjection
    <3>4. InjectedApart'
      <4>1. Members' \subseteq Task
        BY <2>a, <3>2 DEF Agenda, Coming
      <4>2. QED BY <3>3, <4>1 DEF InjectedApart
    <3>5. QED BY <1>3, <2>a, <2>c, <3>1, <3>2, <3>4, ApartKept
  <2>5. CASE Spawn
    <3>1. UNCHANGED <<kick, store, pc, group, injected>> /\ pc = "group"
      BY <2>5 DEF Spawn
    <3>2. group[spawned + 1] \in Task
      BY <2>5 DEF Spawn, TypeInv, MainType
    <3>3. \A t \in Task : wpc'[t] \in {"none", "context", "inject"} => wpc[t] \in {"none", "context", "inject"}
      BY <2>5, <3>2 DEF Spawn, Goto, TypeInv, WorkType
    <3>4. Members \subseteq Task
      BY DEF Members, TypeInv, MainType
    <3>5. InjectedApart'
      BY <3>1, InjectedKept DEF ApartInv
    <3>6. QED BY <1>3, <2>a, <2>c, <3>1, <3>3, <3>4, <3>5, ApartKept
  <2>6. CASE Complete \/ SerialNoAgent \/ SerialErr \/ Abort
    <3>1. UNCHANGED <<kick, store, group, firstErr>> /\ pc' = "idle"
      BY <2>6 DEF Complete, SerialNoAgent, SerialErr, Abort, Return
    <3>2. firstErr # "nil" => pc = "group" /\ ~Serial
      BY <2>6 DEF Complete, SerialNoAgent, SerialErr, Abort, Joined, ShapeInv
    <3>3. QED BY <1>3, <2>a, <2>c, <3>1, <3>2, ApartKept
  <2>7. CASE CancelParent \/ UNCHANGED vars
    <3>1. UNCHANGED <<kick, store, pc, group, injected, wpc, firstErr>>
      BY <2>7 DEF CancelParent, vars
    <3>2. pc = "group" => InjectedApart'
      BY <3>1, InjectedKept DEF ApartInv
    <3>3. QED BY <1>3, <2>a, <2>c, <3>1, <3>2, ApartKept
  <2>8. QED
    BY <1>3, <2>1, <2>2, <2>3, <2>4, <2>5, <2>6, <2>7 DEF Next, Main, Kickoff, KickoffEmpty
<1>4. QED BY <1>1, <1>2, <1>3, IdleStep

\* The part that every argument below assumes.
LEMMA PlanInvariant ==
  ASSUME StagesListOnce
  PROVE  Spec => [](TypeInv /\ QuietInv /\ ShapeInv /\ AgendaInv)
BY TypeInit, TypeStep, QuietInit, QuietStep, ShapeInit, ShapeStep, AgendaInit, AgendaStep, PTL DEF Spec

\* D-M7: whatever the crew, the processes, the failures and the interleaving, no prompt
\* of a group holds an AutoSave entry of the group, an aborted group leaves none in the
\* store, and no group leaves one in the buffer, provided no task is in two stages.
THEOREM MemoryApart ==
  ASSUME StagesListOnce
  PROVE  Spec => []GroupMemoryApart
<1>1. ShapeInv /\ ApartInv => GroupMemoryApart
  <2> SUFFICES ASSUME ShapeInv, ApartInv PROVE GroupMemoryApart
    OBVIOUS
  <2>1. pc \in {"idle", "step", "scan"} => ~buffering /\ buffer = {}
    BY DEF ShapeInv
  <2>2. QED BY <2>1 DEF GroupMemoryApart, ApartInv, InjectedApart, AutoSaved, SavedAt
<1>2. TypeInv /\ QuietInv /\ ShapeInv /\ AgendaInv /\ ApartInv /\ [Next]_vars => ApartInv'
  BY ApartStep
<1>3. QED BY <1>1, <1>2, PlanInvariant, ApartInit, PTL DEF Spec

-------------------------------------------------------------------------------
(***************************************************************************)
(* TasksOutput follows the plan.                                           *)
(***************************************************************************)

Ordered(s) == \A p, q \in DOMAIN s : p < q => PlannedBefore(s[p], s[q])

\* Inductive strengthening: what is folded comes before what is open and what is
\* ahead, the open group before what is ahead, and the queues hold tasks of the open
\* wave, in its order.
OrderInv ==
  /\ FoldFollowsPlan
  /\ pc # "idle" =>
       /\ \A x \in OutTasks : \A u \in Coming : PlannedBefore(x, u)
       /\ \A t \in Members : \A u \in Coming : PlannedBefore(t, u)
       /\ \A x \in OutTasks : \A q \in DOMAIN group :
            pc # "fold" \/ q >= fi => PlannedBefore(x, group[q])
       /\ Ordered(group) /\ Ordered(asyncIdx) /\ Ordered(syncIdx)
       /\ \A t \in Task : Queued(t) => pos \in DOMAIN crew.waves /\ In(crew.waves[pos], t)
       /\ pc = "scan" => \A t \in Task : Queued(t) =>
            \E p \in DOMAIN crew.waves[pos] : p < scan /\ crew.waves[pos][p] = t

LEMMA PlannedIs ==
  ASSUME NEW t, NEW u
  PROVE  /\ Serial => (PlannedBefore(t, u) <=> Lists(crew.tasks, t, u))
         /\ Staged => (PlannedBefore(t, u) <=>
              \E v, w \in DOMAIN crew.stages :
                /\ In(crew.stages[v].tasks, t) /\ In(crew.stages[w].tasks, u)
                /\ v < w \/ (v = w /\ Lists(crew.stages[v].tasks, t, u)))
         /\ Waves => (PlannedBefore(t, u) <=>
              \E v, w \in DOMAIN crew.waves :
                /\ In(crew.waves[v], t) /\ In(crew.waves[w], u)
                /\ \/ v < w
                   \/ v = w /\ t \in crew.async /\ u \notin crew.async
                   \/ /\ v = w /\ Lists(crew.waves[v], t, u)
                      /\ (t \in crew.async <=> u \in crew.async))
BY OneProcess DEF PlannedBefore

StageBefore(c, t, u) ==
  \E v, w \in DOMAIN c.stages :
    /\ In(c.stages[v].tasks, t) /\ In(c.stages[w].tasks, u)
    /\ v < w \/ (v = w /\ Lists(c.stages[v].tasks, t, u))

WaveBefore(c, t, u) ==
  \E v, w \in DOMAIN c.waves :
    /\ In(c.waves[v], t) /\ In(c.waves[w], u)
    /\ \/ v < w
       \/ v = w /\ t \in c.async /\ u \notin c.async
       \/ v = w /\ Lists(c.waves[v], t, u) /\ (t \in c.async <=> u \in c.async)

LEMMA PlannedIn ==
  \A t, u :
    /\ Serial => (PlannedBefore(t, u) <=> Lists(crew.tasks, t, u))
    /\ Staged => (PlannedBefore(t, u) <=> StageBefore(crew, t, u))
    /\ Waves => (PlannedBefore(t, u) <=> WaveBefore(crew, t, u))
<1>1. ASSUME NEW t, NEW u, Serial PROVE PlannedBefore(t, u) <=> Lists(crew.tasks, t, u)
  BY <1>1, PlannedIs
<1>2. ASSUME NEW t, NEW u, Staged PROVE PlannedBefore(t, u) <=> StageBefore(crew, t, u)
  BY <1>2, PlannedIs DEF StageBefore
<1>3. ASSUME NEW t, NEW u, Waves PROVE PlannedBefore(t, u) <=> WaveBefore(crew, t, u)
  BY <1>3, PlannedIs DEF WaveBefore
<1>4. QED BY <1>1, <1>2, <1>3

LEMMA PlannedRigid ==
  ASSUME crew' = crew
  PROVE  \A t, u : PlannedBefore(t, u)' <=> PlannedBefore(t, u)
<1>1. (Serial' <=> Serial) /\ (Staged' <=> Staged) /\ (Waves' <=> Waves)
  BY ProcessRigid
<1>2. (\A t, u :
         /\ Serial => (PlannedBefore(t, u) <=> Lists(crew.tasks, t, u))
         /\ Staged => (PlannedBefore(t, u) <=> StageBefore(crew, t, u))
         /\ Waves => (PlannedBefore(t, u) <=> WaveBefore(crew, t, u)))'
  BY PlannedIn, PTL
<1>3. ASSUME NEW t, NEW u PROVE PlannedBefore(t, u)' <=> PlannedBefore(t, u)
  <2>1. CASE Serial
    BY <1>1, <1>2, <2>1, PlannedIn
  <2>2. CASE Staged
    BY <1>1, <1>2, <2>2, PlannedIn
  <2>3. CASE Waves
    BY <1>1, <1>2, <2>3, PlannedIn
  <2>4. QED BY <2>1, <2>2, <2>3, OneProcess
<1>4. QED BY <1>3

LEMMA OutAppend ==
  ASSUME TypeInv, NEW t \in Task, NEW w, out' = Append(out, [task |-> t, warnings |-> w])
  PROVE  /\ DOMAIN out = 1..Len(out) /\ DOMAIN out' = 1..(Len(out) + 1) /\ Len(out) \in Nat
         /\ \A p \in 1..Len(out) : out'[p] = out[p]
         /\ out'[Len(out) + 1] = [task |-> t, warnings |-> w]
         /\ OutTasks' = OutTasks \cup {t}
<1> DEFINE e == [task |-> t, warnings |-> w]  o == out'
<1>1. out \in Seq([task: Task, warnings: SUBSET Nat]) /\ Len(out) \in Nat
  BY DEF TypeInv, SetType
<1>2. /\ DOMAIN out = 1..Len(out) /\ DOMAIN o = 1..(Len(out) + 1)
      /\ o[Len(out) + 1] = e /\ \A p \in 1..Len(out) : o[p] = out[p]
  BY <1>1
<1>3. e.task = t
  OBVIOUS
<1> HIDE DEF e, o
<1>4. \A p : p \in 1..(Len(out) + 1) <=> p \in 1..Len(out) \/ p = Len(out) + 1
  BY <1>1
<1>5. {o[p].task : p \in DOMAIN o} = OutTasks \cup {t}
  BY <1>2, <1>3, <1>4 DEF OutTasks
<1>6. QED BY <1>1, <1>2, <1>5 DEF e, o, OutTasks

LEMMA OrderInit == Init => OrderInv
BY DEF Init, OrderInv, FoldFollowsPlan

\* Steps that fold nothing, open nothing and sort nothing.
LEMMA OrderKept ==
  ASSUME OrderInv, Agenda, UNCHANGED <<crew, out, pos, scan, asyncIdx, syncIdx>>, pc # "idle",
         group' = group \/ group' = <<>>, pc' = "scan" => pc = "scan",
         pc = "fold" => group' = <<>> \/ (pc' = "fold" /\ fi' >= fi),
         fi \in Nat, fi' \in Nat, group \in Seq(Task)
  PROVE  OrderInv'
<1>1. \A t, u : PlannedBefore(t, u)' <=> PlannedBefore(t, u)
  BY PlannedRigid
<1>2. OutTasks' = OutTasks /\ \A t : Queued(t)' <=> Queued(t)
  BY DEF OutTasks, Queued, In
<1>3. Members' \subseteq Members /\ Coming' \subseteq Coming
  BY DEF Agenda, Members
<1>4. FoldFollowsPlan'
  BY <1>1 DEF OrderInv, FoldFollowsPlan
<1>5. (Ordered(group)' /\ Ordered(asyncIdx)' /\ Ordered(syncIdx)') \/ pc' = "idle"
  BY <1>1 DEF OrderInv, Ordered
<1>6. \A x \in OutTasks : \A q \in DOMAIN group' :
        pc' # "fold" \/ q >= fi' => PlannedBefore(x, group'[q]) \/ pc' = "idle"
  <2>1. ASSUME NEW x \in OutTasks, NEW q \in DOMAIN group', pc' # "idle", pc' # "fold" \/ q >= fi'
        PROVE  PlannedBefore(x, group'[q])
    <3>1. group' = group /\ q \in Nat
      BY <2>1
    <3>2. CASE pc # "fold" \/ q >= fi
      BY <2>1, <3>1, <3>2 DEF OrderInv
    <3>3. CASE pc = "fold" /\ ~(q >= fi)
      BY <2>1, <3>1, <3>3
    <3>4. QED BY <3>2, <3>3
  <2>2. QED BY <2>1
<1>7. QED BY <1>1, <1>2, <1>3, <1>4, <1>5, <1>6 DEF OrderInv, In

LEMMA OrderFoldOk ==
  ASSUME TypeInv, OrderInv, Agenda, FoldOk
  PROVE  OrderInv'
<1> DEFINE t == group[fi]
<1>1. /\ pc = "fold" /\ pc' = "fold" /\ fi \in Nat \ {0} /\ fi' = fi + 1 /\ group \in Seq(Task)
      /\ UNCHANGED <<crew, pos, scan, asyncIdx, syncIdx, group>> /\ fi \in DOMAIN group
  BY DEF FoldOk, TypeInv, MainType
<1>2. t \in Task /\ t \in Members
  BY <1>1 DEF Members
<1>3. /\ DOMAIN out = 1..Len(out) /\ DOMAIN out' = 1..(Len(out) + 1) /\ Len(out) \in Nat
      /\ \A p \in 1..Len(out) : out'[p] = out[p]
      /\ out'[Len(out) + 1].task = t /\ OutTasks' = OutTasks \cup {t}
  BY <1>2, OutAppend DEF FoldOk
<1> HIDE DEF t
<1>4. \A x, u : PlannedBefore(x, u)' <=> PlannedBefore(x, u)
  BY <1>1, PlannedRigid
<1>5. \A x \in OutTasks : PlannedBefore(x, t)
  BY <1>1 DEF OrderInv, t
<1>6. FoldFollowsPlan'
  <2> SUFFICES ASSUME NEW p \in 1..(Len(out) + 1), NEW q \in 1..(Len(out) + 1), p < q
               PROVE  PlannedBefore(out'[p].task, out'[q].task)
    BY <1>3, <1>4 DEF FoldFollowsPlan
  <2>1. p \in 1..Len(out)
    BY <1>3
  <2>2. CASE q \in 1..Len(out)
    BY <1>3, <2>1, <2>2 DEF OrderInv, FoldFollowsPlan
  <2>3. CASE q = Len(out) + 1
    BY <1>3, <1>5, <2>1, <2>3 DEF OutTasks
  <2>4. QED BY <1>3, <2>2, <2>3
<1>7. Members' = Members /\ Coming' \subseteq Coming
  BY <1>1, MembersRigid DEF Agenda
<1>8. \A x \in OutTasks' : \A u \in Coming' : PlannedBefore(x, u)
  BY <1>1, <1>2, <1>3, <1>7 DEF OrderInv
<1>9. ASSUME NEW x \in OutTasks', NEW q \in DOMAIN group, q >= fi + 1 PROVE PlannedBefore(x, group[q])
  <2>1. q \in Nat /\ fi < q /\ q >= fi
    BY <1>1, <1>9
  <2>2. CASE x = t
    BY <1>1, <2>1, <2>2 DEF OrderInv, Ordered, t
  <2>3. CASE x \in OutTasks
    BY <1>1, <2>1, <2>3 DEF OrderInv
  <2>4. QED BY <1>3, <2>2, <2>3
<1>10. \A x : Queued(x)' <=> Queued(x)
  BY <1>1 DEF Queued, In
<1>11. QED BY <1>1, <1>4, <1>6, <1>7, <1>8, <1>9, <1>10 DEF OrderInv, Ordered, In

\* A group that was queued is opened.
LEMMA OrderOpen ==
  ASSUME TypeInv, ShapeInv, OrderInv, Agenda, pc = "step", pc' = "group",
         UNCHANGED <<crew, out>>, Members' \subseteq Coming, pos' \in Nat,
         \A t \in Members' : \A u \in Coming' : PlannedBefore(t, u),
         \A p, q \in DOMAIN group' : p < q => PlannedBefore(group'[p], group'[q]),
         \A p, q \in DOMAIN asyncIdx' : p < q => PlannedBefore(asyncIdx'[p], asyncIdx'[q]),
         \A p, q \in DOMAIN syncIdx' : p < q => PlannedBefore(syncIdx'[p], syncIdx'[q]),
         \A t \in Task : Queued(t)' => pos' = pos /\ Queued(t)
  PROVE  OrderInv'
<1>1. \A x, u : PlannedBefore(x, u)' <=> PlannedBefore(x, u)
  BY PlannedRigid
<1>2. OutTasks' = OutTasks /\ Coming' \subseteq Coming
  BY DEF OutTasks, Agenda
<1>3. FoldFollowsPlan'
  BY <1>1 DEF OrderInv, FoldFollowsPlan
<1>4. \A q \in DOMAIN group' : group'[q] \in Members'
  BY DEF Members
<1>5. \A x \in OutTasks : \A q \in DOMAIN group' : PlannedBefore(x, group'[q])
  BY <1>4 DEF OrderInv
<1>6. \A t \in Task : Queued(t)' => pos' \in DOMAIN crew.waves /\ In(crew.waves[pos'], t)
  BY DEF OrderInv
<1>7. QED BY <1>1, <1>2, <1>3, <1>5, <1>6 DEF OrderInv, Ordered, In

LEMMA OrderSerialTask ==
  ASSUME TypeInv, ShapeInv, OrderInv, Agenda, SerialTask
  PROVE  OrderInv'
<1> DEFINE t == crew.tasks[pos + 1]
<1>1. /\ pos \in Nat /\ crew.tasks \in Seq(Task) /\ pos < Len(crew.tasks) /\ pc = "step" /\ pc' = "group"
      /\ pos' = pos + 1 /\ group' = <<t>> /\ Serial /\ UNCHANGED <<crew, out, asyncIdx, syncIdx>>
  BY CrewFields DEF TypeInv, MainType, SerialTask
<1>2. /\ asyncIdx = <<>> /\ syncIdx = <<>> /\ group = <<>> /\ (Serial' <=> Serial) /\ ~Staged /\ ~Waves
  BY <1>1, OneProcess, ProcessRigid DEF ShapeInv
<1>3. \A u : ~Queued(u)'
  BY <1>1, <1>2, OnceEmpty DEF Queued, In
<1>4. pos + 1 \in DOMAIN crew.tasks /\ Members' = {t}
  BY <1>1 DEF Members
<1>5. \A u \in Coming' : PlannedBefore(t, u)
  <2> SUFFICES ASSUME NEW u \in Coming' PROVE Lists(crew.tasks, t, u)
    BY <1>1, PlannedIs
  <2>1. PICK p \in DOMAIN crew.tasks : p > pos + 1 /\ crew.tasks[p] = u
    BY <1>1, <1>2, <1>3, ProcessRigid DEF Coming, Later
  <2>2. pos + 1 < p
    BY <1>1, <2>1
  <2>3. QED BY <1>4, <2>1, <2>2 DEF Lists
<1>6. Members' \subseteq Coming
  BY <1>2 DEF Agenda, Members
<1> HIDE DEF t
<1>7. DOMAIN group' = {1}
  BY <1>1
<1>8. QED BY <1>1, <1>2, <1>3, <1>4, <1>5, <1>6, <1>7, OrderOpen

LEMMA OrderStageGroup ==
  ASSUME TypeInv, ShapeInv, OrderInv, Agenda, StageGroup
  PROVE  OrderInv'
<1> DEFINE ts == crew.stages[pos + 1].tasks
<1>1. /\ pos \in Nat /\ crew.stages \in Seq([tasks: Seq(Task), optional: BOOLEAN])
      /\ pos < Len(crew.stages) /\ pc = "step" /\ pc' = "group"
      /\ pos' = pos + 1 /\ group' = ts /\ Staged /\ UNCHANGED <<crew, out, asyncIdx, syncIdx>>
  BY CrewFields DEF TypeInv, MainType, StageGroup, OpenGroup
<1>2. asyncIdx = <<>> /\ syncIdx = <<>> /\ group = <<>> /\ ~Serial /\ ~Waves /\ (Staged' <=> Staged)
  BY <1>1, OneProcess, ProcessRigid DEF ShapeInv
<1>3. \A u : ~Queued(u)'
  BY <1>1, <1>2, OnceEmpty DEF Queued, In
<1>4. pos + 1 \in DOMAIN crew.stages
  BY <1>1
<1>5. \A x : x \in Members' <=> In(ts, x)
  BY <1>1 DEF Members, In
<1>6. ASSUME NEW x \in Members', NEW u \in Coming' PROVE PlannedBefore(x, u)
  <2>1. PICK v \in DOMAIN crew.stages : v > pos + 1 /\ In(crew.stages[v].tasks, u)
    BY <1>1, <1>2, <1>3, ProcessRigid DEF Coming, Later, In
  <2>2. pos + 1 < v
    BY <1>1, <2>1
  <2>3. QED BY <1>1, <1>4, <1>5, <2>1, <2>2, PlannedIs
<1>7. ASSUME NEW p \in DOMAIN group', NEW q \in DOMAIN group', p < q
      PROVE  PlannedBefore(group'[p], group'[q])
  <2>1. In(ts, ts[p]) /\ In(ts, ts[q]) /\ Lists(ts, ts[p], ts[q])
    BY <1>1, <1>7 DEF In, Lists
  <2>2. QED BY <1>1, <1>4, <2>1, PlannedIs
<1>8. Members' \subseteq Coming
  BY <1>2 DEF Agenda, Members
<1> HIDE DEF ts
<1>9. QED BY <1>1, <1>2, <1>3, <1>6, <1>7, <1>8, OrderOpen

LEMMA OrderOpenWave ==
  ASSUME TypeInv, ShapeInv, OrderInv, Agenda, OpenWave
  PROVE  OrderInv'
<1>1. /\ asyncIdx' = <<>> /\ syncIdx' = <<>> /\ group' = <<>> /\ UNCHANGED <<crew, out>>
      /\ pc = "step" /\ pc' = "scan"
  BY DEF OpenWave, ShapeInv
<1>2. \A x, u : PlannedBefore(x, u)' <=> PlannedBefore(x, u)
  BY <1>1, PlannedRigid
<1>3. OutTasks' = OutTasks /\ Coming' \subseteq Coming /\ Members' = {}
  BY <1>1 DEF OutTasks, Agenda, Members
<1>4. \A x : ~Queued(x)'
  BY <1>1, OnceEmpty DEF Queued, In
<1>5. FoldFollowsPlan'
  BY <1>1, <1>2 DEF OrderInv, FoldFollowsPlan
<1>6. QED BY <1>1, <1>2, <1>3, <1>4, <1>5 DEF OrderInv, Ordered

LEMMA OrderAppend ==
  ASSUME NEW s \in Seq(Task), NEW t \in Task, Ordered(s),
         \A p \in DOMAIN s : PlannedBefore(s[p], t)
  PROVE  \A p, q \in DOMAIN Append(s, t) : p < q => PlannedBefore(Append(s, t)[p], Append(s, t)[q])
<1> DEFINE u == Append(s, t)
<1>1. /\ DOMAIN s = 1..Len(s) /\ DOMAIN u = 1..(Len(s) + 1) /\ Len(s) \in Nat
      /\ u[Len(s) + 1] = t /\ \A p \in 1..Len(s) : u[p] = s[p]
  OBVIOUS
<1> HIDE DEF u
<1>2. ASSUME NEW p \in DOMAIN u, NEW q \in DOMAIN u, p < q PROVE PlannedBefore(u[p], u[q])
  <2>1. p \in 1..Len(s)
    BY <1>1, <1>2
  <2>2. CASE q \in 1..Len(s)
    BY <1>1, <1>2, <2>1, <2>2 DEF Ordered
  <2>3. CASE q = Len(s) + 1
    BY <1>1, <2>1, <2>3
  <2>4. QED BY <1>1, <2>2, <2>3
<1>3. QED BY <1>2 DEF u

LEMMA OrderScanWave ==
  ASSUME TypeInv, ShapeInv, AgendaInv, OrderInv, Agenda, ScanWave
  PROVE  OrderInv'
<1> DEFINE t == crew.waves[pos][scan]
<1>1. /\ pos \in 1..Len(crew.waves) /\ crew.waves \in Seq(Seq(Task)) /\ scan \in Nat \ {0}
      /\ scan <= Len(crew.waves[pos]) /\ pc = "scan" /\ pc' = "scan" /\ Waves /\ group = <<>>
      /\ asyncIdx \in Seq(Task) /\ syncIdx \in Seq(Task) /\ scan' = scan + 1
      /\ UNCHANGED <<crew, pc, pos, group, out>>
  BY CrewFields DEF TypeInv, MainType, ControlInv, ShapeInv, ScanWave
<1>2. /\ crew.waves[pos] \in Seq(Task) /\ scan \in DOMAIN crew.waves[pos] /\ t \in Task
      /\ pos \in DOMAIN crew.waves /\ In(crew.waves[pos], t)
  <2>1. crew.waves[pos] \in Seq(Task)
    BY <1>1
  <2>2. QED BY <1>1, <2>1 DEF In
<1>3. ASSUME NEW x \in Task, Queued(x) PROVE Lists(crew.waves[pos], x, t) /\ In(crew.waves[pos], x)
  <2>1. PICK p \in DOMAIN crew.waves[pos] : p < scan /\ crew.waves[pos][p] = x
    BY <1>1, <1>3 DEF OrderInv
  <2>2. QED BY <1>2, <2>1 DEF Lists, In
<1>4. asyncIdx' = asyncIdx \/ (asyncIdx' = Append(asyncIdx, t) /\ t \in crew.async)
  BY DEF ScanWave
<1>5. syncIdx' = syncIdx \/ (syncIdx' = Append(syncIdx, t) /\ t \notin crew.async)
  BY DEF ScanWave
<1>6. crew.waves[pos][scan] = t
  OBVIOUS
<1> HIDE DEF t
<1>7. ASSUME t \in crew.async, NEW p \in DOMAIN asyncIdx PROVE PlannedBefore(asyncIdx[p], t)
  <2>1. asyncIdx[p] \in Task /\ In(asyncIdx, asyncIdx[p])
    BY <1>1 DEF In
  <2>2. Queued(asyncIdx[p]) /\ asyncIdx[p] \in crew.async
    BY <2>1 DEF Queued, AgendaInv
  <2>3. QED BY <1>1, <1>2, <1>3, <1>7, <2>1, <2>2, PlannedIs
<1>8. ASSUME t \notin crew.async, NEW p \in DOMAIN syncIdx PROVE PlannedBefore(syncIdx[p], t)
  <2>1. syncIdx[p] \in Task /\ In(syncIdx, syncIdx[p])
    BY <1>1 DEF In
  <2>2. Queued(syncIdx[p]) /\ syncIdx[p] \notin crew.async
    BY <2>1 DEF Queued, AgendaInv
  <2>3. QED BY <1>1, <1>2, <1>3, <1>8, <2>1, <2>2, PlannedIs
<1>9. \A x, u : PlannedBefore(x, u)' <=> PlannedBefore(x, u)
  BY <1>1, PlannedRigid
<1>10. Ordered(asyncIdx)'
  <2>1. Ordered(asyncIdx)
    BY <1>1 DEF OrderInv
  <2>2. \A p, q \in DOMAIN asyncIdx' : p < q => PlannedBefore(asyncIdx'[p], asyncIdx'[q])
    BY <1>1, <1>2, <1>4, <1>7, <2>1, OrderAppend DEF Ordered
  <2>3. QED BY <1>9, <2>2 DEF Ordered
<1>11. Ordered(syncIdx)'
  <2>1. Ordered(syncIdx)
    BY <1>1 DEF OrderInv
  <2>2. \A p, q \in DOMAIN syncIdx' : p < q => PlannedBefore(syncIdx'[p], syncIdx'[q])
    BY <1>1, <1>2, <1>5, <1>8, <2>1, OrderAppend DEF Ordered
  <2>3. QED BY <1>9, <2>2 DEF Ordered
<1>12. \A x \in Task : Queued(x)' => Queued(x) \/ x = t
  <2>1. \A x : In(asyncIdx', x) => In(asyncIdx, x) \/ x = t
    BY <1>1, <1>2, <1>4, InAppend
  <2>2. \A x : In(syncIdx', x) => In(syncIdx, x) \/ x = t
    BY <1>1, <1>2, <1>5, InAppend
  <2>3. QED BY <2>1, <2>2 DEF Queued, In
<1>13. ASSUME NEW x \in Task, Queued(x)'
       PROVE  In(crew.waves[pos], x) /\ \E p \in DOMAIN crew.waves[pos] : p < scan + 1 /\ crew.waves[pos][p] = x
  <2>1. CASE x = t
    <3>1. scan < scan + 1
      BY <1>1
    <3>2. QED BY <1>2, <1>6, <2>1, <3>1
  <2>2. CASE Queued(x)
    <3>1. PICK p \in DOMAIN crew.waves[pos] : p < scan /\ crew.waves[pos][p] = x
      BY <1>1, <2>2 DEF OrderInv
    <3>2. p < scan + 1
      BY <1>1, <1>2, <3>1
    <3>3. QED BY <3>1, <3>2 DEF In
  <2>3. QED BY <1>12, <1>13, <2>1, <2>2
<1>14. OutTasks' = OutTasks /\ Coming' \subseteq Coming /\ Members' = {}
  BY <1>1 DEF OutTasks, Agenda, Members
<1>15. FoldFollowsPlan'
  BY <1>1, <1>9 DEF OrderInv, FoldFollowsPlan
<1>16. \A x \in OutTasks' : \A u \in Coming' : PlannedBefore(x, u)'
  BY <1>1, <1>9, <1>14 DEF OrderInv
<1>17. Ordered(group)' /\ DOMAIN group' = {}
  BY <1>1 DEF Ordered
<1>18. \A x \in Task : Queued(x)' => pos' \in DOMAIN crew'.waves /\ In(crew'.waves[pos'], x)
  BY <1>1, <1>2, <1>13
<1>19. \A x \in Task : Queued(x)' =>
         \E p \in DOMAIN crew'.waves[pos'] : p < scan' /\ crew'.waves[pos'][p] = x
  BY <1>1, <1>13
<1>20. QED BY <1>10, <1>11, <1>14, <1>15, <1>16, <1>17, <1>18, <1>19 DEF OrderInv

\* Two tasks of the open wave, and one of it and one of a later wave.
LEMMA WaveOrder ==
  ASSUME TypeInv, Waves, pos \in DOMAIN crew.waves, NEW x \in Task, In(crew.waves[pos], x)
  PROVE  /\ \A u \in Task : In(crew.waves[pos], u) /\ x \in crew.async /\ u \notin crew.async => PlannedBefore(x, u)
         /\ \A u \in Task : pc # "scan" /\ Later(u) => PlannedBefore(x, u)
<1>1. \A u \in Task : In(crew.waves[pos], u) /\ x \in crew.async /\ u \notin crew.async => PlannedBefore(x, u)
  BY PlannedIs
<1>2. ASSUME NEW u \in Task, pc # "scan", Later(u) PROVE PlannedBefore(x, u)
  <2>1. PICK v \in DOMAIN crew.waves : v > pos /\ In(crew.waves[v], u)
    BY <1>2, OneProcess DEF Later
  <2>2. pos < v
    BY <2>1, CrewFields DEF TypeInv, MainType
  <2>3. QED BY <2>1, <2>2, PlannedIs
<1>3. QED BY <1>1, <1>2

LEMMA OrderAsyncGroup ==
  ASSUME TypeInv, ShapeInv, AgendaInv, OrderInv, Agenda, AsyncGroup
  PROVE  OrderInv'
<1>1. /\ asyncIdx \in Seq(Task) /\ syncIdx \in Seq(Task) /\ crew.maxWorkers \in Nat /\ pc = "step"
      /\ pc' = "group" /\ Waves /\ group = <<>> /\ pos \in Nat
      /\ UNCHANGED <<crew, pos, scan, syncIdx, out>>
  BY CrewFields DEF TypeInv, MainType, ShapeInv, AsyncGroup, OpenGroup
<1>2. ChunkLen \in 0..Len(asyncIdx)
  BY <1>1 DEF ChunkLen
<1>3. /\ group' = SubSeq(asyncIdx, 1, ChunkLen)
      /\ asyncIdx' = SubSeq(asyncIdx, ChunkLen + 1, Len(asyncIdx))
  BY DEF AsyncGroup, OpenGroup
<1> DEFINE k == ChunkLen
<1>4. /\ DOMAIN group' = 1..k /\ \A p \in 1..k : group'[p] = asyncIdx[p]
      /\ DOMAIN asyncIdx' = 1..(Len(asyncIdx) - k)
      /\ \A p \in 1..(Len(asyncIdx) - k) : asyncIdx'[p] = asyncIdx[k + p]
      /\ DOMAIN asyncIdx = 1..Len(asyncIdx) /\ Len(asyncIdx) \in Nat /\ k \in Nat /\ k <= Len(asyncIdx)
  BY <1>1, <1>2, <1>3
<1> HIDE DEF k
<1>5. /\ \A p \in 1..k : p \in DOMAIN asyncIdx
      /\ \A p \in 1..(Len(asyncIdx) - k) : k + p \in DOMAIN asyncIdx
      /\ \A p \in 1..k, q \in 1..(Len(asyncIdx) - k) : p < k + q
      /\ \A p, q \in 1..(Len(asyncIdx) - k) : p < q => k + p < k + q
  BY <1>4
<1>6. Ordered(asyncIdx) /\ Ordered(syncIdx)
  BY <1>1 DEF OrderInv
<1>7. Members' \subseteq Coming
  BY <1>1 DEF Agenda, Members
<1>8. \A x \in Task : In(asyncIdx, x) \/ In(syncIdx, x) => pos \in DOMAIN crew.waves /\ In(crew.waves[pos], x)
  BY <1>1 DEF OrderInv, Queued
<1>9. ASSUME NEW x \in Members', NEW u \in Coming' PROVE PlannedBefore(x, u)
  <2>1. PICK p \in 1..k : asyncIdx[p] = x
    BY <1>4, <1>9 DEF Members
  <2>2. x \in Task /\ In(asyncIdx, x) /\ x \in crew.async /\ u \in Task
    BY <1>1, <1>5, <1>7, <1>9, <2>1 DEF Coming, AgendaInv, In
  <2>3. CASE In(asyncIdx', u)
    <3>1. PICK q \in 1..(Len(asyncIdx) - k) : asyncIdx[k + q] = u
      BY <1>4, <2>3 DEF In
    <3>2. QED BY <1>5, <1>6, <2>1, <3>1 DEF Ordered
  <2>4. CASE In(syncIdx, u)
    <3>1. u \notin crew.async
      BY <2>2, <2>4 DEF AgendaInv
    <3>2. QED BY <1>1, <1>8, <2>2, <2>4, <3>1, WaveOrder
  <2>5. CASE Later(u)
    BY <1>1, <1>8, <2>2, <2>5, WaveOrder
  <2>6. Later(u)' => Later(u)
    BY <1>1, ProcessRigid DEF Later, In
  <2>7. QED BY <1>1, <1>9, <2>3, <2>4, <2>5, <2>6 DEF Coming, Queued, In
<1>10. \A p, q \in DOMAIN group' : p < q => PlannedBefore(group'[p], group'[q])
  BY <1>4, <1>5, <1>6 DEF Ordered
<1>11. \A p, q \in DOMAIN asyncIdx' : p < q => PlannedBefore(asyncIdx'[p], asyncIdx'[q])
  BY <1>4, <1>5, <1>6 DEF Ordered
<1>12. \A p, q \in DOMAIN syncIdx' : p < q => PlannedBefore(syncIdx'[p], syncIdx'[q])
  BY <1>1, <1>6 DEF Ordered
<1>13. \A t \in Task : Queued(t)' => pos' = pos /\ Queued(t)
  <2>1. \A t : In(asyncIdx', t) => In(asyncIdx, t)
    BY <1>1, <1>2, <1>3, InCut
  <2>2. QED BY <1>1, <2>1 DEF Queued, In
<1>14. QED BY <1>1, <1>7, <1>9, <1>10, <1>11, <1>12, <1>13, OrderOpen

LEMMA OrderSyncGroup ==
  ASSUME TypeInv, ShapeInv, AgendaInv, OrderInv, Agenda, SyncGroup
  PROVE  OrderInv'
<1>1. /\ syncIdx \in Seq(Task) /\ syncIdx # <<>> /\ pc = "step" /\ pc' = "group" /\ Waves
      /\ asyncIdx = <<>> /\ asyncIdx' = <<>> /\ group = <<>> /\ pos \in Nat
      /\ UNCHANGED <<crew, pos, scan, out>>
  BY DEF TypeInv, MainType, ShapeInv, SyncGroup, OpenGroup
<1>2. group' = <<Head(syncIdx)>> /\ syncIdx' = Tail(syncIdx)
  BY DEF SyncGroup, OpenGroup
<1>3. /\ DOMAIN syncIdx' = 1..(Len(syncIdx) - 1) /\ \A p \in 1..(Len(syncIdx) - 1) : syncIdx'[p] = syncIdx[p + 1]
      /\ Head(syncIdx) = syncIdx[1] /\ DOMAIN syncIdx = 1..Len(syncIdx) /\ Len(syncIdx) \in Nat \ {0}
  BY <1>1, <1>2
<1>4. /\ 1 \in DOMAIN syncIdx
      /\ \A p \in 1..(Len(syncIdx) - 1) : p + 1 \in DOMAIN syncIdx /\ 1 < p + 1
      /\ \A p, q \in 1..(Len(syncIdx) - 1) : p < q => p + 1 < q + 1
  BY <1>3
<1>5. Ordered(syncIdx)
  BY <1>1 DEF OrderInv
<1>6. Members' = {syncIdx[1]} /\ syncIdx[1] \in Task
  BY <1>1, <1>2, <1>3, <1>4 DEF Members
<1>7. Members' \subseteq Coming
  BY <1>1 DEF Agenda, Members
<1>8. \A x \in Task : In(syncIdx, x) => pos \in DOMAIN crew.waves /\ In(crew.waves[pos], x)
  BY <1>1 DEF OrderInv, Queued
<1>9. ASSUME NEW u \in Coming' PROVE PlannedBefore(syncIdx[1], u)
  <2>1. In(syncIdx, syncIdx[1])
    BY <1>4 DEF In
  <2>2. CASE In(syncIdx', u)
    <3>1. PICK p \in 1..(Len(syncIdx) - 1) : syncIdx[p + 1] = u
      BY <1>3, <2>2 DEF In
    <3>2. QED BY <1>4, <1>5, <3>1 DEF Ordered
  <2>3. CASE Later(u)
    BY <1>1, <1>6, <1>8, <1>9, <2>1, <2>3, WaveOrder DEF Coming
  <2>4. Later(u)' => Later(u)
    BY <1>1, ProcessRigid DEF Later, In
  <2>5. ~In(asyncIdx', u)
    BY <1>1, OnceEmpty
  <2>6. QED BY <1>9, <2>2, <2>3, <2>4, <2>5 DEF Coming, Queued, In
<1>10. DOMAIN group' = {1} /\ DOMAIN asyncIdx' = {}
  BY <1>1, <1>2
<1>11. \A p, q \in DOMAIN syncIdx' : p < q => PlannedBefore(syncIdx'[p], syncIdx'[q])
  BY <1>3, <1>4, <1>5 DEF Ordered
<1>12. \A t \in Task : Queued(t)' => pos' = pos /\ Queued(t)
  <2>1. \A t : In(syncIdx', t) => In(syncIdx, t)
    BY <1>1, <1>2, OnceHead DEF AgendaInv
  <2>2. \A t : ~In(asyncIdx', t)
    BY <1>1, OnceEmpty
  <2>3. QED BY <1>1, <2>1, <2>2 DEF Queued, In
<1>13. QED BY <1>1, <1>6, <1>7, <1>9, <1>10, <1>11, <1>12, OrderOpen

LEMMA OrderStep ==
  ASSUME StagesListOnce
  PROVE  TypeInv /\ QuietInv /\ ShapeInv /\ AgendaInv /\ OrderInv /\ [Next]_vars => OrderInv'
<1> SUFFICES ASSUME TypeInv, QuietInv, ShapeInv, AgendaInv, OrderInv, [Next]_vars PROVE OrderInv'
  OBVIOUS
<1>t. fi \in Nat /\ fi' \in Nat /\ group \in Seq(Task)
  BY TypeStep DEF TypeInv, MainType
<1>c. crew' = crew
  BY CrewRigid
<1>1. CASE pc = "idle" /\ Kickoff
  <2>1. /\ out' = <<>> /\ group' = <<>> /\ asyncIdx' = <<>> /\ syncIdx' = <<>> /\ pc' # "scan"
    BY <1>1 DEF Kickoff
  <2>2. OutTasks' = {} /\ Members' = {} /\ \A t : ~Queued(t)'
    BY <2>1 DEF OutTasks, Members, Queued, In
  <2>3. QED BY <2>1, <2>2 DEF OrderInv, Ordered, FoldFollowsPlan
<1>2. CASE pc = "idle" /\ (KickoffEmpty \/ UNCHANGED vars)
  <2>1. UNCHANGED out /\ pc' = "idle"
    BY <1>2 DEF KickoffEmpty, vars
  <2>2. QED BY <1>c, <2>1, PlannedRigid DEF OrderInv, FoldFollowsPlan
<1>3. CASE pc # "idle"
  <2>a. Agenda
    BY <1>3, AgendaMoves
  <2>1. CASE OpenWave \/ ScanWave \/ AsyncGroup \/ SyncGroup \/ SerialTask \/ StageGroup \/ FoldOk
    BY <2>a, <2>1, OrderOpenWave, OrderScanWave, OrderAsyncGroup, OrderSyncGroup, OrderSerialTask,
       OrderStageGroup, OrderFoldOk
  <2>2. CASE Complete \/ SerialNoAgent \/ SerialErr \/ Abort
    <3>1. UNCHANGED out /\ pc' = "idle"
      BY <2>2 DEF Complete, SerialNoAgent, SerialErr, Abort, Return
    <3>2. QED BY <1>c, <3>1, PlannedRigid DEF OrderInv, FoldFollowsPlan
  <2>3. ASSUME NEW t \in Task, Worker(t) \/ Remember(t) PROVE OrderInv'
    <3>1. UNCHANGED <<crew, out, pc, pos, scan, asyncIdx, syncIdx, group, fi>>
      BY <2>3, WorkerMove DEF Remember
    <3>2. fi' >= fi
      BY <1>t, <3>1
    <3>3. QED BY <1>3, <1>t, <2>a, <3>1, <3>2, OrderKept
  <2>4. CASE WaveSorted \/ EndGroup \/ StartCommit \/ Commit \/ StartFold
    <3>1. /\ UNCHANGED <<crew, out, pos, scan, asyncIdx, syncIdx>> /\ (group' = group \/ group' = <<>>)
          /\ pc' # "scan" /\ (pc = "fold" => group' = <<>>)
      BY <2>4 DEF WaveSorted, EndGroup, StartCommit, Commit, StartFold, Joined
    <3>2. QED BY <1>3, <1>t, <2>a, <3>1, OrderKept
  <2>5. CASE CancelParent \/ Spawn \/ FoldErr \/ FoldEmpty \/ UNCHANGED vars
    <3>1. /\ UNCHANGED <<crew, out, pc, pos, scan, asyncIdx, syncIdx, group>>
          /\ fi' = fi \/ fi' = fi + 1
      BY <2>5 DEF CancelParent, Spawn, FoldErr, FoldEmpty, vars
    <3>2. fi' >= fi
      BY <1>t, <3>1
    <3>3. QED BY <1>3, <1>t, <2>a, <3>1, <3>2, OrderKept
  <2>6. QED
    BY <1>3, <2>1, <2>2, <2>3, <2>4, <2>5 DEF Next, Main, Kickoff, KickoffEmpty
<1>4. QED BY <1>1, <1>2, <1>3, IdleStep

\* "Fold results into the output in declaration order (not completion order)", the second
\* half: for every crew, cap and interleaving, TasksOutput is in the order of the plan,
\* a wave as planWaves lists it, provided no task is in two stages.
THEOREM OutputFollowsPlan ==
  ASSUME StagesListOnce
  PROVE  Spec => []FoldFollowsPlan
<1>1. OrderInv => FoldFollowsPlan
  BY DEF OrderInv
<1>2. TypeInv /\ QuietInv /\ ShapeInv /\ AgendaInv /\ OrderInv /\ [Next]_vars => OrderInv'
  BY OrderStep
<1>3. QED BY <1>1, <1>2, PlanInvariant, OrderInit, PTL DEF Spec

\* A sequence is indexed by naturals.
LEMMA SeqIndices ==
  ASSUME NEW S, NEW s \in Seq(S)
  PROVE  DOMAIN s \subseteq Nat
OBVIOUS

\* "Indexes within a wave are ascending (declaration order)" (asyncPlan.waves): what
\* planWaves promises of its waves and does not always do.
WavesAscend ==
  \A cr \in Crews : \A w \in DOMAIN cr.waves : \A p, q \in DOMAIN cr.waves[w] :
    p < q => Lists(cr.tasks, cr.waves[w][p], cr.waves[w][q])

\* Only a Kickoff that has a plan folds anything.
OutPlanned == out # <<>> => Staged \/ crew.planned

LEMMA OutPlannedStep == TypeInv /\ QuietInv /\ ShapeInv /\ OutPlanned /\ [Next]_vars => OutPlanned'
<1> SUFFICES ASSUME TypeInv, QuietInv, ShapeInv, OutPlanned, [Next]_vars PROVE OutPlanned'
  OBVIOUS
<1>1. crew' = crew /\ (Staged' <=> Staged)
  BY CrewRigid, ProcessRigid
<1>2. CASE pc = "idle"
  <2>1. out' = out \/ out' = <<>>
    BY <1>2, IdleStep DEF Kickoff, KickoffEmpty, vars
  <2>2. QED BY <1>1, <2>1 DEF OutPlanned
<1>3. CASE pc # "idle"
  BY <1>1, <1>3 DEF ShapeInv, OutPlanned
<1>4. QED BY <1>2, <1>3

\* runAsyncWaves: "folds each sub-group by ascending task index after its barrier" holds
\* of every crew whose waves list their tasks in the order of crew.Tasks, whatever the
\* cap, the failures and the order in which the goroutines end: nothing but the plan
\* moves a task.
THEOREM OutputInDeclarationOrder ==
  ASSUME StagesListOnce, WavesAscend
  PROVE  Spec => []FoldFollowsDeclaration
<1>1. ASSUME TypeInv, OrderInv, OutPlanned PROVE FoldFollowsDeclaration
  <2> SUFFICES ASSUME Waves, NEW w \in DOMAIN crew.waves, NEW p \in DOMAIN out, NEW q \in DOMAIN out, p < q,
                      In(crew.waves[w], out[p].task), In(crew.waves[w], out[q].task),
                      out[p].task \in crew.async <=> out[q].task \in crew.async
               PROVE  Lists(crew.tasks, out[p].task, out[q].task)
    BY DEF FoldFollowsDeclaration
  <2> DEFINE t == out[p].task
             u == out[q].task
  <2>1. MainType /\ crew \in Crews
    BY <1>1 DEF TypeInv, MainType
  <2>2. crew.planned
    BY <1>1, OneProcess DEF OutPlanned
  <2>3. WaveBefore(crew, t, u)
    BY <1>1, PlannedIn DEF OrderInv, FoldFollowsPlan
  <2> HIDE DEF t, u
  <2>4. PICK v, x \in DOMAIN crew.waves :
          /\ In(crew.waves[v], t) /\ In(crew.waves[x], u)
          /\ \/ v < x
             \/ v = x /\ t \in crew.async /\ u \notin crew.async
             \/ v = x /\ Lists(crew.waves[v], t, u) /\ (t \in crew.async <=> u \in crew.async)
    BY <2>3 DEF WaveBefore
  <2>5. v = w /\ x = w
    <3>1. ASSUME NEW k \in DOMAIN crew.waves, NEW y, In(crew.waves[k], y), In(crew.waves[w], y)
          PROVE  k = w
      BY <2>1, <2>2, <3>1, PlanOnce DEF In
    <3>2. QED BY <2>4, <3>1 DEF t, u
  <2>6. ~(v < x)
    <3>1. w \in Nat
      BY <2>1, CrewFields, SeqIndices
    <3>2. QED BY <2>5, <3>1
  <2>7. Lists(crew.waves[w], t, u)
    BY <2>4, <2>5, <2>6 DEF t, u
  <2>8. QED BY <2>1, <2>7 DEF WavesAscend, Lists, t, u
<1>2. Init => OutPlanned
  BY DEF Init, OutPlanned
<1>3. TypeInv /\ QuietInv /\ ShapeInv /\ AgendaInv /\ OrderInv /\ [Next]_vars => OrderInv'
  BY OrderStep
<1>4. TypeInv /\ OrderInv /\ OutPlanned => FoldFollowsDeclaration
  BY <1>1
<1>5. QED BY <1>2, <1>3, <1>4, PlanInvariant, OrderInit, OutPlannedStep, PTL DEF Spec

-------------------------------------------------------------------------------
(***************************************************************************)
(* The trace holds the records of the tasks that were folded.              *)
(***************************************************************************)

\* Inductive strengthening: the recorder has a pending record of every task that has
\* answered and is not folded yet.
TraceInv ==
  /\ Len(trace) = Len(out) /\ \A p \in DOMAIN out : trace[p] = out[p].task
  /\ \A t \in Task : wpc[t] \in {"output", "save", "guard"} => t \in captured
  /\ Open => \A p \in DOMAIN group :
       slot[group[p]] = "ok" /\ (pc # "fold" \/ p >= fi) => group[p] \in captured

LEMMA TraceInit == Init => TraceInv
BY DEF Init, TraceInv, Open

LEMMA TraceWorker ==
  ASSUME TypeInv, QuietInv, TraceInv, NEW t \in Task, Worker(t)
  PROVE  TraceInv'
<1>1. UNCHANGED <<crew, pc, group, fi, trace, out>>
  BY WorkerMove
<1>2. pc = "group" /\ captured \subseteq captured'
  BY WorkerMove DEF QuietInv, Quiet, Worker, Acquire, AcquireCancelled, ReadContext, Inject, CallOk, CallErr,
                    Panic, SetOutput, AutoSave, Guardrail, RecordErr, CancelGroup
<1>3. \A u \in Task \ {t} : wpc'[u] = wpc[u] /\ slot'[u] = slot[u]
  <2>1. \A u \in Task \ {t} : wpc'[u] = wpc[u]
    BY WorkerMove DEF Goto, TypeInv, WorkType
  <2>2. \A u \in Task \ {t} : slot'[u] = slot[u]
    BY DEF Worker, Acquire, AcquireCancelled, ReadContext, Inject, CallOk, CallErr, Panic, SetOutput, AutoSave,
           Guardrail, RecordErr, CancelGroup, Finish, TypeInv, WorkType
  <2>3. QED BY <2>1, <2>2
<1>4. /\ wpc'[t] \in {"output", "save", "guard"} => t \in captured'
      /\ slot'[t] = "ok" => t \in captured' \/ slot[t] = "ok"
  <2>1. CASE CallOk(t)
    BY <2>1 DEF CallOk
  <2>2. CASE CallErr(t)
    BY <2>2 DEF CallErr
  <2>3. CASE SetOutput(t) \/ AutoSave(t) \/ Guardrail(t)
    BY <1>2, <2>3 DEF SetOutput, AutoSave, Guardrail, TraceInv
  <2>4. CASE Acquire(t) \/ ReadContext(t) \/ Inject(t) \/ RecordErr(t) \/ CancelGroup(t)
    <3>1. UNCHANGED slot
      BY <2>4 DEF Acquire, ReadContext, Inject, RecordErr, CancelGroup
    <3>2. wpc'[t] \notin {"output", "save", "guard"}
      BY <2>4 DEF Acquire, ReadContext, Inject, RecordErr, CancelGroup, Goto, TypeInv, WorkType
    <3>3. QED BY <3>1, <3>2
  <2>5. CASE AcquireCancelled(t) \/ Panic(t)
    BY <2>5 DEF AcquireCancelled, Panic, Finish, Goto, TypeInv, WorkType
  <2>6. QED BY <2>1, <2>2, <2>3, <2>4, <2>5 DEF Worker
<1>5. \A u \in Task : wpc'[u] \in {"output", "save", "guard"} => u \in captured'
  BY <1>2, <1>3, <1>4 DEF TraceInv
<1>6. \A p \in DOMAIN group : group[p] \in Task
  BY DEF TypeInv, MainType
<1>7. \A p \in DOMAIN group : slot'[group[p]] = "ok" => group[p] \in captured'
  BY <1>2, <1>3, <1>4, <1>6 DEF TraceInv, Open
<1>8. QED BY <1>1, <1>2, <1>5, <1>7 DEF TraceInv, Open

\* Steps of the caller that capture, fold and publish nothing.
LEMMA TraceKept ==
  ASSUME TypeInv, TraceInv, fi' \in Nat, UNCHANGED <<trace, out, captured>>,
         \A t \in Task : wpc'[t] \in {"output", "save", "guard"} => wpc[t] = wpc'[t],
         Open' => \/ \A p \in DOMAIN group' : slot'[group'[p]] # "ok"
                  \/ /\ UNCHANGED <<group, slot>> /\ Open
                     /\ pc = "fold" => pc' = "fold" /\ fi' >= fi
  PROVE  TraceInv'
<1>1. /\ Len(trace') = Len(out') /\ \A p \in DOMAIN out' : trace'[p] = out'[p].task
      /\ \A t \in Task : wpc'[t] \in {"output", "save", "guard"} => t \in captured'
  BY DEF TraceInv
<1>2. ASSUME Open', NEW p \in DOMAIN group', slot'[group'[p]] = "ok", pc' # "fold" \/ p >= fi'
      PROVE  group'[p] \in captured'
  <2>1. UNCHANGED <<group, slot>> /\ Open /\ (pc = "fold" => pc' = "fold" /\ fi' >= fi)
    BY <1>2
  <2>2. pc # "fold" \/ p >= fi
    <3>1. CASE pc # "fold"
      BY <3>1
    <3>2. CASE pc = "fold"
      <4>1. p >= fi' /\ fi' >= fi
        BY <1>2, <2>1, <3>2
      <4>2. p \in Nat /\ fi \in Nat /\ fi' \in Nat
        BY <1>2, <2>1 DEF TypeInv, MainType
      <4>3. QED BY <4>1, <4>2
    <3>3. QED BY <3>1, <3>2
  <2>3. QED BY <1>2, <2>1, <2>2 DEF TraceInv
<1>3. QED BY <1>1, <1>2 DEF TraceInv

LEMMA TraceFoldOk ==
  ASSUME TypeInv, QuietInv, AgendaInv, TraceInv, FoldOk
  PROVE  TraceInv'
<1> DEFINE t == group[fi]
<1>1. /\ fi \in DOMAIN group /\ group \in Seq(Task) /\ fi \in Nat /\ t \in Task
      /\ pc = "fold" /\ slot[t] = "ok" /\ trace \in Seq(Task)
      /\ out' = Append(out, [task |-> t, warnings |-> warned[t]])
      /\ captured' = captured \ {t} /\ fi' = fi + 1 /\ UNCHANGED <<pc, group, slot, wpc>>
  BY DEF FoldOk, TypeInv, MainType, SetType
<1>2. t \in captured /\ trace' = Append(trace, t)
  <2>1. t \in captured
    BY <1>1 DEF TraceInv, Open
  <2>2. QED BY <2>1 DEF FoldOk
<1>3. Len(trace') = Len(out') /\ \A p \in DOMAIN out' : trace'[p] = out'[p].task
  <2>1. /\ DOMAIN out = 1..Len(out) /\ DOMAIN out' = 1..(Len(out) + 1) /\ Len(out) \in Nat
        /\ \A p \in 1..Len(out) : out'[p] = out[p]
        /\ out'[Len(out) + 1] = [task |-> t, warnings |-> warned[t]]
    BY <1>1, OutAppend
  <2>2. /\ Len(trace) = Len(out) /\ \A p \in 1..Len(out) : trace[p] = out[p].task
    BY <2>1 DEF TraceInv
  <2>3. /\ Len(trace') = Len(out) + 1 /\ trace'[Len(out) + 1] = t
        /\ \A p \in 1..Len(out) : trace'[p] = trace[p]
    BY <1>1, <1>2, <2>1, <2>2
  <2>4. Len(out') = Len(out) + 1
    BY <1>1 DEF TypeInv, SetType
  <2>5. \A p \in 1..(Len(out) + 1) : p \in 1..Len(out) \/ p = Len(out) + 1
    BY <2>1
  <2>6. QED BY <2>1, <2>2, <2>3, <2>4, <2>5
<1>4. \A u \in Task : wpc'[u] \notin {"output", "save", "guard"}
  BY <1>1 DEF QuietInv, Quiet
<1>5. ASSUME NEW p \in DOMAIN group, slot[group[p]] = "ok", p >= fi + 1
      PROVE  group[p] \in captured'
  <2>1. group[p] \in captured
    BY <1>1, <1>5 DEF TraceInv, Open
  <2>2. p # fi /\ group[p] # t
    BY <1>1, <1>5 DEF AgendaInv, Once
  <2>3. QED BY <1>1, <2>1, <2>2
<1>6. QED BY <1>1, <1>3, <1>4, <1>5 DEF TraceInv

LEMMA TraceStep == TypeInv /\ QuietInv /\ ShapeInv /\ AgendaInv /\ TraceInv /\ [Next]_vars => TraceInv'
<1> SUFFICES ASSUME TypeInv, QuietInv, ShapeInv, AgendaInv, TraceInv, [Next]_vars PROVE TraceInv'
  OBVIOUS
<1>t. fi \in Nat /\ fi' \in Nat /\ group \in Seq(Task) /\ group' \in Seq(Task)
  BY TypeStep DEF TypeInv, MainType
<1>1. CASE Kickoff
  <2>1. \A t \in Task : wpc'[t] \notin {"output", "save", "guard"}
    BY <1>1 DEF Kickoff, QuietInv, Quiet
  <2>2. out' = <<>> /\ trace' = <<>> /\ ~Open'
    BY <1>1 DEF Kickoff, ResetTrace, Open
  <2>3. QED BY <2>1, <2>2 DEF TraceInv
<1>2. ASSUME NEW t \in Task, Worker(t) PROVE TraceInv'
  BY <1>2, TraceWorker
<1>3. ASSUME NEW t \in Task, Remember(t) PROVE TraceInv'
  BY <1>t, <1>3, TraceKept DEF Remember, Open
<1>4. CASE FoldOk
  BY <1>4, TraceFoldOk
<1>5. CASE SerialTask \/ AsyncGroup \/ SyncGroup \/ StageGroup \/ EndGroup
  <2>1. PICK s : Enter(s) /\ UNCHANGED <<trace, out, captured>>
    BY <1>5 DEF SerialTask, AsyncGroup, SyncGroup, StageGroup, OpenGroup, EndGroup
  <2>2. wpc' \in [Task -> {"context", "none"}] /\ slot' \in [Task -> {"empty"}]
    BY <2>1, EnterTypes
  <2>3. \A p \in DOMAIN group' : slot'[group'[p]] # "ok"
    BY <1>t, <2>2
  <2>4. \A t \in Task : wpc'[t] \notin {"output", "save", "guard"}
    BY <2>2
  <2>5. QED BY <1>t, <2>1, <2>3, <2>4, TraceKept
<1>6. CASE KickoffEmpty \/ CancelParent \/ Complete \/ SerialNoAgent \/ OpenWave \/ ScanWave \/ WaveSorted
           \/ SerialErr \/ Abort \/ UNCHANGED vars
  <2>1. UNCHANGED <<trace, out, captured, wpc, group, slot>> /\ (~Open' \/ UNCHANGED <<pc, fi>>)
    BY <1>6 DEF KickoffEmpty, CancelParent, Complete, SerialNoAgent, OpenWave, ScanWave, WaveSorted,
                SerialErr, Abort, Return, Open, vars
  <2>2. QED BY <1>t, <2>1, TraceKept DEF Open
<1>7. CASE StartCommit \/ Commit \/ StartFold \/ FoldErr \/ FoldEmpty
  <2>1. /\ UNCHANGED <<trace, out, captured, wpc, group, slot>> /\ Open /\ (pc = "fold" => pc' = "fold" /\ fi' = fi + 1)
    BY <1>7 DEF StartCommit, Commit, StartFold, Joined, FoldErr, FoldEmpty, Open
  <2>2. pc = "fold" => pc' = "fold" /\ fi' >= fi
    BY <1>t, <2>1
  <2>3. QED BY <1>t, <2>1, <2>2, TraceKept
<1>8. CASE Spawn
  <2>1. UNCHANGED <<trace, out, captured, group, slot, pc, fi>>
    BY <1>8 DEF Spawn
  <2>2. pc = "group" /\ \E t \in Task : \E l \in {"acquire", "record"} : Goto(t, l)
    <3>1. group[spawned + 1] \in Task
      BY <1>t, <1>8 DEF Spawn, TypeInv, MainType
    <3>2. QED BY <1>8, <3>1 DEF Spawn
  <2>3. \A t \in Task : wpc'[t] \in {"output", "save", "guard"} => wpc[t] = wpc'[t]
    BY <2>2 DEF Goto, TypeInv, WorkType
  <2>4. QED BY <1>t, <2>1, <2>2, <2>3, TraceKept DEF Open
<1>9. QED
  BY <1>1, <1>2, <1>3, <1>4, <1>5, <1>6, <1>7, <1>8 DEF Next, Main

\* D-X7: the records the trace publishes are, one for one and in the order of the output,
\* those of the tasks this Kickoff folded, for every crew and interleaving, provided no
\* task is in two stages.
THEOREM TraceIsTheOutput ==
  ASSUME StagesListOnce
  PROVE  Spec => []TraceMatchesOutput
<1>1. TypeInv /\ TraceInv => TraceMatchesOutput
  <2> SUFFICES ASSUME TypeInv, TraceInv PROVE TraceMatchesOutput
    OBVIOUS
  <2>1. trace = [p \in 1..Len(trace) |-> trace[p]]
    BY DEF TypeInv, SetType
  <2>2. DOMAIN out = 1..Len(out)
    BY DEF TypeInv, SetType
  <2>3. Len(trace) = Len(out) /\ \A p \in DOMAIN out : trace[p] = out[p].task
    BY DEF TraceInv
  <2>4. QED BY <2>1, <2>2, <2>3 DEF TraceMatchesOutput
<1>2. QED BY <1>1, PlanInvariant, TraceInit, TraceStep, PTL DEF Spec

-------------------------------------------------------------------------------
(***************************************************************************)
(* What a Kickoff remembers is what it returns.                            *)
(***************************************************************************)

\* A blocked guardrail ends the Kickoff.  Where the code goes on (an optional stage, a
\* wave without fail-fast) the entry of the blocked task stays: see FailuresNeverSaved.
GuardsStop ==
  \A cr \in Crews :
    \/ cr.guarded = {}
    \/ IF cr.process = "staged" THEN \A v \in DOMAIN cr.stages : ~cr.stages[v].optional
       ELSE cr.failFast \/ \A p \in DOMAIN cr.tasks : cr.tasks[p] \notin cr.async

\* How far a goroutine is, by its results slot and its stashed entry.
WorkState(t) ==
  /\ slot[t] = "ok" => wpc[t] = "done"
  /\ slot[t] = "err" => \/ wpc[t] = "record"
                        \/ wpc[t] \in {"cancel", "done"} /\ (Serial \/ firstErr # "nil")
  /\ AutoSaves /\ ~Serial =>
       /\ wpc[t] = "guard" \/ slot[t] = "ok" => t \in buffer
       /\ t \in buffer => \/ wpc[t] = "guard" \/ slot[t] = "ok"
                          \/ slot[t] = "err" /\ t \in crew.guarded

\* Inductive: the buffer holds the entries of the goroutines that got past the output,
\* and, once the group is over, those of its successes.
BufferInv ==
  /\ pc = "group" =>
       /\ \A p \in DOMAIN group : p > spawned => wpc[group[p]] = "none"
       /\ \A t \in Members : WorkState(t)
  /\ pc = "commit" /\ AutoSaves => \A t \in Members : t \in buffer <=> slot[t] = "ok"

LEMMA BufferInit == Init => BufferInv
BY DEF Init, BufferInv

LEMMA SavesRigid == ASSUME crew' = crew PROVE AutoSaves' <=> AutoSaves
BY DEF AutoSaves, HasStore

\* A step that ends a goroutine.
LEMMA StateFinish ==
  ASSUME TypeInv, NEW t \in Task, WorkState(t), NEW e \in Errors \cup {"nil"}, Finish(t, e),
         UNCHANGED <<crew, buffer, firstErr>>,
         e = "nil" => wpc[t] = "guard",
         wpc[t] \notin {"record", "cancel", "done"},
         wpc[t] = "guard" /\ e # "nil" => t \in crew.guarded
  PROVE  WorkState(t)'
<1>1. /\ slot'[t] = IF e = "nil" THEN "ok" ELSE "err"
      /\ wpc'[t] = IF e # "nil" /\ ~Serial THEN "record" ELSE "done"
  BY DEF Finish, Goto, TypeInv, WorkType
<1>2. (Serial' <=> Serial) /\ (AutoSaves' <=> AutoSaves)
  BY ProcessRigid, SavesRigid
<1>3. QED BY <1>1, <1>2 DEF WorkState

LEMMA StateWorker ==
  ASSUME TypeInv, ShapeInv, NEW t \in Task, WorkState(t), Worker(t), pc = "group"
  PROVE  WorkState(t)'
<1>1. crew' = crew /\ (Serial' <=> Serial) /\ (AutoSaves' <=> AutoSaves)
  BY WorkerMove, ProcessRigid, SavesRigid
<1>2. CASE AcquireCancelled(t) \/ CallErr(t) \/ Panic(t) \/ Guardrail(t) \/ (SetOutput(t) /\ Finish(t, "file"))
  <2>1. PICK e \in Errors \cup {"nil"} :
          /\ Finish(t, e) /\ (e = "nil" => wpc[t] = "guard")
          /\ wpc[t] = "guard" /\ e # "nil" => t \in crew.guarded
    BY <1>2, CallErrorsType DEF AcquireCancelled, CallErr, Panic, Guardrail, SetOutput, Errors
  <2>2. UNCHANGED <<crew, buffer, firstErr>> /\ wpc[t] \notin {"record", "cancel", "done"}
    BY <1>2 DEF AcquireCancelled, CallErr, Panic, Guardrail, SetOutput
  <2>3. QED BY <2>1, <2>2, StateFinish
<1>3. CASE Acquire(t) \/ ReadContext(t) \/ Inject(t) \/ CallOk(t) \/ (SetOutput(t) /\ Goto(t, "save") /\ UNCHANGED slot)
  <2>1. /\ UNCHANGED <<slot, buffer, firstErr>> /\ wpc'[t] \in {"context", "inject", "call", "output", "save"}
        /\ wpc[t] \notin {"guard", "record", "cancel", "done"}
    BY <1>3 DEF Acquire, ReadContext, Inject, CallOk, SetOutput, Goto, TypeInv, WorkType
  <2>2. QED BY <1>1, <2>1 DEF WorkState
<1>4. CASE AutoSave(t)
  <2>1. /\ UNCHANGED <<slot, firstErr>> /\ wpc[t] = "save" /\ wpc'[t] = "guard"
        /\ buffer' = IF AutoSaves /\ buffering THEN buffer \cup {t} ELSE buffer
    BY <1>4 DEF AutoSave, Goto, TypeInv, WorkType
  <2>2. ~Serial => buffering
    BY DEF ShapeInv
  <2>3. QED BY <1>1, <2>1, <2>2 DEF WorkState
<1>5. CASE RecordErr(t)
  <2>1. /\ UNCHANGED <<slot, buffer>> /\ wpc[t] = "record" /\ wpc'[t] \in {"cancel", "done"}
        /\ firstErr' # "nil"
    BY <1>5 DEF RecordErr, Goto, TypeInv, WorkType, ControlInv
  <2>2. QED BY <1>1, <2>1 DEF WorkState
<1>6. CASE CancelGroup(t)
  <2>1. /\ UNCHANGED <<slot, buffer, firstErr>> /\ wpc[t] = "cancel" /\ wpc'[t] = "done"
    BY <1>6 DEF CancelGroup, Goto, TypeInv, WorkType
  <2>2. QED BY <1>1, <2>1 DEF WorkState
<1>7. QED BY <1>2, <1>3, <1>4, <1>5, <1>6 DEF Worker, SetOutput

\* The goroutines a step of t leaves alone.
LEMMA StateOther ==
  ASSUME TypeInv, NEW t \in Task, NEW u \in Task \ {t}, WorkState(u), Worker(t)
  PROVE  WorkState(u)' /\ wpc'[u] = wpc[u]
<1>1. crew' = crew /\ (Serial' <=> Serial) /\ (AutoSaves' <=> AutoSaves)
  BY WorkerMove, ProcessRigid, SavesRigid
<1>2. wpc'[u] = wpc[u]
  BY WorkerMove DEF Goto, TypeInv, WorkType
<1>3. slot'[u] = slot[u]
  BY DEF Worker, Acquire, AcquireCancelled, ReadContext, Inject, CallOk, CallErr, Panic, SetOutput, AutoSave,
         Guardrail, RecordErr, CancelGroup, Finish, TypeInv, WorkType
<1>4. u \in buffer' <=> u \in buffer
  BY DEF Worker, Acquire, AcquireCancelled, ReadContext, Inject, CallOk, CallErr, Panic, SetOutput, AutoSave,
         Guardrail, RecordErr, CancelGroup
<1>5. firstErr # "nil" => firstErr' # "nil"
  BY DEF Worker, Acquire, AcquireCancelled, ReadContext, Inject, CallOk, CallErr, Panic, SetOutput, AutoSave,
         Guardrail, RecordErr, CancelGroup
<1>6. QED BY <1>1, <1>2, <1>3, <1>4, <1>5 DEF WorkState

LEMMA BufferSpawn ==
  ASSUME TypeInv, AgendaInv, BufferInv, Spawn
  PROVE  BufferInv'
<1> DEFINE t == group[spawned + 1]
<1>1. /\ pc = "group" /\ group \in Seq(Task) /\ spawned \in Nat /\ spawned + 1 \in DOMAIN group
      /\ spawned' = spawned + 1 /\ UNCHANGED <<crew, pc, group, slot, buffer, firstErr>> /\ t \in Task
  BY DEF Spawn, TypeInv, MainType
<1>2. wpc'[t] \in {"record", "acquire"} /\ \A u \in Task \ {t} : wpc'[u] = wpc[u]
  BY <1>1 DEF Spawn, Goto, TypeInv, WorkType
<1>3. wpc[t] = "none" /\ WorkState(t)
  BY <1>1 DEF BufferInv, Members
<1>4. (Serial' <=> Serial) /\ (AutoSaves' <=> AutoSaves) /\ Members' = Members /\ Members \subseteq Task
  BY <1>1, ProcessRigid, SavesRigid, MembersRigid DEF Members
<1> HIDE DEF t
<1>5. ASSUME NEW p \in DOMAIN group, p > spawned + 1 PROVE wpc'[group[p]] = "none"
  <2>1. p # spawned + 1 /\ p > spawned /\ group[p] \in Task
    BY <1>1, <1>5
  <2>2. group[p] # t
    BY <1>1, <2>1 DEF AgendaInv, Once, t
  <2>3. QED BY <1>1, <1>2, <2>1, <2>2 DEF BufferInv
<1>6. ASSUME NEW u \in Members PROVE WorkState(u)'
  <2>1. CASE u = t
    BY <1>1, <1>2, <1>3, <1>4, <2>1 DEF WorkState
  <2>2. CASE u # t
    <3>1. WorkState(u) /\ wpc'[u] = wpc[u]
      BY <1>1, <1>2, <1>4, <2>2 DEF BufferInv
    <3>2. QED BY <1>1, <1>4, <3>1 DEF WorkState
  <2>3. QED BY <2>1, <2>2
<1>7. QED BY <1>1, <1>4, <1>5, <1>6 DEF BufferInv

\* A group that opens: no goroutine has been started, and nothing is stashed.
LEMMA BufferOpen ==
  ASSUME TypeInv, group' \in Seq(Task), NEW s \in SUBSET Task, Enter(s), buffer' = {}, pc' = "group",
         \A p \in DOMAIN group' : p > spawned' => group'[p] \notin s
  PROVE  BufferInv'
<1>1. /\ wpc' = [t \in Task |-> IF t \in s THEN "context" ELSE "none"]
      /\ slot' = [t \in Task |-> "empty"]
  BY DEF Enter
<1>2. Members' \subseteq Task /\ \A p \in DOMAIN group' : group'[p] \in Task
  BY DEF Members
<1>3. ASSUME NEW p \in DOMAIN group', p > spawned' PROVE wpc'[group'[p]] = "none"
  BY <1>1, <1>2, <1>3
<1>4. ASSUME NEW t \in Members' PROVE WorkState(t)'
  <2>1. slot'[t] = "empty" /\ wpc'[t] \in {"context", "none"}
    BY <1>1, <1>2
  <2>2. QED BY <2>1 DEF WorkState
<1>5. QED BY <1>3, <1>4 DEF BufferInv

\* What is stashed when a group is committed belongs to its successes.
LEMMA BufferStart ==
  ASSUME GuardsStop, TypeInv, ShapeInv, BufferInv, StartCommit
  PROVE  BufferInv'
<1>1. /\ pc = "group" /\ ~Serial /\ pc' = "commit" /\ (firstErr = "nil" \/ ~FailFast)
      /\ UNCHANGED <<crew, group, slot, buffer>> /\ \A t \in Members : wpc[t] = "done"
      /\ crew \in Crews
  BY DEF StartCommit, Joined, TypeInv, MainType
<1>2. Members' = Members /\ (AutoSaves' <=> AutoSaves)
  BY <1>1, SavesRigid, MembersRigid
<1>3. ASSUME NEW t \in Members, AutoSaves, t \in buffer, slot[t] # "ok" PROVE FALSE
  <2>1. WorkState(t) /\ wpc[t] = "done"
    BY <1>1 DEF BufferInv
  <2>2. slot[t] = "err" /\ t \in crew.guarded /\ firstErr # "nil"
    BY <1>1, <1>3, <2>1 DEF WorkState
  <2>3. ~FailFast /\ crew.guarded # {}
    BY <1>1, <2>2
  <2>4. CASE Staged
    <3>1. pos \in DOMAIN crew.stages
      BY <1>1, <2>4, CrewFields DEF ShapeInv, Open, TypeInv
    <3>2. QED BY <1>1, <2>3, <2>4, <3>1 DEF GuardsStop, FailFast, Optional, Staged
  <2>5. CASE ~Staged
    BY <1>1, <2>3, <2>5 DEF GuardsStop, FailFast, Staged, Serial, HasAsync
  <2>6. QED BY <2>4, <2>5
<1>4. ASSUME NEW t \in Members, AutoSaves, slot[t] = "ok" PROVE t \in buffer
  BY <1>1, <1>4 DEF BufferInv, WorkState
<1>5. QED BY <1>1, <1>2, <1>3, <1>4 DEF BufferInv

LEMMA BufferStep ==
  ASSUME GuardsStop
  PROVE  TypeInv /\ QuietInv /\ ShapeInv /\ AgendaInv /\ BufferInv /\ [Next]_vars => BufferInv'
<1> SUFFICES ASSUME TypeInv, QuietInv, ShapeInv, AgendaInv, BufferInv, [Next]_vars PROVE BufferInv'
  OBVIOUS
<1>c. /\ crew' = crew /\ (Serial' <=> Serial) /\ (AutoSaves' <=> AutoSaves) /\ group' \in Seq(Task)
      /\ (group' = group => Members' = Members)
  BY CrewRigid, ProcessRigid, SavesRigid, MembersRigid, TypeStep DEF TypeInv, MainType
<1>1. ASSUME NEW t \in Task, Worker(t) PROVE BufferInv'
  <2>1. UNCHANGED <<crew, pc, group, spawned>> /\ pc = "group" /\ wpc[t] # "none" /\ Members \subseteq Task
    <3>1. UNCHANGED <<crew, pc, group, spawned>> /\ wpc[t] \notin {"none", "done"}
      BY <1>1, WorkerMove DEF mainVars
    <3>2. pc = "group"
      BY <3>1 DEF QuietInv, Quiet
    <3>3. group \in Seq(Task)
      BY DEF TypeInv, MainType
    <3>4. Members \subseteq Task
      BY <3>3 DEF Members
    <3>5. QED BY <3>1, <3>2, <3>4
  <2>2. ASSUME NEW p \in DOMAIN group, p > spawned PROVE wpc'[group[p]] = "none"
    <3>1. wpc[group[p]] = "none" /\ group[p] \in Members
      BY <2>1, <2>2 DEF BufferInv, Members
    <3>2. group[p] \in Task \ {t} /\ WorkState(group[p])
      BY <2>1, <3>1 DEF BufferInv
    <3>3. QED BY <1>1, <3>1, <3>2, StateOther
  <2>3. ASSUME NEW u \in Members PROVE WorkState(u)'
    <3>1. WorkState(u) /\ u \in Task
      BY <2>1 DEF BufferInv
    <3>2. CASE u = t
      BY <1>1, <2>1, <3>1, <3>2, StateWorker
    <3>3. CASE u # t
      BY <1>1, <3>1, <3>3, StateOther
    <3>4. QED BY <3>2, <3>3
  <2>4. QED BY <1>c, <2>1, <2>2, <2>3 DEF BufferInv
<1>2. CASE Spawn
  BY <1>2, BufferSpawn
<1>3. CASE StartCommit
  BY <1>3, BufferStart
<1>4. CASE SerialTask
  <2>1. /\ pc = "step" /\ Serial /\ pc' = "group" /\ buffer' = buffer /\ spawned' = 1
        /\ Enter({crew.tasks[pos + 1]}) /\ group' = <<crew.tasks[pos + 1]>>
        /\ crew.tasks[pos + 1] \in Task
    BY <1>4, CrewFields DEF SerialTask, TypeInv, MainType
  <2>2. buffer' = {} /\ \A p \in DOMAIN group' : ~(p > spawned')
    BY <2>1 DEF ShapeInv
  <2>3. QED BY <1>c, <2>1, <2>2, BufferOpen
<1>5. CASE AsyncGroup \/ SyncGroup \/ StageGroup
  <2>1. Enter({}) /\ buffer' = {} /\ pc' = "group"
    BY <1>5 DEF AsyncGroup, SyncGroup, StageGroup, OpenGroup
  <2>2. QED BY <1>c, <2>1, BufferOpen
<1>6. CASE \/ Kickoff \/ Complete \/ SerialNoAgent \/ OpenWave \/ ScanWave \/ WaveSorted \/ SerialErr
           \/ Abort \/ StartFold \/ FoldOk \/ FoldErr \/ FoldEmpty \/ EndGroup
  <2>1. pc' \notin {"group", "commit"}
    BY <1>6 DEF Kickoff, Complete, SerialNoAgent, OpenWave, ScanWave, WaveSorted, SerialErr, Abort, StartFold,
                FoldOk, FoldErr, FoldEmpty, EndGroup, Return
  <2>2. QED BY <2>1 DEF BufferInv
<1>7. CASE KickoffEmpty \/ CancelParent \/ Commit \/ UNCHANGED vars \/ \E t \in Task : Remember(t)
  <2>1. /\ UNCHANGED <<pc, group, wpc, slot, buffer, firstErr>> /\ (pc = "group" => spawned' = spawned)
    BY <1>7 DEF KickoffEmpty, CancelParent, Commit, Remember, vars
  <2>2. \A t : WorkState(t) => WorkState(t)'
    BY <1>c, <2>1 DEF WorkState
  <2>3. QED BY <1>c, <2>1, <2>2 DEF BufferInv
<1>8. QED BY <1>1, <1>2, <1>3, <1>4, <1>5, <1>6, <1>7 DEF Next, Main

\* No task comes before itself, nor two tasks before each other.
LEMMA PlannedAsymmetric ==
  ASSUME StagesListOnce, MainType, Staged \/ crew.planned, NEW t, NEW u,
         PlannedBefore(t, u), PlannedBefore(u, t)
  PROVE  FALSE
<1>1. crew \in Crews /\ crew.tasks \in Seq(Task) /\ crew.waves \in Seq(Seq(Task))
      /\ crew.stages \in Seq([tasks: Seq(Task), optional: BOOLEAN])
  BY CrewFields DEF MainType
<1>2. CASE Serial
  <2>1. Once(crew.tasks) /\ Lists(crew.tasks, t, u) /\ Lists(crew.tasks, u, t)
    BY <1>2, OneProcess, PlanOnce, PlannedIs
  <2>2. QED BY <1>1, <2>1 DEF Once, Lists
<1>3. CASE Staged
  <2>1. PICK a, b \in DOMAIN crew.stages :
          /\ In(crew.stages[a].tasks, t) /\ In(crew.stages[b].tasks, u)
          /\ a < b \/ (a = b /\ Lists(crew.stages[a].tasks, t, u))
    BY <1>3, PlannedIs
  <2>2. PICK c, d \in DOMAIN crew.stages :
          /\ In(crew.stages[c].tasks, u) /\ In(crew.stages[d].tasks, t)
          /\ c < d \/ (c = d /\ Lists(crew.stages[c].tasks, u, t))
    BY <1>3, PlannedIs
  <2>s. ASSUME NEW v \in DOMAIN crew.stages, NEW w \in DOMAIN crew.stages, NEW x,
               In(crew.stages[v].tasks, x), In(crew.stages[w].tasks, x)
        PROVE  v = w
    <3>1. PICK p \in DOMAIN crew.stages[v].tasks : crew.stages[v].tasks[p] = x
      BY <2>s DEF In
    <3>2. PICK q \in DOMAIN crew.stages[w].tasks : crew.stages[w].tasks[q] = x
      BY <2>s DEF In
    <3>3. crew.stages[v].tasks[p] = crew.stages[w].tasks[q]
      BY <3>1, <3>2
    <3>4. crew \in Crews
      BY <1>1
    <3>5. QED BY <2>s, <3>3, <3>4 DEF StagesListOnce
  <2>n. DOMAIN crew.stages \subseteq Nat
    BY <1>1, SeqIndices
  <2>3. a = d /\ b = c /\ a \in Nat /\ b \in Nat
    <3>1. a = d BY <2>s, <2>1, <2>2
    <3>2. b = c BY <2>s, <2>1, <2>2
    <3>3. QED BY <2>n, <3>1, <3>2
  <2>4. a = b /\ Lists(crew.stages[a].tasks, t, u) /\ Lists(crew.stages[a].tasks, u, t)
    BY <2>1, <2>2, <2>3
  <2>5. Once(crew.stages[a].tasks) /\ crew.stages[a].tasks \in Seq(Task)
    <3>1. \A p, q \in DOMAIN crew.stages[a].tasks : crew.stages[a].tasks[p] = crew.stages[a].tasks[q] => p = q
      BY <1>1, <2>1 DEF StagesListOnce
    <3>2. crew.stages[a].tasks \in Seq(Task)
      <4> DEFINE S == [tasks: Seq(Task), optional: BOOLEAN]
      <4>1. \A x \in S : x.tasks \in Seq(Task)
        OBVIOUS
      <4>2. crew.stages \in Seq(S)
        BY <1>1
      <4> HIDE DEF S
      <4>3. QED BY <2>1, <4>1, <4>2
    <3>3. QED BY <3>1, <3>2 DEF Once
  <2>6. QED BY <2>4, <2>5 DEF Once, Lists
<1>4. CASE Waves
  <2>1. PICK a, b \in DOMAIN crew.waves :
          /\ In(crew.waves[a], t) /\ In(crew.waves[b], u)
          /\ \/ a < b
             \/ a = b /\ t \in crew.async /\ u \notin crew.async
             \/ a = b /\ Lists(crew.waves[a], t, u) /\ (t \in crew.async <=> u \in crew.async)
    BY <1>4, PlannedIs
  <2>2. PICK c, d \in DOMAIN crew.waves :
          /\ In(crew.waves[c], u) /\ In(crew.waves[d], t)
          /\ \/ c < d
             \/ c = d /\ u \in crew.async /\ t \notin crew.async
             \/ c = d /\ Lists(crew.waves[c], u, t) /\ (u \in crew.async <=> t \in crew.async)
    BY <1>4, PlannedIs
  <2>3. \A v, w \in DOMAIN crew.waves : \A p \in DOMAIN crew.waves[v], q \in DOMAIN crew.waves[w] :
          crew.waves[v][p] = crew.waves[w][q] => v = w /\ p = q
    BY <1>4, PlanOnce, OneProcess
  <2>s. ASSUME NEW v \in DOMAIN crew.waves, NEW w \in DOMAIN crew.waves, NEW x,
               In(crew.waves[v], x), In(crew.waves[w], x)
        PROVE  v = w
    <3>1. PICK p \in DOMAIN crew.waves[v] : crew.waves[v][p] = x
      BY <2>s DEF In
    <3>2. PICK q \in DOMAIN crew.waves[w] : crew.waves[w][q] = x
      BY <2>s DEF In
    <3>3. crew.waves[v][p] = crew.waves[w][q]
      BY <3>1, <3>2
    <3>4. QED BY <2>3, <3>3
  <2>n. DOMAIN crew.waves \subseteq Nat
    BY <1>1, SeqIndices
  <2>4. a = d /\ b = c /\ a \in Nat /\ b \in Nat
    <3>1. a = d BY <2>s, <2>1, <2>2
    <3>2. b = c BY <2>s, <2>1, <2>2
    <3>3. QED BY <2>n, <3>1, <3>2
  <2>5. a = b /\ Lists(crew.waves[a], t, u) /\ Lists(crew.waves[a], u, t)
    BY <2>1, <2>2, <2>4
  <2>6. Once(crew.waves[a]) /\ crew.waves[a] \in Seq(Task)
    BY <1>1, <2>1, <2>3 DEF Once
  <2>7. QED BY <2>5, <2>6 DEF Once, Lists
<1>5. QED BY <1>2, <1>3, <1>4, OneProcess

\* What is in the output is neither ahead nor in the part of the group still to fold.
LEMMA OutApart ==
  ASSUME StagesListOnce, TypeInv, ShapeInv, OrderInv, pc # "idle"
  PROVE  \A x \in OutTasks :
           /\ x \notin Coming
           /\ \A q \in DOMAIN group : pc # "fold" \/ q >= fi => group[q] # x
<1>1. MainType /\ (Staged \/ crew.planned)
  BY DEF TypeInv, ShapeInv
<1>2. ASSUME NEW x \in OutTasks, x \in Coming PROVE FALSE
  <2>1. PlannedBefore(x, x)
    BY <1>2 DEF OrderInv
  <2>2. QED BY <1>1, <2>1, PlannedAsymmetric
<1>3. ASSUME NEW x \in OutTasks, NEW q \in DOMAIN group, pc # "fold" \/ q >= fi, group[q] = x PROVE FALSE
  <2>1. PlannedBefore(x, x)
    BY <1>3 DEF OrderInv
  <2>2. QED BY <1>1, <2>1, PlannedAsymmetric
<1>4. QED BY <1>2, <1>3

Fresh(t) == ~AutoSaved(t) /\ kick \notin warned[t]
Tallied(t) == AutoSaved(t) <=> kick \notin warned[t]
TalliedIfOk(t) == IF slot[t] = "ok" THEN Tallied(t) ELSE ~AutoSaved(t)

\* The entry of every saved task is accounted for: in the output, or still to be folded.
SavedKnown ==
  \A t \in Task : AutoSaved(t) =>
    t \in OutTasks \/ \E p \in DOMAIN group : group[p] = t /\ (pc = "fold" => p >= fi)

\* An answer in the output was saved, or carries the warning that it was not.
OutTallied == \A p \in DOMAIN out : AutoSaved(out[p].task) <=> kick \notin out[p].warnings

\* The same of the tasks of the open group, from the moment they are saved.
GroupTallied ==
  /\ pc = "group" => \A t \in Members :
       /\ ~Serial \/ wpc[t] \notin {"guard", "done"} => Fresh(t)
       /\ Serial /\ (wpc[t] = "guard" \/ slot[t] = "ok") => Tallied(t)
  /\ pc = "commit" => \A p \in DOMAIN group :
       IF p >= fi THEN Fresh(group[p]) ELSE TalliedIfOk(group[p])
  /\ pc = "fold" => \A p \in DOMAIN group : p >= fi => TalliedIfOk(group[p])

TallyInv ==
  /\ \A t \in Task : \A k \in warned[t] : k <= kick
  /\ pc # "idle" /\ AutoSaves =>
       (\A t \in Coming : Fresh(t)) /\ OutTallied /\ SavedKnown /\ GroupTallied

LEMMA OutTyped == TypeInv => \A p \in DOMAIN out : out[p].task \in Task
<1> DEFINE S == [task: Task, warnings: SUBSET Nat]
<1>1. \A x \in S : x.task \in Task
  OBVIOUS
<1>2. TypeInv => out \in Seq(S)
  BY DEF TypeInv, SetType
<1> HIDE DEF S
<1>3. QED BY <1>1, <1>2

LEMMA TallyInit == Init => TallyInv
BY DEF Init, TallyInv

\* Steps that save no answer and fold none.
LEMMA TallyKept ==
  ASSUME TallyInv, Agenda, UNCHANGED <<crew, kick, warned, out>>, pc # "idle",
         \A x : AutoSaved(x)' <=> AutoSaved(x),
         AutoSaves /\ pc' # "idle" => SavedKnown' /\ GroupTallied'
  PROVE  TallyInv'
<1>1. AutoSaves' <=> AutoSaves
  BY SavesRigid
<1>2. CASE pc' = "idle"
  BY <1>2 DEF TallyInv
<1>3. CASE pc' # "idle"
  <2>1. AutoSaves => \A t \in Coming' : Fresh(t)'
    BY DEF TallyInv, Agenda, Fresh
  <2>2. AutoSaves => OutTallied'
    BY DEF TallyInv, OutTallied
  <2>3. \A t \in Task : \A k \in warned'[t] : k <= kick'
    BY DEF TallyInv
  <2>4. QED BY <1>1, <1>3, <2>1, <2>2, <2>3 DEF TallyInv
<1>4. QED BY <1>2, <1>3

\* One Put: the entry is in the store, or the task carries the warning.
LEMMA PutTallies ==
  ASSUME TypeInv, TallyInv, NEW t \in Task, Fresh(t), PutAuto(t), kick' = kick
  PROVE  /\ Tallied(t)'
         /\ \A x \in Task \ {t} : (AutoSaved(x)' <=> AutoSaved(x)) /\ warned'[x] = warned[x]
         /\ \A x \in Task : \A k \in warned'[x] : k <= kick'
<1>k. kick \in Nat
  BY DEF TypeInv, MainType
<1>1. CASE store' = Append(store, Entry(t, "auto")) /\ UNCHANGED warned
  <2>1. \A x : AutoSaved(x)' <=> AutoSaved(x) \/ x = t
    BY <1>1, SavedAppend
  <2>2. QED BY <1>1, <2>1 DEF Fresh, Tallied, TallyInv
<1>2. CASE Warn(t) /\ UNCHANGED store
  <2>1. \A x : AutoSaved(x)' <=> AutoSaved(x)
    BY <1>2, SavedSame
  <2>2. \A x \in Task : warned'[x] = IF x = t THEN warned[t] \cup {kick} ELSE warned[x]
    BY <1>2 DEF Warn, TypeInv, SetType
  <2>3. kick <= kick
    BY <1>k
  <2>4. QED BY <2>1, <2>2, <2>3 DEF Fresh, Tallied, TallyInv
<1>3. QED BY <1>1, <1>2 DEF PutAuto

\* The step of the caller, or of a serial task, that puts the entry of t.
LEMMA TallyPut ==
  ASSUME StagesListOnce, TypeInv, ShapeInv, AgendaInv, OrderInv, TallyInv, Agenda, UNCHANGED <<crew, kick, out, group, pc>>,
         pc \in {"group", "commit"}, NEW t \in Members, Fresh(t), PutAuto(t), AutoSaves, GroupTallied'
  PROVE  TallyInv'
<1>1. t \in Task /\ AutoSaves'
  BY SavesRigid DEF Members, TypeInv, MainType
<1>2. /\ Tallied(t)'
      /\ \A x \in Task \ {t} : (AutoSaved(x)' <=> AutoSaved(x)) /\ warned'[x] = warned[x]
      /\ \A x \in Task : \A k \in warned'[x] : k <= kick'
  BY <1>1, PutTallies
<1>3. ASSUME NEW x \in Coming' PROVE Fresh(x)'
  <2>1. x # t /\ x \in Coming /\ x \in Task
    BY <1>3, MembersRigid DEF Agenda, AgendaInv, Coming
  <2>2. QED BY <1>2, <2>1 DEF TallyInv, Fresh
<1>4. OutTallied'
  <2> SUFFICES ASSUME NEW p \in DOMAIN out PROVE AutoSaved(out[p].task)' <=> kick \notin out[p].warnings
    BY DEF OutTallied
  <2>1. out[p].task \in OutTasks /\ out[p].task \in Task
    BY OutTyped DEF OutTasks
  <2>2. out[p].task # t
    BY <2>1, OutApart DEF Members
  <2>3. QED BY <1>2, <2>1, <2>2 DEF TallyInv, OutTallied
<1>5. SavedKnown'
  BY <1>1, <1>2 DEF TallyInv, SavedKnown, OutTasks, Members
<1>6. QED BY <1>1, <1>2, <1>3, <1>4, <1>5 DEF TallyInv

\* The caller and a group member: nothing about the group changes but t's own state.
LEMMA KnownKept ==
  ASSUME SavedKnown, UNCHANGED <<out, group>>, \A x : AutoSaved(x)' <=> AutoSaved(x),
         pc' = "fold" => pc = "fold" /\ fi' = fi
  PROVE  SavedKnown'
BY DEF SavedKnown, OutTasks

LEMMA TallyWorker ==
  ASSUME StagesListOnce, TypeInv, QuietInv, ShapeInv, AgendaInv, OrderInv, BufferInv, TallyInv, Agenda,
         NEW t \in Task, Worker(t)
  PROVE  TallyInv'
<1>1. UNCHANGED <<crew, kick, pc, group, fi, out>> /\ (Serial' <=> Serial) /\ Members' = Members
  BY WorkerMove, ProcessRigid, MembersRigid
<1>2. pc = "group" /\ t \in Members /\ WorkState(t)
  BY WorkerMove DEF QuietInv, Quiet, BufferInv
<1>3. \A u \in Task \ {t} : wpc'[u] = wpc[u]
  BY WorkerMove DEF Goto, TypeInv, WorkType
<1>4. Members \subseteq Task
  BY DEF Members, TypeInv, MainType
<1>5. Serial => Members = {t}
  BY <1>2 DEF ShapeInv, Open, Members
<1>6. CASE AutoSave(t) /\ Serial /\ AutoSaves
  <2>1. PutAuto(t) /\ wpc[t] = "save" /\ wpc'[t] = "guard"
    BY <1>2, <1>6 DEF AutoSave, ShapeInv, Goto, TypeInv, WorkType
  <2>2. Fresh(t)
    BY <1>2, <1>6, <2>1 DEF TallyInv, GroupTallied
  <2>3. Tallied(t)'
    BY <1>1, <2>1, <2>2, PutTallies
  <2>4. GroupTallied'
    BY <1>1, <1>2, <1>5, <1>6, <2>1, <2>3 DEF GroupTallied
  <2>5. QED BY <1>1, <1>2, <1>6, <2>1, <2>2, <2>4, TallyPut
<1>7. CASE ~(AutoSave(t) /\ Serial /\ AutoSaves)
  <2>1. UNCHANGED <<store, warned>>
    <3>1. ~Serial => buffering
      BY <1>2 DEF ShapeInv
    <3>2. QED BY <1>7, <3>1 DEF Worker, Acquire, AcquireCancelled, ReadContext, Inject, CallOk, CallErr, Panic,
                                SetOutput, AutoSave, Guardrail, RecordErr, CancelGroup
  <2>2. \A x : AutoSaved(x)' <=> AutoSaved(x)
    BY <1>1, <2>1, SavedSame
  <2>3. \A x : (Fresh(x) => Fresh(x)') /\ (Tallied(x) => Tallied(x)')
    BY <1>1, <2>1, <2>2 DEF Fresh, Tallied
  <2>4. ASSUME AutoSaves, Serial
        PROVE  /\ wpc'[t] \notin {"guard", "done"} => Fresh(t)
               /\ wpc'[t] = "guard" \/ slot'[t] = "ok" => Tallied(t)
    <3>1. /\ wpc[t] \notin {"guard", "done"} => Fresh(t)
          /\ wpc[t] = "guard" => Tallied(t)
      BY <1>2, <2>4 DEF TallyInv, GroupTallied
    <3>2. slot[t] # "ok"
      BY <1>2, WorkerMove DEF WorkState
    <3>3. CASE Acquire(t) \/ ReadContext(t) \/ Inject(t) \/ CallOk(t) \/ (SetOutput(t) /\ Goto(t, "save") /\ UNCHANGED slot)
      <4>1. /\ UNCHANGED slot /\ wpc[t] \notin {"guard", "done"}
            /\ wpc'[t] \in {"context", "inject", "call", "output", "save"}
        BY <3>3 DEF Acquire, ReadContext, Inject, CallOk, SetOutput, Goto, TypeInv, WorkType
      <4>2. QED BY <3>1, <3>2, <4>1
    <3>4. CASE AcquireCancelled(t) \/ CallErr(t) \/ Panic(t) \/ Guardrail(t) \/ (SetOutput(t) /\ Finish(t, "file"))
      <4>1. PICK e \in Errors \cup {"nil"} : Finish(t, e) /\ (e = "nil" => wpc[t] = "guard")
        BY <3>4, CallErrorsType DEF AcquireCancelled, CallErr, Panic, Guardrail, SetOutput, Errors
      <4>2. wpc'[t] = "done" /\ (slot'[t] = "ok" => e = "nil")
        BY <2>4, <4>1 DEF Finish, Goto, TypeInv, WorkType
      <4>3. QED BY <3>1, <4>1, <4>2
    <3>5. ~AutoSave(t) /\ ~RecordErr(t) /\ ~CancelGroup(t)
      BY <1>7, <2>4 DEF ShapeInv, RecordErr, CancelGroup
    <3>6. QED BY <3>3, <3>4, <3>5 DEF Worker, SetOutput
  <2>5. AutoSaves => GroupTallied'
    <3> SUFFICES ASSUME AutoSaves, NEW u \in Members
                 PROVE  /\ ~Serial \/ wpc'[u] \notin {"guard", "done"} => Fresh(u)'
                        /\ Serial /\ (wpc'[u] = "guard" \/ slot'[u] = "ok") => Tallied(u)'
      BY <1>1, <1>2 DEF GroupTallied
    <3>1. CASE Serial
      BY <1>5, <2>3, <2>4, <3>1
    <3>2. CASE ~Serial
      BY <1>2, <2>3, <3>2 DEF TallyInv, GroupTallied
    <3>3. QED BY <3>1, <3>2
  <2>6. AutoSaves => SavedKnown'
    BY <1>1, <1>2, <2>2, KnownKept DEF TallyInv
  <2>7. QED BY <1>1, <1>2, <2>1, <2>2, <2>5, <2>6, TallyKept
<1>8. QED BY <1>6, <1>7

LEMMA TallyCommit ==
  ASSUME StagesListOnce, TypeInv, ShapeInv, AgendaInv, OrderInv, BufferInv, TallyInv, Agenda, Commit
  PROVE  TallyInv'
<1>0. PICK t \in Task : t = group[fi]
  BY DEF Commit, TypeInv, MainType
<1>1. /\ pc = "commit" /\ fi \in DOMAIN group /\ fi \in Nat /\ fi' = fi + 1 /\ group \in Seq(Task) /\ t \in Members
      /\ UNCHANGED <<crew, kick, pc, group, slot, out>>
  BY <1>0 DEF Commit, TypeInv, MainType, Members
<1>2. AutoSaves => Fresh(t) /\ (t \in buffer <=> slot[t] = "ok")
  BY <1>0, <1>1 DEF TallyInv, GroupTallied, BufferInv
<1>3. ASSUME NEW p \in DOMAIN group PROVE p \in Nat /\ group[p] \in Task /\ (p # fi => group[p] # t)
  BY <1>0, <1>1, <1>3 DEF AgendaInv, Once
<1>a. AutoSaves' <=> AutoSaves
  BY <1>1, SavesRigid
<1>4. ASSUME AutoSaves, TalliedIfOk(t)',
             \A x \in Task \ {t} : (AutoSaved(x)' <=> AutoSaved(x)) /\ warned'[x] = warned[x]
      PROVE  GroupTallied'
  <2>1. \A x \in Task \ {t} : (Fresh(x) => Fresh(x)') /\ (TalliedIfOk(x) => TalliedIfOk(x)')
    BY <1>1, <1>4 DEF Fresh, TalliedIfOk, Tallied
  <2>2. ASSUME NEW p \in DOMAIN group, NEW x \in Task, x = group[p]
        PROVE  IF p >= fi + 1 THEN Fresh(x)' ELSE TalliedIfOk(x)'
    <3>1. CASE p = fi
      <4>1. x = t /\ ~(p >= fi + 1)
        BY <1>0, <1>1, <2>2, <3>1
      <4>2. QED BY <1>4, <4>1
    <3>2. CASE p # fi
      <4>1. x \in Task \ {t} /\ (p >= fi + 1 <=> p >= fi)
        BY <1>1, <1>3, <2>2, <3>2
      <4>2. IF p >= fi THEN Fresh(x) ELSE TalliedIfOk(x)
        BY <1>1, <1>4, <2>2 DEF TallyInv, GroupTallied
      <4>3. QED BY <2>1, <4>1, <4>2
    <3>3. QED BY <3>1, <3>2
  <2>3. \A p \in DOMAIN group : IF p >= fi + 1 THEN Fresh(group[p])' ELSE TalliedIfOk(group[p])'
    BY <1>1, <1>3, <2>2
  <2>4. QED BY <1>1, <2>3 DEF GroupTallied
<1>5. CASE AutoSaves /\ t \in buffer
  <2>1. PutAuto(t) /\ Fresh(t) /\ slot'[t] = "ok"
    BY <1>0, <1>1, <1>2, <1>5 DEF Commit
  <2>2. /\ Tallied(t)'
        /\ \A x \in Task \ {t} : (AutoSaved(x)' <=> AutoSaved(x)) /\ warned'[x] = warned[x]
    BY <1>1, <2>1, PutTallies
  <2>3. GroupTallied'
    BY <1>4, <1>5, <2>1, <2>2 DEF TalliedIfOk
  <2>4. QED BY <1>1, <1>5, <2>1, <2>3, TallyPut
<1>6. CASE AutoSaves /\ t \notin buffer
  <2>1. UNCHANGED <<store, warned>>
    BY <1>0, <1>6 DEF Commit
  <2>2. \A x : AutoSaved(x)' <=> AutoSaved(x)
    BY <1>1, <2>1, SavedSame
  <2>3. TalliedIfOk(t)'
    BY <1>1, <1>2, <1>6, <2>1, <2>2 DEF TalliedIfOk, Fresh
  <2>4. GroupTallied'
    BY <1>4, <1>6, <2>1, <2>2, <2>3
  <2>5. SavedKnown'
    BY <1>1, <1>6, <2>2, KnownKept DEF TallyInv
  <2>6. QED BY <1>1, <2>1, <2>2, <2>4, <2>5, TallyKept
<1>7. CASE ~AutoSaves
  <2>1. \A x \in Task : \A k \in warned'[x] : k <= kick'
    <3>1. kick \in Nat /\ kick <= kick
      BY DEF TypeInv, MainType
    <3>2. CASE UNCHANGED warned
      BY <1>1, <3>2 DEF TallyInv
    <3>3. CASE Warn(t)
      <4>1. \A x \in Task : warned'[x] = IF x = t THEN warned[t] \cup {kick} ELSE warned[x]
        BY <3>3 DEF Warn, TypeInv, SetType
      <4>2. QED BY <1>1, <3>1, <4>1 DEF TallyInv
    <3>4. QED BY <1>0, <3>2, <3>3 DEF Commit, PutAuto
  <2>2. QED BY <1>7, <1>a, <2>1 DEF TallyInv
<1>8. QED BY <1>5, <1>6, <1>7

\* The fold takes the next result of the group.
LEMMA TallyFold ==
  ASSUME StagesListOnce, TypeInv, ShapeInv, AgendaInv, OrderInv, TallyInv, Agenda, FoldOk \/ FoldErr \/ FoldEmpty
  PROVE  TallyInv'
<1>0. PICK t \in Task : t = group[fi]
  BY DEF FoldOk, FoldErr, FoldEmpty, TypeInv, MainType
<1>1. /\ pc = "fold" /\ fi \in DOMAIN group /\ fi \in Nat /\ fi' = fi + 1 /\ group \in Seq(Task)
      /\ UNCHANGED <<crew, kick, pc, group, slot, store, warned>>
  BY DEF FoldOk, FoldErr, FoldEmpty, TypeInv, MainType
<1>2. \A x : AutoSaved(x)' <=> AutoSaved(x)
  BY <1>1, SavedSame
<1>3. \A p \in DOMAIN group : p \in Nat /\ (p >= fi <=> p = fi \/ p >= fi + 1)
  BY <1>1
<1>4. AutoSaves => GroupTallied'
  <2>1. AutoSaves => \A p \in DOMAIN group : p >= fi + 1 => TalliedIfOk(group[p])
    BY <1>1, <1>3 DEF TallyInv, GroupTallied
  <2>2. QED BY <1>1, <1>2, <2>1 DEF GroupTallied, TalliedIfOk, Tallied
<1>5. AutoSaves => TalliedIfOk(t)
  <2>1. fi >= fi
    BY <1>1
  <2>2. QED BY <1>0, <1>1, <2>1 DEF TallyInv, GroupTallied
<1>6. CASE FoldOk
  <2>1. /\ DOMAIN out = 1..Len(out) /\ DOMAIN out' = 1..(Len(out) + 1) /\ Len(out) \in Nat
        /\ \A p \in 1..Len(out) : out'[p] = out[p]
        /\ out'[Len(out) + 1] = [task |-> t, warnings |-> warned[t]]
        /\ OutTasks' = OutTasks \cup {t}
    BY <1>0, <1>6, OutAppend DEF FoldOk
  <2>2. AutoSaves => Tallied(t)
    BY <1>0, <1>5, <1>6 DEF FoldOk, TalliedIfOk
  <2>3. AutoSaves => OutTallied'
    <3>1. \A p \in 1..(Len(out) + 1) : p \in 1..Len(out) \/ p = Len(out) + 1
      BY <2>1
    <3>2. QED BY <1>1, <1>2, <2>1, <2>2, <3>1 DEF TallyInv, OutTallied, Tallied
  <2>4. AutoSaves => SavedKnown'
    BY <1>0, <1>1, <1>2, <1>3, <2>1 DEF TallyInv, SavedKnown
  <2>5. AutoSaves => \A x \in Coming' : Fresh(x)'
    BY <1>1, <1>2 DEF TallyInv, Agenda, Fresh
  <2>6. AutoSaves' <=> AutoSaves
    BY <1>1, SavesRigid
  <2>7. QED BY <1>1, <1>4, <2>3, <2>4, <2>5, <2>6 DEF TallyInv
<1>7. CASE FoldErr \/ FoldEmpty
  <2>1. UNCHANGED out /\ slot[t] # "ok"
    BY <1>0, <1>7 DEF FoldErr, FoldEmpty
  <2>2. AutoSaves => ~AutoSaved(t)
    BY <1>5, <2>1 DEF TalliedIfOk
  <2>3. AutoSaves => SavedKnown'
    BY <1>0, <1>1, <1>2, <1>3, <2>1, <2>2 DEF TallyInv, SavedKnown, OutTasks
  <2>4. QED BY <1>1, <1>2, <1>4, <2>1, <2>3, TallyKept
<1>8. QED BY <1>6, <1>7

LEMMA TallyOpen ==
  ASSUME TypeInv, ShapeInv, ApartInv, TallyInv, Agenda, SerialTask \/ AsyncGroup \/ SyncGroup \/ StageGroup
  PROVE  TallyInv'
<1>1. UNCHANGED <<crew, kick, store, warned, out>> /\ pc = "step" /\ pc' = "group"
  BY DEF SerialTask, AsyncGroup, SyncGroup, StageGroup, OpenGroup
<1>2. \E s : Enter(s)
  BY DEF SerialTask, AsyncGroup, SyncGroup, StageGroup, OpenGroup
<1>3. wpc' \in [Task -> {"context", "none"}] /\ slot' \in [Task -> {"empty"}]
  BY <1>2, EnterTypes
<1>4. \A x : (AutoSaved(x)' <=> AutoSaved(x)) /\ (Fresh(x)' <=> Fresh(x))
  BY <1>1, SavedSame DEF Fresh
<1>5. group = <<>> /\ Members = {} /\ Members' \subseteq Coming /\ Coming \subseteq Task
  BY <1>1 DEF ShapeInv, Members, Agenda, Coming
<1>6. AutoSaves => GroupTallied'
  <2>1. \A t \in Members' : wpc'[t] \in {"context", "none"} /\ slot'[t] = "empty"
    BY <1>3, <1>5
  <2>2. AutoSaves => \A t \in Members' : Fresh(t)'
    BY <1>1, <1>4, <1>5 DEF TallyInv
  <2>3. QED BY <1>1, <2>1, <2>2 DEF GroupTallied
<1>7. AutoSaves => SavedKnown'
  BY <1>1, <1>4, <1>5 DEF TallyInv, SavedKnown, OutTasks
<1>8. QED BY <1>1, <1>4, <1>6, <1>7, TallyKept

\* The end of a group: the caller goes on to commit it, or to fold it.
LEMMA TallyJoin ==
  ASSUME TypeInv, ShapeInv, TallyInv, Agenda, StartCommit \/ StartFold
  PROVE  TallyInv'
<1>1. UNCHANGED <<crew, kick, store, warned, out, group, slot>> /\ fi' = 1 /\ group \in Seq(Task)
  BY DEF StartCommit, StartFold, Joined, TypeInv, MainType
<1>2. \A x : AutoSaved(x)' <=> AutoSaved(x)
  BY <1>1, SavedSame
<1>3. \A p \in DOMAIN group : p \in Nat /\ p >= 1 /\ group[p] \in Members
  BY <1>1 DEF Members
<1>4. \A x : /\ (Fresh(x) => Fresh(x)') /\ (TalliedIfOk(x) => TalliedIfOk(x)')
  BY <1>1, <1>2 DEF Fresh, TalliedIfOk, Tallied
<1>5. CASE StartCommit
  <2>1. pc = "group" /\ ~Serial /\ pc' = "commit"
    BY <1>5 DEF StartCommit, Joined
  <2>2. AutoSaves => \A p \in DOMAIN group : Fresh(group[p])
    BY <1>3, <2>1 DEF TallyInv, GroupTallied
  <2>3. AutoSaves => GroupTallied'
    BY <1>1, <1>3, <1>4, <2>1, <2>2 DEF GroupTallied
  <2>4. AutoSaves => SavedKnown'
    BY <1>1, <1>2, <2>1, KnownKept DEF TallyInv
  <2>5. QED BY <1>1, <1>2, <2>1, <2>3, <2>4, TallyKept
<1>6. CASE StartFold
  <2>1. pc' = "fold" /\ pc \in {"commit", "group"}
    BY <1>6 DEF StartFold, Joined
  <2>2. AutoSaves => \A p \in DOMAIN group : TalliedIfOk(group[p])
    <3>1. CASE pc = "commit"
      <4>1. fi > Len(group) /\ fi \in Nat
        BY <1>6, <3>1 DEF StartFold, Joined, TypeInv, MainType
      <4>2. \A p \in DOMAIN group : ~(p >= fi)
        BY <1>1, <4>1
      <4>3. QED BY <3>1, <4>2 DEF TallyInv, GroupTallied
    <3>2. CASE pc = "group"
      <4>1. Serial /\ slot[group[1]] = "ok" /\ Len(group) = 1
        BY <1>6, <3>2 DEF StartFold, Joined, ShapeInv, Open
      <4>2. \A p \in DOMAIN group : slot[group[p]] = "ok"
        BY <1>1, <4>1
      <4>3. QED BY <1>3, <3>2, <4>1, <4>2 DEF TallyInv, GroupTallied, TalliedIfOk
    <3>3. QED BY <2>1, <3>1, <3>2
  <2>3. AutoSaves => GroupTallied'
    BY <1>1, <1>4, <2>1, <2>2 DEF GroupTallied
  <2>4. AutoSaves => SavedKnown'
    BY <1>1, <1>2, <1>3, <2>1 DEF TallyInv, SavedKnown, OutTasks
  <2>5. QED BY <1>1, <1>2, <2>1, <2>3, <2>4, TallyKept
<1>7. QED BY <1>5, <1>6

\* A new Kickoff has saved nothing and warned of nothing.
LEMMA KickoffFresh ==
  ASSUME TypeInv, ApartInv, TallyInv, kick' = kick + 1, store' = <<>> \/ store' = store, UNCHANGED warned
  PROVE  \A t \in Task : Fresh(t)' /\ \A k \in warned'[t] : k <= kick'
<1>1. kick \in Nat /\ store \in Seq(EntryType) /\ \A t \in Task : warned[t] \subseteq Nat
  BY DEF TypeInv, MainType, MemType, SetType
<1>2. \A p \in DOMAIN store : store[p].kick <= kick /\ store[p].kick \in Nat
  <2>1. \A p \in DOMAIN store : store[p] \in EntryType
    BY <1>1
  <2>2. QED BY <2>1 DEF EntryType, ApartInv
<1>3. \A p \in DOMAIN store' : store'[p].kick # kick'
  BY <1>1, <1>2
<1>4. \A t : ~AutoSaved(t)'
  BY <1>3 DEF AutoSaved, SavedAt
<1>5. \A t \in Task : \A k \in warned[t] : k <= kick /\ k \in Nat
  BY <1>1 DEF TallyInv
<1>6. \A t \in Task : \A k \in warned'[t] : k <= kick' /\ k # kick'
  BY <1>1, <1>5
<1>7. QED BY <1>4, <1>6 DEF Fresh

LEMMA TallyStep ==
  ASSUME StagesListOnce
  PROVE  TypeInv /\ QuietInv /\ ShapeInv /\ AgendaInv /\ ApartInv /\ OrderInv /\ BufferInv /\ TallyInv /\ [Next]_vars
           => TallyInv'
<1> SUFFICES ASSUME TypeInv, QuietInv, ShapeInv, AgendaInv, ApartInv, OrderInv, BufferInv, TallyInv, [Next]_vars
             PROVE  TallyInv'
  OBVIOUS
<1>1. CASE pc = "idle" /\ (Kickoff \/ KickoffEmpty)
  <2>1. /\ kick' = kick + 1 /\ (store' = <<>> \/ store' = store) /\ UNCHANGED warned
        /\ pc' # "idle" => out' = <<>> /\ pc' = "step"
    BY <1>1 DEF Kickoff, KickoffEmpty
  <2>2. \A t \in Task : Fresh(t)' /\ \A k \in warned'[t] : k <= kick'
    BY <2>1, KickoffFresh
  <2>3. Coming' \subseteq Task
    BY DEF Coming
  <2>4. pc' # "idle" => OutTallied' /\ SavedKnown' /\ GroupTallied'
    BY <2>1, <2>2 DEF OutTallied, SavedKnown, GroupTallied, Fresh
  <2>5. QED BY <2>2, <2>3, <2>4 DEF TallyInv
<1>2. CASE pc = "idle" /\ UNCHANGED vars
  BY <1>2 DEF vars, TallyInv
<1>3. CASE pc # "idle"
  <2>a. Agenda
    BY <1>3, AgendaMoves
  <2>1. ASSUME NEW t \in Task, Worker(t) PROVE TallyInv'
    BY <2>a, <2>1, TallyWorker
  <2>2. CASE Commit
    BY <2>a, <2>2, TallyCommit
  <2>3. CASE FoldOk \/ FoldErr \/ FoldEmpty
    BY <2>a, <2>3, TallyFold
  <2>4. CASE SerialTask \/ AsyncGroup \/ SyncGroup \/ StageGroup
    BY <2>a, <2>4, TallyOpen
  <2>5. CASE StartCommit \/ StartFold
    BY <2>a, <2>5, TallyJoin
  <2>6. CASE Complete \/ SerialNoAgent \/ SerialErr \/ Abort
    <3>1. UNCHANGED <<crew, kick, store, warned, out>> /\ pc' = "idle"
      BY <2>6 DEF Complete, SerialNoAgent, SerialErr, Abort, Return
    <3>2. QED BY <1>3, <2>a, <3>1, SavedSame, TallyKept
  <2>7. CASE OpenWave \/ ScanWave \/ WaveSorted \/ EndGroup
    <3>1. /\ UNCHANGED <<crew, kick, store, warned, out>> /\ pc' \in {"step", "scan"}
          /\ \/ pc # "fold" /\ group = <<>> /\ group' = <<>>
             \/ pc = "fold" /\ fi > Len(group)
      BY <2>7 DEF OpenWave, ScanWave, WaveSorted, EndGroup, ShapeInv
    <3>2. \A x : AutoSaved(x)' <=> AutoSaved(x)
      BY <3>1, SavedSame
    <3>3. \A p \in DOMAIN group : ~(pc = "fold" => p >= fi)
      BY <3>1 DEF TypeInv, MainType
    <3>4. AutoSaves => SavedKnown' /\ GroupTallied'
      BY <1>3, <3>1, <3>2, <3>3 DEF TallyInv, SavedKnown, GroupTallied, OutTasks
    <3>5. QED BY <1>3, <2>a, <3>1, <3>2, <3>4, TallyKept
  <2>8. CASE CancelParent \/ Spawn \/ UNCHANGED vars \/ \E t \in Task : Remember(t)
    <3>1. UNCHANGED <<crew, kick, pc, group, fi, slot, warned, out>>
      BY <2>8 DEF CancelParent, Spawn, Remember, vars
    <3>2. \A x : AutoSaved(x)' <=> AutoSaved(x)
      <4>1. CASE UNCHANGED store
        BY <3>1, <4>1, SavedSame
      <4>2. ASSUME NEW t \in Task, Remember(t) PROVE \A x : AutoSaved(x)' <=> AutoSaved(x)
        BY <3>1, <4>2, SavedAppend DEF Remember
      <4>3. QED BY <2>8, <4>1, <4>2 DEF CancelParent, Spawn, vars
    <3>3. pc = "group" => ~Serial \/ UNCHANGED wpc
      <4>1. CASE Spawn
        BY <4>1 DEF Spawn, ShapeInv, Open
      <4>2. QED BY <2>8, <4>1 DEF CancelParent, Remember, vars
    <3>4. AutoSaves => GroupTallied'
      BY <1>3, <3>1, <3>2, <3>3, ProcessRigid, MembersRigid
      DEF TallyInv, GroupTallied, Fresh, Tallied, TalliedIfOk
    <3>5. AutoSaves => SavedKnown'
      BY <1>3, <3>1, <3>2, KnownKept DEF TallyInv
    <3>6. QED BY <1>3, <2>a, <3>1, <3>2, <3>4, <3>5, TallyKept
  <2>9. QED
    BY <1>3, <2>1, <2>2, <2>3, <2>4, <2>5, <2>6, <2>7, <2>8 DEF Next, Main, Kickoff, KickoffEmpty
<1>4. QED BY <1>1, <1>2, <1>3, IdleStep

\* This Kickoff's entries are stored in the order of the plan.
SavedNow(q) == store[q].src = "auto" /\ store[q].kick = kick
SavedOrdered ==
  \A q, r \in DOMAIN store :
    q < r /\ SavedNow(q) /\ SavedNow(r) => PlannedBefore(store[q].task, store[r].task)

MemoryInv == MemoryMatchesOutput /\ (pc # "idle" /\ AutoSaves => SavedOrdered)

LEMMA MemoryInit == Init => MemoryInv
BY DEF Init, MemoryInv, MemoryMatchesOutput

LEMMA SavedOrderedAppend ==
  ASSUME TypeInv, SavedOrdered, UNCHANGED <<crew, kick>>, NEW t \in Task, NEW src \in {"auto", "tool"},
         store' = Append(store, Entry(t, src)),
         src = "auto" => \A u \in Task : AutoSaved(u) => PlannedBefore(u, t)
  PROVE  SavedOrdered'
<1>1. /\ \A p \in DOMAIN store : store'[p] = store[p]
      /\ DOMAIN store' = 1..(Len(store) + 1) /\ DOMAIN store = 1..Len(store)
      /\ store'[Len(store) + 1] = Entry(t, src)
  BY SavedAppend
<1>2. Len(store) \in Nat /\ \A p \in DOMAIN store : store[p].task \in Task
  <2>1. store \in Seq(EntryType)
    BY DEF TypeInv, MemType
  <2>2. \A p \in DOMAIN store : store[p] \in EntryType
    BY <2>1
  <2>3. QED BY <2>1, <2>2 DEF EntryType
<1>3. \A x, u : PlannedBefore(x, u)' <=> PlannedBefore(x, u)
  BY PlannedRigid
<1> SUFFICES ASSUME NEW q \in 1..(Len(store) + 1), NEW r \in 1..(Len(store) + 1), q < r,
                    SavedNow(q)', SavedNow(r)'
             PROVE  PlannedBefore(store'[q].task, store'[r].task)
  BY <1>1, <1>3 DEF SavedOrdered
<1>4. q \in DOMAIN store /\ (r \in DOMAIN store \/ r = Len(store) + 1)
  BY <1>1, <1>2
<1>5. SavedNow(q)
  BY <1>1, <1>4 DEF SavedNow
<1>6. CASE r \in DOMAIN store
  BY <1>1, <1>4, <1>5, <1>6 DEF SavedNow, SavedOrdered
<1>7. CASE r = Len(store) + 1
  <2>1. store'[r].task = t /\ src = "auto"
    BY <1>1, <1>7 DEF SavedNow, Entry
  <2>2. store[q].task \in Task /\ AutoSaved(store[q].task)
    BY <1>2, <1>4, <1>5 DEF SavedNow, AutoSaved, SavedAt
  <2>3. QED BY <1>1, <1>4, <2>1, <2>2
<1>8. QED BY <1>4, <1>6, <1>7

\* When every task is folded, the store and the output tell the same story.
LEMMA MemoryComplete ==
  ASSUME StagesListOnce, TypeInv, ShapeInv, OrderInv, TallyInv, SavedOrdered, pc = "step", AutoSaves
  PROVE  LET kept == {p \in DOMAIN out : kick \notin out[p].warnings}
             saved == {q \in DOMAIN store : store[q].src = "auto" /\ store[q].kick = kick}
         IN /\ \A p \in kept : \E q \in saved : store[q].task = out[p].task
            /\ \A q \in saved : \E p \in kept : store[q].task = out[p].task
            /\ \A q, r \in saved : \A p, s \in kept :
                 store[q].task = out[p].task /\ store[r].task = out[s].task => (q < r <=> p < s)
<1> DEFINE kept == {p \in DOMAIN out : kick \notin out[p].warnings}
           saved == {q \in DOMAIN store : store[q].src = "auto" /\ store[q].kick = kick}
<1>1. /\ \A q \in saved : q \in DOMAIN store /\ SavedNow(q) /\ q \in Nat /\ AutoSaved(store[q].task)
      /\ \A q \in saved : store[q].task \in Task
  <2>1. store \in Seq(EntryType)
    BY DEF TypeInv, MemType
  <2>2. \A p \in DOMAIN store : store[p] \in EntryType /\ p \in Nat
    BY <2>1
  <2>3. QED BY <2>2 DEF SavedNow, AutoSaved, SavedAt, EntryType
<1>2. \A p \in kept : p \in DOMAIN out /\ p \in Nat
  BY DEF TypeInv, SetType
<1>3. \A p \in kept : AutoSaved(out[p].task)
  BY DEF TallyInv, OutTallied
<1>4. \A p \in kept : \E q \in saved : store[q].task = out[p].task
  BY <1>3 DEF AutoSaved, SavedAt
<1>5. \A q \in saved : \E p \in kept : store[q].task = out[p].task
  <2> SUFFICES ASSUME NEW q \in saved PROVE \E p \in kept : store[q].task = out[p].task
    OBVIOUS
  <2>1. store[q].task \in OutTasks
    <3>1. group = <<>>
      BY DEF ShapeInv
    <3>2. QED BY <1>1, <3>1 DEF TallyInv, SavedKnown
  <2>2. PICK p \in DOMAIN out : store[q].task = out[p].task
    BY <2>1 DEF OutTasks
  <2>3. p \in kept
    BY <1>1, <2>2 DEF TallyInv, OutTallied
  <2>4. QED BY <2>2, <2>3
<1>6. ASSUME NEW q \in saved, NEW r \in saved, NEW p \in kept, NEW s \in kept,
             store[q].task = out[p].task, store[r].task = out[s].task
      PROVE  q < r <=> p < s
  <2>1. /\ q < r => PlannedBefore(out[p].task, out[s].task)
        /\ r < q => PlannedBefore(out[s].task, out[p].task)
    BY <1>1, <1>6 DEF SavedOrdered
  <2>2. /\ p < s => PlannedBefore(out[p].task, out[s].task)
        /\ s < p => PlannedBefore(out[s].task, out[p].task)
    BY <1>2 DEF OrderInv, FoldFollowsPlan
  <2>3. ~(PlannedBefore(out[p].task, out[s].task) /\ PlannedBefore(out[s].task, out[p].task))
    BY PlannedAsymmetric DEF TypeInv, ShapeInv
  <2>4. /\ p = s => ~PlannedBefore(out[p].task, out[s].task)
        /\ q = r => ~PlannedBefore(out[p].task, out[s].task)
    <3>1. (p = s \/ q = r) => out[p].task = out[s].task
      BY <1>6
    <3>2. QED BY <2>3, <3>1
  <2>5. q \in Nat /\ r \in Nat /\ p \in Nat /\ s \in Nat
    BY <1>1, <1>2
  <2>6. QED BY <2>1, <2>2, <2>3, <2>4, <2>5
<1>7. QED BY <1>4, <1>5, <1>6

\* Whatever is in the store when an entry of the group is put comes before it.
LEMMA SavedBefore ==
  ASSUME TypeInv, ShapeInv, OrderInv, TallyInv, AutoSaves, pc \in {"group", "commit"},
         NEW r \in DOMAIN group, Fresh(group[r]), Serial \/ (pc = "commit" /\ r = fi)
  PROVE  \A u \in Task : AutoSaved(u) => PlannedBefore(u, group[r])
<1> SUFFICES ASSUME NEW u \in Task, AutoSaved(u) PROVE PlannedBefore(u, group[r])
  OBVIOUS
<1>1. CASE u \in OutTasks
  BY <1>1 DEF OrderInv
<1>2. ASSUME NEW p \in DOMAIN group, group[p] = u PROVE PlannedBefore(u, group[r])
  <2>1. p # r
    BY <1>2 DEF Fresh
  <2>2. p \in Nat /\ r \in Nat /\ fi \in Nat
    BY DEF TypeInv, MainType
  <2>3. ~Serial
    <3>1. Serial => Len(group) = 1 /\ p \in 1..Len(group) /\ r \in 1..Len(group)
      BY DEF ShapeInv, Open, TypeInv, MainType
    <3>2. QED BY <2>1, <3>1
  <2>4. pc = "commit" /\ r = fi
    BY <2>3
  <2>5. ~(p >= fi)
    <3>1. p >= fi => Fresh(u)
      BY <1>2, <2>4 DEF TallyInv, GroupTallied
    <3>2. QED BY <3>1 DEF Fresh
  <2>6. p < r
    BY <2>2, <2>4, <2>5
  <2>7. QED BY <1>2, <2>4, <2>6 DEF OrderInv, Ordered
<1>3. QED BY <1>1, <1>2 DEF TallyInv, SavedKnown

LEMMA MemoryStep ==
  ASSUME StagesListOnce
  PROVE  TypeInv /\ QuietInv /\ ShapeInv /\ ApartInv /\ OrderInv /\ BufferInv /\ TallyInv /\ MemoryInv /\ [Next]_vars
           => MemoryInv'
<1> SUFFICES ASSUME TypeInv, QuietInv, ShapeInv, ApartInv, OrderInv, BufferInv, TallyInv, MemoryInv, [Next]_vars
             PROVE  MemoryInv'
  OBVIOUS
<1>c. crew' = crew /\ (AutoSaves' <=> AutoSaves) /\ \A x, u : PlannedBefore(x, u)' <=> PlannedBefore(x, u)
  BY CrewRigid, SavesRigid, PlannedRigid
<1>1. CASE pc = "idle" /\ (Kickoff \/ KickoffEmpty)
  <2>1. /\ kick' = kick + 1 /\ (store' = <<>> \/ store' = store) /\ UNCHANGED warned
        /\ result' # "ok"
    BY <1>1, StartErrorType DEF Kickoff, KickoffEmpty
  <2>2. \A t \in Task : ~AutoSaved(t)'
    BY <2>1, KickoffFresh DEF Fresh
  <2>3. \A q \in DOMAIN store' : store'[q].task \in Task
    <3>1. store' \in Seq(EntryType)
      BY <2>1, TypeStep DEF TypeInv, MemType
    <3>2. \A q \in DOMAIN store' : store'[q] \in EntryType
      BY <3>1
    <3>3. QED BY <3>2 DEF EntryType
  <2>4. \A q \in DOMAIN store' : ~SavedNow(q)'
    BY <2>2, <2>3 DEF SavedNow, AutoSaved, SavedAt
  <2>5. QED BY <2>1, <2>4 DEF MemoryInv, SavedOrdered, MemoryMatchesOutput
<1>2. CASE pc = "idle" /\ UNCHANGED vars
  BY <1>2, <1>c DEF vars, MemoryInv, MemoryMatchesOutput
<1>3. CASE pc # "idle"
  <2>1. CASE Complete
    <3>1. UNCHANGED <<crew, kick, store, out>> /\ pc = "step" /\ pc' = "idle"
      BY <2>1 DEF Complete
    <3>2. AutoSaves => SavedOrdered
      BY <1>3 DEF MemoryInv
    <3>3. MemoryMatchesOutput'
      BY <1>c, <3>1, <3>2, MemoryComplete DEF MemoryMatchesOutput
    <3>4. QED BY <3>1, <3>3 DEF MemoryInv
  <2>2. CASE SerialNoAgent \/ SerialErr \/ Abort
    <3>1. \A t \in Task : werr[t] # "ok"
      BY DEF TypeInv, WorkType, Errors
    <3>2. pc' = "idle" /\ result' # "ok"
      <4>1. CASE SerialNoAgent
        BY <4>1 DEF SerialNoAgent, Return
      <4>2. CASE SerialErr
        <5>1. group[1] \in Task
          BY <4>2 DEF SerialErr, Joined, TypeInv, MainType, ControlInv
        <5>2. QED BY <3>1, <4>2, <5>1 DEF SerialErr, Return
      <4>3. CASE Abort
        BY <4>3 DEF Abort, Return, TypeInv, WorkType, Errors
      <4>4. QED BY <2>2, <4>1, <4>2, <4>3
    <3>3. QED BY <3>2 DEF MemoryInv, MemoryMatchesOutput
  <2>3. ASSUME NEW t \in Task, Worker(t), ~UNCHANGED store PROVE MemoryInv'
    <3>1. UNCHANGED <<crew, kick, pc, group>> /\ pc = "group" /\ t \in Members
      BY <2>3, WorkerMove DEF QuietInv, Quiet
    <3>2. AutoSave(t) /\ AutoSaves /\ ~buffering
      BY <2>3 DEF Worker, Acquire, AcquireCancelled, ReadContext, Inject, CallOk, CallErr, Panic, SetOutput, AutoSave,
                  Guardrail, RecordErr, CancelGroup
    <3>3. Serial
      BY <3>1, <3>2 DEF ShapeInv
    <3>4. store' = Append(store, Entry(t, "auto")) /\ wpc[t] = "save"
      BY <2>3, <3>2 DEF AutoSave, PutAuto
    <3>5. PICK r \in DOMAIN group : group[r] = t
      BY <3>1 DEF Members
    <3>6. Fresh(t)
      BY <3>1, <3>2, <3>4 DEF TallyInv, GroupTallied
    <3>7. \A u \in Task : AutoSaved(u) => PlannedBefore(u, t)
      BY <3>1, <3>2, <3>3, <3>5, <3>6, SavedBefore
    <3>8. SavedOrdered'
      BY <3>1, <3>2, <3>4, <3>7, SavedOrderedAppend DEF MemoryInv
    <3>9. QED BY <3>1, <3>8 DEF MemoryInv, MemoryMatchesOutput
  <2>4. CASE Commit /\ ~UNCHANGED store
    <3>1. PICK t \in Task : t = group[fi]
      BY <2>4 DEF Commit, TypeInv, MainType
    <3>2. /\ UNCHANGED <<crew, kick, pc, group>> /\ pc = "commit" /\ fi \in DOMAIN group
          /\ store' = Append(store, Entry(t, "auto"))
      BY <2>4, <3>1 DEF Commit, PutAuto, TypeInv, MainType
    <3>3. CASE AutoSaves
      <4>1. fi >= fi
        BY DEF TypeInv, MainType
      <4>2. Fresh(t)
        BY <3>1, <3>2, <3>3, <4>1 DEF TallyInv, GroupTallied
      <4>3. \A u \in Task : AutoSaved(u) => PlannedBefore(u, t)
        BY <3>1, <3>2, <3>3, <4>2, SavedBefore
      <4>4. SavedOrdered'
        BY <3>2, <3>3, <4>3, SavedOrderedAppend DEF MemoryInv
      <4>5. QED BY <3>2, <4>4 DEF MemoryInv, MemoryMatchesOutput
    <3>4. CASE ~AutoSaves
      BY <1>c, <3>2, <3>4 DEF MemoryInv, MemoryMatchesOutput
    <3>5. QED BY <3>3, <3>4
  <2>5. ASSUME NEW t \in Task, Remember(t) PROVE MemoryInv'
    <3>1. UNCHANGED <<crew, kick, pc>> /\ store' = Append(store, Entry(t, "tool"))
      BY <2>5 DEF Remember
    <3>2. AutoSaves => SavedOrdered'
      BY <1>3, <3>1, SavedOrderedAppend DEF MemoryInv
    <3>3. QED BY <1>3, <1>c, <3>1, <3>2 DEF MemoryInv, MemoryMatchesOutput
  <2>6. CASE UNCHANGED <<kick, store>> /\ pc' # "idle"
    <3>1. SavedOrdered => SavedOrdered'
      BY <1>c, <2>6 DEF SavedOrdered, SavedNow
    <3>2. QED BY <1>3, <1>c, <2>6, <3>1 DEF MemoryInv, MemoryMatchesOutput
  <2>7. \/ UNCHANGED <<kick, store>> /\ pc' # "idle"
        \/ Complete \/ SerialNoAgent \/ SerialErr \/ Abort \/ (Commit /\ ~UNCHANGED store)
        \/ \E t \in Task : Remember(t) \/ (Worker(t) /\ ~UNCHANGED store)
    <3>1. CASE \/ CancelParent \/ SerialTask \/ OpenWave \/ ScanWave \/ WaveSorted
               \/ AsyncGroup \/ SyncGroup \/ StageGroup \/ Spawn \/ StartCommit
               \/ StartFold \/ FoldOk \/ FoldErr \/ FoldEmpty \/ EndGroup \/ UNCHANGED vars
      BY <1>3, <3>1 DEF CancelParent, SerialTask, OpenWave, ScanWave, WaveSorted, AsyncGroup, SyncGroup,
         StageGroup, OpenGroup, Spawn, StartCommit, StartFold, FoldOk, FoldErr, FoldEmpty, EndGroup, vars
    <3>2. CASE Commit /\ UNCHANGED store
      BY <3>2 DEF Commit
    <3>3. ASSUME NEW t \in Task, Worker(t), UNCHANGED store PROVE UNCHANGED <<kick, store>> /\ pc' # "idle"
      BY <1>3, <3>3, WorkerMove
    <3>4. QED BY <1>3, <3>1, <3>2, <3>3 DEF Next, Main, Kickoff, KickoffEmpty
  <2>8. QED BY <2>1, <2>2, <2>3, <2>4, <2>5, <2>6, <2>7
<1>4. QED BY <1>1, <1>2, <1>3, IdleStep

\* What a Kickoff remembers is what it returned (G1, G11): for every crew, failure and
\* interleaving the AutoSave entries of a successful Kickoff are those of its output, in
\* its order, less the ones whose Put failed, and these carry the warning; provided no
\* task is in two stages and a blocked guardrail ends the Kickoff.
THEOREM MemoryIsTheOutput ==
  ASSUME StagesListOnce, GuardsStop
  PROVE  Spec => []MemoryMatchesOutput
<1>1. MemoryInv => MemoryMatchesOutput
  BY DEF MemoryInv
<1>2. TypeInv /\ QuietInv /\ ShapeInv /\ AgendaInv /\ ApartInv /\ [Next]_vars => ApartInv'
  BY ApartStep
<1>3. TypeInv /\ QuietInv /\ ShapeInv /\ AgendaInv /\ OrderInv /\ [Next]_vars => OrderInv'
  BY OrderStep
<1>4. TypeInv /\ QuietInv /\ ShapeInv /\ AgendaInv /\ BufferInv /\ [Next]_vars => BufferInv'
  BY BufferStep
<1>5. TypeInv /\ QuietInv /\ ShapeInv /\ AgendaInv /\ ApartInv /\ OrderInv /\ BufferInv /\ TallyInv /\ [Next]_vars
        => TallyInv'
  BY TallyStep
<1>6. TypeInv /\ QuietInv /\ ShapeInv /\ ApartInv /\ OrderInv /\ BufferInv /\ TallyInv /\ MemoryInv /\ [Next]_vars
        => MemoryInv'
  BY MemoryStep
<1>7. QED
  BY <1>1, <1>2, <1>3, <1>4, <1>5, <1>6, PlanInvariant, ApartInit, OrderInit, BufferInit, TallyInit, MemoryInit,
     PTL DEF Spec

-------------------------------------------------------------------------------
(***************************************************************************)
(* A failure reaches the dependents of the failed task, and nothing else.  *)
(***************************************************************************)

\* The open group still holds t, to be run or to be folded.
Unfolded(t) == \E q \in DOMAIN group : group[q] = t /\ (pc = "fold" => q >= fi)

Accounted(t) == t \in OutTasks \/ t \in failed \/ Queued(t) \/ Unfolded(t)

\* Every task of the waves opened so far is folded, failed, queued or in the group.
WavesAccounted ==
  \A v \in 1..pos : \A p \in DOMAIN crew.waves[v] : \A t \in Task :
    t = crew.waves[v][p] => Accounted(t) \/ (pc = "scan" /\ v = pos /\ p >= scan)

\* Inductive strengthening, inside an async Kickoff: no task is in two of these sets, all
\* of them are in waves already opened, and none that runs or ran needs a failed one.
ContainInv ==
  /\ \A t \in OutTasks : \E v \in 1..pos : In(crew.waves[v], t)
  /\ \A t \in Members : pos \in DOMAIN crew.waves /\ In(crew.waves[pos], t)
  /\ \A t \in failed : t \notin OutTasks /\ t \notin Coming /\ ~Unfolded(t)
  /\ \A t \in Task : t \in OutTasks \/ t \in Members \/ Queued(t) => ~failedUpstream(t)
  /\ WavesAccounted

AllContained ==
  Waves /\ pc = "idle" /\ result = "ok" =>
    \A t \in {crew.tasks[p] : p \in DOMAIN crew.tasks} :
      /\ t \in OutTasks <=> t \notin failed
      /\ t \in OutTasks => ~failedUpstream(t)

FailInv == AllContained /\ (Waves /\ pc # "idle" => ContainInv)

LEMMA FailInit == Init => FailInv
BY DEF Init, FailInv, AllContained

\* A dependency is in an earlier wave.
LEMMA ContextEarlier ==
  ASSUME MainType, crew.planned, NEW v \in DOMAIN crew.waves, NEW w \in DOMAIN crew.waves,
         NEW x, In(crew.waves[v], x), NEW y \in crew.context[x], In(crew.waves[w], y)
  PROVE  w < v
<1>1. crew \in Crews /\ crew.waves \in Seq(Seq(Task)) /\ v \in Nat /\ w \in Nat
  BY CrewFields DEF MainType
<1>2. PlanRespected(crew) /\ PlanCovers(crew)
  BY <1>1, PlanAssumption
<1>3. In(crew.tasks, y)
  BY <1>2 DEF PlanCovers, In
<1>4. PICK u \in 1..(v - 1) : In(crew.waves[u], y)
  BY <1>2, <1>3 DEF PlanRespected, In
<1>5. u \in DOMAIN crew.waves
  BY <1>1, <1>4
<1>6. u = w
  BY <1>2, <1>4, <1>5 DEF PlanCovers, In
<1>7. QED BY <1>1, <1>4, <1>6

\* A task of the open wave that fails is no dependency of what runs or ran.
LEMMA FailNotUpstream ==
  ASSUME TypeInv, OrderInv, ContainInv, pc # "idle", crew.planned, pos \in 1..Len(crew.waves),
         NEW y \in Task, In(crew.waves[pos], y)
  PROVE  \A t \in Task : t \in OutTasks \/ t \in Members \/ Queued(t) => y \notin crew.context[t]
<1> SUFFICES ASSUME NEW t \in Task, t \in OutTasks \/ t \in Members \/ Queued(t), y \in crew.context[t]
             PROVE  FALSE
  OBVIOUS
<1>1. pos \in Nat /\ crew.waves \in Seq(Seq(Task)) /\ DOMAIN crew.waves = 1..Len(crew.waves) /\ MainType
  BY CrewFields DEF TypeInv, MainType
<1>2. PICK v \in 1..pos : In(crew.waves[v], t)
  <2>1. pos \in 1..pos
    BY <1>1
  <2>2. QED BY <2>1 DEF ContainInv, OrderInv
<1>3. v \in DOMAIN crew.waves /\ v <= pos /\ v \in Nat /\ pos \in DOMAIN crew.waves
  BY <1>1, <1>2
<1>4. pos < v
  BY <1>1, <1>2, <1>3, ContextEarlier
<1>5. QED BY <1>1, <1>3, <1>4

\* Steps of an async Kickoff that fail nothing and open nothing.
LEMMA ContainKept ==
  ASSUME ContainInv, Agenda, UNCHANGED <<crew, pos, scan, out, failed, asyncIdx, syncIdx>>,
         group' = group \/ group' = <<>>,
         \A t \in Task : Unfolded(t)' <=> Unfolded(t),
         pos \in Nat, scan \in Nat, pos <= Len(crew.waves), crew.waves \in Seq(Seq(Task)), failed \subseteq Task,
         pc = "scan" => pc' = "scan" \/ scan > Len(crew.waves[pos])
  PROVE  ContainInv'
<1>1. OutTasks' = OutTasks /\ Members' \subseteq Members /\ \A t : Queued(t)' <=> Queued(t)
  BY DEF OutTasks, Members, Queued, In
<1>2. ASSUME NEW v \in 1..pos, NEW p \in DOMAIN crew.waves[v]
      PROVE  /\ crew.waves[v][p] \in Task
             /\ pc = "scan" /\ v = pos /\ p >= scan => p <= Len(crew.waves[pos]) /\ p \in Nat
  <2>1. crew.waves[v] \in Seq(Task)
    BY <1>2
  <2>2. QED BY <2>1
<1>3. WavesAccounted'
  <2>1. \A t \in Task : Accounted(t) => Accounted(t)'
    BY <1>1 DEF Accounted
  <2>2. ASSUME NEW v \in 1..pos, NEW p \in DOMAIN crew.waves[v], NEW t \in Task, t = crew.waves[v][p]
        PROVE  Accounted(t)' \/ (pc' = "scan" /\ v = pos /\ p >= scan)
    <3>1. ASSUME pc = "scan", v = pos, p >= scan, scan > Len(crew.waves[pos]) PROVE FALSE
      BY <1>2, <2>2, <3>1
    <3>2. QED BY <2>1, <2>2, <3>1 DEF ContainInv, WavesAccounted
  <2>3. QED BY <2>2 DEF WavesAccounted
<1>4. QED BY <1>1, <1>3 DEF ContainInv, Agenda, failedUpstream, In

LEMMA ContainOpenWave ==
  ASSUME TypeInv, ShapeInv, ContainInv, Agenda, OpenWave
  PROVE  ContainInv'
<1>1. /\ pos' = pos + 1 /\ scan' = 1 /\ pc' = "scan" /\ group = <<>> /\ group' = <<>> /\ pos \in Nat /\ pc = "step"
      /\ asyncIdx = <<>> /\ syncIdx = <<>> /\ pos < Len(crew.waves) /\ crew.waves \in Seq(Seq(Task))
      /\ UNCHANGED <<crew, asyncIdx, syncIdx, out, failed>>
  BY CrewFields DEF OpenWave, ShapeInv, TypeInv, MainType
<1>2. /\ OutTasks' = OutTasks /\ Members = {} /\ Members' = {} /\ \A t : ~Queued(t) /\ ~Queued(t)'
      /\ \A t : ~Unfolded(t) /\ ~Unfolded(t)'
  BY <1>1 DEF OutTasks, Members, Queued, In, Unfolded
<1>3. \A v \in 1..(pos + 1) : v \in 1..pos \/ v = pos + 1
  BY <1>1
<1>4. \A t \in OutTasks : \E v \in 1..(pos + 1) : In(crew.waves[v], t)
  <2>1. \A v \in 1..pos : v \in 1..(pos + 1)
    BY <1>1
  <2>2. QED BY <2>1 DEF ContainInv
<1>5. WavesAccounted'
  <2>1. ASSUME NEW v \in 1..(pos + 1), NEW p \in DOMAIN crew.waves[v], NEW t \in Task, t = crew.waves[v][p]
        PROVE  Accounted(t)' \/ (v = pos + 1 /\ p >= 1)
    <3>1. CASE v \in 1..pos
      <4>1. Accounted(t)
        BY <1>1, <2>1, <3>1 DEF ContainInv, WavesAccounted
      <4>2. QED BY <1>1, <1>2, <4>1 DEF Accounted
    <3>2. CASE v = pos + 1
      <4>1. crew.waves[pos + 1] \in Seq(Task)
        BY <1>1
      <4>2. QED BY <2>1, <3>2, <4>1
    <3>3. QED BY <1>3, <3>1, <3>2
  <2>2. QED BY <1>1, <2>1 DEF WavesAccounted
<1>6. QED BY <1>1, <1>2, <1>4, <1>5 DEF ContainInv, Agenda, failedUpstream

LEMMA ContainScanWave ==
  ASSUME StagesListOnce, TypeInv, ShapeInv, AgendaInv, OrderInv, ContainInv, Agenda, ScanWave
  PROVE  ContainInv'
<1>1. /\ pos \in 1..Len(crew.waves) /\ pos \in Nat /\ crew.waves \in Seq(Seq(Task)) /\ crew.waves[pos] \in Seq(Task)
      /\ scan \in Nat /\ scan \in DOMAIN crew.waves[pos] /\ scan' = scan + 1 /\ pc = "scan" /\ Waves
      /\ group = <<>> /\ asyncIdx \in Seq(Task) /\ syncIdx \in Seq(Task) /\ crew.planned /\ MainType
      /\ UNCHANGED <<crew, pc, pos, group, out>>
  <2>1. pos \in 1..Len(crew.waves) /\ crew.waves \in Seq(Seq(Task)) /\ Waves /\ pc = "scan"
    BY CrewFields DEF ScanWave, TypeInv, ControlInv
  <2>2. crew.waves[pos] \in Seq(Task) /\ crew.planned
    BY <2>1, OneProcess DEF ShapeInv
  <2>3. QED BY <2>1, <2>2 DEF ScanWave, TypeInv, MainType, ShapeInv
<1>2. PICK x \in Task : x = crew.waves[pos][scan]
  BY <1>1
<1>3. /\ failed' = IF failedUpstream(x) THEN failed \cup {x} ELSE failed
      /\ asyncIdx' = IF ~failedUpstream(x) /\ x \in crew.async THEN Append(asyncIdx, x) ELSE asyncIdx
      /\ syncIdx' = IF ~failedUpstream(x) /\ x \notin crew.async THEN Append(syncIdx, x) ELSE syncIdx
  BY <1>2 DEF ScanWave
<1>4. /\ OutTasks' = OutTasks /\ Members = {} /\ Members' = {} /\ \A t : ~Unfolded(t) /\ ~Unfolded(t)'
  BY <1>1 DEF OutTasks, Members, Unfolded
<1>5. \A t : Queued(t)' <=> Queued(t) \/ (t = x /\ ~failedUpstream(x))
  BY <1>1, <1>3, InAppend DEF Queued
<1>6. x \in Coming /\ ~Queued(x) /\ x \notin OutTasks /\ In(crew.waves[pos], x)
  <2>1. scan >= scan
    BY <1>1
  <2>2. Later(x)
    BY <1>1, <1>2, <2>1 DEF Later
  <2>3. QED BY <1>1, <1>2, <2>2, OutApart DEF Coming, AgendaInv, In
<1>7. ~Later(x)'
  <2>1. \A v, w \in DOMAIN crew.waves : \A p \in DOMAIN crew.waves[v], q \in DOMAIN crew.waves[w] :
          crew.waves[v][p] = crew.waves[w][q] => v = w /\ p = q
    BY <1>1, PlanOnce
  <2>2. pos \in DOMAIN crew.waves
    BY <1>1
  <2>3. ASSUME NEW v \in DOMAIN crew.waves, v > pos, In(crew.waves[v], x) PROVE FALSE
    <3>1. PICK p \in DOMAIN crew.waves[v] : crew.waves[v][p] = crew.waves[pos][scan]
      BY <1>2, <2>3 DEF In
    <3>2. v = pos
      BY <1>1, <2>1, <2>2, <3>1
    <3>3. QED BY <1>1, <2>3, <3>2
  <2>4. ASSUME NEW p \in DOMAIN crew.waves[pos], p >= scan + 1, crew.waves[pos][p] = x PROVE FALSE
    <3>1. p = scan
      BY <1>1, <1>2, <2>1, <2>2, <2>4
    <3>2. QED BY <1>1, <2>4, <3>1
  <2>5. Waves' /\ ~Serial' /\ ~Staged'
    BY <1>1, ProcessRigid, OneProcess
  <2>6. QED BY <1>1, <2>3, <2>4, <2>5 DEF Later
<1>8. \A t \in failed' : t \notin OutTasks' /\ t \notin Coming' /\ ~Unfolded(t)'
  BY <1>3, <1>4, <1>5, <1>6, <1>7 DEF ContainInv, Agenda, Coming
<1>9. \A t \in Task : t \in OutTasks' \/ t \in Members' \/ Queued(t)' => ~failedUpstream(t)'
  <2>1. \A t \in Task : t \in OutTasks \/ t \in Members \/ Queued(t) => x \notin crew.context[t]
    BY <1>1, <1>6, FailNotUpstream
  <2>2. QED BY <1>1, <1>3, <1>4, <1>5, <2>1 DEF ContainInv, failedUpstream
<1>10. WavesAccounted'
  <2>1. \A t \in Task : Accounted(t) => Accounted(t)'
    BY <1>3, <1>4, <1>5 DEF Accounted
  <2>2. Accounted(x)'
    BY <1>3, <1>5 DEF Accounted
  <2>3. ASSUME NEW v \in 1..pos, NEW p \in DOMAIN crew.waves[v], NEW t \in Task, t = crew.waves[v][p]
        PROVE  Accounted(t)' \/ (v = pos /\ p >= scan + 1)
    <3>1. Accounted(t) \/ (v = pos /\ p >= scan)
      BY <1>1, <2>3 DEF ContainInv, WavesAccounted
    <3>2. v = pos /\ p >= scan => p = scan \/ p >= scan + 1
      BY <1>1
    <3>3. v = pos /\ p = scan => t = x
      BY <1>2, <2>3
    <3>4. QED BY <2>1, <2>2, <3>1, <3>2, <3>3
  <2>4. QED BY <1>1, <2>3 DEF WavesAccounted
<1>11. QED BY <1>1, <1>4, <1>8, <1>9, <1>10 DEF ContainInv

\* The tasks that leave the queues make the group.
LEMMA ContainOpen ==
  ASSUME TypeInv, ShapeInv, OrderInv, ContainInv, Agenda, pc = "step", pc' = "group",
         UNCHANGED <<crew, pos, out, failed>>, group' \in Seq(Task),
         \A t \in Task : Queued(t) <=> Queued(t)' \/ t \in Members'
  PROVE  ContainInv'
<1>1. OutTasks' = OutTasks /\ Members = {} /\ Members' \subseteq Coming /\ Members' \subseteq Task
  BY DEF OutTasks, Members, ShapeInv, Agenda, Coming
<1>2. (\A t : ~Unfolded(t)) /\ \A t : Unfolded(t)' <=> t \in Members'
  BY DEF Unfolded, Members, ShapeInv
<1>3. \A t \in Members' : pos' \in DOMAIN crew'.waves /\ In(crew'.waves[pos'], t)
  BY <1>1 DEF OrderInv
<1>4. \A t \in failed' : t \notin OutTasks' /\ t \notin Coming' /\ ~Unfolded(t)'
  BY <1>1, <1>2 DEF ContainInv, Agenda
<1>5. \A t \in Task : t \in OutTasks' \/ t \in Members' \/ Queued(t)' => ~failedUpstream(t)'
  BY <1>1 DEF ContainInv, failedUpstream
<1>6. WavesAccounted'
  <2>1. \A t \in Task : Accounted(t) => Accounted(t)'
    BY <1>1, <1>2 DEF Accounted
  <2>2. QED BY <2>1 DEF ContainInv, WavesAccounted
<1>7. QED BY <1>1, <1>3, <1>4, <1>5, <1>6 DEF ContainInv

LEMMA ContainGroups ==
  ASSUME TypeInv, ShapeInv, AgendaInv, OrderInv, ContainInv, Agenda, AsyncGroup \/ SyncGroup
  PROVE  ContainInv'
<1>1. /\ pc = "step" /\ pc' = "group" /\ UNCHANGED <<crew, pos, out, failed>>
      /\ asyncIdx \in Seq(Task) /\ syncIdx \in Seq(Task) /\ crew.maxWorkers \in Nat
  BY CrewFields DEF AsyncGroup, SyncGroup, OpenGroup, TypeInv, MainType
<1>2. CASE AsyncGroup
  <2>1. ChunkLen \in 0..Len(asyncIdx)
    BY <1>1 DEF ChunkLen
  <2>2. /\ group' = SubSeq(asyncIdx, 1, ChunkLen) /\ syncIdx' = syncIdx
        /\ asyncIdx' = SubSeq(asyncIdx, ChunkLen + 1, Len(asyncIdx)) /\ group' \in Seq(Task)
    BY <1>1, <1>2, <2>1 DEF AsyncGroup, OpenGroup
  <2>3. \A t : In(asyncIdx, t) <=> In(group', t) \/ In(asyncIdx', t)
    BY <1>1, <2>1, <2>2, InCut
  <2>4. \A t \in Task : Queued(t) <=> Queued(t)' \/ t \in Members'
    BY <2>2, <2>3 DEF Queued, Members, In
  <2>5. QED BY <1>1, <2>2, <2>4, ContainOpen
<1>3. CASE SyncGroup
  <2>1. /\ syncIdx # <<>> /\ group' = <<Head(syncIdx)>> /\ syncIdx' = Tail(syncIdx) /\ asyncIdx' = asyncIdx
        /\ group' \in Seq(Task)
    BY <1>1, <1>3 DEF SyncGroup, OpenGroup
  <2>2. \A t : In(syncIdx, t) <=> t = Head(syncIdx) \/ In(syncIdx', t)
    <3>1. \A t : In(syncIdx, t) <=> t = Head(syncIdx) \/ In(Tail(syncIdx), t)
      BY <1>1, <2>1, OnceHead DEF AgendaInv
    <3>2. QED BY <2>1, <3>1
  <2>3. \A t : t \in Members' <=> t = Head(syncIdx)
    BY <2>1 DEF Members
  <2>4. \A t \in Task : Queued(t) <=> Queued(t)' \/ t \in Members'
    BY <2>1, <2>2, <2>3 DEF Queued
  <2>5. QED BY <1>1, <2>1, <2>4, ContainOpen
<1>4. QED BY <1>2, <1>3

\* The fold moves one task of the group to the output, or to the failed tasks.
LEMMA ContainFold ==
  ASSUME StagesListOnce, TypeInv, ShapeInv, AgendaInv, OrderInv, ContainInv, Agenda, Waves, FoldOk \/ FoldErr
  PROVE  ContainInv'
<1>0. PICK x \in Task : x = group[fi]
  BY DEF FoldOk, FoldErr, TypeInv, MainType
<1>1. /\ pc = "fold" /\ fi \in DOMAIN group /\ fi \in Nat /\ fi' = fi + 1 /\ group \in Seq(Task) /\ x \in Members
      /\ UNCHANGED <<crew, pc, pos, scan, asyncIdx, syncIdx, group>> /\ MainType /\ pos \in Nat
  BY <1>0 DEF FoldOk, FoldErr, TypeInv, MainType, Members
<1>2. \A t \in Task : Unfolded(t)' <=> Unfolded(t) /\ t # x
  <2>1. \A q \in DOMAIN group : q \in Nat /\ (q >= fi <=> q = fi \/ q >= fi + 1) /\ ~(q = fi /\ q >= fi + 1)
    BY <1>1
  <2>2. \A q \in DOMAIN group : group[q] = x <=> q = fi
    BY <1>0, <1>1 DEF AgendaInv, Once
  <2>3. QED BY <1>0, <1>1, <2>1, <2>2 DEF Unfolded
<1>3. /\ pos \in DOMAIN crew.waves /\ In(crew.waves[pos], x) /\ pos \in 1..pos /\ crew.planned
      /\ pos \in 1..Len(crew.waves)
  <2>1. pos \in DOMAIN crew.waves /\ In(crew.waves[pos], x)
    BY <1>1 DEF ContainInv
  <2>2. DOMAIN crew.waves = 1..Len(crew.waves) /\ crew.planned
    BY <1>1, CrewFields, OneProcess DEF ShapeInv
  <2>3. QED BY <1>1, <2>1, <2>2
<1>4. Unfolded(x) /\ x \notin OutTasks /\ x \notin Coming /\ x \notin failed
  <2>1. fi >= fi
    BY <1>1
  <2>2. Unfolded(x)
    BY <1>0, <1>1, <2>1 DEF Unfolded
  <2>3. QED BY <1>1, <2>2, OutApart DEF Unfolded, AgendaInv, ContainInv
<1>5. Members' = Members /\ \A t : Queued(t)' <=> Queued(t)
  BY <1>1 DEF Members, Queued
<1>6. ASSUME \/ OutTasks' = OutTasks \cup {x} /\ failed' = failed
             \/ OutTasks' = OutTasks /\ failed' = failed \cup {x}
      PROVE  WavesAccounted'
  <2>1. \A t \in Task : Accounted(t) => Accounted(t)'
    BY <1>2, <1>5, <1>6 DEF Accounted
  <2>2. QED BY <1>1, <2>1 DEF ContainInv, WavesAccounted
<1>7. failed \subseteq Task
  BY DEF TypeInv, SetType
<1>8. CASE FoldOk
  <2>1. OutTasks' = OutTasks \cup {x} /\ failed' = failed
    BY <1>0, <1>8, OutAppend DEF FoldOk
  <2>2. \A t \in OutTasks' : \E v \in 1..pos : In(crew.waves[v], t)
    BY <1>3, <2>1 DEF ContainInv
  <2>3. \A t \in failed' : t \notin OutTasks' /\ t \notin Coming' /\ ~Unfolded(t)'
    BY <1>2, <1>4, <1>7, <2>1 DEF ContainInv, Agenda
  <2>4. \A t \in Task : t \in OutTasks' \/ t \in Members' \/ Queued(t)' => ~failedUpstream(t)'
    BY <1>1, <1>5, <2>1 DEF ContainInv, failedUpstream
  <2>5. \A t \in Members' : pos \in DOMAIN crew.waves /\ In(crew.waves[pos], t)
    BY <1>5 DEF ContainInv
  <2>6. WavesAccounted'
    BY <1>6, <2>1
  <2>7. QED BY <1>1, <2>2, <2>3, <2>4, <2>5, <2>6 DEF ContainInv
<1>9. CASE FoldErr
  <2>1. OutTasks' = OutTasks /\ failed' = failed \cup {x}
    BY <1>0, <1>9 DEF FoldErr, MarkFailed, OutTasks
  <2>2. \A t \in failed' : t \notin OutTasks' /\ t \notin Coming' /\ ~Unfolded(t)'
    BY <1>2, <1>4, <1>7, <2>1 DEF ContainInv, Agenda
  <2>3. \A t \in Task : t \in OutTasks \/ t \in Members \/ Queued(t) => x \notin crew.context[t]
    BY <1>1, <1>3, FailNotUpstream
  <2>4. \A t \in Task : t \in OutTasks' \/ t \in Members' \/ Queued(t)' => ~failedUpstream(t)'
    BY <1>1, <1>5, <2>1, <2>3 DEF ContainInv, failedUpstream
  <2>5. /\ \A t \in OutTasks' : \E v \in 1..pos : In(crew.waves[v], t)
        /\ \A t \in Members' : pos \in DOMAIN crew.waves /\ In(crew.waves[pos], t)
    BY <1>5, <2>1 DEF ContainInv
  <2>6. WavesAccounted'
    BY <1>6, <2>1
  <2>7. QED BY <1>1, <2>2, <2>4, <2>5, <2>6 DEF ContainInv
<1>10. QED BY <1>8, <1>9

\* When every wave is folded, each task of the crew is in the output or failed.
LEMMA ContainComplete ==
  ASSUME TypeInv, ShapeInv, ContainInv, Waves, Complete
  PROVE  AllContained'
<1>1. /\ UNCHANGED <<crew, out, failed>> /\ pc = "step" /\ group = <<>> /\ asyncIdx = <<>> /\ syncIdx = <<>>
      /\ pos = Len(crew.waves) /\ crew.planned /\ crew \in Crews /\ crew.waves \in Seq(Seq(Task))
  BY OneProcess, CrewFields DEF Complete, AllOpened, ShapeInv, TypeInv, MainType
<1>2. \A t : ~Queued(t) /\ ~Unfolded(t)
  BY <1>1 DEF Queued, Unfolded, In
<1>3. ASSUME NEW t \in {crew.tasks[p] : p \in DOMAIN crew.tasks}
      PROVE  /\ t \in Task /\ (t \in OutTasks \/ t \in failed)
  <2>1. t \in Task
    BY CrewFields DEF TypeInv
  <2>2. PICK v \in DOMAIN crew.waves : In(crew.waves[v], t)
    BY <1>1, <1>3, PlanAssumption DEF PlanCovers
  <2>3. v \in 1..pos
    BY <1>1
  <2>4. Accounted(t)
    BY <1>1, <2>1, <2>2, <2>3 DEF ContainInv, WavesAccounted, In
  <2>5. QED BY <1>2, <2>1, <2>4 DEF Accounted
<1>4. OutTasks' = OutTasks
  BY <1>1 DEF OutTasks
<1>5. QED BY <1>1, <1>3, <1>4 DEF AllContained, ContainInv, failedUpstream

LEMMA FailStep ==
  ASSUME StagesListOnce
  PROVE  TypeInv /\ QuietInv /\ ShapeInv /\ AgendaInv /\ OrderInv /\ FreshInv /\ FailInv /\ [Next]_vars => FailInv'
<1> SUFFICES ASSUME TypeInv, QuietInv, ShapeInv, AgendaInv, OrderInv, FreshInv, FailInv, [Next]_vars PROVE FailInv'
  OBVIOUS
<1>c. crew' = crew /\ (Waves' <=> Waves)
  BY CrewRigid, ProcessRigid
<1>1. CASE pc = "idle" /\ Kickoff
  <2>1. /\ pos' = 0 /\ group' = <<>> /\ asyncIdx' = <<>> /\ syncIdx' = <<>> /\ out' = <<>> /\ failed' = {}
        /\ result' # "ok"
    BY <1>1, StartErrorType DEF Kickoff
  <2>2. OutTasks' = {} /\ Members' = {} /\ \A t : ~Queued(t)'
    BY <2>1 DEF OutTasks, Members, Queued, In
  <2>3. WavesAccounted'
    BY <2>1 DEF WavesAccounted
  <2>4. QED BY <2>1, <2>2, <2>3 DEF FailInv, AllContained, ContainInv
<1>2. CASE pc = "idle" /\ (KickoffEmpty \/ UNCHANGED vars)
  <2>1. pc' = "idle" /\ UNCHANGED <<out, failed>> /\ (result' = "ok" => result = "ok")
    BY <1>2 DEF KickoffEmpty, vars
  <2>2. OutTasks' = OutTasks
    BY <2>1 DEF OutTasks
  <2>3. QED BY <1>2, <1>c, <2>1, <2>2 DEF FailInv, AllContained, failedUpstream
<1>3. CASE pc # "idle" /\ ~Waves
  BY <1>3, <1>c DEF FailInv, AllContained
<1>4. CASE pc # "idle" /\ Waves
  <2>a. Agenda /\ ContainInv
    BY <1>4, AgendaMoves DEF FailInv
  <2>w. ~Serial /\ ~Staged /\ WaveInv
    BY <1>4, OneProcess DEF FreshInv
  <2>t. /\ pos \in Nat /\ scan \in Nat /\ fi \in Nat /\ crew.waves \in Seq(Seq(Task)) /\ pos <= Len(crew.waves)
        /\ failed \subseteq Task /\ group \in Seq(Task)
    BY <2>w, CrewFields DEF TypeInv, MainType, SetType, WaveInv
  <2>1. CASE Complete
    <3>1. AllContained'
      BY <1>4, <2>a, <2>1, ContainComplete
    <3>2. pc' = "idle"
      BY <2>1 DEF Complete
    <3>3. QED BY <3>1, <3>2 DEF FailInv
  <2>2. CASE Abort
    <3>1. pc' = "idle" /\ result' # "ok"
      BY <2>2 DEF Abort, Return, TypeInv, WorkType, Errors
    <3>2. QED BY <3>1 DEF FailInv, AllContained
  <2>3. CASE OpenWave \/ ScanWave \/ AsyncGroup \/ SyncGroup \/ FoldOk \/ FoldErr
    <3>1. ContainInv'
      BY <1>4, <2>a, <2>3, ContainOpenWave, ContainScanWave, ContainGroups, ContainFold
    <3>2. pc' # "idle"
      BY <2>3 DEF OpenWave, ScanWave, AsyncGroup, SyncGroup, OpenGroup, FoldOk, FoldErr
    <3>3. QED BY <3>1, <3>2 DEF FailInv, AllContained
  <2>4. ASSUME UNCHANGED <<pos, scan, out, failed, asyncIdx, syncIdx>>, group' = group \/ group' = <<>>,
               \A t \in Task : Unfolded(t)' <=> Unfolded(t),
               pc = "scan" => pc' = "scan" \/ scan > Len(crew.waves[pos]), pc' # "idle"
        PROVE  FailInv'
    <3>1. ContainInv'
      BY <1>c, <2>a, <2>t, <2>4, ContainKept
    <3>2. QED BY <2>4, <3>1 DEF FailInv, AllContained
  <2>5. CASE CancelParent \/ Spawn \/ UNCHANGED vars \/ (\E t \in Task : Worker(t) \/ Remember(t))
    <3>1. UNCHANGED <<pc, pos, scan, out, failed, asyncIdx, syncIdx, group, fi>>
      BY <2>5, WorkerMove DEF CancelParent, Spawn, Remember, vars
    <3>2. \A t \in Task : Unfolded(t)' <=> Unfolded(t)
      BY <3>1 DEF Unfolded
    <3>3. QED BY <1>4, <2>4, <3>1, <3>2
  <2>6. CASE WaveSorted \/ StartCommit \/ Commit \/ StartFold \/ EndGroup
    <3>1. /\ UNCHANGED <<pos, scan, out, failed, asyncIdx, syncIdx>> /\ pc' # "idle"
          /\ pc = "scan" => scan > Len(crew.waves[pos])
          /\ \/ group' = group /\ pc # "fold" /\ (pc' = "fold" => fi' = 1)
             \/ group' = <<>> /\ pc = "fold" /\ fi > Len(group) /\ pc' # "fold"
      BY <2>6 DEF WaveSorted, StartCommit, Commit, StartFold, EndGroup, Joined
    <3>2. \A q \in DOMAIN group : q >= 1 /\ (fi > Len(group) => ~(q >= fi))
      BY <2>t
    <3>3. \A t \in Task : Unfolded(t)' <=> Unfolded(t)
      BY <3>1, <3>2 DEF Unfolded
    <3>4. QED BY <2>4, <3>1, <3>3
  <2>7. ~FoldEmpty
    <3>1. pc = "fold" => \A t \in Members : slot[t] # "empty"
      BY <2>w DEF WaveInv, FoldSettles
    <3>2. fi >= 1
      BY DEF TypeInv, MainType
    <3>3. FoldEmpty => fi \in DOMAIN group
      BY <2>t, <3>2 DEF FoldEmpty
    <3>4. FoldEmpty => group[fi] \in Members
      BY <3>3 DEF Members
    <3>5. QED BY <3>1, <3>4 DEF FoldEmpty
  <2>8. ~Kickoff /\ ~KickoffEmpty /\ ~SerialTask /\ ~SerialNoAgent /\ ~StageGroup /\ ~SerialErr
    BY <1>4, <2>w DEF Kickoff, KickoffEmpty, SerialTask, SerialNoAgent, StageGroup, SerialErr
  <2>9. QED BY <2>1, <2>2, <2>3, <2>5, <2>6, <2>7, <2>8 DEF Next, Main
<1>5. QED BY <1>1, <1>2, <1>3, <1>4, IdleStep

\* A task fails because its own execution failed, or because a dependency did.
LEMMA FailCause ==
  TypeInv /\ QuietInv /\ [Next]_vars =>
    [\A t \in failed' \ failed :
       pc' = "idle" \/ failedUpstream(t) \/ (t \in Members /\ werr[t] # "nil")]_vars
<1> SUFFICES ASSUME TypeInv, QuietInv, [Next]_vars, NEW t \in failed' \ failed
             PROVE  pc' = "idle" \/ failedUpstream(t) \/ (t \in Members /\ werr[t] # "nil")
  OBVIOUS
<1>1. CASE ScanWave
  BY <1>1 DEF ScanWave
<1>2. CASE FoldErr
  <2>1. t = group[fi] /\ fi \in DOMAIN group /\ group[fi] \in Task
    BY <1>2 DEF FoldErr, MarkFailed, TypeInv, MainType
  <2>2. QED BY <1>2, <2>1 DEF FoldErr, Members, TypeInv, ControlInv
<1>3. CASE Abort
  BY <1>3 DEF Abort, Return
<1>4. CASE Kickoff
  BY <1>4 DEF Kickoff
<1>5. ~(\E u \in Task : Worker(u) \/ Remember(u))
  BY WorkerMove DEF Remember
<1>6. CASE \/ KickoffEmpty \/ CancelParent \/ Complete \/ SerialTask \/ SerialNoAgent \/ OpenWave \/ WaveSorted
           \/ AsyncGroup \/ SyncGroup \/ StageGroup \/ Spawn \/ SerialErr \/ StartCommit \/ Commit \/ StartFold
           \/ FoldOk \/ FoldEmpty \/ EndGroup \/ UNCHANGED vars
  BY <1>6 DEF KickoffEmpty, CancelParent, Complete, SerialTask, SerialNoAgent, OpenWave, WaveSorted, AsyncGroup,
     SyncGroup, StageGroup, OpenGroup, Spawn, SerialErr, Return, StartCommit, Commit, StartFold, FoldOk, FoldEmpty,
     EndGroup, vars
<1>7. QED BY <1>1, <1>2, <1>3, <1>4, <1>5, <1>6 DEF Next, Main

\* D-A3, "skip dependents of failed tasks only": for every crew, plan, failure and
\* interleaving a task is marked failed for its own failure or a dependency's, and when an
\* async Kickoff returns an output every task of the crew is in it or failed, never both,
\* and none of the output needs a failed one; provided the waves fail fast or every task
\* has an agent, and no task is in two stages.
THEOREM FailuresContained ==
  ASSUME StagesListOnce, AgentsOrFailFast
  PROVE  Spec => FailureContained
<1>1. Init => FreshInv
  BY DEF Init, FreshInv
<1>2. TypeInv /\ QuietInv /\ FreshInv /\ [Next]_vars => FreshInv'
  BY FreshStep
<1>3. TypeInv /\ QuietInv /\ ShapeInv /\ AgendaInv /\ OrderInv /\ [Next]_vars => OrderInv'
  BY OrderStep
<1>4. TypeInv /\ QuietInv /\ ShapeInv /\ AgendaInv /\ OrderInv /\ FreshInv /\ FailInv /\ [Next]_vars => FailInv'
  BY FailStep
<1>5. Spec => [](TypeInv /\ QuietInv /\ ShapeInv /\ AgendaInv)
  BY PlanInvariant
<1>6. FailInv => AllContained
  BY DEF FailInv
<1>7. Spec => [][\A t \in failed' \ failed :
                   pc' = "idle" \/ failedUpstream(t) \/ (t \in Members /\ werr[t] # "nil")]_vars
  BY <1>5, FailCause, PTL DEF Spec
<1>8. Spec => []AllContained
  BY <1>1, <1>2, <1>3, <1>4, <1>5, <1>6, FailInit, OrderInit, PTL DEF Spec
<1>9. QED BY <1>7, <1>8, PTL DEF FailureContained, AllContained

\* D-X7, G1, G11: what a Kickoff keeps is what it returned.  Its trace holds the records
\* of the folded outputs and its memory their entries, except where Put failed with a
\* warning, in the order of the output.
THEOREM RecordsAreTheOutput ==
  ASSUME StagesListOnce, GuardsStop
  PROVE  Spec => []RecordsMatchOutput
<1>1. Spec => []MemoryMatchesOutput
  BY MemoryIsTheOutput
<1>2. Spec => []TraceMatchesOutput
  BY TraceIsTheOutput
<1>3. MemoryMatchesOutput /\ TraceMatchesOutput => RecordsMatchOutput
  BY DEF RecordsMatchOutput
<1>4. QED BY <1>1, <1>2, <1>3, PTL
==============================================================================
