------------------------- MODULE OrchestratorTypeProofs -------------------------
(***************************************************************************)
(* Type correctness of Orchestrator, together with Placed: what the locals *)
(* of an operation say at each point of its code.  The two are proved at   *)
(* once because an operation may use a sandbox id only where Placed says   *)
(* that it has one.                                                        *)
(***************************************************************************)
EXTENDS OrchestratorInvariant, TLAPS

Tasks == task \in [Task -> TaskSet] /\ \A t \in Task : Placed(task[t])

(* TypeOK without its conjunct about tasks, and that a call the shutdown   *)
(* cleanup waits for is about a sandbox.                                   *)
Shared ==
    /\ store \in [Sandbox -> RecordSet]
    /\ handles \in [Sandbox -> Option(VM)]
    /\ routes \in [Sandbox -> Option(VM)]
    /\ vm \in [VM -> VMState]
    /\ startPins \subseteq Sandbox /\ pausePins \subseteq Sandbox
    /\ disk \in [Sandbox -> DiskSet]
    /\ deletions \in [Sandbox -> Option(Task)]
    /\ progress \in [Sandbox -> [Task -> {"Capture", "Stop", "Release", "Done"}]]
    /\ shutting \in BOOLEAN
    /\ used \subseteq Sandbox
    /\ nodeMode \in Mode
    /\ sweep \in SweepSet /\ (sweep.pc = "call" => sweep.at \in Sandbox)

(* A step gives one task another record that is typed and placed. *)
Moves(t) == \E r \in TaskSet : Placed(r) /\ Becomes(t, r)

-----------------------------------------------------------------------------
(* Values and updates. *)

(* The values that stand for nothing have the types they are used at. *)
LEMMA NoneTypes ==
    /\ NoDisk \in DiskSet /\ NoRecord \in RecordSet
    /\ None \in Option(Sandbox) /\ None \in Option(VM) /\ None \in Option(Gen)
    /\ None \in Option(Task) /\ None \in Option(Mode)
  BY DEF NoDisk, NoRecord, DiskSet, RecordSet, Option, Phase

(* Every value of a type is a value of its option type. *)
LEMMA SomeTypes ==
    /\ Sandbox \subseteq Option(Sandbox) /\ Task \subseteq Option(Task)
    /\ VM \subseteq Option(VM) /\ Gen \subseteq Option(Gen) /\ Mode \subseteq Option(Mode)
    /\ Option(Sandbox) \subseteq Option(VM) /\ Option(Task) \subseteq Option(VM)
    /\ Option(Task) \subseteq Option(Gen)
  BY DEF Option, VM, Gen

(* The labels are labels, the states phases and the outcomes outcomes. *)
LEMMA Names ==
    /\ LaunchLabels \subseteq Label /\ PauseLabels \subseteq Label
    /\ UndoLabels \subseteq Label /\ KillLabels \subseteq Label
    /\ {"idle", "done", "wait", "resumeReread", "touch", "resumeClaim", "resumeJoined", "mark",
        "markPut", "build", "add", "target", "route", "forget", "unpinPaused", "unmark",
        "unmarkPut"} \subseteq Label
    /\ {"pauseJoined", "pauseUnpin", "pauseStop", "deleteLock", "deleteClaim", "deleteWoken",
        "purge", "deleteEnd", "evictNext", "evictLock", "evictClaim"} \subseteq Label
    /\ {"snapClaim", "snapHandle", "snap", "forkHandle", "forkClaim", "fork", "forkRestore",
        "forkAdd", "forkInsert", "forkRoute", "keepReread"} \subseteq Label
    /\ {"Absent", "Running", "Paused", "Creating", "Resuming", "Snapshotting", "Forking",
        "Pausing", "Killing"} \subseteq Phase
    /\ {"none", "ok", "err", "lost"} \subseteq Outcome
  BY DEF Label, Phase, State, Transitional, Outcome

(* A task that does nothing, or has ended, is typed and placed. *)
LEMMA IdleType == IdleTask \in TaskSet /\ Placed(IdleTask)
  <1>1. "none" \in Outcome /\ "Absent" \in Phase /\ "idle" \in Label /\ "none" \in OpName
    BY DEF Outcome, Phase, Label, OpName
  <1>2. IdleTask \in TaskSet
    BY <1>1, NoneTypes, Zenon DEF TaskSet, IdleTask
  <1>3. Placed(IdleTask)
    BY DEF IdleTask, Placed, MutexLabels, KillLabels, LaunchLabels, UndoLabels
  <1>4. QED
    BY <1>2, <1>3

(* A task that has returned. *)
LEMMA EndedType ==
  ASSUME NEW o \in OpName, NEW s \in Option(Sandbox), NEW r \in Outcome
  PROVE  Ended(o, s, r) \in TaskSet /\ Placed(Ended(o, s, r))
  <1>1. "done" \in Label
    BY DEF Label
  <1>2. Ended(o, s, r) \in TaskSet
    BY <1>1, IdleType, Zenon DEF TaskSet, Ended
  <1>3. Placed(Ended(o, s, r))
    BY DEF IdleTask, Ended, Placed, MutexLabels, KillLabels, LaunchLabels, UndoLabels
  <1>4. QED
    BY <1>2, <1>3

(* The fields of a task have their types. *)
LEMMA Fields ==
  ASSUME Tasks, NEW t \in Task
  PROVE  /\ task[t] \in TaskSet /\ Placed(task[t])
         /\ task[t].pc \in Label /\ task[t].next \in Label /\ task[t].op \in OpName
         /\ task[t].sb \in Option(Sandbox) /\ task[t].child \in Option(Sandbox)
         /\ task[t].hd \in Option(VM) /\ task[t].rt \in Option(VM)
         /\ task[t].gen \in Option(Gen) /\ task[t].rec \in DiskSet
         /\ task[t].prev \in Phase /\ task[t].entry \in Option(Task)
         /\ task[t].rest \in SUBSET Sandbox
  BY DEF Tasks, TaskSet

(* A typed move of one task keeps the tasks typed and placed. *)
LEMMA MovesTasks ==
  ASSUME Tasks, NEW t \in Task, Moves(t)
  PROVE  Tasks'
  BY DEF Tasks, Moves, Becomes

(* Returning is always a typed move. *)
LEMMA FinishMoves ==
  ASSUME Tasks, NEW t \in Task, NEW r \in Outcome, Finish(t, r)
  PROVE  Moves(t)
  <1> DEFINE again == [IdleTask EXCEPT !.pc = "evictNext", !.op = task[t].op,
                                       !.rest = task[t].rest]
  <1>1. again \in TaskSet
    <2>1. "evictNext" \in Label
      BY DEF Label
    <2>2. QED
      BY <2>1, Fields, IdleType, Zenon DEF TaskSet
  <1>2. task[t].rest # {} => Placed(again)
    BY Fields DEF TaskSet, IdleTask, Placed, MutexLabels, KillLabels, LaunchLabels, UndoLabels
  <1>3. /\ Ended(task[t].op, task[t].sb, r) \in TaskSet
        /\ Placed(Ended(task[t].op, task[t].sb, r))
    BY Fields, EndedType
  <1>4. QED
    BY <1>1, <1>2, <1>3 DEF Moves, Finish

(* Going on at another label. *)
LEMMA GotoMoves ==
  ASSUME Tasks, NEW t \in Task, NEW l \in Label, Goto(t, l),
         Placed([task[t] EXCEPT !.pc = l])
  PROVE  Moves(t)
  <1>1. [task[t] EXCEPT !.pc = l] \in TaskSet
    BY SMT DEF TaskSet, Tasks
  <1>2. QED
    BY <1>1 DEF Moves, Goto

(* A task that has begun is typed. *)
LEMMA StartedType ==
  ASSUME NEW o \in OpName, NEW s \in Sandbox, NEW l \in Label
  PROVE  Started(o, s, l) \in TaskSet
  BY IdleType, SomeTypes, Zenon DEF TaskSet, Started

(* The store's operations keep its type. *)
LEMMA CompareAndSetType ==
  ASSUME Shared, NEW s, NEW expected, NEW new \in Phase, CompareAndSet(s, expected, new)
  PROVE  store' \in [Sandbox -> RecordSet]
  <1>1. [store EXCEPT ![s].state = new] \in [Sandbox -> RecordSet]
    BY Zenon DEF Shared, RecordSet
  <1>2. QED
    BY <1>1 DEF CompareAndSet, Shared

(* Writing the state of a record. *)
LEMMA RecordWrite ==
  ASSUME Shared, NEW s, NEW r \in RecordSet
  PROVE  [store EXCEPT ![s] = r] \in [Sandbox -> RecordSet]
  BY Zenon DEF Shared

(* Writing its deadline. *)
LEMMA DueWrite ==
  ASSUME Shared, NEW s, NEW due \in BOOLEAN
  PROVE  [store EXCEPT ![s].due = due] \in [Sandbox -> RecordSet]
  BY Zenon DEF Shared, RecordSet

(* Writing both. *)
LEMMA StateDueWrite ==
  ASSUME Shared, NEW s, NEW p \in Phase, NEW due \in BOOLEAN
  PROVE  [store EXCEPT ![s].state = p, ![s].due = due] \in [Sandbox -> RecordSet]
  BY ZenonT(60) DEF Shared, RecordSet

(* Writing the state and the paused state. *)
LEMMA StatePausedWrite ==
  ASSUME Shared, NEW s, NEW p \in Phase, NEW g \in Option(Gen)
  PROVE  [store EXCEPT ![s].state = p, ![s].paused = g] \in [Sandbox -> RecordSet]
  BY ZenonT(60) DEF Shared, RecordSet

(* Removing a record. *)
LEMMA RemoveRecordType ==
  ASSUME Shared, NEW s, RemoveRecord(s)
  PROVE  store' \in [Sandbox -> RecordSet]
  BY NoneTypes, Zenon DEF Shared, RemoveRecord

(* Writing or removing a durable record. *)
LEMMA DiskWrites ==
  ASSUME Shared, NEW s, NEW d \in DiskSet
  PROVE  [disk EXCEPT ![s] = d] \in [Sandbox -> DiskSet]
  BY Zenon DEF Shared

(* A durable record keeps its type with another lifecycle. *)
LEMMA LifeWrites ==
  ASSUME NEW d \in DiskSet, NEW l \in {"none", "paused", "resuming"}
  PROVE  [d EXCEPT !.life = l] \in DiskSet
  BY SMT DEF DiskSet

(* Stopping a VM. *)
LEMMA StopType ==
  ASSUME Shared, NEW v, Stop(v)
  PROVE  vm' \in [VM -> VMState]
  BY Zenon DEF Shared, Stop, VMState

(* Writing a handle or a route. *)
LEMMA HandleWrites ==
  ASSUME Shared, NEW s, NEW h \in Option(VM)
  PROVE  /\ [handles EXCEPT ![s] = h] \in [Sandbox -> Option(VM)]
         /\ [routes EXCEPT ![s] = h] \in [Sandbox -> Option(VM)]
  BY Zenon DEF Shared

(* A task that works on a sandbox has one. *)
LEMMA HasSandbox ==
  ASSUME Tasks, NEW t \in Task, task[t].pc \notin {"idle", "done", "evictNext"}
  PROVE  Sb(t) \in Sandbox
  BY Fields DEF Placed, Sb

-----------------------------------------------------------------------------
(* Launching. *)

(* Every step of a launch keeps the types of what the node shares. *)
LEMMA LaunchShared ==
  ASSUME Shared, Tasks, NEW t \in Task, LaunchStep(t)
  PROVE  Shared'
  <1> USE DEF runtimeVars, pinVars, deleteVars, nodeVars
  <1>1. CASE ResumeReread(t) \/ ResumeJoined(t) \/ Build(t) \/ WaitForReady(t)
              \/ ProxyTarget(t) \/ UnmarkRead(t)
    BY ZenonT(60), <1>1
    DEF Shared, ResumeReread, ResumeJoined, Build, WaitForReady, ProxyTarget, UnmarkRead
  <1>2. CASE Touch(t)
    <2>1. [store EXCEPT ![Sb(t)].due = FALSE] \in [Sandbox -> RecordSet]
      BY ZenonT(60), DueWrite
    <2>2. QED
      BY ZenonT(60), <1>2, <2>1 DEF Shared, Touch
  <1>3. CASE ResumeClaim(t)
    BY <1>3, CompareAndSetType, Names DEF Shared, ResumeClaim
  <1>4. CASE MarkRead(t)
    BY <1>4, CompareAndSetType, Names DEF Shared, MarkRead
  <1>5. CASE MarkWrite(t)
    <2>1. [task[t].rec EXCEPT !.life = "resuming"] \in DiskSet
      BY ZenonT(60), Fields, LifeWrites
    <2>2. QED
      BY <1>5, <2>1, DiskWrites DEF Shared, MarkWrite
  <1>6. CASE PinStarting(t) \/ UnpinStarting(t)
    BY <1>6, HasSandbox DEF Shared, PinStarting, UnpinStarting, At
  <1>7. CASE StartVM(t)
    BY <1>7, Zenon DEF Shared, StartVM, VMState
  <1>8. CASE InsertHandle(t)
    BY ZenonT(60), <1>8, HandleWrites, SomeTypes DEF Shared, InsertHandle, VM
  <1>9. CASE AddRecord(t)
    <2>1. [NoRecord EXCEPT !.state = "Creating", !.mode = nodeMode] \in RecordSet
      BY NoneTypes, SomeTypes, Names, Zenon DEF RecordSet, Shared
    <2>2. QED
      BY ZenonT(60), <1>9, <2>1, RecordWrite DEF Shared, AddRecord
  <1>10. CASE PublishRunning(t)
    <2>1. "Running" \in Phase /\ FALSE \in BOOLEAN
      BY Names
    <2>2. [store EXCEPT ![Sb(t)].state = "Running", ![Sb(t)].due = FALSE]
             \in [Sandbox -> RecordSet]
      BY Zenon, <2>1, StateDueWrite
    <2>3. store' \in [Sandbox -> RecordSet]
      BY ZenonT(60), <1>10, <2>2 DEF Shared, PublishRunning
    <2>4. QED
      BY <1>10, <2>3 DEF Shared, PublishRunning
  <1>11. CASE PublishRoute(t)
    BY ZenonT(60), <1>11, HandleWrites, SomeTypes DEF Shared, PublishRoute, VM
  <1>12. CASE ForgetRecord(t)
    <2>1. [disk EXCEPT ![Sb(t)] = NoDisk] \in [Sandbox -> DiskSet]
      BY DiskWrites, NoneTypes
    <2>2. QED
      BY <1>12, <2>1 DEF Shared, ForgetRecord
  <1>13. CASE UnpinResumed(t)
    BY <1>13 DEF Shared, UnpinResumed
  <1>14. CASE LaunchDetach(t)
    BY ZenonT(60), <1>14, HandleWrites, NoneTypes DEF Shared, LaunchDetach
  <1>15. CASE LaunchStop(t)
    BY ZenonT(60), <1>15, StopType DEF Shared, LaunchStop
  <1>16. CASE RollbackMetadata(t)
    BY <1>16, CompareAndSetType, RemoveRecordType, Names DEF Shared, RollbackMetadata
  <1>17. CASE UnmarkWrite(t)
    <2>1. [task[t].rec EXCEPT !.life = "paused"] \in DiskSet
      BY ZenonT(60), Fields, LifeWrites
    <2>2. QED
      BY <1>17, <2>1, DiskWrites DEF Shared, UnmarkWrite
  <1>18. QED
    BY ZenonT(60), <1>1, <1>2, <1>3, <1>4, <1>5, <1>6, <1>7, <1>8, <1>9, <1>10, <1>11, <1>12, <1>13,
       <1>14, <1>15, <1>16, <1>17 DEF LaunchStep

(* Rolling back keeps the task placed. *)
LEMMA UndoMoves ==
  ASSUME Tasks, NEW t \in Task, task[t].op \in {"create", "resume"}, Sb(t) \in Sandbox,
         NEW l \in UndoLabels, NEW p \in {"Absent", "Running", LaunchState(t)},
         l = "rollback" => p # "Absent",
         Becomes(t, [task[t] EXCEPT !.pc = l, !.prev = p])
  PROVE  Moves(t)
  <1> DEFINE r == [task[t] EXCEPT !.pc = l, !.prev = p]
  <1>1. l \in Label /\ p \in Phase
    BY Names DEF LaunchState
  <1>2. r \in TaskSet
    BY <1>1, Fields, ZenonT(60) DEF TaskSet
  <1>3. r.pc = l /\ r.prev = p /\ r.op = task[t].op /\ r.sb = task[t].sb
        /\ r.locked = task[t].locked /\ r.entry = task[t].entry /\ r.rest = task[t].rest
    BY Fields, SMT DEF TaskSet
  <1>4. Placed(r)
    BY <1>3, Fields DEF Placed, MutexLabels, KillLabels, LaunchLabels, UndoLabels, LaunchState, Sb
  <1>5. QED
    BY <1>2, <1>4 DEF Moves

(* What a resume does with the record it has read. *)
LEMMA DispatchMoves ==
  ASSUME Shared, Tasks, NEW t \in Task, NEW s \in Sandbox, NEW joined \in BOOLEAN,
         ResumeDispatch(t, s, joined)
  PROVE  Moves(t)
  <1> DEFINE base == [Started("resume", s, "resumeClaim") EXCEPT !.gen = store[s].paused]
             wait == [base EXCEPT !.pc = "wait", !.prev = "Resuming", !.next = "resumeReread"]
             near == [base EXCEPT !.pc = "touch"]
             fail == Ended("resume", s, "err")
  <1>1. store[s].paused \in Option(Gen) /\ "resume" \in OpName
    BY DEF Shared, RecordSet, OpName
  <1>2. base \in TaskSet
    <2>1. Started("resume", s, "resumeClaim") \in TaskSet
      BY <1>1, StartedType, Names
    <2>2. QED
      BY <2>1, <1>1, Zenon DEF TaskSet
  <1>3. wait \in TaskSet /\ near \in TaskSet
    <2>1. "wait" \in Label /\ "touch" \in Label /\ "resumeReread" \in Label /\ "Resuming" \in Phase
      BY Names
    <2> HIDE DEF base
    <2>2. QED
      BY <1>2, <2>1, Zenon DEF TaskSet
  <1>4. Placed(base) /\ Placed(wait) /\ Placed(near)
    BY DEF Started, IdleTask, Placed, MutexLabels, KillLabels, LaunchLabels, UndoLabels
  <1>5. fail \in TaskSet /\ Placed(fail)
    BY <1>1, EndedType, SomeTypes, Names
  <1>6. Becomes(t, base) \/ Becomes(t, wait) \/ Becomes(t, near) \/ Becomes(t, fail)
    BY DEF ResumeDispatch
  <1>7. QED
    BY <1>2, <1>3, <1>4, <1>5, <1>6 DEF Moves

(* Sleeping until the sandbox leaves a state. *)
LEMMA WaitMoves ==
  ASSUME Tasks, NEW t \in Task, Sb(t) \in Sandbox, NEW p \in Phase,
         NEW n \in {"resumeJoined", "deleteWoken"}, n = "deleteWoken" => task[t].locked,
         WaitWhile(t, p, n)
  PROVE  Moves(t)
  <1> DEFINE r == [task[t] EXCEPT !.pc = "wait", !.prev = p, !.next = n]
  <1>1. n \in Label /\ "wait" \in Label
    BY Names
  <1>2. r \in TaskSet
    BY <1>1, Fields, ZenonT(60) DEF TaskSet
  <1>3. Placed(r)
    <2>1. r.pc = "wait" /\ r.next = n /\ r.op = task[t].op /\ r.sb = task[t].sb
          /\ r.locked = task[t].locked /\ r.entry = task[t].entry /\ r.rest = task[t].rest
      BY Fields, SMT DEF TaskSet
    <2>2. QED
      BY <2>1, Fields DEF Placed, MutexLabels, KillLabels, LaunchLabels, UndoLabels, Sb
  <1>4. QED
    BY <1>2, <1>3 DEF Moves, WaitWhile

(* Every step of a launch is a typed move. *)
LEMMA LaunchMoves ==
  ASSUME Shared, Tasks, NEW t \in Task, LaunchStep(t)
  PROVE  Moves(t)
  <1> USE DEF At
  <1>1. CASE ResumeReread(t)
    BY ZenonT(60), <1>1, HasSandbox, DispatchMoves DEF ResumeReread
  <1>2. CASE Touch(t) \/ UnpinResumed(t) \/ UnmarkWrite(t)
    BY <1>2, FinishMoves, Names DEF Touch, UnpinResumed, UnmarkWrite
  <1>3. CASE ResumeClaim(t)
    <2>1. \A l \in {"mark", "touch"} : Placed([task[t] EXCEPT !.pc = l])
      BY <1>3, Fields
      DEF ResumeClaim, TaskSet, Placed, MutexLabels, KillLabels, LaunchLabels, UndoLabels
    <2>2. Sb(t) \in Sandbox
      BY ZenonT(60), <1>3, HasSandbox DEF ResumeClaim
    <2>3. QED
      BY ZenonT(60), <1>3, <2>1, <2>2, GotoMoves, WaitMoves, FinishMoves, Names DEF ResumeClaim
  <1>4. CASE ResumeJoined(t) \/ MarkWrite(t) \/ InsertHandle(t) \/ UnpinStarting(t)
             \/ PublishRoute(t) \/ ForgetRecord(t)
    <2>0. task[t].pc \in {"resumeJoined", "markPut", "insert", "unpinStart", "route", "forget"}
      BY ZenonT(60), <1>4 DEF ResumeJoined, MarkWrite, InsertHandle, UnpinStarting,
         PublishRoute, ForgetRecord
    <2>1. /\ \A l \in {"touch", "forget", "unpinPaused"} : Placed([task[t] EXCEPT !.pc = l])
          /\ task[t].op \in {"create", "resume"} =>
               \A l \in {"build", "unpinStart"} : Placed([task[t] EXCEPT !.pc = l])
          /\ task[t].op = "create" => Placed([task[t] EXCEPT !.pc = "add"])
          /\ task[t].op = "resume" => Placed([task[t] EXCEPT !.pc = "ready"])
      BY SMTT(60), <2>0, Fields
      DEF TaskSet, Placed, MutexLabels, KillLabels, LaunchLabels, UndoLabels
    <2>2. task[t].pc \in {"markPut", "insert", "unpinStart"} => task[t].op \in {"create", "resume"}
      BY Fields DEF Placed, LaunchLabels
    <2>3. "unpinStart" \in Label /\ "ready" \in Label
      BY Names DEF LaunchLabels
    <2>4. QED
      BY ZenonT(60), <1>4, <2>1, <2>2, <2>3, GotoMoves, FinishMoves, Names
      DEF ResumeJoined, MarkWrite,
         InsertHandle, UnpinStarting, PublishRoute, ForgetRecord
  <1>5. CASE MarkRead(t) \/ UnmarkRead(t)
    <2> DEFINE r(l) == [task[t] EXCEPT !.pc = l, !.rec = disk[Sb(t)]]
    <2>1. Sb(t) \in Sandbox /\ disk[Sb(t)] \in DiskSet
      BY <1>5, HasSandbox DEF MarkRead, UnmarkRead, Shared
    <2>2. "markPut" \in Label /\ "unmarkPut" \in Label
      BY Names
    <2>3. r("markPut") \in TaskSet /\ r("unmarkPut") \in TaskSet
      BY <2>1, <2>2, Fields, ZenonT(60) DEF TaskSet
    <2>4. /\ task[t].op = "resume" => Placed(r("markPut"))
          /\ Placed(r("unmarkPut"))
      BY <2>1, Fields DEF TaskSet, Placed, MutexLabels, KillLabels, LaunchLabels, UndoLabels, Sb
    <2>5. MarkRead(t) => task[t].op = "resume"
      BY Fields DEF MarkRead, Placed
    <2>6. QED
      BY ZenonT(60), <1>5, <2>3, <2>4, <2>5, FinishMoves, Names DEF MarkRead, UnmarkRead, Moves
  <1>6. CASE Build(t) \/ PinStarting(t) \/ WaitForReady(t) \/ ProxyTarget(t) \/ PublishRunning(t)
             \/ LaunchStop(t)
    <2>1. task[t].op \in {"create", "resume"} /\ Sb(t) \in Sandbox
      BY ZenonT(60), <1>6, Fields, HasSandbox DEF Build, PinStarting, WaitForReady, ProxyTarget,
         PublishRunning, LaunchStop, Placed, LaunchLabels, UndoLabels
    <2>2. /\ \A l \in {"pin", "start", "publish", "target", "route"} :
                 Placed([task[t] EXCEPT !.pc = l])
          /\ LaunchStop(t) /\ task[t].prev # "Absent" =>
                 Placed([task[t] EXCEPT !.pc = "rollback"])
      BY <2>1, Fields
      DEF LaunchStop, TaskSet, Placed, MutexLabels, KillLabels, LaunchLabels, UndoLabels, Sb
    <2>3. {"pin", "start", "publish", "target", "route", "rollback"} \subseteq Label
      BY ZenonT(60), Names DEF LaunchLabels, UndoLabels
    <2>4. ASSUME Rollback(t) \/ Cleanup(t, "Running") \/ Cleanup(t, LaunchState(t))
          PROVE  Moves(t)
      <3>1. LaunchState(t) # "Absent"
        BY DEF LaunchState
      <3>2. QED
        BY ZenonT(60), <2>1, <2>4, <3>1, UndoMoves DEF Rollback, Cleanup, UndoLabels
    <2>5. QED
      BY ZenonT(60), <1>6, <2>2, <2>3, <2>4, GotoMoves, FinishMoves, Names DEF Build, PinStarting,
         WaitForReady, ProxyTarget, PublishRunning, LaunchStop
  <1>7. CASE StartVM(t)
    <2> DEFINE r == [task[t] EXCEPT !.pc = "insert", !.hd = t]
    <2>1. task[t].op \in {"create", "resume"} /\ Sb(t) \in Sandbox
      BY <1>7, Fields, HasSandbox DEF StartVM, Placed, LaunchLabels
    <2>2. "insert" \in Label /\ t \in Option(VM)
      BY Names, SomeTypes DEF LaunchLabels, VM
    <2>3. r \in TaskSet
      BY <2>2, Fields, ZenonT(60) DEF TaskSet
    <2>4. Placed(r)
      BY <2>1, Fields DEF TaskSet, Placed, MutexLabels, KillLabels, LaunchLabels, UndoLabels, Sb
    <2>5. Rollback(t) => Moves(t)
      BY ZenonT(60), <2>1, UndoMoves DEF Rollback, LaunchState, UndoLabels
    <2>6. QED
      BY ZenonT(60), <1>7, <2>3, <2>4, <2>5 DEF StartVM, Moves
  <1>8. CASE AddRecord(t)
    <2>1. task[t].op = "create" /\ Sb(t) \in Sandbox
      BY ZenonT(60), <1>8, Fields, HasSandbox DEF AddRecord, Placed
    <2>2. Placed([task[t] EXCEPT !.pc = "ready"]) /\ "ready" \in Label
      BY ZenonT(60), <2>1, Fields, Names
      DEF TaskSet, Placed, MutexLabels, KillLabels, LaunchLabels, UndoLabels, Sb
    <2>3. Cleanup(t, "Absent") => Moves(t)
      BY ZenonT(60), <2>1, UndoMoves DEF Cleanup, UndoLabels
    <2>4. QED
      BY ZenonT(60), <1>8, <2>2, <2>3, GotoMoves DEF AddRecord
  <1>9. CASE LaunchDetach(t)
    <2> DEFINE p == IF handles[Sb(t)] \in {t, None} THEN task[t].prev ELSE "Absent"
    <2>1. task[t].op \in {"create", "resume"} /\ Sb(t) \in Sandbox
          /\ p \in {"Absent", "Running", LaunchState(t)}
      BY <1>9, Fields, HasSandbox DEF LaunchDetach, Placed, UndoLabels, LaunchState
    <2>2. Becomes(t, [task[t] EXCEPT !.pc = "launchStop", !.prev = p])
      BY <1>9 DEF LaunchDetach
    <2>3. QED
      BY ZenonT(60), <2>1, <2>2, UndoMoves DEF UndoLabels
  <1>10. CASE RollbackMetadata(t)
    <2>1. Placed([task[t] EXCEPT !.pc = "unmark"])
      BY <1>10, Fields DEF RollbackMetadata, TaskSet, Placed, MutexLabels, KillLabels,
         LaunchLabels, UndoLabels
    <2>2. QED
      BY ZenonT(60), <1>10, <2>1, GotoMoves, FinishMoves, Names DEF RollbackMetadata
  <1>11. QED
    BY <1>1, <1>2, <1>3, <1>4, <1>5, <1>6, <1>7, <1>8, <1>9, <1>10 DEF LaunchStep

-----------------------------------------------------------------------------
(* Pausing. *)

(* Every step of a pause keeps the shared state typed. *)
LEMMA PauseShared ==
  ASSUME Shared, Tasks, NEW t \in Task, PauseStep(t)
  PROVE  Shared'
  <1> USE DEF runtimeVars, pinVars, deleteVars, nodeVars, At
  <1>1. CASE PauseJoined(t)
    BY ZenonT(60), <1>1 DEF Shared, PauseJoined
  <1>2. CASE PinPaused(t)
    BY ZenonT(60), <1>2, HasSandbox, CompareAndSetType, Names DEF Shared, PinPaused
  <1>3. CASE AllocateArtifacts(t)
    BY ZenonT(60), <1>3, CompareAndSetType, Names DEF Shared, AllocateArtifacts
  <1>4. CASE PauseDetach(t)
    BY <1>4, HandleWrites, NoneTypes, RemoveRecordType DEF Shared, PauseDetach, Detach
  <1>5. CASE Freeze(t)
    BY <1>5, Zenon DEF Shared, Freeze, VMState
  <1>6. CASE Thaw(t)
    BY <1>6, ZenonT(60) DEF Shared, Thaw, VMState
  <1>7. CASE PersistPaused(t)
    <2> DEFINE d == [life |-> "paused", gen |-> t, mode |-> store[Sb(t)].mode]
    <2>1. t \in Option(Gen) /\ store[Sb(t)].mode \in Option(Mode)
      BY <1>7, HasSandbox DEF PersistPaused, Shared, RecordSet, Option, Gen
    <2>2. d \in DiskSet
      BY <2>1 DEF DiskSet
    <2>3. QED
      BY ZenonT(60), <1>7, <2>2, DiskWrites DEF Shared, PersistPaused
  <1>8. CASE PauseReattach(t)
    BY ZenonT(60), <1>8, Fields, HandleWrites, CompareAndSetType, Names
    DEF Shared, PauseReattach, Reattach
  <1>9. CASE PauseCondemn(t)
    BY ZenonT(60), <1>9, StopType, RemoveRecordType DEF Shared, PauseCondemn
  <1>10. CASE PauseUnpin(t)
    BY <1>10 DEF Shared, PauseUnpin
  <1>11. CASE PublishPaused(t)
    <2>1. t \in Option(Gen) /\ "Paused" \in Phase
      BY Names DEF Option, Gen
    <2>2. [store EXCEPT ![Sb(t)].state = "Paused", ![Sb(t)].paused = t] \in [Sandbox -> RecordSet]
      BY ZenonT(60), <2>1, StatePausedWrite
    <2>3. store' \in [Sandbox -> RecordSet]
      BY ZenonT(60), <1>11, <2>2 DEF Shared, PublishPaused
    <2>4. QED
      BY <1>11, <2>3 DEF Shared, PublishPaused
  <1>12. CASE PauseStop(t)
    BY <1>12, StopType DEF Shared, PauseStop
  <1>13. QED
    BY ZenonT(60), <1>1, <1>2, <1>3, <1>4, <1>5, <1>6, <1>7, <1>8, <1>9, <1>10, <1>11, <1>12
    DEF PauseStep

(* Every step of a pause is a typed move. *)
LEMMA PauseMoves ==
  ASSUME Shared, Tasks, NEW t \in Task, PauseStep(t)
  PROVE  Moves(t)
  <1> USE DEF At
  <1>1. CASE PauseDetach(t)
    <2> DEFINE r == [task[t] EXCEPT !.pc = "freeze", !.hd = handles[Sb(t)], !.rt = routes[Sb(t)]]
    <2>1. Sb(t) \in Sandbox
      BY <1>1, HasSandbox DEF PauseDetach
    <2>2. "freeze" \in Label /\ handles[Sb(t)] \in Option(VM) /\ routes[Sb(t)] \in Option(VM)
      BY <2>1, Names DEF Shared, PauseLabels
    <2>3. r \in TaskSet
      BY <2>2, Fields, ZenonT(60) DEF TaskSet
    <2>4. Placed(r)
      BY <2>1, Fields DEF TaskSet, Placed, MutexLabels, KillLabels, LaunchLabels, UndoLabels, Sb
    <2>5. QED
      BY <1>1, <2>3, <2>4, FinishMoves, Names DEF PauseDetach, Moves
  <1>2. CASE ~PauseDetach(t)
    <2> DEFINE Targets == (PauseLabels \ {"pausePin"}) \cup {"pauseUnpin", "pauseStop"}
    <2>1. Sb(t) \in Sandbox
      BY ZenonT(60), <1>2, HasSandbox
      DEF PauseStep, PauseJoined, PinPaused, AllocateArtifacts, Freeze,
         PersistPaused, Thaw, PauseReattach, PauseCondemn, PauseUnpin, PublishPaused, PauseStop
    <2>2. ASSUME NEW l \in Targets
          PROVE  Placed([task[t] EXCEPT !.pc = l]) /\ l \in Label
      BY ZenonT(60), <2>1, Fields, Names
      DEF TaskSet, Placed, MutexLabels, KillLabels, LaunchLabels, UndoLabels, PauseLabels, Sb
    <2>3. (\E l \in Targets : Goto(t, l)) \/ (\E r \in {"ok", "err"} : Finish(t, r))
      BY <1>2 DEF PauseStep, PauseJoined, PinPaused, AllocateArtifacts, Freeze,
         PersistPaused, Thaw, PauseReattach, PauseCondemn, PauseUnpin, PublishPaused, PauseStop,
         PauseLabels
    <2>4. QED
      BY ZenonT(60), <2>2, <2>3, GotoMoves, FinishMoves, Names
  <1>3. QED
    BY <1>1, <1>2

-----------------------------------------------------------------------------
(* Deleting and evicting. *)

(* The deletions map and the progress of its entries keep their types. *)
LEMMA DeletionWrites ==
  ASSUME Shared, NEW s, NEW e \in Option(Task)
  PROVE  [deletions EXCEPT ![s] = e] \in [Sandbox -> Option(Task)]
  BY ZenonT(60) DEF Shared

(* Writing the progress of an entry. *)
LEMMA ProgressType ==
  ASSUME Shared, NEW t, NEW p \in {"Capture", "Stop", "Release", "Done"}, SetProgress(t, p)
  PROVE  progress' \in [Sandbox -> [Task -> {"Capture", "Stop", "Release", "Done"}]]
  <1> DEFINE P == {"Capture", "Stop", "Release", "Done"}
  <1> HIDE DEF P
  <1>1. progress \in [Sandbox -> [Task -> P]] /\ p \in P
    BY DEF Shared, P
  <1>2. [progress EXCEPT ![task[t].sb][task[t].entry] = p] \in [Sandbox -> [Task -> P]]
    BY <1>1, Zenon
  <1>3. QED
    BY ZenonT(60), <1>2 DEF SetProgress, P

(* The entry a delete works with. *)
LEMMA EntryType ==
  ASSUME Shared, NEW t \in Task, NEW s \in Sandbox
  PROVE  EntryFor(t, s) \in Task
  BY DEF Shared, EntryFor, Option

(* Every step of a delete, or of an eviction, keeps the shared state typed. *)
LEMMA DeleteShared ==
  ASSUME Shared, Tasks, NEW t \in Task, DeleteStep(t)
  PROVE  Shared'
  <1> USE DEF runtimeVars, pinVars, deleteVars, nodeVars, At
  <1>1. CASE DeleteLock(t) \/ DeleteWoken(t) \/ EvictLock(t)
    BY ZenonT(60), <1>1 DEF Shared, DeleteLock, DeleteWoken, EvictLock
  <1>2. CASE DeleteClaim(t)
    BY ZenonT(60), <1>2, CompareAndSetType, DeletionWrites, NoneTypes, Names DEF Shared, DeleteClaim
  <1>3. CASE DeleteDetach(t)
    BY ZenonT(60), <1>3, HandleWrites, NoneTypes DEF Shared, DeleteDetach, Detach
  <1>4. CASE Capture(t)
    <2>1. store' \in [Sandbox -> RecordSet]
      BY <1>4, CompareAndSetType, Fields DEF Shared, Capture
    <2>2. handles' \in [Sandbox -> Option(VM)] /\ routes' \in [Sandbox -> Option(VM)]
      BY ZenonT(60), <1>4, HandleWrites, Fields DEF Shared, Capture, Reattach
    <2>3. progress' \in [Sandbox -> [Task -> {"Capture", "Stop", "Release", "Done"}]]
      BY <1>4, ProgressType DEF Shared, Capture
    <2>4. QED
      BY ZenonT(60), <1>4, <2>1, <2>2, <2>3 DEF Shared, Capture
  <1>5. CASE DeleteStop(t)
    <2>1. vm' \in [VM -> VMState] /\ handles' \in [Sandbox -> Option(VM)]
      <3>1. [vm EXCEPT ![task[t].hd] = "down"] \in [VM -> VMState]
        BY ZenonT(60) DEF Shared, VMState
      <3>2. QED
        BY ZenonT(60), <1>5, <3>1, HandleWrites, Fields DEF Shared, DeleteStop
    <2>2. progress' \in [Sandbox -> [Task -> {"Capture", "Stop", "Release", "Done"}]]
      BY ZenonT(60), <1>5, ProgressType DEF Shared, DeleteStop
    <2>3. QED
      BY <1>5, <2>1, <2>2 DEF Shared, DeleteStop
  <1>6. CASE Release(t)
    BY ZenonT(60), <1>6, RemoveRecordType DEF Shared, Release
  <1>7. CASE Purge(t)
    <2>1. [disk EXCEPT ![Sb(t)] = NoDisk] \in [Sandbox -> DiskSet]
      BY DiskWrites, NoneTypes
    <2>2. QED
      BY ZenonT(60), <1>7, <2>1 DEF Shared, Purge
  <1>8. CASE DeleteEnd(t)
    <2>1. progress' \in [Sandbox -> [Task -> {"Capture", "Stop", "Release", "Done"}]]
      BY ZenonT(60), <1>8, ProgressType DEF DeleteEnd
    <2>2. QED
      BY ZenonT(60), <1>8, <2>1, DeletionWrites, NoneTypes DEF Shared, DeleteEnd
  <1>9. CASE EvictNext(t)
    <2>1. PICK s \in task[t].rest : deletions' = [deletions EXCEPT ![s] = EntryFor(t, s)]
      BY ZenonT(60), <1>9 DEF EvictNext
    <2>2. deletions' \in [Sandbox -> Option(Task)]
      BY <2>1, Fields, EntryType, SomeTypes, DeletionWrites
    <2>3. QED
      BY <1>9, <2>2 DEF Shared, EvictNext
  <1>10. CASE EvictClaim(t)
    <2>1. "Killing" \in Phase /\ "Pausing" \in Phase
      BY Names
    <2>2. /\ [store EXCEPT ![Sb(t)].state = "Killing"] \in [Sandbox -> RecordSet]
          /\ [store EXCEPT ![Sb(t)].state = "Pausing"] \in [Sandbox -> RecordSet]
      BY <2>1, Zenon DEF Shared, RecordSet
    <2>3. QED
      BY ZenonT(60), <1>10, <2>2 DEF Shared, EvictClaim
  <1>11. QED
    BY ZenonT(60), <1>1, <1>2, <1>3, <1>4, <1>5, <1>6, <1>7, <1>8, <1>9, <1>10 DEF DeleteStep


(* Every step of a delete, or of an eviction, is a typed move. *)
LEMMA DeleteMoves ==
  ASSUME Shared, Tasks, NEW t \in Task, DeleteStep(t)
  PROVE  Moves(t)
  <1> USE DEF At
  <1>1. CASE DeleteLock(t)
    <2> DEFINE r(l) == [task[t] EXCEPT !.locked = TRUE, !.prev = "Killing", !.pc = l]
    <2>1. "deleteClaim" \in Label /\ "deleteDetach" \in Label /\ "Killing" \in Phase
      BY Names DEF KillLabels
    <2>2. r("deleteClaim") \in TaskSet /\ r("deleteDetach") \in TaskSet
      BY <2>1, Fields, ZenonT(60) DEF TaskSet
    <2>3. Placed(r("deleteClaim")) /\ Placed(r("deleteDetach"))
      BY <1>1, Fields
      DEF DeleteLock, TaskSet, Placed, MutexLabels, KillLabels, LaunchLabels, UndoLabels
    <2>4. QED
      BY ZenonT(60), <1>1, <2>2, <2>3, FinishMoves, Names DEF DeleteLock, Moves
  <1>2. CASE DeleteClaim(t) \/ EvictClaim(t)
    <2> DEFINE r(p) == [task[t] EXCEPT !.pc = "deleteDetach", !.prev = p]
    <2>1. Sb(t) \in Sandbox /\ StateOf(Sb(t)) \in Phase
      BY ZenonT(60), <1>2, HasSandbox DEF DeleteClaim, EvictClaim, Shared, RecordSet, StateOf
    <2>2. "deleteDetach" \in Label /\ "Running" \in Phase /\ "pausePin" \in Label
      BY Names DEF KillLabels, PauseLabels
    <2>3. \A p \in Phase : r(p) \in TaskSet
      BY <2>2, Fields, ZenonT(60) DEF TaskSet
    <2>4. task[t].locked
      BY <1>2, Fields DEF DeleteClaim, EvictClaim, Placed, MutexLabels
    <2>5. (\A p \in Phase : Placed(r(p))) /\ Placed([task[t] EXCEPT !.pc = "pausePin"])
      BY <2>4, <2>1, Fields
      DEF TaskSet, Placed, MutexLabels, KillLabels, LaunchLabels, UndoLabels, Sb
    <2>6. CASE DeleteClaim(t)
      <3>1. CASE StateOf(Sb(t)) \in {"Running", "Paused"}
        BY ZenonT(60), <2>6, <3>1, <2>1, <2>3, <2>5 DEF DeleteClaim, Moves
      <3>2. CASE StateOf(Sb(t)) = "Absent"
        BY <2>6, <3>2, FinishMoves, Names DEF DeleteClaim
      <3>3. CASE StateOf(Sb(t)) \notin {"Running", "Paused", "Absent"}
        BY ZenonT(60), <2>6, <3>3, <2>1, <2>4, WaitMoves DEF DeleteClaim
      <3>4. QED
        BY ZenonT(60), <3>1, <3>2, <3>3
    <2>7. CASE EvictClaim(t)
      BY ZenonT(60), <2>7, <2>2, <2>3, <2>5, GotoMoves, FinishMoves, Names DEF EvictClaim, Moves
    <2>8. QED
      BY <1>2, <2>6, <2>7
  <1>3. CASE DeleteWoken(t) \/ DeleteStop(t) \/ Release(t) \/ Purge(t) \/ DeleteEnd(t)
    <2>0. task[t].pc \in {"deleteWoken", "deleteStop", "release", "purge", "deleteEnd"}
      BY ZenonT(60), <1>3 DEF DeleteWoken, DeleteStop, Release, Purge, DeleteEnd
    <2>1. task[t].locked =>
            \A l \in {"deleteClaim", "release", "purge", "deleteEnd"} :
               Placed([task[t] EXCEPT !.pc = l])
      BY SMTT(60), <2>0, Fields
      DEF TaskSet, Placed, MutexLabels, KillLabels, LaunchLabels, UndoLabels
    <2>2. task[t].pc \in {"deleteWoken", "deleteStop", "release", "purge"} => task[t].locked
      BY Fields DEF Placed, MutexLabels, KillLabels
    <2>3. {"purge", "deleteEnd", "deleteClaim", "release"} \subseteq Label
      BY ZenonT(60), Names DEF KillLabels
    <2>4. QED
      BY ZenonT(60), <1>3, <2>1, <2>2, <2>3, GotoMoves, FinishMoves, Names
      DEF DeleteWoken, DeleteStop, Release, Purge, DeleteEnd
  <1>4. CASE DeleteDetach(t)
    <2> DEFINE r(l) == [task[t] EXCEPT !.hd = handles[Sb(t)], !.rt = routes[Sb(t)], !.pc = l]
               after == {"capture", "deleteStop", "release"}
    <2>1. Sb(t) \in Sandbox /\ task[t].locked
      BY ZenonT(60), <1>4, Fields, HasSandbox DEF DeleteDetach, Placed, MutexLabels, KillLabels
    <2>2. /\ after \subseteq Label
          /\ handles[Sb(t)] \in Option(VM) /\ routes[Sb(t)] \in Option(VM)
      BY <2>1, Names DEF Shared, KillLabels
    <2>3. \A l \in Label : r(l) \in TaskSet
      BY <2>2, Fields, ZenonT(60) DEF TaskSet
    <2>4. \A l \in after : Placed(r(l))
      BY <2>1, Fields
      DEF TaskSet, Placed, MutexLabels, KillLabels, LaunchLabels, UndoLabels, Sb
    <2>5. \E l \in after : Becomes(t, r(l))
      BY ZenonT(60), <1>4 DEF DeleteDetach
    <2>6. QED
      BY ZenonT(60), <2>2, <2>3, <2>4, <2>5 DEF Moves
  <1>5. CASE Capture(t)
    <2> DEFINE r == [task[t] EXCEPT !.pc = "deleteStop", !.cap = TRUE]
    <2>1. Sb(t) \in Sandbox /\ task[t].locked
      BY <1>5, Fields, HasSandbox DEF Capture, Placed, MutexLabels, KillLabels
    <2>2. "deleteStop" \in Label
      BY Names DEF KillLabels
    <2>3. r \in TaskSet
      BY <2>2, Fields, ZenonT(60) DEF TaskSet
    <2>4. Placed(r) /\ Placed([task[t] EXCEPT !.pc = "deleteStop"])
      BY <2>1, Fields
      DEF TaskSet, Placed, MutexLabels, KillLabels, LaunchLabels, UndoLabels, Sb
    <2>5. QED
      BY <1>5, <2>2, <2>3, <2>4, GotoMoves, FinishMoves, Names DEF Capture, Moves
  <1>6. CASE EvictNext(t)
    <2>1. PICK s \in task[t].rest :
            Becomes(t, [task[t] EXCEPT !.pc = "evictLock", !.sb = s, !.entry = EntryFor(t, s),
                                       !.rest = @ \ {s}])
      BY ZenonT(60), <1>6 DEF EvictNext
    <2> DEFINE r == [task[t] EXCEPT !.pc = "evictLock", !.sb = s, !.entry = EntryFor(t, s),
                                    !.rest = @ \ {s}]
    <2>2. s \in Sandbox /\ s \in Option(Sandbox)
      BY ZenonT(60), Fields, SomeTypes
    <2>3. EntryFor(t, s) \in Task /\ EntryFor(t, s) \in Option(Task) /\ EntryFor(t, s) # None
      BY ZenonT(60), <2>2, EntryType, SomeTypes, ConstantsAssumption
    <2>4. "evictLock" \in Label /\ task[t].rest \ {s} \in SUBSET Sandbox
      BY Names, Fields
    <2>5. r \in TaskSet
      BY <2>2, <2>3, <2>4, Fields, ZenonT(60) DEF TaskSet
    <2>6. task[t].op = "evict"
      BY <1>6, Fields DEF EvictNext, Placed
    <2>7. Placed(r)
      <3>1. r.pc = "evictLock" /\ r.sb = s /\ r.entry = EntryFor(t, s) /\ r.op = "evict"
        BY <2>6, Fields, SMT DEF TaskSet
      <3>2. QED
        BY <2>2, <2>3, <3>1, Fields DEF Placed, MutexLabels, KillLabels, LaunchLabels, UndoLabels
    <2>8. QED
      BY <2>1, <2>5, <2>7 DEF Moves
  <1>7. CASE EvictLock(t)
    <2> DEFINE r == [task[t] EXCEPT !.pc = "evictClaim", !.locked = TRUE]
    <2>1. r \in TaskSet
      BY Fields, Names, ZenonT(60) DEF TaskSet
    <2>2. Placed(r)
      BY <1>7, Fields
      DEF EvictLock, TaskSet, Placed, MutexLabels, KillLabels, LaunchLabels, UndoLabels
    <2>3. QED
      BY <1>7, <2>1, <2>2 DEF EvictLock, Moves
  <1>8. QED
    BY ZenonT(60), <1>1, <1>2, <1>3, <1>4, <1>5, <1>6, <1>7 DEF DeleteStep

-----------------------------------------------------------------------------
(* Snapshots, forks and keep-alives. *)

(* Dropping a sandbox keeps the shared state typed. *)
LEMMA DropType ==
  ASSUME Shared, NEW t, NEW s, DropCaptured(t, s)
  PROVE  /\ store' \in [Sandbox -> RecordSet] /\ vm' \in [VM -> VMState]
         /\ handles' \in [Sandbox -> Option(VM)] /\ routes' \in [Sandbox -> Option(VM)]
  <1>1. store' \in [Sandbox -> RecordSet]
    BY RemoveRecordType DEF DropCaptured
  <1>2. vm' \in [VM -> VMState]
    BY StopType DEF DropCaptured
  <1>3. handles' \in [Sandbox -> Option(VM)] /\ routes' \in [Sandbox -> Option(VM)]
    BY HandleWrites, NoneTypes DEF DropCaptured, Detach
  <1>4. QED
    BY <1>1, <1>2, <1>3

(* Every step of a snapshot, a fork or a keep-alive keeps the shared state typed. *)
LEMMA CaptureShared ==
  ASSUME Shared, Tasks, NEW t \in Task, CaptureStep(t)
  PROVE  Shared'
  <1> USE DEF runtimeVars, pinVars, deleteVars, nodeVars, At
  <1>1. CASE ForkHandle(t) \/ KeepReread(t)
    BY ZenonT(60), <1>1 DEF Shared, ForkHandle, KeepReread
  <1>2. CASE SnapshotClaim(t)
    BY ZenonT(60), <1>2, CompareAndSetType, Names DEF Shared, SnapshotClaim
  <1>3. CASE SnapshotHandle(t)
    BY ZenonT(60), <1>3, HandleWrites, NoneTypes, RemoveRecordType
    DEF Shared, SnapshotHandle, Detach
  <1>4. CASE SnapshotVM(t)
    BY ZenonT(60), <1>4, CompareAndSetType, DropType, Names DEF Shared, SnapshotVM
  <1>5. CASE ForkClaim(t)
    BY ZenonT(60), <1>5, CompareAndSetType, Names DEF Shared, ForkClaim
  <1>6. CASE ForkVM(t)
    <2>1. [vm EXCEPT ![task[t].child] = "up"] \in [VM -> VMState]
      BY ZenonT(60) DEF Shared, VMState
    <2>2. /\ store' \in [Sandbox -> RecordSet] /\ vm' \in [VM -> VMState]
          /\ handles' \in [Sandbox -> Option(VM)] /\ routes' \in [Sandbox -> Option(VM)]
      BY ZenonT(60), <1>6, <2>1, CompareAndSetType, DropType, Names DEF Shared, ForkVM
    <2>3. QED
      BY <1>6, <2>2 DEF Shared, ForkVM
  <1>7. CASE ForkRestore(t)
    BY ZenonT(60), <1>7, CompareAndSetType, Names DEF Shared, ForkRestore
  <1>8. CASE ForkAdd(t)
    <2>1. [NoRecord EXCEPT !.state = "Running", !.mode = nodeMode] \in RecordSet
      BY NoneTypes, SomeTypes, Names, Zenon DEF RecordSet, Shared
    <2>2. [store EXCEPT ![task[t].child] = [NoRecord EXCEPT !.state = "Running", !.mode = nodeMode]]
             \in [Sandbox -> RecordSet]
      BY <2>1, RecordWrite
    <2>3. store' \in [Sandbox -> RecordSet]
      BY <1>8, <2>2 DEF Shared, ForkAdd
    <2>4. vm' \in [VM -> VMState]
      BY ZenonT(60), <1>8, StopType DEF Shared, ForkAdd
    <2>5. QED
      BY <1>8, <2>3, <2>4 DEF Shared, ForkAdd
  <1>9. CASE ForkInsert(t) \/ ForkRoute(t)
    <2>1. task[t].child \in Option(VM)
      BY Fields, SomeTypes
    <2>2. QED
      BY ZenonT(60), <1>9, <2>1, HandleWrites DEF Shared, ForkInsert, ForkRoute
  <1>10. QED
    BY ZenonT(60), <1>1, <1>2, <1>3, <1>4, <1>5, <1>6, <1>7, <1>8, <1>9 DEF CaptureStep

(* Every step of a snapshot, a fork or a keep-alive is a typed move. *)
LEMMA CaptureMoves ==
  ASSUME Shared, Tasks, NEW t \in Task, CaptureStep(t)
  PROVE  Moves(t)
  <1> USE DEF At
  <1>1. Sb(t) \in Sandbox
    BY HasSandbox DEF CaptureStep, SnapshotClaim, SnapshotHandle, SnapshotVM, ForkHandle, ForkClaim,
       ForkVM, ForkRestore, ForkAdd, ForkInsert, ForkRoute, KeepReread
  <1> DEFINE Targets == {"snapHandle", "snap", "forkClaim", "fork", "forkRestore", "forkAdd",
                         "forkInsert", "forkRoute", "touch"}
             Forks == task[t].op = "fork" /\ task[t].child \in Sandbox
             Fits(l) == l \in {"snapHandle", "snap", "touch"} \/ Forks
             r(l, h) == [task[t] EXCEPT !.pc = l, !.hd = h]
  <1>2. Targets \subseteq Label
    BY ZenonT(60), Names
  <1>0. task[t].pc \in {"forkHandle", "forkClaim", "fork", "forkRestore", "forkAdd", "forkInsert"}
          => Forks
    BY Fields DEF Placed
  <1>3. ASSUME NEW l \in Targets, NEW h \in Option(VM), Fits(l)
        PROVE  r(l, h) \in TaskSet /\ Placed(r(l, h))
    <2>1. r(l, h) \in TaskSet
      BY <1>2, Fields, ZenonT(60) DEF TaskSet
    <2>2. Placed(r(l, h))
      BY <1>1, <1>3, Fields
      DEF TaskSet, Placed, MutexLabels, KillLabels, LaunchLabels, UndoLabels, Sb
    <2>3. QED
      BY <2>1, <2>2
  <1>4. ASSUME NEW l \in Targets, Fits(l)
        PROVE  Placed([task[t] EXCEPT !.pc = l])
    BY <1>1, <1>4, Fields
    DEF TaskSet, Placed, MutexLabels, KillLabels, LaunchLabels, UndoLabels, Sb
  <1>5. CASE SnapshotHandle(t) \/ ForkHandle(t)
    <2>1. handles[Sb(t)] \in Option(VM)
      BY ZenonT(60), <1>1 DEF Shared
    <2>2. QED
      BY ZenonT(60), <1>0, <1>5, <2>1, <1>3, FinishMoves, Names
      DEF SnapshotHandle, ForkHandle, Moves
  <1>6. CASE ForkVM(t)
    <2>1. task[t].child \in Option(VM) /\ None \in Option(VM)
      BY ZenonT(60), Fields, SomeTypes, NoneTypes
    <2>2. QED
      BY ZenonT(60), <1>0, <1>6, <2>1, <1>3, FinishMoves, Names DEF ForkVM, DropCaptured, Moves
  <1>7. CASE ~(SnapshotHandle(t) \/ ForkHandle(t) \/ ForkVM(t))
    <2>1. \/ \E l \in Targets : Fits(l) /\ Goto(t, l)
          \/ \E o \in {"ok", "err"} : Finish(t, o)
      BY <1>0, <1>7 DEF CaptureStep, SnapshotClaim, SnapshotVM, ForkClaim, DropCaptured,
         ForkRestore, ForkAdd, ForkInsert, ForkRoute, KeepReread
    <2>2. QED
      BY ZenonT(60), <2>1, <1>2, <1>4, GotoMoves, FinishMoves, Names
  <1>8. QED
    BY ZenonT(60), <1>5, <1>6, <1>7

-----------------------------------------------------------------------------
(* Waiting, requests, the shutdown cleanup and the process. *)

(* Waking up, or giving up waiting, is a typed move. *)
LEMMA WakeMoves ==
  ASSUME Tasks, NEW t \in Task, Wake(t) \/ WaitTimesOut(t)
  PROVE  Moves(t)
  <1>1. CASE Wake(t)
    <2>1. Placed([task[t] EXCEPT !.pc = task[t].next])
      BY <1>1, Fields
      DEF Wake, At, TaskSet, Placed, MutexLabels, KillLabels, LaunchLabels, UndoLabels
    <2>2. QED
      BY ZenonT(60), <1>1, <2>1, Fields, GotoMoves DEF Wake
  <1>2. CASE WaitTimesOut(t)
    BY <1>2, FinishMoves, Names DEF WaitTimesOut
  <1>3. QED
    BY <1>1, <1>2

(* Every step of an accepted operation keeps the types. *)
LEMMA StepType ==
  ASSUME Shared, Tasks, NEW t \in Task, Step(t)
  PROVE  Shared' /\ Moves(t)
  <1>1. CASE Wake(t) \/ WaitTimesOut(t)
    <2>1. Shared'
      BY <1>1 DEF Shared, Wake, WaitTimesOut, runtimeVars, pinVars, deleteVars, nodeVars
    <2>2. QED
      BY ZenonT(60), <1>1, <2>1, WakeMoves
  <1>2. QED
    BY ZenonT(60), <1>1, LaunchShared, LaunchMoves, PauseShared, PauseMoves, DeleteShared,
       DeleteMoves,
       CaptureShared, CaptureMoves DEF Step

(* A pause that is called keeps the types. *)
LEMMA PauseCallType ==
  ASSUME Shared, Tasks, NEW t \in Task, NEW s \in Sandbox, PauseCall(t, "pause", s)
  PROVE  store' \in [Sandbox -> RecordSet] /\ Moves(t)
  <1> DEFINE begun == Started("pause", s, "pausePin")
             wait == [begun EXCEPT !.pc = "wait", !.prev = "Pausing", !.next = "pauseJoined"]
             end(o) == Ended("pause", s, o)
  <1>1. store' \in [Sandbox -> RecordSet]
    BY CompareAndSetType, Names DEF PauseCall
  <1>2. begun \in TaskSet
    BY StartedType, Names DEF OpName, PauseLabels
  <1>3. wait \in TaskSet
    <2>1. "wait" \in Label /\ "pauseJoined" \in Label /\ "Pausing" \in Phase
      BY Names
    <2> HIDE DEF begun
    <2>2. QED
      BY <1>2, <2>1, Zenon DEF TaskSet
  <1>4. Placed(begun) /\ Placed(wait)
    BY DEF Started, IdleTask, Placed, MutexLabels, KillLabels, LaunchLabels, UndoLabels
  <1>5. \A o \in {"ok", "err"} : end(o) \in TaskSet /\ Placed(end(o))
    BY EndedType, SomeTypes, Names DEF OpName
  <1>6. Becomes(t, begun) \/ Becomes(t, wait) \/ Becomes(t, end("ok")) \/ Becomes(t, end("err"))
    BY DEF PauseCall
  <1>7. QED
    BY ZenonT(60), <1>1, <1>2, <1>3, <1>4, <1>5, <1>6 DEF Moves

(* A delete that is called keeps the types. *)
LEMMA DeleteCallType ==
  ASSUME Shared, Tasks, NEW t \in Task, NEW s \in Sandbox, DeleteCall(t, "delete", s)
  PROVE  deletions' \in [Sandbox -> Option(Task)] /\ Moves(t)
  <1> DEFINE begun == Started("delete", s, "deleteLock")
             r == [begun EXCEPT !.entry = EntryFor(t, s)]
  <1>1. EntryFor(t, s) \in Task /\ EntryFor(t, s) \in Option(Task) /\ EntryFor(t, s) # None
    BY EntryType, SomeTypes, ConstantsAssumption
  <1>2. begun \in TaskSet
    BY StartedType, Names DEF OpName
  <1>3. r \in TaskSet
    <2> HIDE DEF begun
    <2>1. QED
      BY <1>1, <1>2, Zenon DEF TaskSet
  <1>4. Placed(r)
    BY <1>1 DEF Started, IdleTask, Placed, MutexLabels, KillLabels, LaunchLabels, UndoLabels
  <1>5. deletions' \in [Sandbox -> Option(Task)]
    BY <1>1, DeletionWrites DEF DeleteCall
  <1>6. QED
    BY ZenonT(60), <1>3, <1>4, <1>5 DEF DeleteCall, Moves

(* Every request keeps the types. *)
LEMMA RequestType ==
  ASSUME Shared, Tasks, NEW t \in Task, Request(t)
  PROVE  Shared' /\ Moves(t)
  <1> USE DEF runtimeVars, pinVars, deleteVars, nodeVars
  <1>1. CASE Evict(t)
    <2> DEFINE r == [task[t] EXCEPT !.pc = "evictNext", !.op = "evict", !.rest = Overdue]
    <2>1. "evictNext" \in Label /\ "evict" \in OpName /\ Overdue \in SUBSET Sandbox
      BY Names DEF OpName, Overdue
    <2>2. r \in TaskSet
      BY <2>1, Fields, ZenonT(60) DEF TaskSet
    <2>3. Placed(r)
      <3>1. /\ r.pc = "evictNext" /\ r.op = "evict" /\ r.sb = task[t].sb
            /\ r.locked = task[t].locked /\ r.entry = task[t].entry
        BY Fields, SMT DEF TaskSet
      <3>2. QED
        BY <1>1, <3>1, Fields
        DEF Evict, At, Placed, MutexLabels, KillLabels, LaunchLabels, UndoLabels
    <2>4. QED
      BY ZenonT(60), <1>1, <2>2, <2>3 DEF Evict, Moves, Shared
  <1>2. ASSUME NEW s \in Sandbox, Create(t, s)
        PROVE  Shared' /\ Moves(t)
    <2>1. Started("create", s, "build") \in TaskSet
      BY StartedType, Names DEF OpName
    <2>2. Placed(Started("create", s, "build"))
      BY ZenonT(60) DEF Started, IdleTask, Placed, MutexLabels, KillLabels, LaunchLabels, UndoLabels
    <2>3. QED
      BY <1>2, <2>1, <2>2 DEF Create, Moves, Shared
  <1>3. ASSUME NEW s \in Sandbox, Resume(t, s)
        PROVE  Shared' /\ Moves(t)
    <2>1. Moves(t)
      BY ZenonT(60), <1>3, DispatchMoves DEF Resume
    <2>2. QED
      BY <1>3, <2>1 DEF Resume, Shared
  <1>4. ASSUME NEW s \in Sandbox, Pause(t, s)
        PROVE  Shared' /\ Moves(t)
    <2>1. store' \in [Sandbox -> RecordSet] /\ Moves(t)
      BY <1>4, PauseCallType DEF Pause
    <2>2. QED
      BY <1>4, <2>1 DEF Pause, Shared
  <1>5. ASSUME NEW s \in Sandbox, Delete(t, s)
        PROVE  Shared' /\ Moves(t)
    <2>1. deletions' \in [Sandbox -> Option(Task)] /\ Moves(t)
      BY <1>5, DeleteCallType DEF Delete
    <2>2. QED
      BY <1>5, <2>1 DEF Delete, DeleteCall, Shared
  <1>6. ASSUME NEW s \in Sandbox, Snapshot(t, s)
        PROVE  Shared' /\ Moves(t)
    <2>1. Started("snapshot", s, "snapClaim") \in TaskSet
      BY StartedType, Names DEF OpName
    <2>2. Placed(Started("snapshot", s, "snapClaim"))
      BY ZenonT(60) DEF Started, IdleTask, Placed, MutexLabels, KillLabels, LaunchLabels, UndoLabels
    <2>3. QED
      BY <1>6, <2>1, <2>2 DEF Snapshot, Moves, Shared
  <1>7. ASSUME NEW s \in Sandbox, KeepAlive(t, s)
        PROVE  Shared' /\ Moves(t)
    <2> DEFINE begun == Started("keepAlive", s, "touch")
               wait(p) == [begun EXCEPT !.pc = "wait", !.prev = p, !.next = "keepReread"]
               fail == Ended("keepAlive", s, "err")
    <2>1. begun \in TaskSet /\ fail \in TaskSet /\ Placed(fail)
      BY StartedType, EndedType, SomeTypes, Names DEF OpName
    <2>2. \A p \in Phase : wait(p) \in TaskSet
      <3>1. "wait" \in Label /\ "keepReread" \in Label
        BY Names
      <3> HIDE DEF begun
      <3>2. QED
        BY <2>1, <3>1, Zenon DEF TaskSet
    <2>3. Placed(begun) /\ \A p \in Phase : Placed(wait(p))
      BY SMTT(60) DEF Started, IdleTask, Placed, MutexLabels, KillLabels, LaunchLabels, UndoLabels
    <2>4. Becomes(t, begun) \/ (\E p \in Phase : Becomes(t, wait(p))) \/ Becomes(t, fail)
      BY ZenonT(60), <1>7, Names DEF KeepAlive
    <2>5. QED
      BY ZenonT(60), <1>7, <2>1, <2>2, <2>3, <2>4 DEF KeepAlive, Moves, Shared
  <1>8. ASSUME NEW s \in Sandbox, NEW c \in Sandbox, Fork(t, s, c)
        PROVE  Shared' /\ Moves(t)
    <2> DEFINE begun == Started("fork", s, "forkHandle")
               r == [begun EXCEPT !.child = c]
    <2>1. begun \in TaskSet /\ c \in Option(Sandbox)
      BY StartedType, SomeTypes, Names DEF OpName
    <2>2. r \in TaskSet
      <3> HIDE DEF begun
      <3>1. QED
        BY <2>1, Zenon DEF TaskSet
    <2>3. Placed(r)
      BY DEF Started, IdleTask, Placed, MutexLabels, KillLabels, LaunchLabels, UndoLabels
    <2>4. QED
      BY ZenonT(60), <1>8, <2>2, <2>3 DEF Fork, Moves, Shared
  <1>9. QED
    BY ZenonT(60), <1>1, <1>2, <1>3, <1>4, <1>5, <1>6, <1>7, <1>8 DEF Request

-----------------------------------------------------------------------------
(* The shutdown cleanup, the environment and the theorem. *)

(* Every step of the shutdown cleanup keeps the types. *)
LEMMA SweepType ==
  ASSUME Shared, Tasks, SweepStep
  PROVE  Shared' /\ Tasks'
  <1> USE DEF runtimeVars, pinVars, deleteVars, sweepFrame
  <1>0. Sweeper \in Task /\ MaxPasses \in Nat /\ sweep \in SweepSet
    BY ConstantsAssumption DEF Shared
  <1>1. CASE SweepList
    <2>1. [s \in Sandbox |-> StateOf(s)] \in [Sandbox -> Phase]
      BY DEF Shared, RecordSet, StateOf
    <2>2. {s \in Sandbox : StateOf(s) \notin {"Absent", "Paused"}} \in SUBSET Sandbox
      OBVIOUS
    <2>3. SweepOutcome \in Outcome
      BY ZenonT(60) DEF SweepOutcome, Outcome
    <2>4. sweep' \in SweepSet
      BY ZenonT(60), <1>0, <1>1, <2>1, <2>2, <2>3 DEF SweepList, SweepSet
    <2>5. sweep'.pc # "call"
      BY <1>0, <1>1 DEF SweepList, SweepSet
    <2>6. QED
      BY ZenonT(60), <1>1, <2>4, <2>5 DEF SweepList, Shared, Tasks
  <1>2. CASE SweepReturn
    <2>1. Moves(Sweeper)
      BY <1>2, IdleType DEF SweepReturn, Moves
    <2> DEFINE f == IF task[Sweeper].res = "ok" THEN sweep.failed
                    ELSE sweep.failed \cup {sweep.at}
    <2>2. /\ "each" \in {"off", "list", "each", "call", "end"}
          /\ sweep.todo \ {sweep.at} \in SUBSET Sandbox /\ f \in SUBSET Sandbox
      BY <1>0, <1>2 DEF SweepSet, SweepReturn, Shared, Option
    <2>3. sweep' \in SweepSet
      <3> HIDE DEF f
      <3>1. [sweep EXCEPT !.pc = "each", !.at = None, !.todo = sweep.todo \ {sweep.at},
                          !.failed = f] \in SweepSet
        BY <1>0, <2>2, NoneTypes, Zenon DEF SweepSet
      <3>2. QED
        BY <1>2, <3>1 DEF SweepReturn, f
    <2>4. sweep'.pc = "each"
      BY <1>0, <1>2 DEF SweepReturn, SweepSet
    <2>5. QED
      BY ZenonT(60), <1>0, <1>2, <2>1, <2>3, <2>4, MovesTasks DEF SweepReturn, Shared
  <1>3. CASE SweepNextPass
    <2>1. SweepOutcome \in Outcome
      BY DEF SweepOutcome, Outcome
    <2>2. "end" \in {"off", "list", "each", "call", "end"}
          /\ "list" \in {"off", "list", "each", "call", "end"}
      OBVIOUS
    <2>3. sweep.pass < MaxPasses => sweep.pass + 1 \in 0..MaxPasses
      BY <1>0 DEF SweepSet
    <2>4. [sweep EXCEPT !.pc = "end", !.res = SweepOutcome] \in SweepSet
      BY <1>0, <2>1, <2>2, Zenon DEF SweepSet
    <2>5. sweep.pass < MaxPasses =>
            [sweep EXCEPT !.pc = "list", !.pass = sweep.pass + 1] \in SweepSet
      BY <1>0, <2>2, <2>3, Zenon DEF SweepSet
    <2>6. sweep' \in SweepSet
      BY <1>3, <2>4, <2>5 DEF SweepNextPass
    <2>7. QED
      BY <1>0, <1>3, <2>6 DEF SweepNextPass, Shared, Tasks, SweepSet
  <1>4. ASSUME NEW s \in Sandbox, SweepPause(s)
        PROVE  Shared' /\ Tasks'
    <2>1. store' \in [Sandbox -> RecordSet] /\ Moves(Sweeper)
      BY <1>0, <1>4, PauseCallType DEF SweepPause
    <2>2. sweep' \in SweepSet
      BY ZenonT(60), <1>0, <1>4, SomeTypes DEF SweepPause, SweepSet
    <2>3. sweep'.at = s
      BY <1>0, <1>4 DEF SweepPause, SweepSet
    <2>4. QED
      BY ZenonT(60), <1>0, <1>4, <2>1, <2>2, <2>3, MovesTasks DEF SweepPause, Shared
  <1>5. ASSUME NEW s \in Sandbox, SweepDelete(s)
        PROVE  Shared' /\ Tasks'
    <2>1. deletions' \in [Sandbox -> Option(Task)] /\ Moves(Sweeper)
      BY <1>0, <1>5, DeleteCallType DEF SweepDelete
    <2>2. sweep' \in SweepSet
      BY ZenonT(60), <1>0, <1>5, SomeTypes DEF SweepDelete, SweepSet
    <2>3. sweep'.at = s
      BY <1>0, <1>5 DEF SweepDelete, SweepSet
    <2>4. QED
      BY <1>0, <1>5, <2>1, <2>2, <2>3, MovesTasks DEF SweepDelete, DeleteCall, Shared
  <1>6. ASSUME NEW s \in Sandbox, SweepWait(s)
        PROVE  Shared' /\ Tasks'
    <2>1. sweep.todo \ {s} \in SUBSET Sandbox /\ sweep.failed \cup {s} \in SUBSET Sandbox
      BY <1>0 DEF SweepSet
    <2>2. /\ [sweep EXCEPT !.todo = sweep.todo \ {s}] \in SweepSet
          /\ [sweep EXCEPT !.todo = sweep.todo \ {s}, !.failed = sweep.failed \cup {s}] \in SweepSet
      BY <1>0, <2>1, Zenon DEF SweepSet
    <2>3. sweep' \in SweepSet
      BY <1>6, <2>2 DEF SweepWait
    <2>4. sweep'.pc = "each"
      BY ZenonT(60), <1>0, <1>6 DEF SweepWait, SweepSet
    <2>5. QED
      BY <1>6, <2>3, <2>4 DEF SweepWait, Shared, Tasks
  <1>7. QED
    BY ZenonT(60), <1>1, <1>2, <1>3, <1>4, <1>5, <1>6 DEF SweepStep

(* What load_all makes of a durable record is a record. *)
LEMMA LoadedType ==
  ASSUME NEW d \in DiskSet, NEW m \in Mode
  PROVE  Loaded(d, m) \in RecordSet
  <1> DEFINE g == IF d.mode = m THEN d.gen ELSE None
  <1>1. d.mode \in Option(Mode) /\ g \in Option(Gen) /\ "Paused" \in Phase
    BY Names, NoneTypes DEF DiskSet
  <1>2. [NoRecord EXCEPT !.state = "Paused", !.mode = d.mode, !.paused = g] \in RecordSet
    <2> HIDE DEF g
    <2>1. QED
      BY <1>1, NoneTypes, Zenon DEF RecordSet
  <1>3. QED
    BY <1>2, NoneTypes DEF Loaded

(* A cleanup that has not begun is typed. *)
LEMMA NoSweepType == NoSweep \in SweepSet
  <1>1. [s \in Sandbox |-> "Absent"] \in [Sandbox -> Phase]
    BY Names
  <1>2. 0 \in 0..MaxPasses
    BY ConstantsAssumption
  <1>3. /\ "off" \in {"off", "list", "each", "call", "end"}
        /\ {} \in SUBSET Sandbox /\ "none" \in Outcome
    BY Names
  <1>4. QED
    BY <1>1, <1>2, <1>3, NoneTypes, Zenon DEF NoSweep, SweepSet

(* Time, the shutdown request and a restart keep the types. *)
LEMMA EnvironmentType ==
  ASSUME Shared, Tasks, Environment
  PROVE  Shared' /\ Tasks'
  <1> USE DEF runtimeVars, pinVars, deleteVars, nodeVars
  <1>1. ASSUME NEW s \in Sandbox, Expire(s)
        PROVE  Shared' /\ Tasks'
    BY ZenonT(60), <1>1, DueWrite DEF Expire, Shared, Tasks
  <1>2. CASE Shutdown
    <2>1. 1 \in 0..MaxPasses /\ "list" \in {"off", "list", "each", "call", "end"}
      BY ConstantsAssumption
    <2>2. [sweep EXCEPT !.pc = "list", !.pass = 1] \in SweepSet
      BY <2>1, Zenon DEF SweepSet, Shared
    <2>3. sweep'.pc = "list"
      BY <1>2 DEF Shutdown, Shared, SweepSet
    <2>4. QED
      BY <1>2, <2>2, <2>3 DEF Shutdown, Shared, Tasks
  <1>3. ASSUME NEW m \in Mode, Restart(m)
        PROVE  Shared' /\ Tasks'
    <2>1. store' \in [Sandbox -> RecordSet]
      BY ZenonT(60), <1>3, LoadedType DEF Restart, Shared
    <2>2. disk' \in [Sandbox -> DiskSet]
      BY ZenonT(60), <1>3, NoneTypes DEF Restart, Shared
    <2>3. handles' \in [Sandbox -> Option(VM)] /\ routes' \in [Sandbox -> Option(VM)]
      BY ZenonT(60), <1>3, NoneTypes DEF Restart
    <2>4. vm' \in [VM -> VMState]
      BY ZenonT(60), <1>3 DEF Restart, VMState
    <2>5. /\ deletions' \in [Sandbox -> Option(Task)]
          /\ progress' \in [Sandbox -> [Task -> {"Capture", "Stop", "Release", "Done"}]]
      BY ZenonT(60), <1>3, NoneTypes DEF Restart
    <2>6. sweep' \in SweepSet
      BY ZenonT(60), <1>3, NoSweepType DEF Restart
    <2>7. Shared'
      BY ZenonT(60), <1>3, <2>1, <2>2, <2>3, <2>4, <2>5, <2>6 DEF Restart, Shared, NoSweep
    <2>8. ASSUME NEW t \in Task
          PROVE  task'[t] \in TaskSet /\ Placed(task'[t])
      <3>1. Ended(task[t].op, task[t].sb, "lost") \in TaskSet
            /\ Placed(Ended(task[t].op, task[t].sb, "lost"))
        BY ZenonT(60), Fields, EndedType, Names
      <3>2. QED
        BY ZenonT(60), <1>3, <3>1, IdleType, Fields DEF Restart
    <2>9. Tasks'
      BY ZenonT(60), <1>3, <2>8 DEF Tasks, Restart
    <2>10. QED
      BY <2>7, <2>9
  <1>4. QED
    BY ZenonT(60), <1>1, <1>2, <1>3 DEF Environment

(* A node that has just started is typed. *)
LEMMA InitType ==
  ASSUME Init
  PROVE  Shared /\ Tasks
  <1>1. disk \in [Sandbox -> DiskSet]
    <2>1. PICK known \in SUBSET Sandbox, m \in Mode :
            disk = [s \in Sandbox |-> IF s \in known
                                      THEN [life |-> "paused", gen |-> Boot, mode |-> m]
                                      ELSE NoDisk]
      BY ZenonT(60) DEF Init
    <2>2. [life |-> "paused", gen |-> Boot, mode |-> m] \in DiskSet
      BY SomeTypes DEF DiskSet, Gen
    <2>3. QED
      BY <2>1, <2>2, NoneTypes
  <1>2. store \in [Sandbox -> RecordSet]
    BY ZenonT(60), <1>1, LoadedType DEF Init
  <1>3. handles \in [Sandbox -> Option(VM)] /\ routes \in [Sandbox -> Option(VM)]
    BY ZenonT(60), NoneTypes DEF Init
  <1>4. vm \in [VM -> VMState]
    BY ZenonT(60) DEF Init, VMState
  <1>5. /\ deletions \in [Sandbox -> Option(Task)]
        /\ progress \in [Sandbox -> [Task -> {"Capture", "Stop", "Release", "Done"}]]
    BY ZenonT(60), NoneTypes DEF Init
  <1>6. sweep \in SweepSet
    BY ZenonT(60), NoSweepType DEF Init
  <1>7. Tasks
    BY IdleType DEF Init, Tasks
  <1>8. QED
    BY ZenonT(60), <1>1, <1>2, <1>3, <1>4, <1>5, <1>6, <1>7 DEF Init, Shared, NoSweep

(* Every step keeps the types. *)
LEMMA NextType ==
  ASSUME Shared, Tasks, [Next]_vars
  PROVE  Shared' /\ Tasks'
  <1>1. ASSUME NEW t \in Task, Request(t) \/ Step(t)
        PROVE  Shared' /\ Tasks'
    BY ZenonT(60), <1>1, RequestType, StepType, MovesTasks
  <1>2. CASE UNCHANGED vars
    BY <1>2 DEF Shared, Tasks, vars
  <1>3. QED
    BY ZenonT(60), <1>1, <1>2, SweepType, EnvironmentType DEF Next

(* In every behaviour of the node, whatever its sandboxes, operations and  *)
(* failing calls, every variable keeps its type.                           *)
THEOREM TypeCorrect == Spec => []TypeOK
  <1> DEFINE Inv == Shared /\ Tasks
  <1>1. Init => Inv
    BY InitType
  <1>2. Inv /\ [Next]_vars => Inv'
    BY ZenonT(60), NextType
  <1>3. Inv => TypeOK
    BY DEF Shared, Tasks, TypeOK
  <1>4. QED
    BY <1>1, <1>2, <1>3, PTL DEF Spec
=============================================================================
