------------------------------- MODULE LaunchOps -------------------------------
(***************************************************************************)
(* create_sandbox, resume_sandbox and the launch_sandbox they share, with  *)
(* its rollbacks (src/orchestrator/service.rs).  A resume claims the       *)
(* sandbox by moving it from Paused to Resuming; a create publishes its    *)
(* record only after the VM has been started.                              *)
(***************************************************************************)
EXTENDS OrchestratorState

(* LaunchPlan::transitional_state *)
LaunchState(t) == IF task[t].op = "create" THEN "Creating" ELSE "Resuming"

(* rollback_failed_launch_metadata with the state it expects to find. *)
Rollback(t) ==
    Becomes(t, [task[t] EXCEPT !.pc = "rollback", !.prev = LaunchState(t)])

(* cleanup_failed_launch at a stage; "Absent" stands for the stage         *)
(* Registered, which has nothing to roll back.                             *)
Cleanup(t, stage) ==
    Becomes(t, [task[t] EXCEPT !.pc = "launchDetach", !.prev = stage])

-----------------------------------------------------------------------------
(* create_sandbox: a fresh id, and the two checks that the node accepts    *)
(* operations.                                                             *)
Create(t, s) ==
    /\ t # Sweeper /\ "create" \in Ops /\ At(t, "idle")
    /\ s \notin used
    /\ ~shutting
    /\ used' = used \cup {s}
    /\ Becomes(t, Started("create", s, "build"))
    /\ UNCHANGED <<store, runtimeVars, pinVars, disk, deleteVars, shutting, nodeMode, sweep>>

(* Mutant: the virtualization mode is not compared. *)
ResumeDispatchAnyMode(t, s, joined) ==
    LET base == [Started("resume", s, "resumeClaim") EXCEPT !.gen = store[s].paused]
    IN  Becomes(t,
            CASE store[s].state = "Running" -> [base EXCEPT !.pc = "touch"]
              [] store[s].state = "Paused"  -> base
              [] OTHER                      -> Ended("resume", s, "err"))

(* resume_sandbox looks at the record and either joins, touches, rejects   *)
(* or goes on to claim it.  What it launches from is the paused state of   *)
(* this read.                                                              *)
ResumeDispatch(t, s, joined) ==
    LET record == store[s]
        base   == [Started("resume", s, "resumeClaim") EXCEPT !.gen = record.paused]
    IN  Becomes(t,
            CASE record.state = "Resuming" /\ ~joined ->
                   [base EXCEPT !.pc = "wait", !.prev = "Resuming", !.next = "resumeReread"]
              [] record.state = "Running" -> [base EXCEPT !.pc = "touch"]
              [] record.state = "Paused" /\ record.mode = nodeMode -> base
              [] OTHER -> Ended("resume", s, "err"))

Resume(t, s) ==
    /\ Begins(t, "resume", s)
    /\ ~shutting
    /\ ResumeDispatch(t, s, FALSE)
    /\ UNCHANGED <<store, runtimeVars, pinVars, disk, deleteVars, nodeVars>>

(* After waiting for another resume the record is read once more. *)
ResumeReread(t) ==
    /\ At(t, "resumeReread")
    /\ ResumeDispatch(t, Sb(t), TRUE)
    /\ UNCHANGED <<store, runtimeVars, pinVars, disk, deleteVars, nodeVars>>

(* maybe_update_running_timeout; keep_alive_for ends the same way. *)
Touch(t) ==
    /\ At(t, "touch")
    /\ IF StateOf(Sb(t)) = "Running"
       THEN store' = [store EXCEPT ![Sb(t)].due = FALSE] /\ Finish(t, "ok")
       ELSE store' = store /\ Finish(t, "err")
    /\ UNCHANGED <<runtimeVars, pinVars, disk, deleteVars, nodeVars>>

(* Mutant: the state is written without comparing it first. *)
ResumeClaimBlind(t) ==
    /\ At(t, "resumeClaim")
    /\ StateOf(Sb(t)) # "Absent"
    /\ store' = [store EXCEPT ![Sb(t)].state = "Resuming"]
    /\ Goto(t, "mark")
    /\ UNCHANGED <<runtimeVars, pinVars, disk, deleteVars, nodeVars>>

ResumeClaim(t) ==
    LET s == Sb(t) IN
    /\ At(t, "resumeClaim")
    /\ CompareAndSet(s, {"Paused"}, "Resuming")
    /\ CASE StateOf(s) = "Paused"   -> Goto(t, "mark")
         [] StateOf(s) = "Running"  -> Goto(t, "touch")
         [] StateOf(s) = "Resuming" -> WaitWhile(t, "Resuming", "resumeJoined")
         [] OTHER                   -> Finish(t, "err")
    /\ UNCHANGED <<runtimeVars, pinVars, disk, deleteVars, nodeVars>>

(* join_concurrent_resume *)
ResumeJoined(t) ==
    /\ At(t, "resumeJoined")
    /\ IF StateOf(Sb(t)) = "Running" THEN Goto(t, "touch") ELSE Finish(t, "err")
    /\ UNCHANGED <<store, runtimeVars, pinVars, disk, deleteVars, nodeVars>>

(* Mutant: a failed mark keeps the claim. *)
MarkReadKeepsClaim(t) ==
    /\ At(t, "mark")
    /\ \/ /\ disk[Sb(t)].life # "none"
          /\ Becomes(t, [task[t] EXCEPT !.pc = "markPut", !.rec = disk[Sb(t)]])
       \/ (disk[Sb(t)].life = "none" \/ May("mark")) /\ Finish(t, "err")
    /\ UNCHANGED <<store, runtimeVars, pinVars, disk, deleteVars, nodeVars>>

(* mark_resuming reads the record and writes it back with another          *)
(* lifecycle; a missing record or an I/O error gives the claim back.       *)
MarkRead(t) ==
    LET s == Sb(t) IN
    /\ At(t, "mark")
    /\ \/ /\ disk[s].life # "none"
          /\ Becomes(t, [task[t] EXCEPT !.pc = "markPut", !.rec = disk[s]])
          /\ UNCHANGED store
       \/ /\ disk[s].life = "none" \/ May("mark")
          /\ CompareAndSet(s, {"Resuming"}, "Paused")
          /\ Finish(t, "err")
    /\ UNCHANGED <<runtimeVars, pinVars, disk, deleteVars, nodeVars>>

(* A record without a paused state makes the resume give up here, keeping  *)
(* its claim.                                                              *)
MarkWrite(t) ==
    LET s == Sb(t) IN
    /\ At(t, "markPut")
    /\ disk' = [disk EXCEPT ![s] = [task[t].rec EXCEPT !.life = "resuming"]]
    /\ IF task[t].gen = None THEN Finish(t, "err") ELSE Goto(t, "build")
    /\ UNCHANGED <<store, runtimeVars, pinVars, deleteVars, nodeVars>>

-----------------------------------------------------------------------------
(* launch_sandbox *)

(* The node may have begun to shut down since the operation was accepted;  *)
(* then the launch returns at once and leaves everything as it is.         *)
Build(t) ==
    /\ At(t, "build")
    /\ IF shutting THEN Finish(t, "err")
       ELSE \/ Goto(t, "pin")
            \/ May("build") /\ Rollback(t)
    /\ UNCHANGED <<store, runtimeVars, pinVars, disk, deleteVars, nodeVars>>

PinStarting(t) ==
    /\ At(t, "pin")
    /\ \/ startPins' = startPins \cup {Sb(t)} /\ Goto(t, "start")
       \/ May("pin") /\ startPins' = startPins /\ Rollback(t)
    /\ UNCHANGED <<store, runtimeVars, pausePins, disk, deleteVars, nodeVars>>

(* start_nowait, and the shutdown check right after it.  A VM that failed  *)
(* to start, or is not wanted any more, is stopped before the rollback.    *)
StartVM(t) ==
    /\ At(t, "start")
    /\ \/ /\ ~shutting
          /\ vm' = [vm EXCEPT ![t] = "up"]
          /\ Becomes(t, [task[t] EXCEPT !.pc = "insert", !.hd = t])
       \/ /\ May("start") \/ shutting
          /\ vm' = [vm EXCEPT ![t] = "down"]
          /\ Rollback(t)
    /\ UNCHANGED <<store, handles, routes, pinVars, disk, deleteVars, nodeVars>>

InsertHandle(t) ==
    /\ At(t, "insert")
    /\ handles' = [handles EXCEPT ![Sb(t)] = t]
    /\ Goto(t, "unpinStart")
    /\ UNCHANGED <<store, routes, vm, pinVars, disk, deleteVars, nodeVars>>

UnpinStarting(t) ==
    /\ At(t, "unpinStart")
    /\ startPins' = startPins \ {Sb(t)}
    /\ Goto(t, IF task[t].op = "create" THEN "add" ELSE "ready")
    /\ UNCHANGED <<store, runtimeVars, pausePins, disk, deleteVars, nodeVars>>

AddRecord(t) ==
    LET s == Sb(t) IN
    /\ At(t, "add")
    /\ IF StateOf(s) = "Absent"
       THEN /\ store' = [store EXCEPT ![s] = [NoRecord EXCEPT !.state = "Creating",
                                                             !.mode = nodeMode]]
            /\ Goto(t, "ready")
       ELSE store' = store /\ Cleanup(t, "Absent")
    /\ UNCHANGED <<runtimeVars, pinVars, disk, deleteVars, nodeVars>>

(* wait_for_ready, between two shutdown checks with the same consequence. *)
WaitForReady(t) ==
    /\ At(t, "ready")
    /\ \/ ~shutting /\ Goto(t, "publish")
       \/ (May("ready") \/ shutting) /\ Cleanup(t, LaunchState(t))
    /\ UNCHANGED <<store, runtimeVars, pinVars, disk, deleteVars, nodeVars>>

(* The record becomes Running with a deadline counted from now, whichever  *)
(* NewTimeout was asked for.                                               *)
PublishRunning(t) ==
    LET s == Sb(t) IN
    /\ At(t, "publish")
    /\ IF StateOf(s) = LaunchState(t)
       THEN /\ store' = [store EXCEPT ![s].state = "Running", ![s].due = FALSE]
            /\ Goto(t, "target")
       ELSE store' = store /\ Cleanup(t, LaunchState(t))
    /\ UNCHANGED <<runtimeVars, pinVars, disk, deleteVars, nodeVars>>

ProxyTarget(t) ==
    /\ At(t, "target")
    /\ Goto(t, "route") \/ (May("target") /\ Cleanup(t, "Running"))
    /\ UNCHANGED <<store, runtimeVars, pinVars, disk, deleteVars, nodeVars>>

(* Mutant: the handle is not looked at. *)
PublishRouteAlways(t) ==
    /\ At(t, "route")
    /\ routes' = [routes EXCEPT ![Sb(t)] = t]
    /\ IF task[t].op = "create" THEN Finish(t, "ok") ELSE Goto(t, "forget")
    /\ UNCHANGED <<store, handles, vm, pinVars, disk, deleteVars, nodeVars>>

(* upsert_proxy_route_if_current_handle *)
PublishRoute(t) ==
    LET s == Sb(t) IN
    /\ At(t, "route")
    /\ routes' = IF handles[s] = t THEN [routes EXCEPT ![s] = t] ELSE routes
    /\ IF task[t].op = "create" THEN Finish(t, "ok") ELSE Goto(t, "forget")
    /\ UNCHANGED <<store, handles, vm, pinVars, disk, deleteVars, nodeVars>>

(* A resumed sandbox's durable record is deleted, best effort. *)
ForgetRecord(t) ==
    /\ At(t, "forget")
    /\ \/ disk' = [disk EXCEPT ![Sb(t)] = NoDisk]
       \/ May("forget") /\ disk' = disk
    /\ Goto(t, "unpinPaused")
    /\ UNCHANGED <<store, runtimeVars, pinVars, deleteVars, nodeVars>>

UnpinResumed(t) ==
    /\ At(t, "unpinPaused")
    /\ pausePins' = pausePins \ {Sb(t)}
    /\ Finish(t, "ok")
    /\ UNCHANGED <<store, runtimeVars, startPins, disk, deleteVars, nodeVars>>

-----------------------------------------------------------------------------
(* Rolling a failed launch back. *)

(* detach_launch_runtime_if_current: another operation may have detached   *)
(* or replaced the handle; a replaced one means the shared state is not    *)
(* this launch's to roll back.                                             *)
LaunchDetach(t) ==
    LET s == Sb(t) IN
    /\ At(t, "launchDetach")
    /\ handles' = IF handles[s] = t THEN [handles EXCEPT ![s] = None] ELSE handles
    /\ routes'  = IF handles[s] = t /\ task[t].prev = "Running"
                  THEN [routes EXCEPT ![s] = None] ELSE routes
    /\ Becomes(t, [task[t] EXCEPT !.pc = "launchStop",
                                  !.prev = IF handles[s] \in {t, None} THEN @ ELSE "Absent"])
    /\ UNCHANGED <<store, vm, pinVars, disk, deleteVars, nodeVars>>

LaunchStop(t) ==
    /\ At(t, "launchStop")
    /\ Stop(t)
    /\ IF task[t].prev = "Absent" THEN Finish(t, "err") ELSE Goto(t, "rollback")
    /\ UNCHANGED <<store, handles, routes, pinVars, disk, deleteVars, nodeVars>>

(* Mutant: a resume gives Paused back whatever the state. *)
RollbackMetadataBlind(t) ==
    LET s == Sb(t) IN
    /\ At(t, "rollback")
    /\ startPins' = startPins \ {s}
    /\ IF task[t].op = "create"
       THEN RemoveRecord(s) /\ Finish(t, "err")
       ELSE CompareAndSet(s, State, "Paused") /\ Goto(t, "unmark")
    /\ UNCHANGED <<runtimeVars, pausePins, disk, deleteVars, nodeVars>>

(* A create removes its record whatever its state; a resume gives Paused   *)
(* back only if the state is the expected one, and then unmarks the        *)
(* durable record in any case.                                             *)
RollbackMetadata(t) ==
    LET s == Sb(t) IN
    /\ At(t, "rollback")
    /\ startPins' = startPins \ {s}
    /\ IF task[t].op = "create"
       THEN RemoveRecord(s) /\ Finish(t, "err")
       ELSE CompareAndSet(s, {task[t].prev}, "Paused") /\ Goto(t, "unmark")
    /\ UNCHANGED <<runtimeVars, pausePins, disk, deleteVars, nodeVars>>

(* rollback_resuming, again a read and a write. *)
UnmarkRead(t) ==
    LET s == Sb(t) IN
    /\ At(t, "unmark")
    /\ \/ /\ disk[s].life # "none"
          /\ Becomes(t, [task[t] EXCEPT !.pc = "unmarkPut", !.rec = disk[s]])
       \/ (disk[s].life = "none" \/ May("mark")) /\ Finish(t, "err")
    /\ UNCHANGED <<store, runtimeVars, pinVars, disk, deleteVars, nodeVars>>

UnmarkWrite(t) ==
    /\ At(t, "unmarkPut")
    /\ disk' = [disk EXCEPT ![Sb(t)] = [task[t].rec EXCEPT !.life = "paused"]]
    /\ Finish(t, "err")
    /\ UNCHANGED <<store, runtimeVars, pinVars, deleteVars, nodeVars>>

LaunchStep(t) ==
    \/ ResumeReread(t) \/ Touch(t) \/ ResumeClaim(t) \/ ResumeJoined(t)
    \/ MarkRead(t) \/ MarkWrite(t)
    \/ Build(t) \/ PinStarting(t) \/ StartVM(t) \/ InsertHandle(t) \/ UnpinStarting(t)
    \/ AddRecord(t) \/ WaitForReady(t) \/ PublishRunning(t) \/ ProxyTarget(t)
    \/ PublishRoute(t) \/ ForgetRecord(t) \/ UnpinResumed(t)
    \/ LaunchDetach(t) \/ LaunchStop(t) \/ RollbackMetadata(t)
    \/ UnmarkRead(t) \/ UnmarkWrite(t)
=============================================================================
