------------------------------- MODULE CaptureOps -------------------------------
(***************************************************************************)
(* The operations that capture a sandbox and leave it running: snapshot    *)
(* (capture_snapshot and snapshot_volume_mounts differ only in the backend *)
(* call) and fork; and keep_alive_for (src/orchestrator/service.rs).       *)
(***************************************************************************)
EXTENDS OrchestratorState

(* A capture error that left the VM unusable: detach, stop, drop the       *)
(* record.  The handle stopped is the one the operation holds.             *)
DropCaptured(t, s) ==
    /\ Detach(s)
    /\ Stop(task[t].hd)
    /\ RemoveRecord(s)
    /\ Finish(t, "err")

-----------------------------------------------------------------------------
(* Snapshot. *)

Snapshot(t, s) ==
    /\ Begins(t, "snapshot", s)
    /\ ~shutting
    /\ Becomes(t, Started("snapshot", s, "snapClaim"))
    /\ UNCHANGED <<store, runtimeVars, pinVars, disk, deleteVars, nodeVars>>

SnapshotClaim(t) ==
    LET s == Sb(t) IN
    /\ At(t, "snapClaim")
    /\ CompareAndSet(s, {"Running"}, "Snapshotting")
    /\ IF StateOf(s) = "Running" THEN Goto(t, "snapHandle") ELSE Finish(t, "err")
    /\ UNCHANGED <<runtimeVars, pinVars, disk, deleteVars, nodeVars>>

(* The handle is looked up under the claim; without one the sandbox goes. *)
SnapshotHandle(t) ==
    LET s == Sb(t) IN
    /\ At(t, "snapHandle")
    /\ IF handles[s] = None
       THEN Detach(s) /\ RemoveRecord(s) /\ Finish(t, "err")
       ELSE /\ Becomes(t, [task[t] EXCEPT !.pc = "snap", !.hd = handles[s]])
            /\ UNCHANGED <<store, handles, routes>>
    /\ UNCHANGED <<vm, pinVars, disk, deleteVars, nodeVars>>

(* Mutant: a finished snapshot does not give Running back. *)
SnapshotVMKeepsClaim(t) ==
    /\ At(t, "snap")
    /\ Finish(t, "ok")
    /\ UNCHANGED <<store, runtimeVars, pinVars, disk, deleteVars, nodeVars>>

(* Capturing a VM that is not running can only fail terminally. *)
SnapshotVM(t) ==
    LET s == Sb(t)
        v == task[t].hd
    IN
    /\ At(t, "snap")
    /\ \/ /\ vm[v] = "up"
          /\ CompareAndSet(s, {"Snapshotting"}, "Running")
          /\ \/ Finish(t, IF StateOf(s) = "Snapshotting" THEN "ok" ELSE "err")
             \/ May("snapshot") /\ Finish(t, "err")
          /\ UNCHANGED runtimeVars
       \/ /\ vm[v] # "up" \/ May("snapshot")
          /\ DropCaptured(t, s)
    /\ UNCHANGED <<pinVars, disk, deleteVars, nodeVars>>

-----------------------------------------------------------------------------
(* Fork, of one child. *)

Fork(t, s, c) ==
    /\ Begins(t, "fork", s)
    /\ ~shutting
    /\ c \notin used
    /\ used' = used \cup {c}
    /\ Becomes(t, [Started("fork", s, "forkHandle") EXCEPT !.child = c])
    /\ UNCHANGED <<store, runtimeVars, pinVars, disk, deleteVars, shutting, nodeMode, sweep>>

(* The source handle is looked up before the claim. *)
ForkHandle(t) ==
    LET s == Sb(t) IN
    /\ At(t, "forkHandle")
    /\ IF handles[s] = None THEN Finish(t, "err")
       ELSE Becomes(t, [task[t] EXCEPT !.pc = "forkClaim", !.hd = handles[s]])
    /\ UNCHANGED <<store, runtimeVars, pinVars, disk, deleteVars, nodeVars>>

(* Mutant: any state is taken for Running. *)
ForkClaimBlind(t) ==
    /\ At(t, "forkClaim")
    /\ CompareAndSet(Sb(t), State, "Forking")
    /\ IF StateOf(Sb(t)) = "Absent" THEN Finish(t, "err") ELSE Goto(t, "fork")
    /\ UNCHANGED <<runtimeVars, pinVars, disk, deleteVars, nodeVars>>

ForkClaim(t) ==
    LET s == Sb(t) IN
    /\ At(t, "forkClaim")
    /\ CompareAndSet(s, {"Running"}, "Forking")
    /\ IF StateOf(s) = "Running" THEN Goto(t, "fork") ELSE Finish(t, "err")
    /\ UNCHANGED <<runtimeVars, pinVars, disk, deleteVars, nodeVars>>

(* The backend captures the source and starts the child, or fails to start *)
(* it, or fails as a whole.                                                *)
ForkVM(t) ==
    LET s == Sb(t)
        c == task[t].child
        v == task[t].hd
    IN
    /\ At(t, "fork")
    /\ \/ /\ vm[v] = "up"
          /\ vm' = [vm EXCEPT ![c] = "up"]
          /\ Becomes(t, [task[t] EXCEPT !.pc = "forkRestore", !.hd = c])
          /\ UNCHANGED <<store, handles, routes>>
       \/ /\ vm[v] = "up" /\ May("forkChild")
          /\ Becomes(t, [task[t] EXCEPT !.pc = "forkRestore", !.hd = None])
          /\ UNCHANGED <<store, runtimeVars>>
       \/ /\ vm[v] = "up" /\ May("snapshot")
          /\ CompareAndSet(s, {"Forking"}, "Running")
          /\ Finish(t, "err")
          /\ UNCHANGED runtimeVars
       \/ /\ vm[v] # "up" \/ May("snapshot")
          /\ DropCaptured(t, s)
    /\ UNCHANGED <<pinVars, disk, deleteVars, nodeVars>>

(* The source is given back before the child is registered. *)
ForkRestore(t) ==
    /\ At(t, "forkRestore")
    /\ CompareAndSet(Sb(t), {"Forking"}, "Running")
    /\ IF task[t].hd = None THEN Finish(t, "ok") ELSE Goto(t, "forkAdd")
    /\ UNCHANGED <<runtimeVars, pinVars, disk, deleteVars, nodeVars>>

(* The child's record is Running from the start, in the source's mode,     *)
(* which is the node's; a child without a proxy target, or whose id is     *)
(* taken, is stopped instead.                                              *)
ForkAdd(t) ==
    LET c == task[t].child IN
    /\ At(t, "forkAdd")
    /\ \/ /\ StateOf(c) = "Absent"
          /\ store' = [store EXCEPT ![c] = [NoRecord EXCEPT !.state = "Running",
                                                           !.mode = nodeMode]]
          /\ Goto(t, "forkInsert")
          /\ UNCHANGED vm
       \/ /\ StateOf(c) # "Absent" \/ May("childTarget")
          /\ Stop(task[t].hd)
          /\ Finish(t, "ok")
          /\ UNCHANGED store
    /\ UNCHANGED <<handles, routes, pinVars, disk, deleteVars, nodeVars>>

ForkInsert(t) ==
    LET c == task[t].child IN
    /\ At(t, "forkInsert")
    /\ handles' = [handles EXCEPT ![c] = c]
    /\ Goto(t, "forkRoute")
    /\ UNCHANGED <<store, routes, vm, pinVars, disk, deleteVars, nodeVars>>

(* Mutant: the child's handle is compared with the wrong one. *)
ForkRouteIfSource(t) ==
    LET c == task[t].child IN
    /\ At(t, "forkRoute")
    /\ routes' = IF handles[c] = handles[Sb(t)] THEN [routes EXCEPT ![c] = c] ELSE routes
    /\ Finish(t, "ok")
    /\ UNCHANGED <<store, handles, vm, pinVars, disk, deleteVars, nodeVars>>

(* upsert_proxy_route, with no look at the current handle *)
ForkRoute(t) ==
    LET c == task[t].child IN
    /\ At(t, "forkRoute")
    /\ routes' = [routes EXCEPT ![c] = c]
    /\ Finish(t, "ok")
    /\ UNCHANGED <<store, handles, vm, pinVars, disk, deleteVars, nodeVars>>

-----------------------------------------------------------------------------
(* keep_alive_for waits for states that may become Running, then moves the *)
(* deadline of a sandbox that still is Running.                            *)

KeepAlive(t, s) ==
    /\ Begins(t, "keepAlive", s)
    /\ ~shutting
    /\ LET begun == Started("keepAlive", s, "touch") IN
       Becomes(t,
           CASE StateOf(s) = "Running" -> begun
             [] StateOf(s) \in {"Creating", "Resuming", "Snapshotting", "Forking"} ->
                  [begun EXCEPT !.pc = "wait", !.prev = StateOf(s), !.next = "keepReread"]
             [] OTHER -> Ended("keepAlive", s, "err"))
    /\ UNCHANGED <<store, runtimeVars, pinVars, disk, deleteVars, nodeVars>>

KeepReread(t) ==
    /\ At(t, "keepReread")
    /\ IF StateOf(Sb(t)) = "Running" THEN Goto(t, "touch") ELSE Finish(t, "err")
    /\ UNCHANGED <<store, runtimeVars, pinVars, disk, deleteVars, nodeVars>>

CaptureStep(t) ==
    \/ SnapshotClaim(t) \/ SnapshotHandle(t) \/ SnapshotVM(t)
    \/ ForkHandle(t) \/ ForkClaim(t) \/ ForkVM(t) \/ ForkRestore(t)
    \/ ForkAdd(t) \/ ForkInsert(t) \/ ForkRoute(t)
    \/ KeepReread(t)
=============================================================================
