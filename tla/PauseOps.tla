------------------------------- MODULE PauseOps -------------------------------
(***************************************************************************)
(* pause_sandbox (src/orchestrator/service.rs).  A pause claims the        *)
(* sandbox with Pausing, pins what the paused state will need, takes the   *)
(* VM out of the running set, captures it, makes the capture durable,      *)
(* publishes Paused and only then stops the VM.                            *)
(***************************************************************************)
EXTENDS OrchestratorState

(* Mutant: a sandbox whose snapshot is under way may be paused. *)
PauseCallBusy(t, o, s) ==
    /\ CompareAndSet(s, {"Running", "Snapshotting"}, "Pausing")
    /\ Becomes(t, IF StateOf(s) \in {"Running", "Snapshotting"}
                  THEN Started(o, s, "pausePin") ELSE Ended(o, s, "err"))

PauseCall(t, o, s) ==
    /\ CompareAndSet(s, {"Running"}, "Pausing")
    /\ LET begun == Started(o, s, "pausePin")
       IN  Becomes(t,
               CASE StateOf(s) = "Running" -> begun
                 [] StateOf(s) = "Pausing" -> [begun EXCEPT !.pc = "wait", !.prev = "Pausing",
                                                            !.next = "pauseJoined"]
                 [] StateOf(s) = "Paused"  -> Ended(o, s, "ok")
                 [] OTHER                  -> Ended(o, s, "err"))

(* pause_sandbox does not ask whether the node is shutting down. *)
Pause(t, s) ==
    /\ Begins(t, "pause", s)
    /\ PauseCall(t, "pause", s)
    /\ UNCHANGED <<runtimeVars, pinVars, disk, deleteVars, nodeVars>>

(* join_concurrent_pause *)
PauseJoined(t) ==
    /\ At(t, "pauseJoined")
    /\ Finish(t, IF StateOf(Sb(t)) = "Paused" THEN "ok" ELSE "err")
    /\ UNCHANGED <<store, runtimeVars, pinVars, disk, deleteVars, nodeVars>>

(* Mutant: the hold is taken in the namespace of starting sandboxes. *)
PinPausedAsStarting(t) ==
    /\ At(t, "pausePin")
    /\ startPins' = startPins \cup {Sb(t)}
    /\ Goto(t, "alloc")
    /\ UNCHANGED <<store, runtimeVars, pausePins, disk, deleteVars, nodeVars>>

(* The artifacts of the attached VM are held; without one there is nothing *)
(* to hold and no hold is taken.                                           *)
PinPaused(t) ==
    LET s == Sb(t) IN
    /\ At(t, "pausePin")
    /\ \/ /\ pausePins' = IF handles[s] = None THEN pausePins
                          ELSE pausePins \cup {s}
          /\ store' = store
          /\ Goto(t, "alloc")
       \/ /\ May("pin")
          /\ pausePins' = pausePins
          /\ CompareAndSet(s, {"Pausing"}, "Running")
          /\ Finish(t, "err")
    /\ UNCHANGED <<runtimeVars, startPins, disk, deleteVars, nodeVars>>

(* allocate_artifact_root; its failure releases the pin before the claim. *)
AllocateArtifacts(t) ==
    LET s == Sb(t) IN
    /\ At(t, "alloc")
    /\ \/ Goto(t, "pauseDetach") /\ UNCHANGED <<store, pausePins>>
       \/ /\ May("alloc")
          /\ pausePins' = pausePins \ {s}
          /\ CompareAndSet(s, {"Pausing"}, "Running")
          /\ Finish(t, "err")
    /\ UNCHANGED <<runtimeVars, startPins, disk, deleteVars, nodeVars>>

(* Mutant: a sandbox without a route counts as one without a VM. *)
PauseDetachUnrouted(t) ==
    LET s == Sb(t) IN
    /\ At(t, "pauseDetach")
    /\ Detach(s)
    /\ IF routes[s] = None
       THEN /\ pausePins' = pausePins \ {s}
            /\ RemoveRecord(s)
            /\ Finish(t, "err")
       ELSE /\ Becomes(t, [task[t] EXCEPT !.pc = "freeze", !.hd = handles[s],
                                        !.rt = routes[s]])
            /\ UNCHANGED <<store, pausePins>>
    /\ UNCHANGED <<vm, startPins, disk, deleteVars, nodeVars>>

(* Without a handle there is nothing to pause: the sandbox is dropped. *)
PauseDetach(t) ==
    LET s == Sb(t) IN
    /\ At(t, "pauseDetach")
    /\ Detach(s)
    /\ IF handles[s] = None
       THEN /\ pausePins' = pausePins \ {s}
            /\ RemoveRecord(s)
            /\ Finish(t, "err")
       ELSE /\ Becomes(t, [task[t] EXCEPT !.pc = "freeze", !.hd = handles[s],
                                        !.rt = routes[s]])
            /\ UNCHANGED <<store, pausePins>>
    /\ UNCHANGED <<vm, startPins, disk, deleteVars, nodeVars>>

(* Mutant: the capture leaves the VM executing. *)
FreezeRunning(t) ==
    /\ At(t, "freeze")
    /\ Goto(t, IF vm[task[t].hd] = "up" THEN "persist" ELSE "condemn")
    /\ UNCHANGED <<store, runtimeVars, pinVars, disk, deleteVars, nodeVars>>

(* Mutant: the captured state is not written down. *)
FreezeUnpersisted(t) ==
    /\ At(t, "freeze")
    /\ vm' = [vm EXCEPT ![task[t].hd] = "frozen"]
    /\ Goto(t, "publishPaused")
    /\ UNCHANGED <<store, handles, routes, pinVars, disk, deleteVars, nodeVars>>

(* backend.pause(): a recoverable error promises a running VM again; a     *)
(* terminal one, the only one a stopped VM can give, condemns it.          *)
Freeze(t) ==
    LET v == task[t].hd IN
    /\ At(t, "freeze")
    /\ \/ vm[v] = "up" /\ vm' = [vm EXCEPT ![v] = "frozen"] /\ Goto(t, "persist")
       \/ vm[v] = "up" /\ May("pause") /\ vm' = vm /\ Goto(t, "reattach")
       \/ (vm[v] # "up" \/ May("pause")) /\ vm' = vm /\ Goto(t, "condemn")
    /\ UNCHANGED <<store, handles, routes, pinVars, disk, deleteVars, nodeVars>>

(* Mutant: the record's lifecycle is written as the sandbox state. *)
PersistPausedState(t) ==
    /\ At(t, "persist")
    /\ disk' = [disk EXCEPT ![Sb(t)] = [life |-> StateOf(Sb(t)), gen |-> t,
                                        mode |-> store[Sb(t)].mode]]
    /\ Goto(t, "publishPaused")
    /\ UNCHANGED <<store, runtimeVars, pinVars, deleteVars, nodeVars>>

(* The durable record is written from the metadata as it is now; the pause *)
(* gives up if the record has gone.                                        *)
PersistPaused(t) ==
    LET s == Sb(t) IN
    /\ At(t, "persist")
    /\ IF StateOf(s) = "Absent"
       THEN disk' = disk /\ Finish(t, "err")
       ELSE \/ /\ disk' = [disk EXCEPT ![s] = [life |-> "paused", gen |-> t,
                                               mode |-> store[s].mode]]
               /\ Goto(t, "publishPaused")
            \/ May("persist") /\ disk' = disk /\ Goto(t, "thaw")
    /\ UNCHANGED <<store, runtimeVars, pinVars, deleteVars, nodeVars>>

(* backend.resume() after a failed persist *)
Thaw(t) ==
    LET v == task[t].hd IN
    /\ At(t, "thaw")
    /\ \/ vm[v] = "frozen" /\ vm' = [vm EXCEPT ![v] = "up"] /\ Goto(t, "reattach")
       \/ (vm[v] # "frozen" \/ May("thaw")) /\ vm' = vm /\ Goto(t, "condemn")
    /\ UNCHANGED <<store, handles, routes, pinVars, disk, deleteVars, nodeVars>>

(* Handle and route go back, then the state; the pin goes last. *)
PauseReattach(t) ==
    LET s == Sb(t) IN
    /\ At(t, "reattach")
    /\ Reattach(s, task[t].hd, task[t].rt)
    /\ CompareAndSet(s, {"Pausing"}, "Running")
    /\ Goto(t, "pauseUnpin")
    /\ UNCHANGED <<vm, pinVars, disk, deleteVars, nodeVars>>

(* The VM cannot be kept: stop it and drop the sandbox. *)
PauseCondemn(t) ==
    /\ At(t, "condemn")
    /\ Stop(task[t].hd)
    /\ RemoveRecord(Sb(t))
    /\ Goto(t, "pauseUnpin")
    /\ UNCHANGED <<handles, routes, pinVars, disk, deleteVars, nodeVars>>

PauseUnpin(t) ==
    /\ At(t, "pauseUnpin")
    /\ pausePins' = pausePins \ {Sb(t)}
    /\ Finish(t, "err")
    /\ UNCHANGED <<store, runtimeVars, startPins, disk, deleteVars, nodeVars>>

(* store.update replaces the whole record. *)
PublishPaused(t) ==
    LET s == Sb(t) IN
    /\ At(t, "publishPaused")
    /\ IF StateOf(s) = "Absent"
       THEN store' = store /\ Finish(t, "err")
       ELSE /\ store' = [store EXCEPT ![s].state = "Paused", ![s].paused = t]
            /\ Goto(t, "pauseStop")
    /\ UNCHANGED <<runtimeVars, pinVars, disk, deleteVars, nodeVars>>

PauseStop(t) ==
    /\ At(t, "pauseStop")
    /\ Stop(task[t].hd)
    /\ Finish(t, "ok")
    /\ UNCHANGED <<store, handles, routes, pinVars, disk, deleteVars, nodeVars>>

PauseStep(t) ==
    \/ PauseJoined(t) \/ PinPaused(t) \/ AllocateArtifacts(t) \/ PauseDetach(t)
    \/ Freeze(t) \/ PersistPaused(t) \/ Thaw(t) \/ PauseReattach(t) \/ PauseCondemn(t)
    \/ PauseUnpin(t) \/ PublishPaused(t) \/ PauseStop(t)
=============================================================================
