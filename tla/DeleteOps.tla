------------------------------- MODULE DeleteOps -------------------------------
(***************************************************************************)
(* delete_sandbox and the auto-evict task (src/orchestrator/service.rs).   *)
(* Deletes of one sandbox are serialised by the mutex of its entry in the  *)
(* deletions map, whose DeleteProgress lets a later delete take up one     *)
(* that failed half way.                                                   *)
(***************************************************************************)
EXTENDS OrchestratorState

Progress(t) == progress[task[t].sb][task[t].entry]

SetProgress(t, p) == progress' = [progress EXCEPT ![task[t].sb][task[t].entry] = p]

(* The mutex of an entry is held by one task at a time. *)
Locked(s, e) == \E u \in Task : task[u].locked /\ task[u].sb = s /\ task[u].entry = e

(* deletion_progress: find the sandbox's entry or insert a new one. *)
EntryFor(t, s) == IF deletions[s] = None THEN t ELSE deletions[s]

DeleteCall(t, o, s) ==
    /\ deletions' = [deletions EXCEPT ![s] = EntryFor(t, s)]
    /\ Becomes(t, [Started(o, s, "deleteLock") EXCEPT !.entry = EntryFor(t, s)])
    /\ UNCHANGED <<store, runtimeVars, pinVars, disk, progress>>

Delete(t, s) ==
    /\ Begins(t, "delete", s)
    /\ DeleteCall(t, "delete", s)
    /\ UNCHANGED nodeVars

(* With the entry's mutex held, its progress says where to go on. *)
DeleteLock(t) ==
    /\ At(t, "deleteLock")
    /\ ~Locked(Sb(t), task[t].entry)
    /\ IF Progress(t) = "Done" THEN Finish(t, "ok")
       ELSE Becomes(t, [task[t] EXCEPT !.locked = TRUE, !.prev = "Killing",
                                     !.pc = IF Progress(t) = "Capture"
                                            THEN "deleteClaim" ELSE "deleteDetach"])
    /\ UNCHANGED <<store, runtimeVars, pinVars, disk, deleteVars, nodeVars>>

DeleteClaim(t) ==
    LET s == Sb(t) IN
    /\ At(t, "deleteClaim")
    /\ CompareAndSet(s, {"Running", "Paused"}, "Killing")
    /\ deletions' = IF StateOf(s) = "Absent" THEN [deletions EXCEPT ![s] = None]
                    ELSE deletions
    /\ CASE StateOf(s) \in {"Running", "Paused"} ->
              Becomes(t, [task[t] EXCEPT !.pc = "deleteDetach", !.prev = StateOf(s)])
         [] StateOf(s) = "Absent" -> Finish(t, "err")
         [] OTHER -> WaitWhile(t, StateOf(s), "deleteWoken")
    /\ UNCHANGED <<runtimeVars, pinVars, disk, progress, nodeVars>>

DeleteWoken(t) ==
    /\ At(t, "deleteWoken")
    /\ IF StateOf(Sb(t)) = "Absent" THEN Finish(t, "ok") ELSE Goto(t, "deleteClaim")
    /\ UNCHANGED <<store, runtimeVars, pinVars, disk, deleteVars, nodeVars>>

-----------------------------------------------------------------------------
(* delete_sandbox_impl *)

DeleteDetach(t) ==
    LET s == Sb(t) IN
    /\ At(t, "deleteDetach")
    /\ Detach(s)
    /\ Becomes(t, [task[t] EXCEPT !.hd = handles[s], !.rt = routes[s],
                                  !.pc = CASE Progress(t) = "Capture" -> "capture"
                                           [] Progress(t) = "Stop"    -> "deleteStop"
                                           [] OTHER                   -> "release"])
    /\ UNCHANGED <<store, vm, pinVars, disk, deleteVars, nodeVars>>

(* The volumes of a sandbox deleted while it was running are sealed in its *)
(* VM before they are published.                                           *)
Seals(t) == Sb(t) \in Mounted /\ task[t].prev = "Running" /\ task[t].hd # None

(* Sealing and publishing the mounted volumes.  A recoverable failure      *)
(* undoes the delete, unless the sandbox is a template builder, whose      *)
(* caches are optional; a terminal one, which only sealing can give, goes  *)
(* on and fails the volumes.                                               *)
Capture(t) ==
    LET s      == Sb(t)
        usable == Seals(t) => vm[task[t].hd] = "up"
    IN
    /\ At(t, "capture")
    /\ \/ /\ usable
          /\ SetProgress(t, "Stop")
          /\ Goto(t, "deleteStop")
          /\ UNCHANGED <<store, handles, routes>>
       \/ /\ Seals(t) \/ s \in Mounted \cap Builder
          /\ May("capture") \/ ~usable
          /\ SetProgress(t, "Stop")
          /\ Becomes(t, [task[t] EXCEPT !.pc = "deleteStop", !.cap = TRUE])
          /\ UNCHANGED <<store, handles, routes>>
       \/ /\ s \in Mounted \ Builder /\ usable /\ May("capture")
          /\ Reattach(s, task[t].hd, task[t].rt)
          /\ CompareAndSet(s, {"Killing"}, task[t].prev)
          /\ Finish(t, "err")
          /\ UNCHANGED progress
    /\ UNCHANGED <<vm, pinVars, disk, deletions, nodeVars>>

(* A VM that does not stop is attached again, for the next delete to stop; *)
(* the sandbox stays in Killing.                                           *)
DeleteStop(t) ==
    LET v == task[t].hd IN
    /\ At(t, "deleteStop")
    /\ \/ /\ vm' = IF v = None THEN vm ELSE [vm EXCEPT ![v] = "down"]
          /\ SetProgress(t, "Release")
          /\ Goto(t, "release")
          /\ handles' = handles
       \/ /\ v # None /\ May("stop")
          /\ handles' = [handles EXCEPT ![Sb(t)] = v]
          /\ Finish(t, "err")
          /\ UNCHANGED <<vm, progress>>
    /\ UNCHANGED <<store, routes, pinVars, disk, deletions, nodeVars>>

(* Volume reservations are given back, then remove_deleted_sandbox takes   *)
(* the record out of the store.                                            *)
Release(t) ==
    LET s == Sb(t) IN
    /\ At(t, "release")
    /\ \/ RemoveRecord(s) /\ Goto(t, "purge")
       \/ s \in Mounted /\ May("release") /\ store' = store /\ Finish(t, "err")
    /\ UNCHANGED <<runtimeVars, pinVars, disk, deleteVars, nodeVars>>

(* Mutant: the durable record is left behind. *)
PurgeNothing(t) ==
    /\ At(t, "purge")
    /\ Goto(t, "deleteEnd")
    /\ UNCHANGED <<store, runtimeVars, pinVars, disk, deleteVars, nodeVars>>

(* delete_record_and_artifacts, whose failure is only logged *)
Purge(t) ==
    /\ At(t, "purge")
    /\ \/ disk' = [disk EXCEPT ![Sb(t)] = NoDisk]
       \/ May("purge") /\ disk' = disk
    /\ Goto(t, "deleteEnd")
    /\ UNCHANGED <<store, runtimeVars, pinVars, deleteVars, nodeVars>>

(* A capture that failed terminally is reported although the sandbox went. *)
DeleteEnd(t) ==
    LET s == Sb(t) IN
    /\ At(t, "deleteEnd")
    /\ pausePins' = pausePins \ {s}
    /\ deletions' = [deletions EXCEPT ![s] = None]
    /\ SetProgress(t, "Done")
    /\ Finish(t, IF task[t].cap /\ s \notin Builder THEN "err" ELSE "ok")
    /\ UNCHANGED <<store, runtimeVars, startPins, disk, nodeVars>>

-----------------------------------------------------------------------------
(* evict_expired_sandboxes lists the overdue sandboxes and then works on   *)
(* one after the other, under the same mutex.  There is one such pass at a *)
(* time; only its start asks whether the node is shutting down.            *)

Overdue == {s \in Sandbox : store[s].due /\ StateOf(s) = "Running"}

Evict(t) ==
    /\ t # Sweeper /\ "evict" \in Ops /\ At(t, "idle")
    /\ ~shutting
    /\ \A u \in Task : task[u].op = "evict" => ~Active(u)
    /\ Overdue # {}
    /\ Becomes(t, [task[t] EXCEPT !.pc = "evictNext", !.op = "evict", !.rest = Overdue])
    /\ UNCHANGED <<store, runtimeVars, pinVars, disk, deleteVars, nodeVars>>

EvictNext(t) ==
    /\ At(t, "evictNext")
    /\ \E s \in task[t].rest :
          LET e == EntryFor(t, s) IN
          /\ deletions' = [deletions EXCEPT ![s] = e]
          /\ Becomes(t, [task[t] EXCEPT !.pc = "evictLock", !.sb = s, !.entry = e,
                                        !.rest = @ \ {s}])
    /\ UNCHANGED <<store, runtimeVars, pinVars, disk, progress, nodeVars>>

EvictLock(t) ==
    /\ At(t, "evictLock")
    /\ ~Locked(Sb(t), task[t].entry)
    /\ Becomes(t, [task[t] EXCEPT !.pc = "evictClaim", !.locked = TRUE])
    /\ UNCHANGED <<store, runtimeVars, pinVars, disk, deleteVars, nodeVars>>

(* Mutant: what the listing said is not checked again. *)
EvictClaimStale(t) ==
    LET s == Sb(t) IN
    /\ At(t, "evictClaim")
    /\ CompareAndSet(s, State, "Pausing")
    /\ IF StateOf(s) = "Absent" THEN Finish(t, "ok") ELSE Goto(t, "pausePin")
    /\ UNCHANGED <<runtimeVars, pinVars, disk, deleteVars, nodeVars>>

(* claim_expired_running_sandbox checks the deadline again as it claims. *)
EvictClaim(t) ==
    LET s == Sb(t) IN
    /\ At(t, "evictClaim")
    /\ IF StateOf(s) = "Running" /\ store[s].due
       THEN IF s \in DeleteOnTimeout
            THEN /\ store' = [store EXCEPT ![s].state = "Killing"]
                 /\ Becomes(t, [task[t] EXCEPT !.pc = "deleteDetach", !.prev = "Running"])
            ELSE /\ store' = [store EXCEPT ![s].state = "Pausing"]
                 /\ Goto(t, "pausePin")
       ELSE store' = store /\ Finish(t, "ok")
    /\ UNCHANGED <<runtimeVars, pinVars, disk, deleteVars, nodeVars>>

DeleteStep(t) ==
    \/ DeleteLock(t) \/ DeleteClaim(t) \/ DeleteWoken(t) \/ DeleteDetach(t)
    \/ Capture(t) \/ DeleteStop(t) \/ Release(t) \/ Purge(t) \/ DeleteEnd(t)
    \/ EvictNext(t) \/ EvictLock(t) \/ EvictClaim(t)
=============================================================================
