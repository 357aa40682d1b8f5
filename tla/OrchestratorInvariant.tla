-------------------------- MODULE OrchestratorInvariant --------------------------
(***************************************************************************)
(* The inductive invariant from which OneClaimant follows.  It says what   *)
(* each operation knows at each point of its code, how the deletions map   *)
(* serialises deletes, and that an id is nobody's business before the      *)
(* record of its sandbox is added.                                         *)
(***************************************************************************)
EXTENDS Orchestrator

(* The id an operation has drawn and not yet added a record for. *)
Births(r, s) ==
    \/ r.op = "create" /\ r.sb = s
         /\ r.pc \in {"build", "pin", "start", "insert", "unpinStart", "add"}
    \/ r.op = "fork" /\ r.child = s
         /\ r.pc \in {"forkHandle", "forkClaim", "fork", "forkRestore", "forkAdd"}

Fresh(s) == s \notin used \/ \E t \in Task : Births(task[t], s)

MutexLabels == {"deleteClaim", "deleteWoken", "evictClaim", "purge", "deleteEnd"} \cup KillLabels

(* What a task's locals say at each point of its code. *)
Placed(r) ==
    /\ r.pc \notin {"idle", "done", "evictNext"} => r.sb \in Sandbox
    /\ r.pc \in {"resumeClaim", "mark", "markPut"} => r.op = "resume"
    /\ r.pc = "add" => r.op = "create"
    /\ r.pc = "evictNext" \/ r.rest # {} => r.op = "evict"
    /\ r.pc \in {"build", "target"} \cup LaunchLabels \cup UndoLabels =>
         r.op \in {"create", "resume"}
    /\ r.pc \in UndoLabels =>
         r.prev \in {"Absent", "Running", IF r.op = "create" THEN "Creating" ELSE "Resuming"}
    /\ r.pc = "rollback" => r.prev # "Absent"
    /\ r.pc \in {"forkHandle", "forkClaim", "fork", "forkRestore", "forkAdd", "forkInsert",
                 "forkRoute"} => r.op = "fork" /\ r.child \in Sandbox
    /\ r.pc = "wait" => r.next \in {"resumeReread", "resumeJoined", "pauseJoined",
                                    "deleteWoken", "keepReread"}
    /\ r.pc \in MutexLabels \/ (r.pc = "wait" /\ r.next = "deleteWoken") => r.locked
    /\ r.pc \in {"deleteLock", "evictLock"} \/ r.locked => r.entry # None
    /\ r.pc \in {"idle", "done", "evictNext"} => r.entry = None
    /\ r.entry # None => r.op \in {"delete", "evict"} /\ r.sb \in Sandbox

(* The mutex of an entry excludes, and the entry a delete works with is    *)
(* the one the deletions map has as long as the record exists.             *)
Serialised ==
    /\ \A t, u \in Task : task[t].locked /\ task[u].locked /\ Sb(t) = Sb(u)
                            /\ task[t].entry = task[u].entry => t = u
    /\ \A t \in Task : task[t].entry # None /\ StateOf(Sb(t)) # "Absent" =>
         deletions[Sb(t)] = task[t].entry

(* A delete past its capture owns the sandbox until the record is removed. *)
Committed ==
    /\ \A s \in Sandbox, e \in Task :
         StateOf(s) # "Absent" /\ progress[s][e] \in {"Stop", "Release"} =>
            StateOf(s) = "Killing" /\ deletions[s] = e
    /\ \A t \in Task : At(t, "capture") => Progress(t) = "Capture"
    /\ \A t \in Task : task[t].pc \in {"purge", "deleteEnd"} => StateOf(Sb(t)) = "Absent"

(* Nothing in the node mentions an id before its record is added, save the *)
(* operation that drew it.                                                 *)
Untouched ==
    /\ \A s \in Sandbox : Fresh(s) =>
         /\ StateOf(s) = "Absent"
         /\ s \notin sweep.todo
         /\ \A e \in Task : progress[s][e] = "Capture"
         /\ \A t \in Task : /\ Sb(t) = s \/ task[t].child = s => Births(task[t], s)
                            /\ s \notin task[t].rest
    /\ \A t, u \in Task, s \in Sandbox :
         Births(task[t], s) => s \in used /\ (Births(task[u], s) => t = u)
    /\ \A s \in Sandbox \ used : disk[s] = NoDisk

(* The whole of it: an operation that works under a transitional state has *)
(* the record to itself, because every state write outside the launches'   *)
(* and deletes' own claims is a compare-and-set, a delete past its capture *)
(* keeps Killing until the record goes, and ids are fresh.                 *)
ClaimInvariant ==
    /\ \A t \in Task : Placed(task[t])
    /\ OneClaimant
    /\ Serialised
    /\ Committed
    /\ Untouched
=============================================================================
