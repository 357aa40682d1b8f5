-------------------------- MODULE OrchestratorState --------------------------
(***************************************************************************)
(* The state one AgentENV node keeps about its sandboxes, and the store,   *)
(* runtime-table and task primitives the lifecycle operations are built    *)
(* from (src/orchestrator/service.rs, store/, persistence/).               *)
(*                                                                         *)
(* Every request runs as a spawned future that survives its caller         *)
(* (run_cancellation_safe), so an operation is a Task: a program counter   *)
(* and the locals it carries from one await point to the next.  A step of  *)
(* the model is what a task does between two points where another task can *)
(* observe shared state.  Things an operation creates are named after it:  *)
(* the VM a launch starts, the paused state a pause captures and the       *)
(* deletions entry a delete inserts are all called by the task's name; the *)
(* VM of a forked child is called by the child's id.                       *)
(***************************************************************************)
EXTENDS Naturals, FiniteSets

CONSTANTS
    Sandbox,          \* sandbox ids
    Task,             \* operations the node may run
    Sweeper,          \* the task whose calls the shutdown cleanup makes inline
    Ops,              \* kinds of operation that callers issue
    Faults,           \* calls that may fail
    Builder,          \* sandboxes created with template_builder set
    Mounted,          \* sandboxes with persistent volume mounts
    DeleteOnTimeout,  \* sandboxes whose timeout_action is Delete
    Mode,             \* virtualization modes a node may be configured with
    MaxPasses,        \* MAX_SHUTDOWN_PASSES
    Boot,             \* a paused state captured before this process started
    None              \* no value

VARIABLES
    store,       \* metadata store: state, paused_state, mode and overdue deadline
    handles,     \* Orchestrator.sandboxes: the attached VM handle of each sandbox
    routes,      \* proxy_routes: the VM traffic for a sandbox is sent to
    vm,          \* what each VM is doing
    startPins,   \* image holds in the Runtime namespace, by sandbox
    pausePins,   \* image holds in the Paused namespace, by sandbox
    disk,        \* the durable record of each sandbox
    deletions,   \* the deletions map: the DeleteProgress entry of each sandbox
    progress,    \* the DeleteProgress of each sandbox's entries
    shutting,    \* is_shutting_down
    used,        \* sandbox ids handed out so far
    nodeMode,    \* the configured virtualization mode
    task,        \* the operations
    sweep        \* the shutdown cleanup

vars == <<store, handles, routes, vm, startPins, pausePins, disk, deletions,
          progress, shutting, used, nodeMode, task, sweep>>

runtimeVars == <<handles, routes, vm>>
pinVars     == <<startPins, pausePins>>
deleteVars  == <<deletions, progress>>
nodeVars    == <<shutting, used, nodeMode, sweep>>

-----------------------------------------------------------------------------
(* Types. *)

Transitional == {"Creating", "Resuming", "Snapshotting", "Forking", "Pausing", "Killing"}
State        == {"Running", "Paused"} \cup Transitional

VM  == Task \cup Sandbox
Gen == Task \cup {Boot}

Option(S) == S \cup {None}

NoRecord == [state |-> "Absent", paused |-> None, mode |-> None, due |-> FALSE]
NoDisk   == [life |-> "none", gen |-> None, mode |-> None]

IdleTask == [pc |-> "idle", op |-> "none", sb |-> None, child |-> None,
             hd |-> None, rt |-> None, gen |-> None, rec |-> NoDisk,
             prev |-> "Absent", next |-> "idle", entry |-> None,
             locked |-> FALSE, cap |-> FALSE, rest |-> {}, res |-> "none"]

NoSweep == [pc |-> "off", pass |-> 0, todo |-> {}, seen |-> [s \in Sandbox |-> "Absent"],
            failed |-> {}, at |-> None, res |-> "none"]

-----------------------------------------------------------------------------
(* The metadata store.  Its operations run under one lock, so each is      *)
(* atomic; a compare-and-set that loses leaves the record alone.           *)

StateOf(s) == store[s].state

CompareAndSet(s, expected, new) ==
    store' = IF StateOf(s) \in expected
             THEN [store EXCEPT ![s].state = new] ELSE store

RemoveRecord(s) == store' = [store EXCEPT ![s] = NoRecord]

(* Handle and route are removed in one critical section. *)
Detach(s) ==
    /\ handles' = [handles EXCEPT ![s] = None]
    /\ routes'  = [routes EXCEPT ![s] = None]

(* A failed operation puts back the handle it detached and then the route, *)
(* if there was one (restore_proxy_route).                                 *)
Reattach(s, h, r) ==
    /\ handles' = IF h = None THEN handles ELSE [handles EXCEPT ![s] = h]
    /\ routes'  = IF r = None THEN routes ELSE [routes EXCEPT ![s] = r]

(* stop() is best effort where its error is only logged: a VM that did not *)
(* stop stays as it is until its last handle is dropped.                   *)
Stop(v) ==
    \/ vm' = [vm EXCEPT ![v] = "down"]
    \/ "stop" \in Faults /\ vm' = vm

-----------------------------------------------------------------------------
(* Tasks. *)

Active(t) == task[t].pc \notin {"idle", "done"}

At(t, l) == task[t].pc = l

Sb(t) == task[t].sb

May(call) == call \in Faults

Becomes(t, r) == task' = [task EXCEPT ![t] = r]

Goto(t, l) == Becomes(t, [task[t] EXCEPT !.pc = l])

(* Returning drops the task's locals, its handle and its hold on the mutex *)
(* of a deletions entry among them.  Auto-eviction goes on with the rest   *)
(* of the sandboxes it has listed.                                         *)
Ended(o, s, r) == [IdleTask EXCEPT !.pc = "done", !.op = o, !.sb = s, !.res = r]

Finish(t, r) ==
    Becomes(t, IF task[t].rest = {} THEN Ended(task[t].op, task[t].sb, r)
               ELSE [IdleTask EXCEPT !.pc = "evictNext", !.op = task[t].op, !.rest = task[t].rest])

(* wait_for_transition: sleep while the sandbox is in the given state. *)
WaitWhile(t, state, then) ==
    Becomes(t, [task[t] EXCEPT !.pc = "wait", !.prev = state, !.next = then])

Wake(t) ==
    /\ At(t, "wait")
    /\ StateOf(Sb(t)) # task[t].prev
    /\ Goto(t, task[t].next)
    /\ UNCHANGED <<store, runtimeVars, pinVars, disk, deleteVars, nodeVars>>

(* WAIT_TRANSITION_TIMEOUT elapses: every caller returns the error. *)
WaitTimesOut(t) ==
    /\ May("timeout")
    /\ At(t, "wait")
    /\ StateOf(Sb(t)) = task[t].prev
    /\ Finish(t, "err")
    /\ UNCHANGED <<store, runtimeVars, pinVars, disk, deleteVars, nodeVars>>

(* Ids are fresh UUIDs: nobody asks for a sandbox whose record its create  *)
(* or fork has yet to add.                                                 *)
Unpublished(s) ==
    /\ StateOf(s) = "Absent"
    /\ \E t \in Task : Active(t) /\ (task[t].child = s \/ (task[t].op = "create" /\ Sb(t) = s))

(* A caller's request becomes a task. *)
Begins(t, o, s) ==
    /\ t # Sweeper
    /\ o \in Ops
    /\ At(t, "idle")
    /\ s \in used
    /\ ~Unpublished(s)

Started(o, s, l) == [IdleTask EXCEPT !.pc = l, !.op = o, !.sb = s]

(* A VM that some handle still refers to; dropping the last handle kills it. *)
Referenced(v) ==
    \/ \E s \in Sandbox : handles[s] = v
    \/ \E t \in Task : Active(t) /\ task[t].hd = v

(* No operation is working on the sandbox. *)
Quiescent(s) ==
    \A t \in Task : Active(t) => task[t].sb # s /\ task[t].child # s
=============================================================================
