------------------------------ MODULE ShutdownOps ------------------------------
(***************************************************************************)
(* shutdown and its cleanup passes, the passing of deadlines, and the end  *)
(* and restart of the process (src/orchestrator/service.rs,                *)
(* persistence/file_backed.rs).                                            *)
(***************************************************************************)
EXTENDS PauseOps, DeleteOps

sweepFrame == <<shutting, used, nodeMode>>

(* shutdown: from here on new lifecycle operations are rejected.  A second *)
(* call only waits for the outcome of the first.                           *)
Shutdown ==
    /\ "shutdown" \in Ops
    /\ sweep.pc = "off"
    /\ shutting' = TRUE
    /\ sweep' = [sweep EXCEPT !.pc = "list", !.pass = 1]
    /\ UNCHANGED <<store, runtimeVars, pinVars, disk, deleteVars, used, nodeMode, task>>

(* The outcome depends only on the failures of the last pass that found    *)
(* something to do.                                                        *)
SweepOutcome == IF sweep.failed = {} THEN "ok" ELSE "err"

(* run_shutdown_cleanup: a pass works on the sandboxes it lists now. *)
SweepList ==
    LET found == {s \in Sandbox : StateOf(s) \notin {"Absent", "Paused"}} IN
    /\ sweep.pc = "list"
    /\ sweep' = IF found = {}
                THEN [sweep EXCEPT !.pc = "end", !.res = SweepOutcome]
                ELSE [sweep EXCEPT !.pc = "each", !.todo = found, !.failed = {},
                                   !.seen = [s \in Sandbox |-> StateOf(s)]]
    /\ UNCHANGED <<store, runtimeVars, pinVars, disk, deleteVars, sweepFrame, task>>

(* A sandbox listed as Running is paused, or deleted if it builds a        *)
(* template; one listed in transition is waited for.                       *)
SweepPause(s) ==
    /\ sweep.pc = "each" /\ s \in sweep.todo \ Builder
    /\ sweep.seen[s] = "Running"
    /\ PauseCall(Sweeper, "pause", s)
    /\ sweep' = [sweep EXCEPT !.pc = "call", !.at = s]
    /\ UNCHANGED <<runtimeVars, pinVars, disk, deleteVars, sweepFrame>>

SweepDelete(s) ==
    /\ sweep.pc = "each" /\ s \in sweep.todo \cap Builder
    /\ sweep.seen[s] = "Running"
    /\ DeleteCall(Sweeper, "delete", s)
    /\ sweep' = [sweep EXCEPT !.pc = "call", !.at = s]
    /\ UNCHANGED sweepFrame

(* Mutant: the sandbox stays on the list. *)
SweepReturnAgain ==
    /\ sweep.pc = "call" /\ At(Sweeper, "done")
    /\ sweep' = [sweep EXCEPT !.pc = "each", !.at = None]
    /\ Becomes(Sweeper, IdleTask)
    /\ UNCHANGED <<store, runtimeVars, pinVars, disk, deleteVars, sweepFrame>>

SweepReturn ==
    /\ sweep.pc = "call" /\ At(Sweeper, "done")
    /\ sweep' = [sweep EXCEPT !.pc = "each", !.at = None, !.todo = @ \ {sweep.at},
                              !.failed = IF task[Sweeper].res = "ok" THEN @
                                         ELSE @ \cup {sweep.at}]
    /\ Becomes(Sweeper, IdleTask)
    /\ UNCHANGED <<store, runtimeVars, pinVars, disk, deleteVars, sweepFrame>>

SweepWait(s) ==
    /\ sweep.pc = "each" /\ s \in sweep.todo
    /\ sweep.seen[s] # "Running"
    /\ \/ /\ StateOf(s) # sweep.seen[s]
          /\ sweep' = [sweep EXCEPT !.todo = @ \ {s}]
       \/ /\ StateOf(s) = sweep.seen[s] /\ May("timeout")
          /\ sweep' = [sweep EXCEPT !.todo = @ \ {s}, !.failed = @ \cup {s}]
    /\ UNCHANGED <<store, runtimeVars, pinVars, disk, deleteVars, sweepFrame, task>>

SweepNextPass ==
    /\ sweep.pc = "each" /\ sweep.todo = {}
    /\ sweep' = IF sweep.pass < MaxPasses
                THEN [sweep EXCEPT !.pc = "list", !.pass = @ + 1]
                ELSE [sweep EXCEPT !.pc = "end", !.res = SweepOutcome]
    /\ UNCHANGED <<store, runtimeVars, pinVars, disk, deleteVars, sweepFrame, task>>

SweepStep ==
    \/ SweepList \/ SweepReturn \/ SweepNextPass
    \/ \E s \in Sandbox : SweepPause(s) \/ SweepDelete(s) \/ SweepWait(s)

-----------------------------------------------------------------------------
(* Time passes a sandbox's deadline. *)
Expire(s) ==
    /\ "evict" \in Ops
    /\ StateOf(s) # "Absent" /\ ~store[s].due
    /\ store' = [store EXCEPT ![s].due = TRUE]
    /\ UNCHANGED <<runtimeVars, pinVars, disk, deleteVars, nodeVars, task>>

-----------------------------------------------------------------------------
(* load_all: a record left in resuming is discarded with its artifacts; a  *)
(* record of another virtualization mode is listed without the state to    *)
(* resume it from.                                                         *)
Loadable(d) == d.life = "paused"

Loaded(d, m) ==
    IF Loadable(d)
    THEN [NoRecord EXCEPT !.state = "Paused", !.mode = d.mode,
                          !.paused = IF d.mode = m THEN d.gen ELSE None]
    ELSE NoRecord

(* The process ends, at any point, taking its VMs with it, and another one *)
(* starts: load_all, then reconcile_paused_at_startup.                     *)
Restart(m) ==
    /\ May("crash")
    /\ nodeMode' = m
    /\ store'    = [s \in Sandbox |-> Loaded(disk[s], m)]
    /\ disk'     = [s \in Sandbox |-> IF Loadable(disk[s]) THEN disk[s] ELSE NoDisk]
    /\ handles'  = [s \in Sandbox |-> None]
    /\ routes'   = [s \in Sandbox |-> None]
    /\ vm'       = [v \in VM |-> IF vm[v] = "none" THEN "none" ELSE "down"]
    /\ startPins' = {}
    /\ pausePins' = {s \in Sandbox : store'[s].paused # None}
    /\ deletions' = [s \in Sandbox |-> None]
    /\ progress' = [s \in Sandbox |-> [t \in Task |-> "Capture"]]
    /\ shutting' = FALSE
    /\ sweep'    = NoSweep
    /\ task'     = [t \in Task |-> IF t # Sweeper /\ Active(t)
                                   THEN Ended(task[t].op, task[t].sb, "lost")
                                   ELSE IF t = Sweeper THEN IdleTask ELSE task[t]]
    /\ UNCHANGED used
=============================================================================
