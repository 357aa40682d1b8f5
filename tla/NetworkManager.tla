---------------------------- MODULE NetworkManager ----------------------------
(***************************************************************************)
(* The network slots of a node: the bitmap of slot indices, the warm pool  *)
(* of slots ready for reuse, its maintenance worker and the shutdown.      *)
(*                                                                         *)
(* A slot is its index: the host interface of a slot is named after it, so *)
(* that two slots of one index would share an interface.  A process is a   *)
(* sandbox thread that takes and gives back slots, the worker, or the      *)
(* thread that shuts the manager down.  pc[p] is the next critical section *)
(* of p, and slot[p] the Slot it owns (0 when none).                       *)
(***************************************************************************)
EXTENDS WarmPool, FiniteSets

CONSTANTS
    User,       \* the threads of sandboxes and of the Firecracker pool
    Worker,     \* the maintenance worker of the pool
    Closer,     \* the thread that calls shutdown
    MaxSlots,   \* MAX_SLOTS
    Existing,   \* slots whose interface exists when the manager is created
    Faults,     \* what may fail, once each: "create", "delete", "spawn"
    MaxFaults   \* how many of these may fail in one run

VARIABLES
    allocated,  \* the bitmap
    veths,      \* the indices whose host interface exists
    mgrShut,    \* NetworkManager.shutting_down
    pc,
    slot,
    armed,      \* Slot.cleanup_armed of the slot p owns
    plen,       \* the pool's length after p took from it
    todo,       \* iterations left in the worker's cycle
    back,       \* where the worker goes on once it has got rid of a slot
    drained,    \* the slots shutdown has still to clean up
    faulted     \* what has failed

mgrVars ==
    <<allocated, veths, mgrShut, pc, slot, armed, plen, todo, back, drained, faulted>>
vars == <<poolVars, mgrVars>>

\* Everything but the pool and the control of the processes.
slotVars == <<allocated, veths, mgrShut, slot, armed, plen, todo, back, drained, faulted>>

Proc == User \cup {Worker, Closer}
Index == 1 .. (MaxSlots - 1)

ASSUME SlotsAssumption ==
    /\ MaxSlots \in Nat \ {0}
    /\ Existing \subseteq Index
    /\ Worker # Closer
    /\ {Worker, Closer} \cap User = {}
    /\ IsFiniteSet(User)
    /\ IsFiniteSet(Faults)
    /\ MaxFaults \in Nat

Init ==
    /\ NewPool
    /\ allocated = {0} \cup Existing
    /\ veths = Existing
    /\ mgrShut = FALSE
    /\ pc = [p \in Proc |-> IF p = Worker THEN "off" ELSE "idle"]
    /\ slot = [p \in Proc |-> 0]
    /\ armed = [p \in Proc |-> FALSE]
    /\ plen = [p \in Proc |-> 0]
    /\ todo = 0
    /\ back = "recheck"
    /\ drained = <<>>
    /\ faulted = {}

Goto(p, l) == pc' = [pc EXCEPT ![p] = l]

\* Where p goes on when a slot is cleaned up, and when none could be made.
Return(p) == CASE p = Worker -> back [] p = Closer -> "closing" [] OTHER -> "idle"
Failed(p) == IF p = Worker THEN "recheck" ELSE "idle"

\* The host refuses an operation.
Fault(f) ==
    /\ f \in Faults \ faulted
    /\ Cardinality(faulted) < MaxFaults
    /\ faulted' = faulted \cup {f}

-------------------------------------------------------------------------------
(***************************************************************************)
(* allocate_any, by a user.                                                *)
(***************************************************************************)

\* NetworkManager::global starts the worker once: the thread runs before its
\* handle is stored and before it is asked for a first cycle.
Global(u) ==
    /\ pc[u] = "idle"
    /\ MaintenanceEnabled /\ ~started
    /\ started' = TRUE
    /\ Goto(u, "spawn")
    /\ UNCHANGED <<pool, fillTarget, pending, stop, handle, poolShut>>
    /\ UNCHANGED slotVars

\* A thread that cannot be spawned is left to the next one who asks.
Spawn(u) ==
    /\ pc[u] = "spawn"
    /\ \/ /\ pc' = [pc EXCEPT ![u] = "spawned", ![Worker] = "wait"]
          /\ UNCHANGED <<started, faulted>>
       \/ /\ Fault("spawn")
          /\ started' = FALSE
          /\ Goto(u, "allocate")
    /\ UNCHANGED <<pool, fillTarget, pending, stop, handle, poolShut>>
    /\ UNCHANGED <<allocated, veths, mgrShut, slot, armed, plen, todo, back, drained>>

Spawned(u) ==
    /\ pc[u] = "spawned"
    /\ handle' = TRUE
    /\ pending' = Requested(TRUE)
    /\ Goto(u, "allocate")
    /\ UNCHANGED <<pool, fillTarget, stop, started, poolShut>>
    /\ UNCHANGED slotVars

AllocateAny(u) ==
    /\ \/ pc[u] = "idle" /\ (started \/ ~MaintenanceEnabled)
       \/ pc[u] = "allocate"
    /\ Goto(u, CASE mgrShut -> "idle" [] poolShut -> "fresh" [] OTHER -> "acquire")
    /\ UNCHANGED poolVars
    /\ UNCHANGED slotVars

\* Mutant: the slot stays in the pool.
TryAcquireKeeps(u) ==
    /\ pc[u] = "acquire"
    /\ IF pool = <<>>
       THEN UNCHANGED <<slot, armed>>
       ELSE /\ slot' = [slot EXCEPT ![u] = Head(pool)]
            /\ armed' = [armed EXCEPT ![u] = TRUE]
    /\ plen' = [plen EXCEPT ![u] = Len(pool)]
    /\ Goto(u, "pressure")
    /\ UNCHANGED poolVars
    /\ UNCHANGED <<allocated, veths, mgrShut, todo, back, drained, faulted>>

TryAcquire(u) ==
    /\ pc[u] = "acquire"
    /\ IF pool = <<>>
       THEN UNCHANGED <<pool, slot, armed>>
       ELSE /\ slot' = [slot EXCEPT ![u] = Head(pool)]
            /\ armed' = [armed EXCEPT ![u] = TRUE]
            /\ pool' = Tail(pool)
    /\ plen' = [plen EXCEPT ![u] = Len(pool')]
    /\ Goto(u, "pressure")
    /\ UNCHANGED <<fillTarget, pending, stop, started, handle, poolShut>>
    /\ UNCHANGED <<allocated, veths, mgrShut, todo, back, drained, faulted>>

Pressure(u) ==
    /\ pc[u] = "pressure"
    /\ RecordPressure(plen[u])
    /\ plen' = [plen EXCEPT ![u] = 0]
    /\ Goto(u, IF slot[u] = 0 THEN "fresh" ELSE "acquired")
    /\ UNCHANGED <<pool, stop, started, handle, poolShut>>
    /\ UNCHANGED <<allocated, veths, mgrShut, slot, armed, todo, back, drained, faulted>>

Acquired(u) ==
    /\ pc[u] = "acquired"
    /\ Goto(u, IF mgrShut THEN "cleanup" ELSE "hold")
    /\ pending' = Requested(~mgrShut /\ Len(pool) < LowWatermark)
    /\ UNCHANGED <<pool, fillTarget, stop, started, handle, poolShut>>
    /\ UNCHANGED slotVars

-------------------------------------------------------------------------------
(***************************************************************************)
(* allocate_fresh_slot, by a user or by the worker.                        *)
(***************************************************************************)

\* The bit of a free index is set, unless the manager shuts down, the host's
\* firewall rules cannot be installed or no index is free.
Fresh(p) ==
    /\ pc[p] = "fresh"
    /\ \/ /\ \/ (mgrShut \/ Index \subseteq allocated) /\ UNCHANGED faulted
             \/ Fault("create")
          /\ Goto(p, Failed(p))
          /\ UNCHANGED <<allocated, slot>>
       \/ /\ ~mgrShut
          /\ \E i \in Index \ allocated :
                /\ allocated' = allocated \cup {i}
                /\ slot' = [slot EXCEPT ![p] = i]
          /\ Goto(p, "create")
          /\ UNCHANGED faulted
    /\ UNCHANGED poolVars
    /\ UNCHANGED <<veths, mgrShut, armed, plen, todo, back, drained>>

\* Slot::create_network arms the slot's drop before it touches the host.  It
\* fails on an interface of the same name, or halfway with or without one.
CreateNetwork(p) ==
    /\ pc[p] = "create"
    /\ armed' = [armed EXCEPT ![p] = TRUE]
    /\ \/ /\ slot[p] \notin veths
          /\ veths' = veths \cup {slot[p]}
          /\ Goto(p, "check")
          /\ UNCHANGED faulted
       \/ /\ slot[p] \in veths
          /\ Goto(p, "undo")
          /\ UNCHANGED <<veths, faulted>>
       \/ /\ Fault("create")
          /\ veths' \in {veths, veths \cup {slot[p]}}
          /\ Goto(p, "undo")
    /\ UNCHANGED poolVars
    /\ UNCHANGED <<allocated, mgrShut, slot, plen, todo, back, drained>>

\* A slot that could not be set up gives its index back, and is dropped after.
UndoCreate(p) ==
    /\ pc[p] = "undo"
    /\ allocated' = allocated \ {slot[p]}
    /\ Goto(p, "drop")
    /\ back' = IF p = Worker THEN "recheck" ELSE back
    /\ UNCHANGED poolVars
    /\ UNCHANGED <<veths, mgrShut, slot, armed, plen, todo, drained, faulted>>

CheckShutdown(p) ==
    /\ pc[p] = "check"
    /\ Goto(p, CASE mgrShut -> "cleanup" [] p = Worker -> "push" [] OTHER -> "hold")
    /\ back' = IF p = Worker /\ mgrShut THEN "recheck" ELSE back
    /\ UNCHANGED poolVars
    /\ UNCHANGED <<allocated, veths, mgrShut, slot, armed, plen, todo, drained, faulted>>

-------------------------------------------------------------------------------
(***************************************************************************)
(* cleanup_slot_and_release_bit: the interface is deleted, then the index  *)
(* given back, whether or not the interface is gone.  Slot::drop cleans up *)
(* again when it is not.                                                   *)
(***************************************************************************)
Cleanup(p) ==
    /\ pc[p] = "cleanup"
    /\ \/ /\ veths' = veths \ {slot[p]}
          /\ armed' = [armed EXCEPT ![p] = FALSE]
          /\ UNCHANGED <<back, faulted>>
       \/ /\ Fault("delete")
          /\ back' = IF p = Worker THEN "recheck" ELSE back
          /\ UNCHANGED <<veths, armed>>
    /\ Goto(p, "unbit")
    /\ UNCHANGED poolVars
    /\ UNCHANGED <<allocated, mgrShut, slot, plen, todo, drained>>

ReleaseBit(p) ==
    /\ pc[p] = "unbit"
    /\ allocated' = allocated \ {slot[p]}
    /\ IF armed[p]
       THEN /\ Goto(p, "drop")
            /\ UNCHANGED slot
       ELSE /\ Goto(p, Return(p))
            /\ slot' = [slot EXCEPT ![p] = 0]
    /\ UNCHANGED poolVars
    /\ UNCHANGED <<veths, mgrShut, armed, plen, todo, back, drained, faulted>>

DropSlot(p) ==
    /\ pc[p] = "drop"
    /\ \/ veths' = veths \ {slot[p]} /\ UNCHANGED faulted
       \/ Fault("delete") /\ UNCHANGED veths
    /\ slot' = [slot EXCEPT ![p] = 0]
    /\ armed' = [armed EXCEPT ![p] = FALSE]
    /\ Goto(p, Return(p))
    /\ UNCHANGED poolVars
    /\ UNCHANGED <<allocated, mgrShut, plen, todo, back, drained>>

-------------------------------------------------------------------------------
(***************************************************************************)
(* release, and the Firecracker pool's cleanup_allocated_slot.             *)
(***************************************************************************)
Release(u) ==
    /\ pc[u] = "hold"
    /\ Goto(u, IF mgrShut THEN "cleanup" ELSE "release")
    /\ UNCHANGED poolVars
    /\ UNCHANGED slotVars

CleanupAllocatedSlot(u) ==
    /\ pc[u] = "hold"
    /\ Goto(u, "cleanup")
    /\ UNCHANGED poolVars
    /\ UNCHANGED slotVars

PoolRelease(u) ==
    /\ pc[u] = "release"
    /\ IF ReleaseAccepted
       THEN /\ pool' = Append(pool, slot[u])
            /\ slot' = [slot EXCEPT ![u] = 0]
            /\ armed' = [armed EXCEPT ![u] = FALSE]
            /\ Goto(u, IF Len(pool') \in LowWatermark .. HighWatermark
                       THEN "idle" ELSE "signal")
       ELSE /\ Goto(u, "cleanup")
            /\ UNCHANGED <<pool, slot, armed>>
    /\ UNCHANGED <<fillTarget, pending, stop, started, handle, poolShut>>
    /\ UNCHANGED <<allocated, veths, mgrShut, plen, todo, back, drained, faulted>>

Signal(u) ==
    /\ pc[u] = "signal"
    /\ pending' = Requested(TRUE)
    /\ Goto(u, "idle")
    /\ UNCHANGED <<pool, fillTarget, stop, started, handle, poolShut>>
    /\ UNCHANGED slotVars

-------------------------------------------------------------------------------
(***************************************************************************)
(* maintenance_worker_loop, with run_pool_maintenance_cycle as its cycle.  *)
(***************************************************************************)
WorkerWakes ==
    /\ pc[Worker] = "wait"
    /\ stop \/ pending
    /\ IF stop
       THEN /\ Goto(Worker, "end")
            /\ UNCHANGED pending
       ELSE /\ Goto(Worker, "cycle")
            /\ pending' = FALSE
    /\ UNCHANGED <<pool, fillTarget, stop, started, handle, poolShut>>
    /\ UNCHANGED slotVars

RunCycle ==
    /\ pc[Worker] = "cycle"
    /\ LET fill == ToFill(Len(pool))
           drain == ToDrain(Len(pool))
       IN  /\ Goto(Worker, CASE poolShut -> "end" [] fill > 0 -> "fill"
                             [] drain > 0 -> "drain" [] OTHER -> "recheck")
           /\ todo' = IF poolShut THEN 0 ELSE fill + drain
    /\ UNCHANGED poolVars
    /\ UNCHANGED <<allocated, veths, mgrShut, slot, armed, plen, back, drained, faulted>>

FillOne ==
    /\ pc[Worker] = "fill"
    /\ IF todo = 0 \/ mgrShut
       THEN /\ Goto(Worker, "recheck")
            /\ todo' = 0
       ELSE /\ Goto(Worker, "fresh")
            /\ todo' = todo - 1
    /\ UNCHANGED poolVars
    /\ UNCHANGED <<allocated, veths, mgrShut, slot, armed, plen, back, drained, faulted>>

TryPushBounded ==
    /\ pc[Worker] = "push"
    /\ IF PushAccepted
       THEN /\ pool' = Append(pool, slot[Worker])
            /\ slot' = [slot EXCEPT ![Worker] = 0]
            /\ armed' = [armed EXCEPT ![Worker] = FALSE]
            /\ Goto(Worker, "fill")
            /\ UNCHANGED back
       ELSE /\ Goto(Worker, "cleanup")
            /\ back' = "fill"
            /\ UNCHANGED <<pool, slot, armed>>
    /\ UNCHANGED <<fillTarget, pending, stop, started, handle, poolShut>>
    /\ UNCHANGED <<allocated, veths, mgrShut, plen, todo, drained, faulted>>

TryDrainOne ==
    /\ pc[Worker] = "drain"
    /\ IF todo = 0 \/ pool = <<>>
       THEN /\ Goto(Worker, "recheck")
            /\ todo' = 0
            /\ UNCHANGED <<pool, slot, armed, back>>
       ELSE /\ slot' = [slot EXCEPT ![Worker] = pool[Len(pool)]]
            /\ armed' = [armed EXCEPT ![Worker] = TRUE]
            /\ pool' = SubSeq(pool, 1, Len(pool) - 1)
            /\ todo' = todo - 1
            /\ Goto(Worker, "cleanup")
            /\ back' = "drain"
    /\ UNCHANGED <<fillTarget, pending, stop, started, handle, poolShut>>
    /\ UNCHANGED <<allocated, veths, mgrShut, plen, drained, faulted>>

\* Mutant: the worker sleeps without looking at the pool again.
RecheckNothing ==
    /\ pc[Worker] = "recheck"
    /\ Goto(Worker, IF poolShut THEN "end" ELSE "wait")
    /\ todo' = 0
    /\ UNCHANGED poolVars
    /\ UNCHANGED <<allocated, veths, mgrShut, slot, armed, plen, back, drained, faulted>>

Recheck ==
    /\ pc[Worker] = "recheck"
    /\ Goto(Worker, CASE poolShut -> "end" [] MaintenanceIdle(Len(pool)) -> "wait"
                      [] OTHER -> "cycle")
    /\ todo' = 0
    /\ UNCHANGED poolVars
    /\ UNCHANGED <<allocated, veths, mgrShut, slot, armed, plen, back, drained, faulted>>

-------------------------------------------------------------------------------
(***************************************************************************)
(* shutdown: refuse new slots, stop and join the worker, clean the pool.   *)
(***************************************************************************)
Shutdown ==
    /\ pc[Closer] = "idle"
    /\ mgrShut' = TRUE
    /\ Goto(Closer, "drainall")
    /\ UNCHANGED poolVars
    /\ UNCHANGED <<allocated, veths, slot, armed, plen, todo, back, drained, faulted>>

DrainAll ==
    /\ pc[Closer] = "drainall"
    /\ poolShut' = TRUE
    /\ Goto(Closer, "stop")
    /\ UNCHANGED <<pool, fillTarget, pending, stop, started, handle>>
    /\ UNCHANGED slotVars

\* Mutant: the worker is joined without being told to stop.
StopWorkerSilently ==
    /\ pc[Closer] = "stop"
    /\ Goto(Closer, IF started THEN "handle" ELSE "take")
    /\ UNCHANGED poolVars
    /\ UNCHANGED slotVars

StopWorker ==
    /\ pc[Closer] = "stop"
    /\ IF started
       THEN /\ stop' = TRUE
            /\ pending' = TRUE
            /\ Goto(Closer, "handle")
       ELSE /\ Goto(Closer, "take")
            /\ UNCHANGED <<stop, pending>>
    /\ UNCHANGED <<pool, fillTarget, started, handle, poolShut>>
    /\ UNCHANGED slotVars

\* A handle that is not stored yet is not joined.
TakeHandle ==
    /\ pc[Closer] = "handle"
    /\ Goto(Closer, IF handle THEN "join" ELSE "take")
    /\ UNCHANGED poolVars
    /\ UNCHANGED slotVars

JoinWorker ==
    /\ pc[Closer] = "join"
    /\ pc[Worker] = "end"
    /\ Goto(Closer, "take")
    /\ UNCHANGED poolVars
    /\ UNCHANGED slotVars

TakeAll ==
    /\ pc[Closer] = "take"
    /\ drained' = pool
    /\ pool' = <<>>
    /\ Goto(Closer, "closing")
    /\ UNCHANGED <<fillTarget, pending, stop, started, handle, poolShut>>
    /\ UNCHANGED <<allocated, veths, mgrShut, slot, armed, plen, todo, back, faulted>>

CleanNext ==
    /\ pc[Closer] = "closing"
    /\ IF drained = <<>>
       THEN /\ Goto(Closer, "done")
            /\ UNCHANGED <<slot, armed, drained>>
       ELSE /\ slot' = [slot EXCEPT ![Closer] = Head(drained)]
            /\ armed' = [armed EXCEPT ![Closer] = TRUE]
            /\ drained' = Tail(drained)
            /\ Goto(Closer, "cleanup")
    /\ UNCHANGED poolVars
    /\ UNCHANGED <<allocated, veths, mgrShut, plen, todo, back, faulted>>

-------------------------------------------------------------------------------
UserStep(u) ==
    \/ Global(u) \/ Spawn(u) \/ Spawned(u) \/ AllocateAny(u) \/ TryAcquire(u) \/ Pressure(u)
    \/ Acquired(u) \/ Release(u) \/ CleanupAllocatedSlot(u) \/ PoolRelease(u)
    \/ Signal(u)

SlotStep(p) ==
    \/ Fresh(p) \/ CreateNetwork(p) \/ UndoCreate(p) \/ CheckShutdown(p)
    \/ Cleanup(p) \/ ReleaseBit(p) \/ DropSlot(p)

WorkerStep ==
    \/ WorkerWakes \/ RunCycle \/ FillOne \/ TryPushBounded \/ TryDrainOne
    \/ Recheck

CloserStep ==
    \/ Shutdown \/ DrainAll \/ StopWorker \/ TakeHandle \/ JoinWorker \/ TakeAll
    \/ CleanNext

Next ==
    \/ \E u \in User : UserStep(u)
    \/ \E p \in Proc : SlotStep(p)
    \/ WorkerStep
    \/ CloserStep

(***************************************************************************)
(* Threads run: a call that has begun goes on.  Nothing makes a sandbox    *)
(* ask for a slot or give it back, nor the node shut down.                 *)
(***************************************************************************)
Fairness ==
    /\ \A u \in User :
          WF_vars((pc[u] \notin {"idle", "hold"}) /\ (UserStep(u) \/ SlotStep(u)))
    /\ WF_vars(WorkerStep \/ SlotStep(Worker))
    /\ WF_vars((pc[Closer] # "idle") /\ (CloserStep \/ SlotStep(Closer)))

Spec == Init /\ [][Next]_vars /\ Fairness

-------------------------------------------------------------------------------
(***************************************************************************)
(* Properties                                                              *)
(***************************************************************************)

TypeOK ==
    /\ pool \in Seq(Index)
    /\ drained \in Seq(Index)
    /\ fillTarget \in LowWatermark .. HighWatermark
    /\ {pending, stop, started, handle, poolShut, mgrShut} \subseteq BOOLEAN
    /\ allocated \subseteq (Index \cup {0})
    /\ veths \subseteq Index
    /\ slot \in [Proc -> Index \cup {0}]
    /\ armed \in [Proc -> BOOLEAN]
    /\ faulted \subseteq Faults

\* The indices that the pool, the drained list and the processes own.
Pooled == {pool[k] : k \in DOMAIN pool}
ToClean == {drained[k] : k \in DOMAIN drained}
Owns(p) == slot[p] # 0 /\ pc[p] # "drop"

(***************************************************************************)
(* No network slot has two owners: an index is in the pool at most once,   *)
(* and no thread owns an index that is in the pool or that another thread  *)
(* owns, although slots are handed over between threads without one lock   *)
(* over bitmap and pool.  Every index owned is marked in the bitmap, so    *)
(* that nobody can allocate it.                                            *)
(***************************************************************************)
SlotHasOneOwner ==
    /\ \A j, k \in DOMAIN pool : j # k => pool[j] # pool[k]
    /\ \A j, k \in DOMAIN drained : j # k => drained[j] # drained[k]
    /\ Pooled \cap ToClean = {}
    /\ \A p \in Proc : Owns(p) => slot[p] \notin Pooled \cup ToClean
    /\ \A p, q \in Proc : p # q /\ Owns(p) /\ Owns(q) => slot[p] # slot[q]
    /\ Pooled \cup ToClean \subseteq allocated
    /\ \A p \in Proc : Owns(p) => slot[p] \in allocated

(***************************************************************************)
(* Slot::cleanup is "safe to call multiple times or concurrently": it      *)
(* takes away the interface of its own slot only.  Every slot that is in   *)
(* the pool or in the hands of a sandbox still has its host interface.     *)
(***************************************************************************)
HeldIsConnected ==
    Pooled \cup {slot[u] : u \in {w \in User : pc[w] \in {"acquired", "hold", "release"}}}
        \subseteq veths

(***************************************************************************)
(* Nothing is left behind by a shutdown: once shutdown has returned and    *)
(* the other threads have finished with their slots, the pool is empty     *)
(* and all indices and interfaces that were not there before are gone,     *)
(* also those of slots that were being created, refilled or released       *)
(* while the pool was drained.                                             *)
(***************************************************************************)
NothingLeftBehind ==
    (/\ pc[Closer] = "done"
     /\ pc[Worker] \in {"off", "end", "wait"}
     /\ \A u \in User : pc[u] = "idle")
        => /\ pool = <<>>
           /\ allocated = {0} \cup Existing
           /\ "delete" \notin faulted => veths = Existing

(***************************************************************************)
(* No wakeup is lost: when the worker sleeps with no request pending and   *)
(* no thread is about to make one, the pool is within its limits.          *)
(***************************************************************************)
NoLostWakeup ==
    (/\ pc[Worker] = "wait"
     /\ handle
     /\ ~pending
     /\ ~mgrShut
     /\ \A u \in User : pc[u] \notin {"pressure", "signal"})
        => MaintenanceIdle(Len(pool))

(***************************************************************************)
(* The pool is refilled: while the threads leave it alone, the pool comes  *)
(* to hold as many slots as its target says, or all indices are in use.    *)
(***************************************************************************)
Quiet == handle /\ ~mgrShut /\ \A u \in User : pc[u] \in {"idle", "hold"}

PoolRefills ==
    []<>(~Quiet \/ ToFill(Len(pool)) = 0 \/ Index \subseteq allocated)

(***************************************************************************)
(* A shutdown that has begun returns: the worker it joins sees the stop    *)
(* flag wherever it is in its loop, also when it spins because it cannot   *)
(* create slots.                                                           *)
(***************************************************************************)
ShutdownReturns == (pc[Closer] # "idle") ~> (pc[Closer] = "done")

===============================================================================
