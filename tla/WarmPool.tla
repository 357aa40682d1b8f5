------------------------------- MODULE WarmPool -------------------------------
(***************************************************************************)
(* The generic pool of idle resources of crates/warm-pool: a deque of idle *)
(* resources, a refill target that ratchets up under acquisition pressure, *)
(* and the signal of the maintenance worker.  The threads that call it are *)
(* those of the pool's owner, module NetworkManager.                       *)
(*                                                                         *)
(* Each operator below is one critical section of the code: the mutexes    *)
(* pool, fill_target and maintenance_signal are never held together.       *)
(***************************************************************************)
EXTENDS Naturals, Sequences

CONSTANTS
    LowWatermark,       \* PoolConfig.low_watermark
    HighWatermark,      \* PoolConfig.high_watermark
    MaintenanceEnabled  \* PoolConfig.maintenance_enabled

VARIABLES
    pool,           \* the idle resources, front first
    fillTarget,     \* the refill target
    pending,        \* maintenance_signal.pending
    stop,           \* maintenance_signal.stop
    started,        \* maintenance_started
    handle,         \* whether maintenance_worker holds the JoinHandle
    poolShut        \* WarmPool.shutting_down

poolVars == <<pool, fillTarget, pending, stop, started, handle, poolShut>>

(***************************************************************************)
(* PoolConfig::validate clamps the low watermark, so the assumption is     *)
(* what every pool that exists satisfies.                                  *)
(***************************************************************************)
ASSUME WatermarksAssumption ==
    /\ LowWatermark \in Nat
    /\ HighWatermark \in Nat
    /\ LowWatermark <= HighWatermark
    /\ MaintenanceEnabled \in BOOLEAN

Least(a, b) == IF a <= b THEN a ELSE b
Greatest(a, b) == IF a >= b THEN a ELSE b

NewPool ==
    /\ pool = <<>>
    /\ fillTarget = LowWatermark
    /\ pending = FALSE
    /\ stop = FALSE
    /\ started = FALSE
    /\ handle = FALSE
    /\ poolShut = FALSE

CurrentFillTarget == Least(fillTarget, HighWatermark)

(***************************************************************************)
(* compute_maintenance_action: how many resources to create, or to drain.  *)
(***************************************************************************)
ToFill(len) == IF len < CurrentFillTarget THEN CurrentFillTarget - len ELSE 0

ToDrain(len) == IF len > HighWatermark THEN len - HighWatermark ELSE 0

MaintenanceIdle(len) == ToFill(len) = 0 /\ ToDrain(len) = 0

GrownFillTarget(len) ==
    IF len >= LowWatermark \/ HighWatermark = 0
    THEN fillTarget
    ELSE Least(2 * Greatest(Greatest(fillTarget, LowWatermark), 1), HighWatermark)

(***************************************************************************)
(* The value of pending after request_maintenance, when wanted.            *)
(***************************************************************************)
Requested(wanted) ==
    pending \/ (wanted /\ MaintenanceEnabled /\ ~poolShut /\ ~stop)

(***************************************************************************)
(* record_acquisition_pressure, for the length the acquisition left.  The  *)
(* growth comes first and its result decides whether to wake the worker.   *)
(***************************************************************************)
RecordPressure(len) ==
    LET target == GrownFillTarget(len)
    IN  /\ fillTarget' = target
        /\ pending' = Requested(len < Least(target, HighWatermark))

(***************************************************************************)
(* release accepts a resource unless the pool shuts down, or is full and   *)
(* has no worker to drain it; try_push_bounded never exceeds the limit.    *)
(***************************************************************************)
\* Mutants: release does not look at the flag again under the lock; a refill
\* stops one short of the limit.
ReleaseAcceptedUnchecked == MaintenanceEnabled \/ Len(pool) < HighWatermark
PushAcceptedBelow == ~poolShut /\ Len(pool) + 1 < HighWatermark

ReleaseAccepted ==
    ~poolShut /\ (MaintenanceEnabled \/ Len(pool) < HighWatermark)

PushAccepted == ~poolShut /\ Len(pool) < HighWatermark

===============================================================================
