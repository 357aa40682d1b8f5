------------------------------ MODULE Leadership ------------------------------
(***************************************************************************)
(* Leader election among the scheduler's replicas: the lease, the flag by  *)
(* which a replica lets calls in, and how a replica ends.                  *)
(*                                                                         *)
(* The election is client-go's.  It is modelled from the configuration and *)
(* the callbacks the scheduler gives it and from what the configuration    *)
(* check says of its timing: a leader tries to renew from RetryPeriod      *)
(* after its last renewal on and gives up RenewDeadline later; a standby   *)
(* may take over LeaseDuration after it has seen the lease change last.    *)
(*                                                                         *)
(* Time passes in ticks; the clocks of the replicas only run down.         *)
(***************************************************************************)
EXTENDS Naturals

CONSTANTS
    Replica, NoReplica,
    LeaseDuration, RenewDeadline, RetryPeriod,
    Latency,        \* from the write of a renewal to its answer
    DrainTime       \* how long a graceful stop waits for calls

VARIABLES
    holder,         \* the replica in the lease record
    seen,           \* the replicas that have seen the record as it is
    lease,          \* per replica, how long the lease is valid for it
    deadline,       \* per leader, the time left to its next renewal
    pending,        \* the leader's renewal is written and not answered
    latency,        \* the time left to its answer
    phase,          \* "standby", "leading", "draining" or "exited"
    isLeader,       \* the flag that opens the gate
    drain,          \* per replica that drains, the time left to it
    inflight        \* the replicas with a call behind the gate

leaseVars == <<holder, seen, lease, deadline, pending, latency>>
replicaVars == <<phase, isLeader, drain, inflight>>
leadershipVars == <<leaseVars, replicaVars>>

\* The check of the configuration, with what an answer may take.
ASSUME ConfigAssumption ==
    /\ NoReplica \notin Replica
    /\ LeaseDuration \in Nat /\ RenewDeadline \in Nat /\ RetryPeriod \in Nat
    /\ Latency \in Nat /\ DrainTime \in Nat
    /\ LeaseDuration > RenewDeadline + RetryPeriod + Latency

LeadershipTypeOK ==
    /\ holder \in Replica \cup {NoReplica}
    /\ seen \in SUBSET Replica
    /\ lease \in [Replica -> 0..LeaseDuration]
    /\ deadline \in [Replica -> 0..(RenewDeadline + RetryPeriod)]
    /\ pending \in SUBSET Replica
    /\ latency \in [Replica -> 0..Latency]
    /\ phase \in [Replica -> {"standby", "leading", "draining", "exited"}]
    /\ isLeader \in [Replica -> BOOLEAN]
    /\ drain \in [Replica -> 0..DrainTime]
    /\ inflight \in SUBSET Replica

LeadershipInit ==
    /\ holder = NoReplica
    /\ seen = {}
    /\ lease = [r \in Replica |-> 0]
    /\ deadline = [r \in Replica |-> 0]
    /\ pending = {}
    /\ latency = [r \in Replica |-> 0]
    /\ phase = [r \in Replica |-> "standby"]
    /\ isLeader = [r \in Replica |-> FALSE]
    /\ drain = [r \in Replica |-> 0]
    /\ inflight = {}

--------------------------------------------------------------------------------
(***************************************************************************)
(* A standby's attempt: it notices that the record has changed, or takes a *)
(* lease that has run out for it.  The update fails when the record has    *)
(* changed since.  onStartedLeading opens the gate.                        *)
(***************************************************************************)
Observe(r) ==
    /\ phase[r] = "standby" /\ r \notin seen
    /\ seen' = seen \cup {r}
    /\ lease' = [lease EXCEPT ![r] = IF holder = NoReplica THEN 0 ELSE LeaseDuration]
    /\ UNCHANGED <<holder, deadline, pending, latency, replicaVars>>

\* Mutant: the lease is taken as soon as it has been seen.
AcquireEarly(r) ==
    /\ phase[r] = "standby" /\ r \in seen
    /\ holder' = r
    /\ seen' = {}
    /\ deadline' = [deadline EXCEPT ![r] = RetryPeriod + RenewDeadline]
    /\ phase' = [phase EXCEPT ![r] = "leading"]
    /\ isLeader' = [isLeader EXCEPT ![r] = TRUE]
    /\ UNCHANGED <<lease, pending, latency, drain, inflight>>

Acquire(r) ==
    /\ phase[r] = "standby" /\ r \in seen /\ lease[r] = 0
    /\ holder' = r
    /\ seen' = {}
    /\ deadline' = [deadline EXCEPT ![r] = RetryPeriod + RenewDeadline]
    /\ phase' = [phase EXCEPT ![r] = "leading"]
    /\ isLeader' = [isLeader EXCEPT ![r] = TRUE]
    /\ UNCHANGED <<lease, pending, latency, drain, inflight>>

\* The renewal reaches the lease, and its answer the leader.
WriteRenewal(r) ==
    /\ phase[r] = "leading" /\ holder = r /\ r \notin pending
    /\ deadline[r] <= RenewDeadline
    /\ seen' = {}
    /\ pending' = pending \cup {r}
    /\ latency' = [latency EXCEPT ![r] = Latency]
    /\ UNCHANGED <<holder, lease, deadline, replicaVars>>

Renewed(r) ==
    /\ phase[r] = "leading" /\ r \in pending
    /\ pending' = pending \ {r}
    /\ deadline' = [deadline EXCEPT ![r] = RetryPeriod + RenewDeadline]
    /\ UNCHANGED <<holder, seen, lease, latency, replicaVars>>

(***************************************************************************)
(* The end of an election: the flag is taken back, and the process stops   *)
(* at once when it has lost the lease, leaving what is behind the gate; on *)
(* a signal it drains.  The lease is not released.                         *)
(***************************************************************************)
Ended(r) ==
    /\ isLeader' = [isLeader EXCEPT ![r] = FALSE]
    /\ pending' = pending \ {r}
    /\ UNCHANGED <<holder, seen, lease, deadline, latency>>

LostLease(r) ==
    /\ phase[r] = "leading"
    /\ phase' = [phase EXCEPT ![r] = "exited"]
    /\ inflight' = inflight \ {r}
    /\ Ended(r)
    /\ UNCHANGED drain

Signalled(r) ==
    /\ phase[r] \in {"standby", "leading"}
    /\ phase' = [phase EXCEPT ![r] = "draining"]
    /\ drain' = [drain EXCEPT ![r] = DrainTime]
    /\ Ended(r)
    /\ UNCHANGED inflight

Drained(r) ==
    /\ phase[r] = "draining" /\ (r \notin inflight \/ drain[r] = 0)
    /\ phase' = [phase EXCEPT ![r] = "exited"]
    /\ inflight' = inflight \ {r}
    /\ UNCHANGED <<leaseVars, isLeader, drain>>

\* The pod is started again.
Restarted(r) ==
    /\ phase[r] = "exited"
    /\ phase' = [phase EXCEPT ![r] = "standby"]
    /\ seen' = seen \ {r}
    /\ UNCHANGED <<holder, lease, deadline, pending, latency, isLeader, drain, inflight>>

\* GateInterceptor, and the end of a call.
Enter(r) ==
    /\ isLeader[r] /\ r \notin inflight
    /\ inflight' = inflight \cup {r}
    /\ UNCHANGED <<leaseVars, phase, isLeader, drain>>

Leave(r) ==
    /\ r \in inflight
    /\ inflight' = inflight \ {r}
    /\ UNCHANGED <<leaseVars, phase, isLeader, drain>>

Down(c) == [r \in Replica |-> IF c[r] = 0 THEN 0 ELSE c[r] - 1]

(***************************************************************************)
(* A tick.  No leader outlives its deadline, no answer comes later than    *)
(* Latency after the write, and no drain takes longer than it may.         *)
(***************************************************************************)
LeadershipTick ==
    /\ \A r \in Replica : phase[r] = "leading" => deadline[r] > 0
    /\ \A r \in pending : latency[r] > 0
    /\ \A r \in Replica : phase[r] = "draining" => drain[r] > 0
    /\ lease' = Down(lease)
    /\ deadline' = Down(deadline)
    /\ latency' = Down(latency)
    /\ drain' = Down(drain)
    /\ UNCHANGED <<holder, seen, pending, phase, isLeader, inflight>>

ReplicaStep(r) ==
    \/ Observe(r) \/ Acquire(r) \/ WriteRenewal(r) \/ Renewed(r)
    \/ LostLease(r) \/ Signalled(r) \/ Drained(r) \/ Restarted(r)
    \/ Enter(r) \/ Leave(r)

LeadershipNext == LeadershipTick \/ \E r \in Replica : ReplicaStep(r)

LeadershipSpec == LeadershipInit /\ [][LeadershipNext]_leadershipVars

--------------------------------------------------------------------------------
(***************************************************************************)
(* No two replicas let calls in at the same time: the flag of the old      *)
(* leader, which it drops on its own clock, is gone before a standby takes *)
(* the lease on its own.                                                   *)
(***************************************************************************)
OneServes == \A r, q \in Replica : isLeader[r] /\ isLeader[q] => r = q

(***************************************************************************)
(* A replica that drains after a signal has no call behind the gate any    *)
(* more when another one leads: the lease is held until the process exits. *)
(***************************************************************************)
NoOverlap ==
    \A r, q \in Replica : r \in inflight /\ isLeader[q] => r = q

--------------------------------------------------------------------------------
(***************************************************************************)
(* The inductive invariant under OneServes.  Who leads is in the record,   *)
(* and the lease outlasts its deadline on the clock of every other replica *)
(* that has seen the record as it is; a renewal that is written and not    *)
(* answered is as old, for whoever has seen it, as its answer is late.     *)
(***************************************************************************)
LeaseInvariant ==
    /\ LeadershipTypeOK
    /\ \A r \in Replica : isLeader[r] <=> phase[r] = "leading"
    /\ \A r \in Replica : phase[r] = "leading" => holder = r
    /\ \A r \in pending : phase[r] = "leading"
    /\ \A r \in Replica, s \in seen :
         phase[r] = "leading" /\ s # r => lease[s] > deadline[r]
    /\ \A r \in pending, s \in seen :
         s # r => lease[s] + Latency >= LeaseDuration + latency[r]

================================================================================
