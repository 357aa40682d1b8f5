--------------------------- MODULE LeadershipProofs ---------------------------
(***************************************************************************)
(* One replica serves at a time, for any number of replicas and any timing *)
(* that the configuration check accepts with the time an answer takes.     *)
(***************************************************************************)
EXTENDS Failover, TLAPS

\* What the leases of the replicas and a leader's own clock have in common is
\* kept by the passing of time.
LEMMA TickKeeps ==
    ASSUME LeaseInvariant, LeadershipTick
    PROVE  LeaseInvariant'
<1> USE ConfigAssumption
<1>1. LeadershipTypeOK'
  BY DEF LeaseInvariant, LeadershipTypeOK, LeadershipTick, Down
<1>2. \A r \in Replica, s \in seen :
        phase[r] = "leading" /\ s # r => lease'[s] > deadline'[r]
  BY DEF LeaseInvariant, LeadershipTypeOK, LeadershipTick, Down
<1>3. \A r \in pending, s \in seen :
        s # r => lease'[s] + Latency >= LeaseDuration + latency'[r]
  BY DEF LeaseInvariant, LeadershipTypeOK, LeadershipTick, Down
<1> QED BY <1>1, <1>2, <1>3 DEF LeaseInvariant, LeadershipTick

\* A replica takes the lease only when nobody leads: for it the lease of a
\* leader has not run out.
LEMMA AcquireKeeps ==
    ASSUME LeaseInvariant, NEW r \in Replica, Acquire(r)
    PROVE  LeaseInvariant'
<1> USE ConfigAssumption
<1>1. \A q \in Replica : phase[q] # "leading"
  BY DEF LeaseInvariant, LeadershipTypeOK, Acquire
<1>2. LeadershipTypeOK'
  BY DEF LeaseInvariant, LeadershipTypeOK, Acquire
<1> QED BY <1>1, <1>2 DEF LeaseInvariant, LeadershipTypeOK, Acquire

\* A standby that sees a lease starts its clock, and a leader's answer its own.
LEMMA RenewalKeeps ==
    ASSUME LeaseInvariant, NEW r \in Replica,
           Observe(r) \/ WriteRenewal(r) \/ Renewed(r)
    PROVE  LeaseInvariant'
<1> USE ConfigAssumption
<1>1. CASE Observe(r)
  BY <1>1 DEF LeaseInvariant, LeadershipTypeOK, Observe, replicaVars
<1>2. CASE WriteRenewal(r)
  BY <1>2 DEF LeaseInvariant, LeadershipTypeOK, WriteRenewal, replicaVars
<1>3. CASE Renewed(r)
  BY <1>3 DEF LeaseInvariant, LeadershipTypeOK, Renewed, replicaVars
<1> QED BY <1>1, <1>2, <1>3

\* A replica that ends or starts again takes nothing from the others.
LEMMA EndKeeps ==
    ASSUME LeaseInvariant, NEW r \in Replica,
           LostLease(r) \/ Signalled(r) \/ Drained(r) \/ Restarted(r) \/ Enter(r) \/ Leave(r)
    PROVE  LeaseInvariant'
<1> USE ConfigAssumption
<1>1. CASE LostLease(r)
  BY <1>1 DEF LeaseInvariant, LeadershipTypeOK, LostLease, Ended
<1>2. CASE Signalled(r)
  BY <1>2 DEF LeaseInvariant, LeadershipTypeOK, Signalled, Ended
<1>3. CASE Drained(r)
  BY <1>3 DEF LeaseInvariant, LeadershipTypeOK, Drained, leaseVars
<1>4. CASE Restarted(r)
  BY <1>4 DEF LeaseInvariant, LeadershipTypeOK, Restarted
<1>5. CASE Enter(r)
  BY <1>5 DEF LeaseInvariant, LeadershipTypeOK, Enter, leaseVars
<1>6. CASE Leave(r)
  BY <1>6 DEF LeaseInvariant, LeadershipTypeOK, Leave, leaseVars
<1> QED BY <1>1, <1>2, <1>3, <1>4, <1>5, <1>6

LEMMA LeadershipStepKeeps ==
    LeaseInvariant /\ [LeadershipNext]_leadershipVars => LeaseInvariant'
<1> SUFFICES ASSUME LeaseInvariant, [LeadershipNext]_leadershipVars
             PROVE  LeaseInvariant'
  OBVIOUS
<1>1. CASE LeadershipTick
  BY <1>1, TickKeeps
<1>2. ASSUME NEW r \in Replica, ReplicaStep(r) PROVE LeaseInvariant'
  BY <1>2, AcquireKeeps, RenewalKeeps, EndKeeps DEF ReplicaStep
<1>3. CASE UNCHANGED leadershipVars
  BY <1>3 DEF leadershipVars, leaseVars, replicaVars, LeaseInvariant, LeadershipTypeOK
<1> QED BY <1>1, <1>2, <1>3 DEF LeadershipNext

LEMMA LeaseInvariantServes == LeaseInvariant => OneServes
BY DEF LeaseInvariant, OneServes

(***************************************************************************)
(* From the first election on, no two replicas let calls in at the same    *)
(* time (onStartedLeading, onStoppedLeading, GateInterceptor).             *)
(***************************************************************************)
THEOREM ElectionServesOne == LeadershipSpec => []OneServes
<1>1. LeadershipInit => LeaseInvariant
  BY ConfigAssumption DEF LeadershipInit, LeaseInvariant, LeadershipTypeOK
<1> QED BY <1>1, LeadershipStepKeeps, LeaseInvariantServes, PTL DEF LeadershipSpec

(***************************************************************************)
(* Every step of a failover, reporter and routing included, is a step of   *)
(* the election or leaves it alone, so one replica serves there too.       *)
(***************************************************************************)
THEOREM FailoverServesOne == Spec => []OneServes
<1>1. Init => LeaseInvariant
  <2> SUFFICES ASSUME Init PROVE LeaseInvariant
    OBVIOUS
  <2>1. PICK r \in Replica :
          /\ holder = r
          /\ phase = [q \in Replica |-> IF q = r THEN "leading" ELSE "standby"]
          /\ isLeader = [q \in Replica |-> q = r]
          /\ deadline = [q \in Replica |-> IF q = r THEN RetryPeriod + RenewDeadline ELSE 0]
    BY DEF Init
  <2>2. isLeader \in [Replica -> BOOLEAN]
    BY <2>1, Zenon
  <2>3. \A q \in Replica : isLeader[q] <=> phase[q] = "leading"
    <3> SUFFICES ASSUME NEW q \in Replica PROVE isLeader[q] <=> phase[q] = "leading"
      OBVIOUS
    <3>1. isLeader[q] = (q = r)
      BY <2>1, Zenon
    <3>2. (q = r) <=> phase[q] = "leading"
      BY <2>1
    <3> QED BY <3>1, <3>2, Zenon
  <2>4. LeadershipTypeOK
    BY <2>1, <2>2, ConfigAssumption DEF Init, LeadershipTypeOK
  <2> QED BY <2>1, <2>3, <2>4 DEF Init, LeaseInvariant
<1>2. [Next]_vars => [LeadershipNext]_leadershipVars
  <2> SUFFICES ASSUME [Next]_vars PROVE [LeadershipNext]_leadershipVars
    OBVIOUS
  <2>1. CASE Tick
    BY <2>1 DEF Tick, LeadershipNext
  <2>2. ASSUME NEW r \in Replica,
               Attempt(r) \/ Renew(r) \/ Lose(r) \/ Exit(r) \/ Restart(r) \/ Call(r)
        PROVE  LeadershipNext
    BY <2>2 DEF Attempt, Renew, Lose, Exit, Restart, Call, LeadershipNext, ReplicaStep
  <2>3. ASSUME NEW r \in Replica, IdleAttempt(r) PROVE UNCHANGED leadershipVars
    BY <2>3 DEF IdleAttempt
  <2>4. CASE Heartbeat \/ HeartbeatFailed
    BY <2>4 DEF Heartbeat, HeartbeatFailed
  <2>5. CASE UNCHANGED vars
    BY <2>5 DEF vars
  <2> QED BY <2>1, <2>2, <2>3, <2>4, <2>5 DEF Next
<1> QED BY <1>1, <1>2, LeadershipStepKeeps, LeaseInvariantServes, PTL DEF Spec
================================================================================
