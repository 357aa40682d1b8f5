------------------------------- MODULE Failover -------------------------------
(***************************************************************************)
(* A change of leader as a sandbox on a live node sees it.  The binding of *)
(* the sandbox is in the shared store, with a time to live that only the   *)
(* heartbeats of its node renew; a heartbeat needs a leader that the       *)
(* service routes to, and a reporter that has failed backs off.            *)
(***************************************************************************)
EXTENDS Leadership

CONSTANTS
    PollPeriod,     \* the longest time between two attempts of a standby
    Propagation,    \* from the health status of a leader to its endpoint
    Interval, MaxReportBackoff,
    CallTimeout,    \* of a connection and a call
    BindingTTL, FailoverAllowance,
    MaxLosses       \* leaders lost

VARIABLES
    poll,           \* per standby, the time left to its next attempt
    route,          \* per leader, the time left until it is routed to
    calling,        \* a heartbeat is on its way and will fail
    wait,           \* the time left to the next heartbeat, or to its failure
    backoff,
    binding,        \* the time the binding still has
    losses

reporterVars == <<calling, wait, backoff, binding>>
vars == <<leadershipVars, poll, route, reporterVars, losses>>

ASSUME ReporterAssumption ==
    /\ {PollPeriod, Interval, MaxReportBackoff, CallTimeout} \subseteq Nat \ {0}
    /\ {Propagation, BindingTTL, FailoverAllowance, MaxLosses} \subseteq Nat

AtLeast(a, b) == IF a < b THEN b ELSE a
AtMost(a, b) == IF a < b THEN a ELSE b

\* Mutant: the configured time to live is used as it is.
ConfiguredBindingTTL == BindingTTL

EffectiveBindingTTL == AtLeast(BindingTTL, LeaseDuration + FailoverAllowance)

(***************************************************************************)
(* The system has been up for a while: r leads, is routed to and has just  *)
(* renewed its lease, and the node has just been heard.                    *)
(***************************************************************************)
Init ==
    /\ \E r \in Replica :
         /\ holder = r
         /\ phase = [q \in Replica |-> IF q = r THEN "leading" ELSE "standby"]
         /\ isLeader = [q \in Replica |-> q = r]
         /\ deadline = [q \in Replica |-> IF q = r THEN RetryPeriod + RenewDeadline ELSE 0]
    /\ seen = {}
    /\ lease = [r \in Replica |-> 0]
    /\ pending = {}
    /\ latency = [r \in Replica |-> 0]
    /\ drain = [r \in Replica |-> 0]
    /\ inflight = {}
    /\ poll = [r \in Replica |-> PollPeriod]
    /\ route = [r \in Replica |-> 0]
    /\ calling = FALSE
    /\ wait = Interval
    /\ backoff = Interval
    /\ binding = EffectiveBindingTTL
    /\ losses = 0

--------------------------------------------------------------------------------
\* A standby's attempt, which sets the time of the next one, and its becoming
\* the leader, from which on it takes Propagation to be routed to.
Attempt(r) ==
    /\ Observe(r) \/ Acquire(r)
    /\ poll' = [poll EXCEPT ![r] = PollPeriod]
    /\ route' = [route EXCEPT ![r] = Propagation]
    /\ UNCHANGED <<reporterVars, losses>>

\* The lease has not changed and is still valid.
IdleAttempt(r) ==
    /\ phase[r] = "standby" /\ r \in seen /\ lease[r] > 0 /\ poll[r] = 0
    /\ poll' = [poll EXCEPT ![r] = PollPeriod]
    /\ UNCHANGED <<leadershipVars, route, reporterVars, losses>>

Renew(r) ==
    /\ WriteRenewal(r) \/ Renewed(r)
    /\ UNCHANGED <<poll, route, reporterVars, losses>>

\* A leader ends, for one of the reasons it may.
Lose(r) ==
    /\ losses < MaxLosses
    /\ phase[r] = "leading"
    /\ LostLease(r) \/ Signalled(r)
    /\ losses' = losses + 1
    /\ UNCHANGED <<poll, route, reporterVars>>

Exit(r) ==
    /\ Drained(r)
    /\ UNCHANGED <<poll, route, reporterVars, losses>>

Restart(r) ==
    /\ Restarted(r)
    /\ poll' = [poll EXCEPT ![r] = PollPeriod]
    /\ UNCHANGED <<route, reporterVars, losses>>

\* Calls of others, which a drain waits for.
Call(r) ==
    /\ Enter(r) \/ Leave(r)
    /\ UNCHANGED <<poll, route, reporterVars, losses>>

Routed == \E r \in Replica : isLeader[r] /\ route[r] = 0

(***************************************************************************)
(* The reporter's loop: a heartbeat that is handled renews the binding; a  *)
(* call to no leader fails, at once or at its timeout, and the next        *)
(* heartbeat waits for the backoff, which doubles.                         *)
(***************************************************************************)
Heartbeat ==
    /\ ~calling /\ wait = 0
    /\ \/ /\ Routed
          /\ wait' = Interval
          /\ backoff' = Interval
          /\ binding' = EffectiveBindingTTL
          /\ UNCHANGED calling
       \/ /\ ~Routed
          /\ calling' = TRUE
          /\ wait' \in {0, CallTimeout}
          /\ UNCHANGED <<backoff, binding>>
    /\ UNCHANGED <<leadershipVars, poll, route, losses>>

HeartbeatFailed ==
    /\ calling /\ wait = 0
    /\ calling' = FALSE
    /\ wait' = backoff
    /\ backoff' = AtMost(2 * backoff, MaxReportBackoff)
    /\ UNCHANGED <<leadershipVars, poll, route, binding, losses>>

\* A tick; what is due happens first, and a leader renews in time unless it is
\* to be lost.
Tick ==
    /\ LeadershipTick
    /\ \A r \in Replica : phase[r] = "standby" => poll[r] > 0
    /\ wait > 0
    /\ poll' = Down(poll)
    /\ route' = Down(route)
    /\ wait' = wait - 1
    /\ binding' = IF binding = 0 THEN 0 ELSE binding - 1
    /\ UNCHANGED <<calling, backoff, losses>>

Next ==
    \/ Tick
    \/ \E r \in Replica : Attempt(r) \/ IdleAttempt(r) \/ Renew(r) \/ Lose(r)
                           \/ Exit(r) \/ Restart(r) \/ Call(r)
    \/ Heartbeat \/ HeartbeatFailed

Spec == Init /\ [][Next]_vars

--------------------------------------------------------------------------------
(***************************************************************************)
(* However a leader is lost, and whatever the reporter's backoff has grown *)
(* to by the time the next one is routed to, the binding of a sandbox on a *)
(* live node is renewed before it expires: no lookup in the shared store   *)
(* answers that the sandbox does not exist.                                *)
(***************************************************************************)
NeverNotFound == binding > 0

================================================================================
