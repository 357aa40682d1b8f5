------------------------------- MODULE Scheduler -------------------------------
(***************************************************************************)
(* The scheduler service between the gateway that places sandboxes and the *)
(* nodes that report what they have.                                       *)
(*                                                                         *)
(* A node's reporter sends one heartbeat after the other, each with the    *)
(* sandboxes it has at that moment, and gives a call up after a timeout;   *)
(* the scheduler goes on with a call that was given up.  A handler stamps  *)
(* the call when it starts, takes it into the registry, and reconciles the *)
(* bindings, in three steps; calls of one node may overtake each other at  *)
(* each of them.  A scheduler that has just become leader also pulls a     *)
(* report from each node it knows, once; it reconciles nothing with it.    *)
(*                                                                         *)
(* Time is left out: a report is stale when a call stamped after it has    *)
(* been taken in.  What may go wrong (a timeout, a crash, a change of the  *)
(* discovered nodes, a lost record, an expiry, a stop, a second start)     *)
(* happens at most MaxMishaps times.                                       *)
(***************************************************************************)
EXTENDS BindingStore, Sequences, SequencesExt

CONSTANTS
    Pulled,         \* the nodes a new leader pulls reports from
    MaxInFlight,    \* calls of a node on the way or being handled
    MaxMishaps

VARIABLES
    up,             \* per node: "up", "stopping" or "down"
    inst,           \* the service instance of the node's process
    hosted,         \* the sandboxes the node has
    waiting,        \* the node's reporter waits for an answer
    succeeded,      \* some heartbeat of this instance was answered
    received,       \* the CPU configuration this instance was given
    tries,          \* attempts to unregister
    sent,           \* per node, the calls on their way
    calls,          \* per node, the calls being handled, in the order of stamps
    pulls,          \* the nodes still to be pulled
    gateway,        \* per sandbox: where its creation is
    target,         \* the node it was scheduled on
    mishaps, flawless

nodeVars == <<up, inst, hosted, waiting, succeeded, received, tries>>
callVars == <<sent, calls, pulls>>
gatewayVars == <<gateway, target>>
vars == <<registryVars, storeVars, nodeVars, callVars, gatewayVars, mishaps, flawless>>

UnregisterAttempts == 3

ASSUME BoundsAssumption ==
    Pulled \subseteq Node /\ MaxInFlight \in Nat \ {0} /\ MaxMishaps \in Nat

Call == [kind : {"heartbeat", "unregister", "pull"}, inst : Nat,
         roster : SUBSET Sandbox, cpu : BOOLEAN, live : BOOLEAN,
         state : {"fresh", "stale", "beaten", "taken"}, answer : SUBSET Node]

TypeOK ==
    /\ RegistryTypeOK /\ StoreTypeOK
    /\ up \in [Node -> {"up", "stopping", "down"}]
    /\ inst \in [Node -> Nat]
    /\ hosted \in [Node -> SUBSET Sandbox]
    /\ waiting \in [Node -> BOOLEAN] /\ succeeded \in [Node -> BOOLEAN]
    /\ received \in [Node -> SUBSET Node]
    /\ tries \in [Node -> 0..UnregisterAttempts]
    /\ sent \in [Node -> SUBSET Call] /\ calls \in [Node -> Seq(Call)]
    /\ pulls \in SUBSET Node
    /\ gateway \in [Sandbox -> {"new", "scheduled", "created", "done"}]
    /\ target \in [Sandbox -> Node \cup {NoNode}]
    /\ mishaps \in 0..MaxMishaps /\ flawless \in BOOLEAN

Init ==
    /\ NewRegistry
    /\ NewBindingStore
    /\ up = [n \in Node |-> "up"]
    /\ inst = [n \in Node |-> 0]
    /\ hosted = [n \in Node |-> {}]
    /\ waiting = [n \in Node |-> FALSE]
    /\ succeeded = [n \in Node |-> FALSE]
    /\ received = [n \in Node |-> {}]
    /\ tries = [n \in Node |-> 0]
    /\ sent = [n \in Node |-> {}]
    /\ calls = [n \in Node |-> <<>>]
    /\ pulls = Pulled
    /\ gateway = [s \in Sandbox |-> "new"]
    /\ target = [s \in Sandbox |-> NoNode]
    /\ mishaps = 0
    /\ flawless = TRUE

\* What goes wrong spends from the budget; spoils says that it may cost a node
\* its CPU configuration.
Mishap(spoils) ==
    /\ mishaps < MaxMishaps
    /\ mishaps' = mishaps + 1
    /\ flawless' = (flawless /\ ~spoils)
AsPlanned == UNCHANGED <<mishaps, flawless>>

InFlight(n) == Cardinality(sent[n]) + Len(calls[n])
GivenUp(c) == [c EXCEPT !.live = FALSE]

--------------------------------------------------------------------------------
(***************************************************************************)
(* The gateway: handleProxy for a request that creates a sandbox.          *)
(***************************************************************************)
\* Schedule: every strategy picks one of the nodes that do not linger.
Schedule(s) ==
    /\ gateway[s] = "new"
    /\ \E n \in nodesByID \ lingeringIDs :
         /\ gateway' = [gateway EXCEPT ![s] = "scheduled"]
         /\ target' = [target EXCEPT ![s] = n]
    /\ AsPlanned
    /\ UNCHANGED <<registryVars, storeVars, nodeVars, callVars>>

ProxyRequest(s) ==
    /\ gateway[s] = "scheduled"
    /\ LET n == target[s] IN
         IF up[n] = "up"
         THEN /\ hosted' = [hosted EXCEPT ![n] = @ \cup {s}]
              /\ gateway' = [gateway EXCEPT ![s] = "created"]
         ELSE /\ gateway' = [gateway EXCEPT ![s] = "done"]
              /\ UNCHANGED hosted
    /\ AsPlanned
    /\ UNCHANGED <<registryVars, storeVars, up, inst, waiting, succeeded,
                   received, tries, callVars, target>>

\* recordAssignment: a node that is not listed is refused, and an error is only
\* logged when a sandbox was created.
RecordAssignment(s) ==
    /\ gateway[s] = "created"
    /\ gateway' = [gateway EXCEPT ![s] = "done"]
    /\ \/ target[s] \in nodesByID /\ RecordBinding(s, target[s]) /\ AsPlanned
       \/ target[s] \notin nodesByID /\ UNCHANGED storeVars /\ AsPlanned
       \/ UNCHANGED storeVars /\ Mishap(FALSE)
    /\ UNCHANGED <<registryVars, nodeVars, callVars, target>>

\* The start of a template build is routed like a creation, and a client may start
\* a build again that has ended, on whatever node it is then scheduled.
StartAgain(s) ==
    /\ gateway[s] = "done" /\ \A n \in Node : s \notin hosted[n]
    /\ gateway' = [gateway EXCEPT ![s] = "new"]
    /\ Mishap(FALSE)
    /\ UNCHANGED <<registryVars, storeVars, nodeVars, callVars, target>>

\* A lookup that finds the binding expired.
LookupExpired(s) ==
    /\ bindings[s] # NoNode
    /\ Delete({s})
    /\ Mishap(FALSE)
    /\ UNCHANGED <<registryVars, nodeVars, callVars, gatewayVars>>

\* The sandbox is deleted on its node, by a client or at its timeout.
SandboxEnds(n, s) ==
    /\ up[n] = "up" /\ s \in hosted[n]
    /\ hosted' = [hosted EXCEPT ![n] = @ \ {s}]
    /\ AsPlanned
    /\ UNCHANGED <<registryVars, storeVars, up, inst, waiting, succeeded,
                   received, tries, callVars, gatewayVars>>

--------------------------------------------------------------------------------
(***************************************************************************)
(* The node's reporter.                                                    *)
(***************************************************************************)
Send(n, kind, roster, cpu) ==
    /\ InFlight(n) < MaxInFlight
    /\ sent' = [sent EXCEPT ![n] = @ \cup
         {[kind |-> kind, inst |-> inst[n], roster |-> roster, cpu |-> cpu,
           live |-> TRUE, state |-> "fresh", answer |-> {}]}]
    /\ waiting' = [waiting EXCEPT ![n] = TRUE]
    /\ UNCHANGED <<calls, pulls>>

\* send_heartbeat: the CPU configuration goes along until an answer has come.
SendHeartbeat(n) ==
    /\ up[n] = "up" /\ ~waiting[n]
    /\ Send(n, "heartbeat", hosted[n], ~succeeded[n])
    /\ AsPlanned
    /\ UNCHANGED <<registryVars, storeVars, up, inst, hosted, succeeded,
                   received, tries, gatewayVars>>

\* The call's deadline; the scheduler does not hear of it.
Timeout(n) ==
    /\ waiting[n]
    /\ waiting' = [waiting EXCEPT ![n] = FALSE]
    /\ sent' = [sent EXCEPT ![n] = {GivenUp(c) : c \in @}]
    /\ calls' = [calls EXCEPT ![n] = [k \in DOMAIN @ |-> GivenUp(@[k])]]
    /\ Mishap(TRUE)
    /\ UNCHANGED <<registryVars, storeVars, up, inst, hosted, succeeded,
                   received, tries, pulls, gatewayVars>>

\* A call that was given up before it reached the scheduler need not reach it.
Lost(n) ==
    /\ \E c \in sent[n] : ~c.live /\ sent' = [sent EXCEPT ![n] = @ \ {c}]
    /\ AsPlanned
    /\ UNCHANGED <<registryVars, storeVars, nodeVars, calls, pulls, gatewayVars>>

\* shutdown: the heartbeat task ends between two heartbeats, and a node that has
\* never been answered does not unregister.
Stop(n) ==
    /\ up[n] = "up" /\ ~waiting[n]
    /\ up' = [up EXCEPT ![n] = IF succeeded[n] THEN "stopping" ELSE "down"]
    /\ tries' = [tries EXCEPT ![n] = 0]
    /\ Mishap(FALSE)
    /\ UNCHANGED <<registryVars, storeVars, inst, hosted, waiting, succeeded,
                   received, callVars, gatewayVars>>

UnregisterNode(n) ==
    /\ up[n] = "stopping" /\ ~waiting[n]
    /\ IF tries[n] < UnregisterAttempts
       THEN /\ Send(n, "unregister", {}, FALSE)
            /\ tries' = [tries EXCEPT ![n] = @ + 1]
            /\ UNCHANGED up
       ELSE /\ up' = [up EXCEPT ![n] = "down"]
            /\ UNCHANGED <<tries, callVars, waiting>>
    /\ AsPlanned
    /\ UNCHANGED <<registryVars, storeVars, inst, hosted, succeeded, received,
                   gatewayVars>>

Crash(n) ==
    /\ up[n] # "down"
    /\ up' = [up EXCEPT ![n] = "down"]
    /\ waiting' = [waiting EXCEPT ![n] = FALSE]
    /\ sent' = [sent EXCEPT ![n] = {GivenUp(c) : c \in @}]
    /\ calls' = [calls EXCEPT ![n] = [k \in DOMAIN @ |-> GivenUp(@[k])]]
    /\ Mishap(TRUE)
    /\ UNCHANGED <<registryVars, storeVars, inst, hosted, succeeded, received,
                   tries, pulls, gatewayVars>>

\* A new process, with the sandboxes the old one left behind paused.
Restart(n) ==
    /\ up[n] = "down"
    /\ up' = [up EXCEPT ![n] = "up"]
    /\ inst' = [inst EXCEPT ![n] = @ + 1]
    /\ \E kept \in SUBSET hosted[n] : hosted' = [hosted EXCEPT ![n] = kept]
    /\ succeeded' = [succeeded EXCEPT ![n] = FALSE]
    /\ received' = [received EXCEPT ![n] = {}]
    /\ AsPlanned
    /\ UNCHANGED <<registryVars, storeVars, waiting, tries, callVars, gatewayVars>>

--------------------------------------------------------------------------------
(***************************************************************************)
(* The scheduler's handlers.                                               *)
(***************************************************************************)
\* A handler starts and takes the time.
Arrive(n) ==
    /\ \E c \in sent[n] :
         /\ sent' = [sent EXCEPT ![n] = @ \ {c}]
         /\ calls' = [calls EXCEPT ![n] = Append(@, c)]
    /\ AsPlanned
    /\ UNCHANGED <<registryVars, storeVars, nodeVars, pulls, gatewayVars>>

\* The call ends with an answer, or an error, which reaches the node unless it
\* was given up.
Answer(n, k, ok) ==
    LET c == calls[n][k] IN
    /\ calls' = [calls EXCEPT ![n] = RemoveAt(@, k)]
    /\ IF ~c.live
       THEN UNCHANGED <<waiting, up, succeeded, received>>
       ELSE /\ waiting' = [waiting EXCEPT ![n] = FALSE]
            /\ up' = [up EXCEPT ![n] = IF ok /\ c.kind = "unregister"
                                       THEN "down" ELSE @]
            /\ succeeded' = [succeeded EXCEPT ![n] =
                               @ \/ (ok /\ c.kind = "heartbeat")]
            /\ received' = [received EXCEPT ![n] =
                              IF ok /\ c.answer # {} THEN c.answer ELSE @]
    /\ UNCHANGED <<inst, hosted, tries, sent, pulls>>

(***************************************************************************)
(* pullNodeSnapshots, for one node: the fetch takes the time before it     *)
(* asks, and the node's answer has the configuration the node was given.   *)
(***************************************************************************)
Pull(n) ==
    /\ n \in pulls
    /\ pulls' = pulls \ {n}
    /\ calls' = IF up[n] = "up"
                THEN [calls EXCEPT ![n] = Append(@,
                        [kind |-> "pull", inst |-> inst[n], roster |-> {},
                         cpu |-> received[n] # {}, live |-> FALSE,
                         state |-> "fresh", answer |-> {}])]
                ELSE calls
    /\ AsPlanned
    /\ UNCHANGED <<registryVars, storeVars, nodeVars, sent, gatewayVars>>

(***************************************************************************)
(* What call k, just taken in, does to the others that wait: a heartbeat   *)
(* has the time of its arrival and makes those before it stale; a pulled   *)
(* report has the time at which it is taken in, and so beats also          *)
(* heartbeats that arrived after it was asked for.                         *)
(***************************************************************************)
Overtaken(s, k) ==
    [i \in DOMAIN s |->
       IF i = k \/ s[i].state # "fresh" THEN s[i]
       ELSE IF i < k THEN [s[i] EXCEPT !.state = "stale"]
       ELSE IF s[k].kind = "pull" THEN [s[i] EXCEPT !.state = "beaten"]
       ELSE s[i]]

\* ingestNodeReport, up to and including the registry's Ingest, which for a pull
\* hands out no intersection and is the end.
Ingest(n, k) ==
    LET c == calls[n][k]
        heartbeat == c.kind = "heartbeat"
        r == Report(n, c.inst, c.cpu)
        taken == [calls[n] EXCEPT ![k].state = "taken", ![k].answer = r.answer]
    IN
    /\ c.kind # "unregister" /\ c.state # "taken"
    /\ \/ /\ n \notin nodesByID \/ c.state # "fresh"
          /\ Answer(n, k, c.state # "fresh")
          /\ UNCHANGED registryVars
       \/ /\ n \in nodesByID /\ c.state = "fresh"
          /\ observed' = r.reports
          /\ cpuIntersection' = r.result
          /\ intersectionSent' = IF heartbeat THEN r.sent ELSE r.unsent
          /\ calls' = [calls EXCEPT ![n] =
               IF heartbeat THEN Overtaken(taken, k)
                            ELSE RemoveAt(Overtaken(@, k), k)]
          /\ UNCHANGED <<nodesByID, lingeringIDs, nodeVars, sent, pulls>>
    /\ AsPlanned
    /\ UNCHANGED <<storeVars, gatewayVars>>

\* A record that is gone makes no report stale.
NotLate(s) ==
    [i \in DOMAIN s |-> IF s[i].state = "taken" THEN s[i]
                        ELSE [s[i] EXCEPT !.state = "fresh"]]

\* UnregisterNode, up to and including UnregisterObserved.
Unregister(n, k) ==
    LET c == calls[n][k] IN
    /\ c.kind = "unregister" /\ c.state # "taken"
    /\ \/ /\ observed[n] # NoReport /\ observed[n].inst # c.inst
          /\ Answer(n, k, FALSE)
          /\ UNCHANGED registryVars
       \/ /\ observed[n] = NoReport
          /\ calls' = [calls EXCEPT ![n][k].state = "taken"]
          /\ UNCHANGED <<registryVars, nodeVars, sent, pulls>>
       \/ /\ observed[n] # NoReport /\ observed[n].inst = c.inst
          /\ UnregisterObserved(n)
          /\ calls' = [calls EXCEPT ![n] =
                         NotLate([@ EXCEPT ![k].state = "taken"])]
          /\ UNCHANGED <<nodeVars, sent, pulls>>
    /\ AsPlanned
    /\ UNCHANGED <<storeVars, gatewayVars>>

\* The rest of both handlers: the bindings, then the answer.
Reconcile(n, k) ==
    LET c == calls[n][k] IN
    /\ c.state = "taken"
    /\ ReconcileNode(n, c.roster)
    /\ Answer(n, k, TRUE)
    /\ AsPlanned
    /\ UNCHANGED <<registryVars, gatewayVars>>

\* Discovery lists other nodes.
Discover ==
    /\ \E all \in SUBSET Node : \E lingering \in SUBSET all :
         /\ <<all, lingering>> # <<nodesByID, lingeringIDs>>
         /\ SetNodes(all, lingering)
         /\ calls' = [n \in Node |-> IF n \in all THEN calls[n]
                                     ELSE NotLate(calls[n])]
         /\ Mishap(~(Observed \subseteq all))
    /\ UNCHANGED <<storeVars, nodeVars, sent, pulls, gatewayVars>>

--------------------------------------------------------------------------------
GatewayStep(s) == Schedule(s) \/ ProxyRequest(s) \/ RecordAssignment(s)
NodeStep(n) == SendHeartbeat(n) \/ UnregisterNode(n) \/ Restart(n)
HandlerStep(n) ==
    \/ Arrive(n)
    \/ Pull(n)
    \/ \E k \in 1..Len(calls[n]) : Ingest(n, k) \/ Unregister(n, k) \/ Reconcile(n, k)
MishapStep(n) == Timeout(n) \/ Lost(n) \/ Stop(n) \/ Crash(n)

Next ==
    \/ \E s \in Sandbox : GatewayStep(s) \/ StartAgain(s) \/ LookupExpired(s)
    \/ \E n \in Node : NodeStep(n) \/ HandlerStep(n) \/ MishapStep(n)
    \/ \E n \in Node, s \in Sandbox : SandboxEnds(n, s)
    \/ Discover

(***************************************************************************)
(* The gateway and the reporters go on, a process that is down is started  *)
(* again by its supervisor, and a handler that runs comes to its end.      *)
(***************************************************************************)
Fairness ==
    /\ \A s \in Sandbox : WF_vars(ProxyRequest(s)) /\ WF_vars(RecordAssignment(s))
    /\ \A n \in Node : WF_vars(NodeStep(n)) /\ WF_vars(HandlerStep(n))

Spec == Init /\ [][Next]_vars /\ Fairness

--------------------------------------------------------------------------------
(***************************************************************************)
(* Once nothing goes wrong any more, the bindings of every node that runs  *)
(* and is discovered are the sandboxes it has, and stay so: whatever a     *)
(* late heartbeat, an overtaken reconciliation, a late unregistration or a *)
(* lost record has done to them is repaired by the heartbeats that follow. *)
(***************************************************************************)
BindingsConverge ==
    <>[]((\A s \in Sandbox : gateway[s] \in {"new", "done"}) =>
            \A n \in nodesByID : up[n] = "up" => BoundTo(n) = hosted[n])

(***************************************************************************)
(* A node that the registry counts as served has the intersection or has   *)
(* the answer with it coming.                                              *)
(***************************************************************************)
SentIsDelivered ==
    \A n \in intersectionSent \cap Observed :
        up[n] = "up" =>
          \/ received[n] = cpuIntersection
          \/ \E k \in 1..Len(calls[n]) :
               calls[n][k].live /\ calls[n][k].answer = cpuIntersection

(***************************************************************************)
(* As long as no answer is lost, no process crashes and no reporting node  *)
(* disappears from discovery, nodes may stop and start in any order, with  *)
(* their calls handled in any order, and none counts as served without the *)
(* CPU configuration that is now common to all.                            *)
(***************************************************************************)
CpuDelivered == flawless => SentIsDelivered

(***************************************************************************)
(* A heartbeat that arrives while a report is being pulled counts as newer *)
(* than the pulled one: it is never dropped in its favour.                 *)
(***************************************************************************)
HeartbeatWins ==
    \A n \in Node : \A k \in 1..Len(calls[n]) :
        calls[n][k].kind = "heartbeat" => calls[n][k].state # "beaten"

================================================================================
