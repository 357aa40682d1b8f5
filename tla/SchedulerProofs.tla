---------------------------- MODULE SchedulerProofs ----------------------------
(***************************************************************************)
(* The scheduler's tables agree with each other, for any nodes, sandboxes  *)
(* and calls in flight: the index with the bindings, the intersection with *)
(* the reports.  Neither is disturbed by anything but the operations on    *)
(* its own table, so each operation has a lemma, and the steps of the      *)
(* scheduler are put together from these.                                  *)
(***************************************************************************)
EXTENDS Scheduler, TLAPS

\* What the tables rely on in the calls: rosters name sandboxes, and an
\* instance and a CPU configuration are what a report has.
CallsTypeOK ==
    /\ inst \in [Node -> Nat] /\ hosted \in [Node -> SUBSET Sandbox]
    /\ succeeded \in [Node -> BOOLEAN]
    /\ sent \in [Node -> SUBSET Call] /\ calls \in [Node -> Seq(Call)]

TablesInvariant ==
    RegistryTypeOK /\ StoreTypeOK /\ CallsTypeOK /\ BindingIndexed /\ IntersectionCurrent

--------------------------------------------------------------------------------
\* The store.
LEMMA DeleteIndexed ==
    ASSUME StoreTypeOK, BindingIndexed, NEW gone \in SUBSET Sandbox, Delete(gone)
    PROVE  StoreTypeOK' /\ BindingIndexed'
BY NoNodeAssumption DEF StoreTypeOK, BindingIndexed, BoundTo, Delete

LEMMA RecordIndexed ==
    ASSUME StoreTypeOK, BindingIndexed, NEW s \in Sandbox, NEW n \in Node, RecordBinding(s, n)
    PROVE  StoreTypeOK' /\ BindingIndexed'
<1>1. StoreTypeOK'
  BY DEF StoreTypeOK, RecordBinding
<1>2. ASSUME NEW m \in Node PROVE nodeBinding'[m] = BoundTo(m)'
  <2>1. \A t \in Sandbox : bindings'[t] = IF t = s THEN n ELSE bindings[t]
    BY DEF StoreTypeOK, RecordBinding
  <2>2. nodeBinding[m] = BoundTo(m)
    BY DEF BindingIndexed
  <2>3. CASE m = n
    <3>1. nodeBinding'[m] = nodeBinding[m] \cup {s}
      BY <2>3 DEF RecordBinding
    <3> QED BY <2>1, <2>2, <2>3, <3>1 DEF BoundTo
  <2>4. CASE m # n /\ m = bindings[s]
    <3>1. nodeBinding'[m] = nodeBinding[m] \ {s}
      BY <2>4 DEF RecordBinding
    <3> QED BY <2>1, <2>2, <2>4, <3>1 DEF BoundTo
  <2>5. CASE m # n /\ m # bindings[s]
    <3>1. nodeBinding'[m] = nodeBinding[m]
      BY <2>5 DEF RecordBinding
    <3> QED BY <2>1, <2>2, <2>5, <3>1 DEF BoundTo
  <2> QED BY <2>3, <2>4, <2>5
<1> QED BY <1>1, <1>2 DEF BindingIndexed

LEMMA ReconcileIndexed ==
    ASSUME StoreTypeOK, BindingIndexed, NEW n \in Node, NEW roster \in SUBSET Sandbox,
           ReconcileNode(n, roster)
    PROVE  StoreTypeOK' /\ BindingIndexed' /\ BoundTo(n)' = roster
<1>1. StoreTypeOK'
  BY DEF StoreTypeOK, ReconcileNode
<1>2. ASSUME NEW m \in Node PROVE nodeBinding'[m] = BoundTo(m)'
  BY NoNodeAssumption DEF StoreTypeOK, BindingIndexed, BoundTo, ReconcileNode
<1>3. BoundTo(n)' = roster
  BY NoNodeAssumption DEF StoreTypeOK, BindingIndexed, BoundTo, ReconcileNode
<1> QED BY <1>1, <1>2, <1>3 DEF BindingIndexed

--------------------------------------------------------------------------------
\* The registry.
LEMMA SetCurrent ==
    ASSUME RegistryTypeOK, IntersectionCurrent,
           NEW all \in SUBSET Node, NEW lingering \in SUBSET all, SetNodes(all, lingering)
    PROVE  RegistryTypeOK' /\ IntersectionCurrent'
<1>1. RegistryTypeOK'
  BY DEF RegistryTypeOK, SetNodes, StillSent, Observed
<1>2. Observed' = Observed \cap all
  BY DEF RegistryTypeOK, SetNodes, Observed
<1> QED BY <1>1, <1>2 DEF IntersectionCurrent, SetNodes, StillSent

LEMMA UnregisterCurrent ==
    ASSUME RegistryTypeOK, IntersectionCurrent, NEW n \in Node, UnregisterObserved(n)
    PROVE  RegistryTypeOK' /\ IntersectionCurrent'
<1>1. RegistryTypeOK'
  BY DEF RegistryTypeOK, UnregisterObserved, StillSent, Observed
<1>2. Observed' = Observed \ {n}
  BY DEF RegistryTypeOK, UnregisterObserved, Observed
<1> QED BY <1>1, <1>2 DEF IntersectionCurrent, UnregisterObserved, StillSent

LEMMA ReportCurrent ==
    ASSUME RegistryTypeOK, IntersectionCurrent,
           NEW n \in Node, NEW i \in Nat, NEW cpu \in BOOLEAN,
           UNCHANGED <<nodesByID, lingeringIDs>>,
           observed' = Report(n, i, cpu).reports,
           cpuIntersection' = Report(n, i, cpu).result,
           intersectionSent' \in {Report(n, i, cpu).sent, Report(n, i, cpu).unsent}
    PROVE  RegistryTypeOK' /\ IntersectionCurrent'
<1> DEFINE prev == observed[n]
           has == cpu \/ (prev # NoReport /\ prev.cpu)
           fresh == prev = NoReport \/ has # prev.cpu
           ready == \A m \in Observed' : observed'[m].cpu
           left == IF fresh THEN {} ELSE cpuIntersection
           sentLeft == StillSent(fresh, Observed')
<1>1. has \in BOOLEAN
  BY ZenonT(60)
<1>2. observed' = [observed EXCEPT ![n] = [inst |-> i, cpu |-> has]]
  BY ZenonT(60) DEF Report
<1>3. [inst |-> i, cpu |-> has] \in [inst : Nat, cpu : BOOLEAN]
  BY <1>1
<1> HIDE DEF has
<1>4. observed' \in [Node -> [inst : Nat, cpu : BOOLEAN] \cup {NoReport}]
  BY <1>2, <1>3, ZenonT(60) DEF RegistryTypeOK
<1>5. Observed' = Observed \cup {n}
  <2>1. [inst |-> i, cpu |-> has] # NoReport
    BY <1>3, NoReportAssumption, ZenonT(60)
  <2>2. \A m \in Node : observed'[m] # NoReport <=> observed[m] # NoReport \/ m = n
    BY <1>2, <2>1, ZenonT(60) DEF RegistryTypeOK
  <2> QED BY <2>2, ZenonT(60) DEF Observed
<1> USE DEF has
<1>6. cpuIntersection' = IF left # {} \/ ~ready THEN left ELSE Observed'
  BY <1>2, ZenonT(60) DEF Report, Observed
<1>7. intersectionSent' \in {IF cpuIntersection' # {} THEN sentLeft \cup {n} ELSE sentLeft, sentLeft}
  BY <1>2, ZenonT(60) DEF Report, Observed
<1>8. ~fresh => Observed' = Observed
  BY <1>5 DEF Observed
<1>9. sentLeft \in SUBSET Node
  BY DEF StillSent, RegistryTypeOK
<1>10. RegistryTypeOK'
  BY <1>4, <1>5, <1>6, <1>7, <1>9, ZenonT(60) DEF RegistryTypeOK, Observed
<1>11. IntersectionCurrent'
  BY <1>5, <1>6, <1>7, <1>8 DEF IntersectionCurrent, StillSent
<1> QED BY <1>10, <1>11

--------------------------------------------------------------------------------
\* The calls.
LEMMA GivenUpTyped == \A c \in Call : GivenUp(c) \in Call
BY ZenonT(60) DEF Call, GivenUp

LEMMA GivenUpAllTyped ==
    ASSUME NEW s \in Seq(Call)
    PROVE  [k \in DOMAIN s |-> GivenUp(s[k])] \in Seq(Call)
<1>1. \A k \in 1..Len(s) : GivenUp(s[k]) \in Call
  BY GivenUpTyped
<1> QED BY <1>1

LEMMA StateTyped ==
    ASSUME NEW c \in Call, NEW st \in {"fresh", "stale", "beaten", "taken"}
    PROVE  [c EXCEPT !.state = st] \in Call
BY DEF Call

LEMMA NotLateTyped ==
    ASSUME NEW s \in Seq(Call)
    PROVE  NotLate(s) \in Seq(Call)
<1>1. ASSUME NEW k \in 1..Len(s) PROVE NotLate(s)[k] \in Call
  <2>1. s[k] \in Call
    OBVIOUS
  <2>2. [s[k] EXCEPT !.state = "fresh"] \in Call
    BY <2>1, StateTyped, ZenonT(60)
  <2>3. NotLate(s)[k] \in {s[k], [s[k] EXCEPT !.state = "fresh"]}
    BY DEF NotLate
  <2> QED BY <2>1, <2>2, <2>3
<1>2. DOMAIN NotLate(s) = 1..Len(s) /\ NotLate(s) = [i \in DOMAIN NotLate(s) |-> NotLate(s)[i]]
  BY DEF NotLate
<1> HIDE DEF NotLate
<1> QED BY <1>1, <1>2

LEMMA OvertakenTyped ==
    ASSUME NEW s \in Seq(Call), NEW k \in 1..Len(s)
    PROVE  Overtaken(s, k) \in Seq(Call) /\ Len(Overtaken(s, k)) = Len(s)
<1>1. ASSUME NEW i \in 1..Len(s) PROVE Overtaken(s, k)[i] \in Call
  <2>1. s[i] \in Call
    OBVIOUS
  <2>2. [s[i] EXCEPT !.state = "stale"] \in Call /\ [s[i] EXCEPT !.state = "beaten"] \in Call
    BY <2>1, StateTyped, ZenonT(60)
  <2>3. Overtaken(s, k)[i] \in {s[i], [s[i] EXCEPT !.state = "stale"], [s[i] EXCEPT !.state = "beaten"]}
    BY DEF Overtaken
  <2> QED BY <2>1, <2>2, <2>3
<1>2. /\ DOMAIN Overtaken(s, k) = 1..Len(s)
      /\ Overtaken(s, k) = [i \in DOMAIN Overtaken(s, k) |-> Overtaken(s, k)[i]]
  BY DEF Overtaken
<1> QED BY <1>1, <1>2

LEMMA RemoveAtTyped ==
    ASSUME NEW s \in Seq(Call), NEW k \in 1..Len(s)
    PROVE  RemoveAt(s, k) \in Seq(Call)
BY DEF RemoveAt

LEMMA TakenTyped ==
    ASSUME NEW s \in Seq(Call), NEW k \in 1..Len(s), NEW a \in SUBSET Node
    PROVE  /\ [s EXCEPT ![k].state = "taken"] \in Seq(Call)
           /\ [s EXCEPT ![k].state = "taken", ![k].answer = a] \in Seq(Call)
           /\ Len([s EXCEPT ![k].state = "taken", ![k].answer = a]) = Len(s)
<1> DEFINE c == [s[k] EXCEPT !.state = "taken"]
           d == [c EXCEPT !.answer = a]
<1>1. s[k] \in Call
  OBVIOUS
<1>2. c \in Call
  BY <1>1, StateTyped, ZenonT(60)
<1>3. d \in Call
  BY <1>2, ZenonT(60) DEF Call
<1>4. [s EXCEPT ![k].state = "taken"] = [s EXCEPT ![k] = c]
  OBVIOUS
<1>5. [s EXCEPT ![k].state = "taken", ![k].answer = a] = [s EXCEPT ![k] = d]
  BY ZenonT(60)
<1> HIDE DEF c, d
<1> QED BY <1>2, <1>3, <1>4, <1>5

LEMMA CallTyped ==
    ASSUME CallsTypeOK, NEW n \in Node, NEW k \in 1..Len(calls[n])
    PROVE  /\ calls[n] \in Seq(Call) /\ calls[n][k] \in Call
           /\ calls[n][k].roster \in SUBSET Sandbox
           /\ calls[n][k].inst \in Nat /\ calls[n][k].cpu \in BOOLEAN
<1>1. calls[n] \in Seq(Call)
  BY DEF CallsTypeOK
<1>2. calls[n][k] \in Call
  BY <1>1
<1> QED BY <1>1, <1>2 DEF Call

\* A step that changes the calls of one node, or what it has sent.
LEMMA CallsReplaced ==
    ASSUME CallsTypeOK, NEW n \in Node, NEW s \in Seq(Call),
           calls' = [calls EXCEPT ![n] = s],
           UNCHANGED <<inst, hosted, succeeded, sent>>
    PROVE  CallsTypeOK'
BY ZenonT(60) DEF CallsTypeOK

LEMMA SentReplaced ==
    ASSUME CallsTypeOK, NEW n \in Node, NEW s \in SUBSET Call,
           sent' = [sent EXCEPT ![n] = s],
           UNCHANGED <<inst, hosted, succeeded, calls>>
    PROVE  CallsTypeOK'
BY ZenonT(60) DEF CallsTypeOK

LEMMA SendTyped ==
    ASSUME CallsTypeOK, NEW n \in Node, NEW kind \in {"heartbeat", "unregister"},
           NEW roster \in SUBSET Sandbox, NEW cpu \in BOOLEAN,
           Send(n, kind, roster, cpu), UNCHANGED <<inst, hosted, succeeded>>
    PROVE  CallsTypeOK'
<1> DEFINE c == [kind |-> kind, inst |-> inst[n], roster |-> roster, cpu |-> cpu,
                 live |-> TRUE, state |-> "fresh", answer |-> {}]
<1>1. c \in Call
  <2>1. inst[n] \in Nat
    BY DEF CallsTypeOK
  <2> QED BY <2>1, ZenonT(60) DEF Call
<1>2. sent[n] \cup {c} \in SUBSET Call
  BY <1>1, ZenonT(60) DEF CallsTypeOK
<1>3. sent' = [sent EXCEPT ![n] = sent[n] \cup {c}]
  BY ZenonT(60) DEF Send
<1> HIDE DEF c
<1> QED BY <1>2, <1>3, SentReplaced, ZenonT(60) DEF Send

LEMMA GiveUpTyped ==
    ASSUME CallsTypeOK, NEW n \in Node,
           sent' = [sent EXCEPT ![n] = {GivenUp(c) : c \in @}],
           calls' = [calls EXCEPT ![n] = [k \in DOMAIN @ |-> GivenUp(@[k])]],
           UNCHANGED <<inst, hosted, succeeded>>
    PROVE  CallsTypeOK'
<1>1. {GivenUp(c) : c \in sent[n]} \in SUBSET Call
  BY GivenUpTyped DEF CallsTypeOK
<1>2. [k \in DOMAIN calls[n] |-> GivenUp(calls[n][k])] \in Seq(Call)
  BY GivenUpAllTyped DEF CallsTypeOK
<1>3. sent' \in [Node -> SUBSET Call]
  BY <1>1, ZenonT(60) DEF CallsTypeOK
<1>4. calls' \in [Node -> Seq(Call)]
  BY <1>2, ZenonT(60) DEF CallsTypeOK
<1> QED BY <1>3, <1>4, ZenonT(60) DEF CallsTypeOK

LEMMA AnswerTyped ==
    ASSUME CallsTypeOK, NEW n \in Node, NEW k \in 1..Len(calls[n]), NEW ok \in BOOLEAN,
           Answer(n, k, ok)
    PROVE  CallsTypeOK'
<1>1. RemoveAt(calls[n], k) \in Seq(Call)
  BY CallTyped, RemoveAtTyped
<1>2. calls' \in [Node -> Seq(Call)]
  BY <1>1, ZenonT(60) DEF Answer, CallsTypeOK
<1>3. succeeded' \in [Node -> BOOLEAN]
  <2>1. CASE ~calls[n][k].live
    BY <2>1, ZenonT(60) DEF Answer, CallsTypeOK
  <2>2. CASE calls[n][k].live
    <3>1. succeeded' = [succeeded EXCEPT ![n] =
                          succeeded[n] \/ (ok /\ calls[n][k].kind = "heartbeat")]
      BY <2>2, ZenonT(60) DEF Answer
    <3>2. (succeeded[n] \/ (ok /\ calls[n][k].kind = "heartbeat")) \in BOOLEAN
      BY ZenonT(60)
    <3> QED BY <3>1, <3>2, ZenonT(60) DEF CallsTypeOK
  <2> QED BY <2>1, <2>2
<1> QED BY <1>2, <1>3, ZenonT(60) DEF Answer, CallsTypeOK

--------------------------------------------------------------------------------
\* The steps.  Most leave the tables alone.
LEMMA TablesAlone ==
    ASSUME TablesInvariant, UNCHANGED <<registryVars, storeVars>>, CallsTypeOK'
    PROVE  TablesInvariant'
BY ZenonT(60) DEF TablesInvariant, RegistryTypeOK, StoreTypeOK, BindingIndexed, BoundTo,
   IntersectionCurrent, Observed, registryVars, storeVars

\* The gateway and the lookups.
LEMMA SandboxStepKeeps ==
    ASSUME TablesInvariant, NEW s \in Sandbox,
           GatewayStep(s) \/ StartAgain(s) \/ LookupExpired(s)
    PROVE  TablesInvariant'
<1>1. CASE Schedule(s) \/ StartAgain(s)
  <2>1. UNCHANGED <<registryVars, storeVars, nodeVars, callVars>>
    BY <1>1, ZenonT(60) DEF Schedule, StartAgain
  <2>2. CallsTypeOK'
    BY <2>1, ZenonT(60) DEF TablesInvariant, CallsTypeOK, nodeVars, callVars
  <2> QED BY <2>1, <2>2, TablesAlone
<1>2. CASE ProxyRequest(s)
  <2>1. UNCHANGED <<registryVars, storeVars, inst, succeeded, callVars>>
    BY <1>2, ZenonT(60) DEF ProxyRequest
  <2>2. hosted' = hosted \/ hosted' = [hosted EXCEPT ![target[s]] = hosted[target[s]] \cup {s}]
    BY <1>2, ZenonT(60) DEF ProxyRequest
  <2>3. hosted' \in [Node -> SUBSET Sandbox]
    <3>1. hosted \in [Node -> SUBSET Sandbox]
      BY ZenonT(60) DEF TablesInvariant, CallsTypeOK
    <3>2. CASE target[s] \in Node
      <4>1. hosted[target[s]] \cup {s} \in SUBSET Sandbox
        BY <3>1, <3>2
      <4> QED BY <2>2, <3>1, <4>1, ZenonT(60)
    <3>3. CASE target[s] \notin Node
      <4>1. [hosted EXCEPT ![target[s]] = hosted[target[s]] \cup {s}] = hosted
        BY <3>1, <3>3
      <4> QED BY <2>2, <3>1, <4>1
    <3> QED BY <3>2, <3>3
  <2>4. CallsTypeOK'
    BY <2>1, <2>3, ZenonT(60) DEF TablesInvariant, CallsTypeOK, callVars
  <2> QED BY <2>1, <2>4, TablesAlone
<1>3. CASE RecordAssignment(s)
  <2>1. UNCHANGED <<registryVars, nodeVars, callVars>>
    BY <1>3, ZenonT(60) DEF RecordAssignment
  <2>2. CallsTypeOK'
    BY <2>1, ZenonT(60) DEF TablesInvariant, CallsTypeOK, nodeVars, callVars
  <2>3. CASE UNCHANGED storeVars
    BY <2>1, <2>2, <2>3, TablesAlone
  <2>4. CASE target[s] \in nodesByID /\ RecordBinding(s, target[s])
    <3>1. target[s] \in Node
      BY <2>4, ZenonT(60) DEF TablesInvariant, RegistryTypeOK
    <3>2. StoreTypeOK' /\ BindingIndexed'
      BY <2>4, <3>1, RecordIndexed, ZenonT(60) DEF TablesInvariant
    <3> QED BY <2>1, <2>2, <3>2, ZenonT(60) DEF TablesInvariant, RegistryTypeOK,
               IntersectionCurrent, Observed, registryVars
  <2> QED BY <1>3, <2>3, <2>4, ZenonT(60) DEF RecordAssignment
<1>4. CASE LookupExpired(s)
  <2>1. Delete({s}) /\ UNCHANGED <<registryVars, nodeVars, callVars>>
    BY <1>4, ZenonT(60) DEF LookupExpired
  <2>2. CallsTypeOK'
    BY <2>1, ZenonT(60) DEF TablesInvariant, CallsTypeOK, nodeVars, callVars
  <2>3. StoreTypeOK' /\ BindingIndexed'
    BY <2>1, DeleteIndexed, ZenonT(60) DEF TablesInvariant
  <2> QED BY <2>1, <2>2, <2>3, ZenonT(60) DEF TablesInvariant, RegistryTypeOK,
             IntersectionCurrent, Observed, registryVars
<1> QED BY <1>1, <1>2, <1>3, <1>4, ZenonT(60) DEF GatewayStep

\* A node and its reporter.
LEMMA NodeStepKeeps ==
    ASSUME TablesInvariant, NEW n \in Node,
           NodeStep(n) \/ MishapStep(n) \/ \E s \in Sandbox : SandboxEnds(n, s)
    PROVE  TablesInvariant'
<1>1. CASE SendHeartbeat(n)
  <2>1. /\ Send(n, "heartbeat", hosted[n], ~succeeded[n])
        /\ UNCHANGED <<registryVars, storeVars, inst, hosted, succeeded>>
    BY <1>1, ZenonT(60) DEF SendHeartbeat
  <2>2. hosted[n] \in SUBSET Sandbox /\ (~succeeded[n]) \in BOOLEAN
    BY ZenonT(60) DEF TablesInvariant, CallsTypeOK
  <2>3. CallsTypeOK'
    BY <2>1, <2>2, SendTyped, ZenonT(60) DEF TablesInvariant
  <2> QED BY <2>1, <2>3, TablesAlone
<1>2. CASE UnregisterNode(n)
  <2>1. UNCHANGED <<registryVars, storeVars, inst, hosted, succeeded>>
    BY <1>2, ZenonT(60) DEF UnregisterNode
  <2>2. CASE Send(n, "unregister", {}, FALSE)
    <3>1. CallsTypeOK'
      BY <2>1, <2>2, SendTyped, ZenonT(60) DEF TablesInvariant
    <3> QED BY <2>1, <3>1, TablesAlone
  <2>3. CASE UNCHANGED callVars
    <3>1. CallsTypeOK'
      BY <2>1, <2>3, ZenonT(60) DEF TablesInvariant, CallsTypeOK, callVars
    <3> QED BY <2>1, <3>1, TablesAlone
  <2> QED BY <1>2, <2>2, <2>3, ZenonT(60) DEF UnregisterNode
<1>3. CASE Restart(n)
  <2>1. /\ UNCHANGED <<registryVars, storeVars, callVars>>
        /\ inst' = [inst EXCEPT ![n] = @ + 1]
        /\ succeeded' = [succeeded EXCEPT ![n] = FALSE]
    BY <1>3, ZenonT(60) DEF Restart
  <2>2. PICK kept \in SUBSET hosted[n] : hosted' = [hosted EXCEPT ![n] = kept]
    BY <1>3, ZenonT(60) DEF Restart
  <2>3. kept \in SUBSET Sandbox
    BY <2>2, ZenonT(60) DEF TablesInvariant, CallsTypeOK
  <2>4. hosted' \in [Node -> SUBSET Sandbox] /\ succeeded' \in [Node -> BOOLEAN]
    BY <2>1, <2>2, <2>3, ZenonT(60) DEF TablesInvariant, CallsTypeOK
  <2>5. inst' \in [Node -> Nat]
    BY <2>1 DEF TablesInvariant, CallsTypeOK
  <2>6. CallsTypeOK'
    BY <2>1, <2>4, <2>5, ZenonT(60) DEF TablesInvariant, CallsTypeOK, callVars
  <2> QED BY <2>1, <2>6, TablesAlone
<1>4. CASE Timeout(n) \/ Crash(n)
  <2>1. /\ UNCHANGED <<registryVars, storeVars, inst, hosted, succeeded>>
        /\ sent' = [sent EXCEPT ![n] = {GivenUp(c) : c \in @}]
        /\ calls' = [calls EXCEPT ![n] = [k \in DOMAIN @ |-> GivenUp(@[k])]]
    BY <1>4, ZenonT(60) DEF Timeout, Crash
  <2>2. CallsTypeOK'
    BY <2>1, GiveUpTyped, ZenonT(60) DEF TablesInvariant
  <2> QED BY <2>1, <2>2, TablesAlone
<1>5. CASE Lost(n)
  <2>1. UNCHANGED <<registryVars, storeVars, nodeVars, calls>>
    BY <1>5, ZenonT(60) DEF Lost
  <2>2. PICK c \in sent[n] : sent' = [sent EXCEPT ![n] = sent[n] \ {c}]
    BY <1>5, ZenonT(60) DEF Lost
  <2>3. sent[n] \ {c} \in SUBSET Call
    BY ZenonT(60) DEF TablesInvariant, CallsTypeOK
  <2>4. CallsTypeOK'
    BY <2>1, <2>2, <2>3, SentReplaced, ZenonT(60) DEF TablesInvariant, nodeVars
  <2> QED BY <2>1, <2>4, TablesAlone
<1>6. CASE Stop(n)
  <2>1. UNCHANGED <<registryVars, storeVars, inst, hosted, succeeded, callVars>>
    BY <1>6, ZenonT(60) DEF Stop
  <2>2. CallsTypeOK'
    BY <2>1, ZenonT(60) DEF TablesInvariant, CallsTypeOK, callVars
  <2> QED BY <2>1, <2>2, TablesAlone
<1>7. ASSUME NEW s \in Sandbox, SandboxEnds(n, s) PROVE TablesInvariant'
  <2>1. /\ UNCHANGED <<registryVars, storeVars, inst, succeeded, callVars>>
        /\ hosted' = [hosted EXCEPT ![n] = hosted[n] \ {s}]
    BY <1>7, ZenonT(60) DEF SandboxEnds
  <2>2. hosted' \in [Node -> SUBSET Sandbox]
    BY <2>1 DEF TablesInvariant, CallsTypeOK
  <2>3. CallsTypeOK'
    BY <2>1, <2>2, ZenonT(60) DEF TablesInvariant, CallsTypeOK, callVars
  <2> QED BY <2>1, <2>3, TablesAlone
<1> QED BY <1>1, <1>2, <1>3, <1>4, <1>5, <1>6, <1>7, ZenonT(60) DEF NodeStep, MishapStep

\* The handlers.
LEMMA HandlerStepKeeps ==
    ASSUME TablesInvariant, NEW n \in Node, HandlerStep(n)
    PROVE  TablesInvariant'
<1> USE DEF TablesInvariant
<1>1. CASE Arrive(n)
  <2>1. UNCHANGED <<registryVars, storeVars, nodeVars>>
    BY <1>1, ZenonT(60) DEF Arrive
  <2>2. PICK c \in sent[n] : /\ sent' = [sent EXCEPT ![n] = sent[n] \ {c}]
                             /\ calls' = [calls EXCEPT ![n] = Append(calls[n], c)]
    BY <1>1, ZenonT(60) DEF Arrive
  <2>3. sent[n] \ {c} \in SUBSET Call /\ c \in Call /\ calls[n] \in Seq(Call)
    BY ZenonT(60) DEF CallsTypeOK
  <2>4. Append(calls[n], c) \in Seq(Call)
    BY <2>3
  <2>5. CallsTypeOK'
    BY <2>1, <2>2, <2>3, <2>4, ZenonT(60) DEF CallsTypeOK, nodeVars
  <2> QED BY <2>1, <2>5, TablesAlone
<1>2. CASE Pull(n)
  <2>1. UNCHANGED <<registryVars, storeVars, nodeVars, sent>>
    BY <1>2, ZenonT(60) DEF Pull
  <2> DEFINE c == [kind |-> "pull", inst |-> inst[n], roster |-> {},
                   cpu |-> received[n] # {}, live |-> FALSE,
                   state |-> "fresh", answer |-> {}]
  <2>2. c \in Call
    <3>1. inst[n] \in Nat
      BY ZenonT(60) DEF CallsTypeOK
    <3> QED BY <3>1, ZenonT(60) DEF Call
  <2>3. calls' = calls \/ calls' = [calls EXCEPT ![n] = Append(calls[n], c)]
    BY <1>2, ZenonT(60) DEF Pull
  <2> HIDE DEF c
  <2>4. calls[n] \in Seq(Call)
    BY ZenonT(60) DEF CallsTypeOK
  <2>5. Append(calls[n], c) \in Seq(Call)
    BY <2>2, <2>4
  <2>6. CallsTypeOK'
    BY <2>1, <2>3, <2>5, ZenonT(60) DEF CallsTypeOK, nodeVars
  <2> QED BY <2>1, <2>6, TablesAlone
<1>3. ASSUME NEW k \in 1..Len(calls[n]), Ingest(n, k) PROVE TablesInvariant'
  <2> DEFINE c == calls[n][k]
             r == Report(n, c.inst, c.cpu)
             taken == [calls[n] EXCEPT ![k].state = "taken", ![k].answer = r.answer]
  <2>1. UNCHANGED storeVars
    BY <1>3, ZenonT(60) DEF Ingest
  <2>2. calls[n] \in Seq(Call) /\ c.inst \in Nat /\ c.cpu \in BOOLEAN
    BY CallTyped
  <2>3. ASSUME Answer(n, k, c.state # "fresh"), UNCHANGED registryVars
        PROVE  TablesInvariant'
    <3>1. (c.state # "fresh") \in BOOLEAN
      OBVIOUS
    <3>2. CallsTypeOK'
      BY <2>3, <3>1, AnswerTyped, ZenonT(60)
    <3> QED BY <2>1, <2>3, <3>2, TablesAlone
  <2>4. ASSUME observed' = r.reports,
               cpuIntersection' = r.result,
               intersectionSent' \in {r.sent, r.unsent},
               \/ calls' = [calls EXCEPT ![n] = Overtaken(taken, k)]
               \/ calls' = [calls EXCEPT ![n] = RemoveAt(Overtaken(calls[n], k), k)],
               UNCHANGED <<nodesByID, lingeringIDs, nodeVars, sent>>
        PROVE  TablesInvariant'
    <3>1. RegistryTypeOK' /\ IntersectionCurrent'
      BY <2>2, <2>4, ReportCurrent
    <3>2. r.answer \in SUBSET Node
      <4>1. r.answer = {} \/ r.answer = r.result
        BY ZenonT(60) DEF Report
      <4> QED BY <2>4, <3>1, <4>1, ZenonT(60) DEF RegistryTypeOK
    <3> HIDE DEF r
    <3>3. taken \in Seq(Call) /\ Len(taken) = Len(calls[n])
      BY <2>2, <3>2, TakenTyped, ZenonT(60)
    <3> HIDE DEF taken
    <3>4. Overtaken(taken, k) \in Seq(Call)
      BY <3>3, OvertakenTyped
    <3>5. RemoveAt(Overtaken(calls[n], k), k) \in Seq(Call)
      BY <2>2, OvertakenTyped, RemoveAtTyped
    <3>6. CallsTypeOK'
      BY <2>4, <3>4, <3>5, CallsReplaced, ZenonT(60) DEF nodeVars
    <3> QED BY <2>1, <3>1, <3>6, ZenonT(60) DEF StoreTypeOK, BindingIndexed, BoundTo, storeVars
  <2> QED BY <1>3, <2>3, <2>4, ZenonT(60) DEF Ingest
<1>4. ASSUME NEW k \in 1..Len(calls[n]), Unregister(n, k) PROVE TablesInvariant'
  <2>1. UNCHANGED storeVars
    BY <1>4, ZenonT(60) DEF Unregister
  <2>2. calls[n] \in Seq(Call)
    BY CallTyped
  <2>3. [calls[n] EXCEPT ![k].state = "taken"] \in Seq(Call)
    BY <2>2, TakenTyped, ZenonT(60)
  <2>4. ASSUME Answer(n, k, FALSE), UNCHANGED registryVars PROVE TablesInvariant'
    BY <2>1, <2>4, AnswerTyped, TablesAlone, ZenonT(60)
  <2>5. ASSUME calls' = [calls EXCEPT ![n] = [calls[n] EXCEPT ![k].state = "taken"]],
               UNCHANGED <<registryVars, nodeVars, sent>>
        PROVE  TablesInvariant'
    <3>1. CallsTypeOK'
      BY <2>3, <2>5, CallsReplaced, ZenonT(60) DEF nodeVars
    <3> QED BY <2>1, <2>5, <3>1, TablesAlone
  <2>6. ASSUME UnregisterObserved(n),
               calls' = [calls EXCEPT ![n] = NotLate([calls[n] EXCEPT ![k].state = "taken"])],
               UNCHANGED <<nodeVars, sent>>
        PROVE  TablesInvariant'
    <3>1. NotLate([calls[n] EXCEPT ![k].state = "taken"]) \in Seq(Call)
      BY <2>3, NotLateTyped
    <3>2. CallsTypeOK'
      BY <2>6, <3>1, CallsReplaced, ZenonT(60) DEF nodeVars
    <3>3. RegistryTypeOK' /\ IntersectionCurrent'
      BY <2>6, UnregisterCurrent
    <3> QED BY <2>1, <3>2, <3>3, ZenonT(60) DEF StoreTypeOK, BindingIndexed, BoundTo, storeVars
  <2>7. [calls EXCEPT ![n][k].state = "taken"] =
          [calls EXCEPT ![n] = [calls[n] EXCEPT ![k].state = "taken"]]
    BY ZenonT(60)
  <2> QED BY <1>4, <2>4, <2>5, <2>6, <2>7, ZenonT(60) DEF Unregister
<1>5. ASSUME NEW k \in 1..Len(calls[n]), Reconcile(n, k) PROVE TablesInvariant'
  <2>1. /\ ReconcileNode(n, calls[n][k].roster) /\ Answer(n, k, TRUE)
        /\ UNCHANGED registryVars
    BY <1>5, ZenonT(60) DEF Reconcile
  <2>2. calls[n][k].roster \in SUBSET Sandbox
    BY CallTyped
  <2>3. StoreTypeOK' /\ BindingIndexed'
    BY <2>1, <2>2, ReconcileIndexed
  <2>4. CallsTypeOK'
    BY <2>1, AnswerTyped, ZenonT(60)
  <2> QED BY <2>1, <2>3, <2>4, ZenonT(60) DEF RegistryTypeOK, IntersectionCurrent, Observed, registryVars
<1> QED BY <1>1, <1>2, <1>3, <1>4, <1>5, ZenonT(60) DEF HandlerStep

LEMMA DiscoverKeeps ==
    ASSUME TablesInvariant, Discover
    PROVE  TablesInvariant'
<1> USE DEF TablesInvariant
<1>1. PICK all \in SUBSET Node : \E lingering \in SUBSET all :
        /\ SetNodes(all, lingering)
        /\ calls' = [n \in Node |-> IF n \in all THEN calls[n] ELSE NotLate(calls[n])]
  BY ZenonT(60) DEF Discover
<1>2. RegistryTypeOK' /\ IntersectionCurrent'
  BY <1>1, SetCurrent
<1>3. UNCHANGED <<storeVars, nodeVars, sent>>
  BY ZenonT(60) DEF Discover
<1>4. \A n \in Node : calls[n] \in Seq(Call) /\ NotLate(calls[n]) \in Seq(Call)
  BY NotLateTyped DEF CallsTypeOK
<1>5. calls' \in [Node -> Seq(Call)]
  BY <1>1, <1>4, ZenonT(60)
<1> QED BY <1>2, <1>3, <1>5, ZenonT(60) DEF CallsTypeOK, StoreTypeOK, BindingIndexed, BoundTo,
           storeVars, nodeVars

LEMMA TablesStepKeeps == TablesInvariant /\ [Next]_vars => TablesInvariant'
<1> SUFFICES ASSUME TablesInvariant, [Next]_vars PROVE TablesInvariant'
  OBVIOUS
<1>1. CASE Next
  BY <1>1, SandboxStepKeeps, NodeStepKeeps, HandlerStepKeeps, DiscoverKeeps, ZenonT(60) DEF Next
<1>2. CASE UNCHANGED vars
  <2>1. CallsTypeOK'
    BY <1>2, ZenonT(60) DEF TablesInvariant, CallsTypeOK, vars, nodeVars, callVars
  <2> QED BY <1>2, <2>1, TablesAlone DEF vars
<1> QED BY <1>1, <1>2

LEMMA TablesInit == Init => TablesInvariant
<1> SUFFICES ASSUME Init PROVE TablesInvariant
  OBVIOUS
<1>1. RegistryTypeOK /\ IntersectionCurrent
  BY DEF Init, NewRegistry, RegistryTypeOK, IntersectionCurrent, Observed
<1>2. StoreTypeOK /\ BindingIndexed
  BY NoNodeAssumption DEF Init, NewBindingStore, StoreTypeOK, BindingIndexed, BoundTo
<1>3. succeeded \in [Node -> BOOLEAN]
  BY ZenonT(60) DEF Init
<1>4. CallsTypeOK
  BY <1>3 DEF Init, CallsTypeOK
<1> QED BY <1>1, <1>2, <1>4 DEF TablesInvariant

(***************************************************************************)
(* The index of every node lists exactly the sandboxes bound to it, and an *)
(* intersection that is handed out is the one of the nodes that report,    *)
(* for any number of nodes, sandboxes, calls in flight and mishaps (the    *)
(* binding store and the node registry, under all their callers).          *)
(***************************************************************************)
THEOREM TablesAgree == Spec => [](BindingIndexed /\ IntersectionCurrent)
<1>1. TablesInvariant => BindingIndexed /\ IntersectionCurrent
  BY ZenonT(60) DEF TablesInvariant
<1> QED BY <1>1, TablesInit, TablesStepKeeps, PTL DEF Spec

\* A step that reconciles a call leaves its node with the call's roster.
ReconcileExact ==
    \A n \in Node : \A k \in 1..Len(calls[n]) :
        Reconcile(n, k) => BoundTo(n)' = calls[n][k].roster

(***************************************************************************)
(* A heartbeat's reconciliation, at whatever moment it comes, leaves its   *)
(* node with exactly the sandboxes of its roster, those that were bound to *)
(* another node included (ReconcileNode).                                  *)
(***************************************************************************)
THEOREM ReconciliationExact == Spec => [][ReconcileExact]_vars
<1>1. TablesInvariant => ReconcileExact
  <2> SUFFICES ASSUME TablesInvariant, NEW n \in Node, NEW k \in 1..Len(calls[n]),
                      Reconcile(n, k)
               PROVE  BoundTo(n)' = calls[n][k].roster
    BY ZenonT(60) DEF ReconcileExact
  <2>1. ReconcileNode(n, calls[n][k].roster)
    BY ZenonT(60) DEF Reconcile
  <2>2. calls[n][k].roster \in SUBSET Sandbox
    BY CallTyped DEF TablesInvariant
  <2> QED BY <2>1, <2>2, ReconcileIndexed DEF TablesInvariant
<1> QED BY <1>1, TablesInit, TablesStepKeeps, PTL DEF Spec

================================================================================
