----------------------------- MODULE NodeRegistry -----------------------------
(***************************************************************************)
(* The scheduler's registry of nodes: those that discovery lists and those *)
(* that have reported, with the CPU configuration that all reporting nodes *)
(* have in common, which is computed once all have sent theirs and handed  *)
(* to each node once.  One cluster; a CPU configuration is named by the    *)
(* node it comes from, an intersection by the set of these.                *)
(*                                                                         *)
(* An operator here is one critical section of the registry's mutex.       *)
(***************************************************************************)
EXTENDS Naturals, FiniteSets

CONSTANTS Node, NoReport

VARIABLES
    nodesByID,          \* the discovered nodes
    lingeringIDs,       \* those of them that are terminating
    observed,           \* per node, its last report, or NoReport
    cpuIntersection,    \* the nodes intersected; {} when not computed
    intersectionSent    \* the nodes the intersection was handed to

registryVars ==
    <<nodesByID, lingeringIDs, observed, cpuIntersection, intersectionSent>>

ASSUME NoReportAssumption == NoReport \notin [inst : Nat, cpu : BOOLEAN]

RegistryTypeOK ==
    /\ nodesByID \in SUBSET Node /\ lingeringIDs \in SUBSET nodesByID
    /\ observed \in [Node -> [inst : Nat, cpu : BOOLEAN] \cup {NoReport}]
    /\ cpuIntersection \in SUBSET Node /\ intersectionSent \in SUBSET Node

NewRegistry ==
    /\ nodesByID = Node
    /\ lingeringIDs = {}
    /\ observed = [n \in Node |-> NoReport]
    /\ cpuIntersection = {}
    /\ intersectionSent = {}

Observed == {n \in Node : observed[n] # NoReport}

\* Mutant: a new intersection counts as sent to the nodes that had the old one.
StillSentAll(invalid, members) == intersectionSent

\* invalidateIntersectionLocked, on the marks of the nodes it was sent to.
StillSent(invalid, members) ==
    IF invalid THEN intersectionSent \ members ELSE intersectionSent

\* Set: reports of nodes that are gone are dropped, and what they took part in.
SetNodes(all, lingering) ==
    LET gone == Observed \ all IN
    /\ nodesByID' = all
    /\ lingeringIDs' = lingering
    /\ observed' = [n \in Node |-> IF n \in gone THEN NoReport ELSE observed[n]]
    /\ cpuIntersection' = IF gone = {} THEN cpuIntersection ELSE {}
    /\ intersectionSent' = StillSent(gone # {}, Observed)

(***************************************************************************)
(* heartbeatLocked, for a discovered node.  An empty configuration keeps   *)
(* the one reported before.  The first report of a node and a changed      *)
(* configuration make the intersection invalid; it is computed again when  *)
(* all reports have a configuration.  The node is handed the result unless *)
(* it has it; a pulled report (unsent) leaves that for a heartbeat.        *)
(***************************************************************************)
Report(n, inst, cpu) ==
    LET prev == observed[n]
        has == cpu \/ (prev # NoReport /\ prev.cpu)
        fresh == prev = NoReport \/ has # prev.cpu
        reports == [observed EXCEPT ![n] = [inst |-> inst, cpu |-> has]]
        now == {m \in Node : reports[m] # NoReport}
        ready == \A m \in now : reports[m].cpu
        left == IF fresh THEN {} ELSE cpuIntersection
        result == IF left # {} \/ ~ready THEN left ELSE now
        sentLeft == StillSent(fresh, now)
    IN  [reports |-> reports,
         result |-> result,
         unsent |-> sentLeft,
         sent |-> IF result # {} THEN sentLeft \cup {n} ELSE sentLeft,
         answer |-> IF n \in sentLeft THEN {} ELSE result]

\* Mutant: a node that leaves does not make the intersection invalid.
UnregisterObservedKeeps(n) ==
    /\ observed' = [observed EXCEPT ![n] = NoReport]
    /\ UNCHANGED <<nodesByID, lingeringIDs, cpuIntersection, intersectionSent>>

\* UnregisterObserved, for an instance that is the one reported.  The node is
\* not reported any more when the marks of the intersection are taken away.
UnregisterObserved(n) ==
    /\ observed' = [observed EXCEPT ![n] = NoReport]
    /\ cpuIntersection' = {}
    /\ intersectionSent' = StillSent(TRUE, Observed \ {n})
    /\ UNCHANGED <<nodesByID, lingeringIDs>>

(***************************************************************************)
(* The intersection handed out is the one of the nodes that report: as     *)
(* nodes come, go and restart with one still in use, no node is given a    *)
(* configuration that some reporting node does not support, and a node     *)
(* counts as served only with the intersection in force.                   *)
(***************************************************************************)
IntersectionCurrent ==
    /\ cpuIntersection # {} => cpuIntersection = Observed
    /\ intersectionSent \cap Observed # {} => cpuIntersection # {}

===============================================================================
