----------------------------- MODULE BindingStore -----------------------------
(***************************************************************************)
(* The scheduler's table of which node has which sandbox, in its in-memory *)
(* form: the bindings themselves and, per node, the set of sandboxes bound *)
(* to it, by which a heartbeat finds what its roster no longer names.      *)
(*                                                                         *)
(* An operator here is one critical section of the store's mutex.          *)
(***************************************************************************)
EXTENDS NodeRegistry

CONSTANTS Sandbox, NoNode

VARIABLES
    bindings,       \* the node a sandbox is bound to, or NoNode
    nodeBinding     \* per node, the sandboxes the index lists

storeVars == <<bindings, nodeBinding>>

ASSUME NoNodeAssumption == NoNode \notin Node

StoreTypeOK ==
    /\ bindings \in [Sandbox -> Node \cup {NoNode}]
    /\ nodeBinding \in [Node -> SUBSET Sandbox]

NewBindingStore ==
    /\ bindings = [s \in Sandbox |-> NoNode]
    /\ nodeBinding = [n \in Node |-> {}]

BoundTo(n) == {s \in Sandbox : bindings[s] = n}

(***************************************************************************)
(* deleteLocked, for every sandbox of gone.                                *)
(***************************************************************************)
Delete(gone) ==
    /\ bindings' = [s \in Sandbox |-> IF s \in gone THEN NoNode ELSE bindings[s]]
    /\ nodeBinding' =
         [n \in Node |-> nodeBinding[n] \ {s \in gone : bindings[s] = n}]

(***************************************************************************)
(* Record, by upsertLocked: the index of the node the sandbox was bound to *)
(* loses it.                                                               *)
(***************************************************************************)
RecordBinding(s, n) ==
    /\ bindings' = [bindings EXCEPT ![s] = n]
    /\ nodeBinding' =
         [m \in Node |-> IF m = n THEN nodeBinding[m] \cup {s}
                         ELSE IF m = bindings[s] THEN nodeBinding[m] \ {s}
                         ELSE nodeBinding[m]]

\* Mutant: what the roster no longer names stays.
ReconcileNodeKeeps(n, roster) ==
    /\ bindings' = [s \in Sandbox |-> IF s \in roster THEN n ELSE bindings[s]]
    /\ nodeBinding' =
         [m \in Node |-> IF m = n THEN nodeBinding[m] \cup roster
                                  ELSE nodeBinding[m] \ roster]

\* Mutant: the index of the node a sandbox was bound to keeps it.
ReconcileNodeUnindexed(n, roster) ==
    /\ bindings' = [s \in Sandbox |-> CASE s \in roster -> n
                                        [] s \in nodeBinding[n] \ roster -> NoNode
                                        [] OTHER -> bindings[s]]
    /\ nodeBinding' = [nodeBinding EXCEPT ![n] = @ \cup roster]

(***************************************************************************)
(* ReconcileNode: every sandbox of the roster is bound to the node, and    *)
(* what the index lists beyond the roster is deleted.  An empty roster     *)
(* takes the code's own branch and deletes all the index lists.            *)
(***************************************************************************)
ReconcileNode(n, roster) ==
    LET gone == nodeBinding[n] \ roster IN
    /\ bindings' = [s \in Sandbox |-> CASE s \in roster -> n
                                        [] s \in gone -> NoNode
                                        [] OTHER -> bindings[s]]
    /\ nodeBinding' =
         [m \in Node |-> IF m = n THEN (nodeBinding[m] \cup roster) \ gone
                                  ELSE nodeBinding[m] \ (roster \cup gone)]

(***************************************************************************)
(* The index of a node lists exactly the sandboxes bound to it, across     *)
(* records, heartbeats, unregistrations and expiries: a sandbox missing in *)
(* the index would never be cleaned up by its node's heartbeats, and one   *)
(* too many would have the binding to another node deleted.                *)
(***************************************************************************)
BindingIndexed == \A n \in Node : nodeBinding[n] = BoundTo(n)

===============================================================================
