------------------------------- MODULE Volumes -------------------------------
(***************************************************************************)
(* Writable volumes: VolumeManager (src/volume/mod.rs) on several nodes     *)
(* over the shared catalog, and the calls of the sandbox API and of the     *)
(* orchestrator that mount, capture, publish and release volumes.           *)
(*                                                                          *)
(* A sandbox and the request that creates it are one process; the API call  *)
(* that takes a snapshot is another, which goes on publishing after the     *)
(* sandbox is running again.  The content of a volume is a number: every    *)
(* write of a guest makes a new one.                                        *)
(***************************************************************************)
EXTENDS VolumeCatalog, SequencesExt

CONSTANTS Node, Sandbox,
          Host,        \* the node of each sandbox
          Scenarios,   \* the sets of sandboxes that clients create
          Mounts,      \* the volumes each sandbox mounts, in mount-path order
          Order,       \* and in the order in which the map of them is iterated
          Paused,      \* the sandboxes that are paused
          Snapshotted, \* the sandboxes a snapshot is taken of
          Discarded,   \* the volumes a client deletes
          Recreated,   \* the sandboxes whose client makes another one like it
          MaxWrites,   \* bound on the writes of all guests
          MaxMishaps,  \* bound on calls and captures that fail and nodes that crash
          Excused      \* the kinds of loss the properties except; see Loss

(***************************************************************************)
(* What happens to a volume that the code does not make good.               *)
(*   dropped     its sandbox was stopped by a pause or snapshot that failed *)
(*               and it was not sealed, or publishing then failed           *)
(*   early       its sandbox was ended by somebody before the request that  *)
(*               created it had made the reservation the sandbox's          *)
(*   unfinished  that request could not, and deleted the sandbox            *)
(*   overtaken   its sandbox was ended while a snapshot of it was being     *)
(*               published                                                  *)
(*   restored    a restart brought back a paused sandbox that no longer had *)
(*               the reservation                                            *)
(*   unreturned  giving the reservation back failed and was only logged, or *)
(*               taking it failed after it had been taken                   *)
(***************************************************************************)
Loss == {"dropped", "early", "unfinished", "overtaken", "restored", "unreturned"}

ASSUME MountsAssumption ==
  /\ Host \in [Sandbox -> Node] /\ Scenarios \subseteq SUBSET Sandbox
  /\ {Mounts, Order} \subseteq [Sandbox -> Seq(Volume)]
  /\ \A s \in Sandbox : ToSet(Order[s]) = ToSet(Mounts[s]) /\ Len(Order[s]) = Len(Mounts[s])
  /\ {Paused, Snapshotted, Recreated} \subseteq SUBSET Sandbox
  /\ Discarded \subseteq Volume
  /\ {MaxWrites, MaxMishaps} \subseteq Nat
  /\ Excused \subseteq Loss

VARIABLES cached,   \* the layers each node's cached record has a backing for
          local,    \* the content of each node's image.json of a volume
          guest,    \* what each sandbox reads from its volumes
          state,    \* of the sandbox, as the orchestrator's store has it
          pc, at,   \* the request that creates it, and the mount it has come to
          due,      \* the requests still to come for snapshots and other sandboxes
          undone,   \* the mounts that request has given back
          read,     \* the record that request has read
          op, done, \* the operation on the sandbox, and the mounts it is done with
          failed,   \* the operation's capture has failed
          pub,      \* the publications under way
          latest,   \* the content of each volume after the last write
          lost,     \* the kinds of loss each volume was exposed to
          faults, crashes

catalogVars == <<catalog, latest, lost>>
nodeVars == <<cached, local>>
requestVars == <<pc, due, at, undone, read>>
sandboxVars == <<guest, state, op, done, failed>>
mishapVars == <<faults, crashes>>
vars == <<catalogVars, nodeVars, requestVars, sandboxVars, pub, mishapVars>>

Content == 1 .. MaxWrites + 1
Nothing == 0

\* A mount is reserved for the request before the sandbox has it.
Pending(s) == <<s, "pending">>
Named(s) == <<s, "sandbox">>
Owner == Sandbox \X {"pending", "sandbox"}

\* A publication belongs to an operation on the sandbox or to a snapshot of it.
Life(s) == <<s, "life">>
Snap(s) == <<s, "snap">>
Publisher == Sandbox \X {"life", "snap"}

Idle == [at |-> "idle", owner |-> NoOwner, vols |-> <<>>, left |-> <<>>, recs |-> <<>>]
Recs == [v : Volume, status : Status, layers : Content, path : BOOLEAN]

Requests == (Recreated \X {"create"}) \cup (Snapshotted \X {"snapshot"})

Unread == [layers |-> Nothing, path |-> FALSE]
Unmounted == [v \in Volume |-> Nothing]

Mounted(s) == {Mounts[s][i] : i \in DOMAIN Mounts[s]}

TypeOK ==
  /\ catalog \in [Volume -> [status : Status, owner : Owner \cup {NoOwner}, layers : Content]]
  /\ latest \in [Volume -> Content] /\ lost \in [Volume -> SUBSET Loss]
  /\ {cached, local} \subseteq [Node -> [Volume -> Content \cup {Nothing}]]
  /\ guest \in [Sandbox -> [Volume -> Content \cup {Nothing}]]
  /\ state \in [Sandbox -> {"absent", "running", "paused", "gone"}]
  /\ pc \in [Sandbox -> {"get", "reserve", "read", "materialize", "launch",
                         "finish", "delete", "deleting", "undo", "return", "end"}]
  /\ op \in [Sandbox -> {"none", "publish", "fail", "release", "terminal", "abandon"}]
  /\ {at, undone, done} \subseteq [Sandbox -> Nat]
  /\ failed \in [Sandbox -> BOOLEAN] /\ due \subseteq Requests
  /\ read \in [Sandbox -> [layers : Content \cup {Nothing}, path : BOOLEAN]]
  /\ \A p \in Publisher : /\ {pub[p].vols, pub[p].left} \subseteq Seq(Volume)
                          /\ pub[p].recs \in Seq(Recs)
                          /\ pub[p].owner \in Owner \cup {NoOwner}
  /\ {faults, crashes} \subseteq Nat /\ faults + crashes <= MaxMishaps

Init ==
  /\ catalog = [v \in Volume |-> NewRecord]
  /\ latest = [v \in Volume |-> 1] /\ lost = [v \in Volume |-> {}]
  /\ cached = [n \in Node |-> Unmounted]
  /\ local = cached
  /\ guest = [s \in Sandbox |-> Unmounted]
  /\ state = [s \in Sandbox |-> "absent"]
  /\ \E some \in Scenarios :
       /\ pc = [s \in Sandbox |-> IF s \in some THEN "get" ELSE "end"]
       /\ due = {r \in Requests : r[1] \in some}
  /\ at = [s \in Sandbox |-> 1]
  /\ undone = [s \in Sandbox |-> 0]
  /\ read = [s \in Sandbox |-> Unread]
  /\ op = [s \in Sandbox |-> "none"]
  /\ done = [s \in Sandbox |-> 0]
  /\ failed = [s \in Sandbox |-> FALSE]
  /\ pub = [p \in Publisher |-> Idle]
  /\ faults = 0 /\ crashes = 0

\* A capture fails, or a call to the repository does, whether or not it has
\* changed the catalog.
Fault ==
  /\ faults + crashes < MaxMishaps
  /\ faults' = faults + 1
  /\ UNCHANGED crashes

\* History: these volumes are exposed to this kind of loss.
Expose(vols, kind) ==
  lost' = [v \in Volume |-> IF v \in vols THEN lost[v] \cup {kind} ELSE lost[v]]

\* current_local_backing: the backing the node has cached for these layers.
CurrentLocalBacking(n, v, layers) == cached[n][v] = layers /\ local[n][v] # Nothing

\* cache_record, with or without a backing.
CacheRecord(n, v, layers, path) ==
  cached' = [cached EXCEPT ![n][v] = IF path THEN layers ELSE Nothing]

Goto(s, l) == pc' = [pc EXCEPT ![s] = l]

\* The sealed upper of each mount is put on top of the node's image.json.
Restacked(s, vols) ==
  [local EXCEPT ![Host[s]] = [v \in Volume |-> IF v \in vols THEN guest[s][v] ELSE @[v]]]

------------------------------------------------------------------------------
(***************************************************************************)
(* The request that creates a sandbox with volumes.                         *)
(***************************************************************************)
Mount(s) == Mounts[s][at[s]]

\* The client of a sandbox that is gone makes another one.  Its id is new: it
\* stands for the same one here once nothing is reserved for that.
CreateAnother(s) ==
  /\ <<s, "create">> \in due
  /\ pc[s] = "end" /\ state[s] \in {"absent", "gone"} /\ op[s] = "none"
  /\ pub[Snap(s)] = Idle
  /\ \A v \in Volume : catalog[v].owner \notin {Pending(s), Named(s)}
  /\ due' = due \ {<<s, "create">>}
  /\ Goto(s, "get")
  /\ at' = [at EXCEPT ![s] = 1]
  /\ state' = [state EXCEPT ![s] = "absent"]
  /\ UNCHANGED <<catalogVars, nodeVars, undone, read, guest, op, done, failed, pub, mishapVars>>

\* reserve reads the record; a volume that is not ready is refused.
Get(s) ==
  /\ pc[s] = "get"
  /\ LET v == Mount(s) IN
     \/ /\ Usable(v)
        /\ read' = [read EXCEPT ![s] = [layers |-> catalog[v].layers,
                       path |-> CurrentLocalBacking(Host[s], v, catalog[v].layers)]]
        /\ Goto(s, "reserve")
        /\ UNCHANGED <<at, mishapVars>>
     \/ /\ Fault \/ (~Usable(v) /\ UNCHANGED mishapVars)
        /\ Goto(s, "undo")
        /\ at' = [at EXCEPT ![s] = @ - 1]
        /\ UNCHANGED read
  /\ UNCHANGED <<catalogVars, nodeVars, due, undone, sandboxVars, pub>>

\* What it has read goes into the cache, which another node's owner may have
\* made stale by then.  A reservation that fails is not among those given back.
ReserveMount(s) ==
  /\ pc[s] = "reserve"
  /\ LET v == Mount(s) IN
     \/ /\ Reserved(v, Pending(s))
        /\ catalog' = Reserve(v, Pending(s))
        /\ CacheRecord(Host[s], v, read[s].layers, read[s].path)
        /\ Goto(s, "read")
        /\ UNCHANGED <<lost, at, mishapVars>>
     \/ /\ \/ Fault /\ UNCHANGED <<catalog, lost>>
           \/ /\ Fault /\ Reserved(v, Pending(s))
              /\ catalog' = Reserve(v, Pending(s))
              /\ Expose({v}, "unreturned")
           \/ ~Reserved(v, Pending(s)) /\ UNCHANGED <<catalog, lost, mishapVars>>
        /\ Goto(s, "undo")
        /\ at' = [at EXCEPT ![s] = @ - 1]
        /\ UNCHANGED cached
  /\ UNCHANGED <<latest, local, due, undone, read, sandboxVars, pub>>

NextMount(s) ==
  /\ IF at[s] < Len(Mounts[s])
     THEN Goto(s, "get") /\ at' = [at EXCEPT ![s] = @ + 1]
     ELSE Goto(s, "launch") /\ UNCHANGED at
  /\ read' = [read EXCEPT ![s] = Unread]

\* materialize_backing keeps a backing of the current layers ...
ReadBacking(s) ==
  /\ pc[s] = "read"
  /\ LET v == Mount(s)
         layers == catalog[v].layers
     IN \/ /\ CurrentLocalBacking(Host[s], v, layers)
           /\ NextMount(s)
           /\ UNCHANGED mishapVars
        \/ /\ ~CurrentLocalBacking(Host[s], v, layers)
           /\ read' = [read EXCEPT ![s] = [layers |-> layers, path |-> FALSE]]
           /\ Goto(s, "materialize")
           /\ UNCHANGED <<at, mishapVars>>
        \/ Fault /\ Goto(s, "undo") /\ UNCHANGED <<at, read>>
  /\ UNCHANGED <<catalogVars, nodeVars, due, undone, sandboxVars, pub>>

\* ... and otherwise writes image.json for the layers it has read.
MaterializeBacking(s) ==
  /\ pc[s] = "materialize"
  /\ LET v == Mount(s) IN
     \/ /\ local' = [local EXCEPT ![Host[s]][v] = read[s].layers]
        /\ CacheRecord(Host[s], v, read[s].layers, TRUE)
        /\ NextMount(s)
        /\ UNCHANGED mishapVars
     \/ Fault /\ Goto(s, "undo") /\ UNCHANGED <<nodeVars, at, read>>
  /\ UNCHANGED <<catalogVars, due, undone, sandboxVars, pub>>

\* create_sandbox: the guest sees the node's backing.
Launch(s) ==
  /\ pc[s] = "launch"
  /\ \/ /\ state' = [state EXCEPT ![s] = "running"]
        /\ guest' = [guest EXCEPT ![s] = [v \in Volume |->
                       IF v \in Mounted(s) THEN local[Host[s]][v] ELSE Nothing]]
        /\ Goto(s, "finish")
        /\ at' = [at EXCEPT ![s] = 1]
     \/ /\ Goto(s, "return")
        /\ UNCHANGED <<state, guest, at>>
  /\ UNCHANGED <<catalogVars, nodeVars, due, undone, read, op, done, failed, pub, mishapVars>>

\* finish_volume_reservation: the sandbox takes each mount over.  When one of
\* them fails the sandbox is deleted and what is still pending given back.
Finish(s) ==
  /\ pc[s] = "finish"
  /\ LET taken == ReplaceOwner(Order[s][at[s]], Pending(s), Named(s)) IN
     \/ /\ catalog' = taken
        /\ IF at[s] < Len(Order[s])
           THEN at' = [at EXCEPT ![s] = @ + 1] /\ UNCHANGED pc
           ELSE at' = [at EXCEPT ![s] = 1] /\ Goto(s, "end")
        /\ UNCHANGED mishapVars
     \/ /\ Fault
        /\ catalog' \in {catalog, taken}
        /\ at' = [at EXCEPT ![s] = Len(Order[s])]
        /\ Goto(s, "delete")
  /\ UNCHANGED <<latest, lost, nodeVars, due, undone, read, sandboxVars, pub>>

\* The delete of the request finds that the sandbox is gone already.
DeleteFindsNone(s) ==
  /\ pc[s] = "delete" /\ state[s] = "gone"
  /\ Goto(s, "return")
  /\ UNCHANGED <<catalogVars, nodeVars, due, at, undone, read, sandboxVars, pub, mishapVars>>

RequestEnds(s) ==
  /\ Goto(s, "end")
  /\ at' = [at EXCEPT ![s] = 1]
  /\ undone' = [undone EXCEPT ![s] = 0]
  /\ read' = [read EXCEPT ![s] = Unread]

\* replace_owner_for(pending, None) stops at the first failure, which the
\* request ignores.
Undo(s) ==
  /\ pc[s] \in {"undo", "return"}
  /\ LET v == IF pc[s] = "undo" THEN Mounts[s][undone[s] + 1] ELSE Order[s][undone[s] + 1]
         given == ReplaceOwner(v, Pending(s), NoOwner)
     IN \/ /\ undone[s] < at[s]
           /\ catalog' = given
           /\ undone' = [undone EXCEPT ![s] = @ + 1]
           /\ UNCHANGED <<lost, pc, at, read, mishapVars>>
        \/ /\ undone[s] < at[s]
           /\ Fault
           /\ catalog' \in {catalog, given}
           /\ Expose({w \in Mounted(s) : catalog'[w].owner = Pending(s)}, "unreturned")
           /\ RequestEnds(s)
        \/ /\ undone[s] = at[s]
           /\ RequestEnds(s)
           /\ UNCHANGED <<catalog, lost, mishapVars>>
  /\ UNCHANGED <<latest, nodeVars, due, sandboxVars, pub>>

RequestStep(s) ==
  \/ CreateAnother(s) \/ Get(s) \/ ReserveMount(s) \/ ReadBacking(s) \/ MaterializeBacking(s)
  \/ Launch(s) \/ Finish(s) \/ DeleteFindsNone(s) \/ Undo(s)

------------------------------------------------------------------------------
(***************************************************************************)
(* Operations on the sandbox.  The orchestrator's store admits one at a     *)
(* time, and from the moment the sandbox runs: the request that creates it  *)
(* may not have ended.                                                      *)
(***************************************************************************)
Free(s) == op[s] = "none"

Publishing(p, o, vols) ==
  pub' = [pub EXCEPT ![p] = [at |-> "recover", owner |-> o, vols |-> vols,
                             left |-> vols, recs |-> <<>>]]

Write(s, v) ==
  /\ state[s] = "running" /\ Free(s) /\ v \in Mounted(s)
  /\ FoldFunction(+, 0, latest) < Cardinality(Volume) + MaxWrites
  /\ latest' = [latest EXCEPT ![v] = @ + 1]
  /\ guest' = [guest EXCEPT ![s][v] = latest[v] + 1]
  /\ UNCHANGED <<catalog, lost, nodeVars, requestVars, state, op, done, failed, pub, mishapVars>>

\* Mutant: a pause leaves the uppers of the volumes where they are.
PauseUnsealed(s) ==
  /\ s \in Paused
  /\ state[s] = "running" /\ Free(s)
  /\ state' = [state EXCEPT ![s] = "paused"]
  /\ UNCHANGED <<catalogVars, nodeVars, requestVars, guest, op, done, failed, pub, mishapVars>>

\* A pause seals the volumes and publishes nothing.
Pause(s) ==
  /\ s \in Paused
  /\ state[s] = "running" /\ Free(s)
  /\ local' = Restacked(s, Mounted(s))
  /\ state' = [state EXCEPT ![s] = "paused"]
  /\ UNCHANGED <<catalogVars, cached, requestVars, guest, op, done, failed, pub, mishapVars>>

Resume(s) ==
  /\ state[s] = "paused" /\ Free(s)
  /\ state' = [state EXCEPT ![s] = "running"]
  /\ guest' = [guest EXCEPT ![s] = [v \in Volume |->
                 IF v \in Mounted(s) THEN local[Host[s]][v] ELSE Nothing]]
  /\ UNCHANGED <<catalogVars, nodeVars, requestVars, op, done, failed, pub, mishapVars>>

\* A snapshot seals the volumes; its request publishes them when the sandbox
\* is running again.
Snapshot(s) ==
  /\ <<s, "snapshot">> \in due
  /\ state[s] = "running" /\ Free(s)
  /\ due' = due \ {<<s, "snapshot">>}
  /\ local' = Restacked(s, Mounted(s))
  /\ pub' = [pub EXCEPT ![Snap(s)].at = "state", ![Snap(s)].left = Order[s]]
  /\ UNCHANGED <<catalogVars, cached, pc, at, undone, read, sandboxVars, mishapVars>>

\* History: the kinds of loss a volume is exposed to when its sandbox is ended
\* by the request that created it, or by somebody else.
Exposed(s, v, by) ==
  {k \in Loss :
    \/ k = "overtaken" /\ pub[Snap(s)] # Idle
    \/ k = "unfinished" /\ by = "request" /\ catalog[v].owner # Named(s)
    \/ k = "early" /\ by = "other" /\ pc[s] # "end" /\ catalog[v].owner # Named(s)}

Ending(s, by, unsealed) ==
  lost' = [v \in Volume |->
    lost[v] \cup (IF v \in Mounted(s) THEN Exposed(s, v, by) ELSE {})
           \cup (IF v \in unsealed THEN {"dropped"} ELSE {})]

\* A pause or snapshot that cannot put the sandbox back: some volumes are
\* sealed, the sandbox is stopped and finalize_terminal_volumes publishes.
Terminal(s) ==
  /\ state[s] = "running" /\ Free(s)
  /\ Fault
  /\ \E vols \in SUBSET Mounted(s) :
       local' = Restacked(s, vols) /\ Ending(s, "other", Mounted(s) \ vols)
  /\ op' = [op EXCEPT ![s] = "terminal"]
  /\ Publishing(Life(s), Named(s), Order[s])
  /\ UNCHANGED <<catalog, latest, cached, requestVars, guest, state, done, failed>>

(***************************************************************************)
(* delete_sandbox_impl freezes and seals the volumes of a running sandbox   *)
(* and publishes.  What fails recoverably is as if nothing had happened,    *)
(* except that some volumes are sealed; otherwise the volumes are failed.   *)
(***************************************************************************)
DeleteBy(s, by) ==
  /\ state[s] \in {"running", "paused"} /\ Free(s)
  /\ \/ /\ local' = IF state[s] = "running" THEN Restacked(s, Mounted(s)) ELSE local
        /\ op' = [op EXCEPT ![s] = "publish"]
        /\ Publishing(Life(s), Named(s), Order[s])
        /\ pc' = IF by = "request" THEN [pc EXCEPT ![s] = "deleting"] ELSE pc
        /\ Ending(s, by, {})
        /\ UNCHANGED <<failed, mishapVars>>
     \/ /\ state[s] = "running"
        /\ Fault
        /\ \E vols \in SUBSET Mounted(s) : local' = Restacked(s, vols)
        /\ \/ /\ op' = [op EXCEPT ![s] = "fail"] /\ failed' = [failed EXCEPT ![s] = TRUE]
              /\ pc' = IF by = "request" THEN [pc EXCEPT ![s] = "deleting"] ELSE pc
           \/ /\ pc' = IF by = "request" THEN [pc EXCEPT ![s] = "return"] ELSE pc
              /\ UNCHANGED <<op, failed>>
        /\ Ending(s, by, {})
        /\ UNCHANGED pub
  /\ UNCHANGED <<catalog, latest, cached, due, at, undone, read, guest, state, done>>

\* A client or the sandbox's timeout deletes it, or the request whose
\* finish_volume_reservation failed.
Delete(s) == DeleteBy(s, "other") \/ (pc[s] = "delete" /\ DeleteBy(s, "request"))

\* The publication is over; a failed one gives a running sandbox back thawed.
Published(s) ==
  /\ op[s] = "publish" /\ pub[Life(s)].at \in {"ok", "error"}
  /\ pub' = [pub EXCEPT ![Life(s)] = Idle]
  /\ \/ /\ pub[Life(s)].at = "ok"
        /\ op' = [op EXCEPT ![s] = "release"]
        /\ UNCHANGED <<pc, failed>>
     \/ /\ pub[Life(s)].at = "error"
        /\ op' = [op EXCEPT ![s] = "none"]
        /\ pc' = [pc EXCEPT ![s] = IF @ = "deleting" THEN "return" ELSE @]
        /\ UNCHANGED failed
     \/ /\ pub[Life(s)].at = "error" /\ state[s] = "running"
        /\ op' = [op EXCEPT ![s] = "fail"]
        /\ failed' = [failed EXCEPT ![s] = TRUE]
        /\ UNCHANGED pc
  /\ UNCHANGED <<catalogVars, nodeVars, due, at, undone, read, guest, state, done, mishapVars>>

\* finalize_terminal_volumes releases whether or not it could publish.
Finalized(s) ==
  /\ op[s] = "terminal" /\ pub[Life(s)].at \in {"ok", "error"}
  /\ pub' = [pub EXCEPT ![Life(s)] = Idle]
  /\ op' = [op EXCEPT ![s] = "abandon"]
  /\ Expose(IF pub[Life(s)].at = "error" THEN Mounted(s) ELSE {}, "dropped")
  /\ UNCHANGED <<catalog, latest, nodeVars, requestVars, guest, state, done, failed, mishapVars>>

\* Mutant: the volumes of a failed capture are released as they are.
FailBackingSkips(s) ==
  /\ op[s] = "fail"
  /\ op' = [op EXCEPT ![s] = "release"]
  /\ UNCHANGED <<catalogVars, nodeVars, requestVars, guest, state, done, failed, pub, mishapVars>>

\* fail_backings, for one mount.  A delete that fails here starts again.
FailBacking(s) ==
  /\ op[s] = "fail"
  /\ LET v == Order[s][done[s] + 1]
         last == done[s] + 1 = Len(Order[s])
         marked == IF catalog[v].owner = Named(s)
                   THEN Put(v, "failed", catalog[v].layers) ELSE catalog
     IN \/ /\ catalog' = marked
           /\ IF catalog[v].owner = Named(s)
              THEN CacheRecord(Host[s], v, catalog[v].layers,
                               CurrentLocalBacking(Host[s], v, catalog[v].layers))
              ELSE UNCHANGED cached
           /\ done' = [done EXCEPT ![s] = IF last THEN 0 ELSE @ + 1]
           /\ op' = [op EXCEPT ![s] = IF last THEN "release" ELSE @]
           /\ UNCHANGED mishapVars
        \/ /\ Fault
           /\ catalog' \in {catalog, marked}
           /\ done' = [done EXCEPT ![s] = 0]
           /\ UNCHANGED <<cached, op>>
  /\ UNCHANGED <<latest, lost, local, requestVars, guest, state, failed, pub>>

\* Mutant: a request that had its sandbox deleted gives nothing back itself.
RemovedForgets(s) ==
  /\ op' = [op EXCEPT ![s] = "none"]
  /\ state' = [state EXCEPT ![s] = "gone"]
  /\ guest' = [guest EXCEPT ![s] = Unmounted]
  /\ done' = [done EXCEPT ![s] = 0]
  /\ failed' = [failed EXCEPT ![s] = FALSE]
  /\ pc' = [pc EXCEPT ![s] = IF @ = "deleting" THEN "end" ELSE @]

\* The operation is over and the sandbox removed.
Removed(s) ==
  /\ op' = [op EXCEPT ![s] = "none"]
  /\ state' = [state EXCEPT ![s] = "gone"]
  /\ guest' = [guest EXCEPT ![s] = Unmounted]
  /\ done' = [done EXCEPT ![s] = 0]
  /\ failed' = [failed EXCEPT ![s] = FALSE]
  /\ pc' = [pc EXCEPT ![s] = IF @ = "deleting" THEN "return" ELSE @]

\* replace_owner_for(sandbox, None).  A delete that fails here starts again;
\* the end of a sandbox after a terminal failure only logs it.
ReleaseMount(s) ==
  /\ op[s] \in {"release", "abandon"}
  /\ LET v == Order[s][done[s] + 1]
         given == ReplaceOwner(v, Named(s), NoOwner)
     IN IF done[s] = Len(Order[s])
        THEN Removed(s) /\ UNCHANGED <<catalog, lost, mishapVars>>
        ELSE \/ /\ catalog' = given
                /\ done' = [done EXCEPT ![s] = @ + 1]
                /\ UNCHANGED <<lost, op, state, guest, failed, pc, mishapVars>>
             \/ /\ Fault
                /\ catalog' \in {catalog, given}
                /\ IF op[s] = "abandon"
                   THEN /\ Removed(s)
                        /\ Expose({w \in Mounted(s) : catalog'[w].owner = Named(s)}, "unreturned")
                   ELSE /\ done' = [done EXCEPT ![s] = 0]
                        /\ op' = [op EXCEPT ![s] = IF failed[s] THEN "fail" ELSE "release"]
                        /\ UNCHANGED <<lost, state, guest, failed, pc>>
  /\ UNCHANGED <<latest, nodeVars, due, at, undone, read, pub>>

SandboxStep(s) ==
  \/ \E v \in Volume : Write(s, v)
  \/ Pause(s) \/ Resume(s) \/ Snapshot(s) \/ Terminal(s) \/ Delete(s)
  \/ Published(s) \/ Finalized(s) \/ FailBacking(s) \/ ReleaseMount(s)

------------------------------------------------------------------------------
(***************************************************************************)
(* Publications.                                                            *)
(***************************************************************************)
To(p, l) == pub' = [pub EXCEPT ![p].at = l]
NodeOf(p) == Host[p[1]]

\* snapshot_volume_state, for the next mount: whoever has the volume now.
SnapshotVolumeState(p) ==
  /\ pub[p].at = "state"
  /\ LET v == Head(pub[p].left)
         r == catalog[v]
     IN \/ /\ pub' = [pub EXCEPT ![p] =
                IF ~Exists(v) THEN Idle
                ELSE IF r.owner # NoOwner
                THEN [at |-> "recover", owner |-> r.owner, vols |-> pub[p].left,
                      left |-> <<v>>, recs |-> <<>>]
                ELSE [at |-> "loose", owner |-> NoOwner, vols |-> pub[p].left, left |-> <<>>,
                      recs |-> <<[v |-> v, status |-> r.status, layers |-> r.layers,
                                  path |-> CurrentLocalBacking(NodeOf(p), v, r.layers)]>>]]
           /\ UNCHANGED mishapVars
        \/ Fault /\ pub' = [pub EXCEPT ![p] = Idle]
  /\ UNCHANGED <<catalogVars, nodeVars, requestVars, sandboxVars>>

\* The volumes publish_backings is called with.
Vols(p) == IF p[2] = "snap" THEN <<Head(pub[p].vols)>> ELSE pub[p].vols

\* A snapshot goes on with the next mount, or stops at an error.
Ended(p, result) ==
  IF p[2] = "life" THEN [Idle EXCEPT !.at = result]
  ELSE IF result = "error" THEN Idle
  ELSE IF Len(pub[p].vols) = 1 THEN Idle
  ELSE [Idle EXCEPT !.at = "state", !.left = Tail(pub[p].vols)]

\* The next volume of a phase, or the first one of the next phase.
Gathering(p) ==
  IF Len(pub[p].left) > 1 THEN [pub[p] EXCEPT !.left = Tail(@)]
  ELSE [pub[p] EXCEPT !.at = "gather", !.left = Vols(p)]

Marking(p, recs) ==
  IF Len(pub[p].left) > 1 THEN [pub[p] EXCEPT !.left = Tail(@), !.recs = recs]
  ELSE IF recs = <<>> THEN Ended(p, "ok")
  ELSE [pub[p] EXCEPT !.at = "mark", !.left = <<>>, !.recs = recs]

(***************************************************************************)
(* recover_backings: a reserved volume whose record is not cached with a    *)
(* backing gets the node's image.json for one.                              *)
(***************************************************************************)
RecoverBacking(p) ==
  /\ pub[p].at = "recover"
  /\ LET v == Head(pub[p].left)
         r == catalog[v]
         n == NodeOf(p)
         missing == r.owner = pub[p].owner /\ ~CurrentLocalBacking(n, v, r.layers)
         none == missing /\ local[n][v] = Nothing
     IN \/ /\ Exists(v) /\ ~none
           /\ pub' = [pub EXCEPT ![p] = Gathering(p)]
           /\ IF missing THEN CacheRecord(n, v, r.layers, TRUE) ELSE UNCHANGED cached
           /\ UNCHANGED <<catalog, mishapVars>>
        \/ /\ Exists(v) /\ none
           /\ pub' = [pub EXCEPT ![p] = Ended(p, "error")]
           /\ CacheRecord(n, v, r.layers, FALSE)
           /\ \/ catalog' = Put(v, "failed", r.layers) /\ UNCHANGED mishapVars
              \/ Fault /\ UNCHANGED catalog
        \/ /\ Fault \/ (~Exists(v) /\ UNCHANGED mishapVars)
           /\ pub' = [pub EXCEPT ![p] = Ended(p, "error")]
           /\ UNCHANGED <<catalog, cached>>
  /\ UNCHANGED <<latest, lost, local, requestVars, sandboxVars>>

\* publish_backings reads the records of the volumes the owner has.
GatherRecord(p) ==
  /\ pub[p].at = "gather"
  /\ LET v == Head(pub[p].left)
         r == catalog[v]
         rec == [v |-> v, status |-> r.status, layers |-> r.layers,
                 path |-> CurrentLocalBacking(NodeOf(p), v, r.layers)]
     IN \/ /\ Exists(v)
           /\ pub' = [pub EXCEPT ![p] =
                Marking(p, IF r.owner = pub[p].owner THEN Append(@.recs, rec) ELSE @.recs)]
           /\ UNCHANGED mishapVars
        \/ /\ Fault \/ (~Exists(v) /\ UNCHANGED mishapVars)
           /\ pub' = [pub EXCEPT ![p] = Ended(p, "error")]
  /\ UNCHANGED <<catalogVars, nodeVars, requestVars, sandboxVars>>

\* persist_catalog, and cache_record when it succeeds.
PutThen(p, status, l) ==
  LET r == Head(pub[p].recs) IN
  \/ /\ Accepted(r.v, status, r.layers)
     /\ catalog' = Put(r.v, status, r.layers)
     /\ CacheRecord(NodeOf(p), r.v, r.layers, r.path)
     /\ pub' = [pub EXCEPT ![p] = l]
     /\ UNCHANGED mishapVars
  \/ /\ \/ Fault /\ Accepted(r.v, status, r.layers)
           /\ catalog' \in {catalog, Put(r.v, status, r.layers)}
        \/ ~Accepted(r.v, status, r.layers) /\ UNCHANGED <<catalog, mishapVars>>
     /\ To(p, "failed")
     /\ UNCHANGED cached

\* publish_records: the volume is unusable from before the upload ...
MarkUploading(p) ==
  /\ pub[p].at = "mark"
  /\ PutThen(p, "uploading", [pub[p] EXCEPT !.at = "upload"])
  /\ UNCHANGED <<latest, lost, local, requestVars, sandboxVars>>

\* ... which publish_backing does if the node has a backing ...
PublishBacking(p) ==
  /\ pub[p].at \in {"upload", "loose"}
  /\ LET r == Head(pub[p].recs) IN
     \/ /\ r.path => local[NodeOf(p)][r.v] # Nothing
        /\ pub' = [pub EXCEPT ![p].recs[1].layers = IF r.path THEN local[NodeOf(p)][r.v] ELSE @,
                              ![p].at = IF @ = "upload" THEN "ready" ELSE "put"]
        /\ UNCHANGED mishapVars
     \/ /\ Fault \/ (r.path /\ local[NodeOf(p)][r.v] = Nothing /\ UNCHANGED mishapVars)
        /\ pub' = [pub EXCEPT ![p] = IF @.at = "upload" THEN [@ EXCEPT !.at = "failed"] ELSE Idle]
  /\ UNCHANGED <<catalogVars, nodeVars, requestVars, sandboxVars>>

\* ... until its new layers are in the catalog.
MarkReady(p) ==
  /\ pub[p].at = "ready"
  /\ PutThen(p, "ready", IF Len(pub[p].recs) = 1 THEN Ended(p, "ok")
                         ELSE [pub[p] EXCEPT !.at = "mark", !.recs = Tail(@)])
  /\ UNCHANGED <<latest, lost, local, requestVars, sandboxVars>>

\* mark_publication_failed: what the catalog refuses is only logged.
MarkFailed(p) ==
  /\ pub[p].at = "failed"
  /\ LET r == Head(pub[p].recs) IN
     /\ \/ /\ Accepted(r.v, "failed", r.layers)
           /\ catalog' = Put(r.v, "failed", r.layers)
           /\ UNCHANGED mishapVars
        \/ /\ Fault \/ (~Accepted(r.v, "failed", r.layers) /\ UNCHANGED mishapVars)
           /\ UNCHANGED catalog
     /\ CacheRecord(NodeOf(p), r.v, r.layers, r.path)
  /\ pub' = [pub EXCEPT ![p] = Ended(p, "error")]
  /\ UNCHANGED <<latest, lost, local, requestVars, sandboxVars>>

\* The snapshot of a volume that nobody has is put with the status it had.
PutLoose(p) ==
  /\ pub[p].at = "put"
  /\ LET r == Head(pub[p].recs) IN
     \/ /\ Accepted(r.v, r.status, r.layers)
        /\ catalog' = Put(r.v, r.status, r.layers)
        /\ CacheRecord(NodeOf(p), r.v, r.layers, r.path)
        /\ pub' = [pub EXCEPT ![p] = Ended(p, "ok")]
        /\ UNCHANGED mishapVars
     \/ /\ \/ Fault /\ Accepted(r.v, r.status, r.layers)
              /\ catalog' \in {catalog, Put(r.v, r.status, r.layers)}
           \/ ~Accepted(r.v, r.status, r.layers) /\ UNCHANGED <<catalog, mishapVars>>
        /\ pub' = [pub EXCEPT ![p] = Idle]
        /\ UNCHANGED cached
  /\ UNCHANGED <<latest, lost, local, requestVars, sandboxVars>>

PublishStep(p) ==
  \/ SnapshotVolumeState(p) \/ RecoverBacking(p) \/ GatherRecord(p) \/ MarkUploading(p)
  \/ PublishBacking(p) \/ MarkReady(p) \/ MarkFailed(p) \/ PutLoose(p)

------------------------------------------------------------------------------
\* VolumeManager::delete, on some node: the node's backing goes with it.
DeleteUnmounted(n, v) ==
  /\ v \in Discarded /\ Exists(v)
  /\ DeleteVolume(v)
  /\ cached' = [cached EXCEPT ![n][v] = Nothing]
  /\ local' = [local EXCEPT ![n][v] = Nothing]
  /\ UNCHANGED <<latest, lost, requestVars, sandboxVars, pub, mishapVars>>

\* The server of a node ends and starts again: paused sandboxes and the files
\* are still there.
Crash(n) ==
  /\ faults + crashes < MaxMishaps
  /\ crashes' = crashes + 1
  /\ cached' = [cached EXCEPT ![n] = Unmounted]
  /\ LET here == {s \in Sandbox : Host[s] = n}
         stopped == {s \in here : state[s] # "paused"}
     IN /\ Expose({v \in Volume : \E s \in here :
                     state[s] = "paused" /\ v \in Mounted(s) /\ catalog[v].owner # Named(s)}, "restored")
        /\ state' = [s \in Sandbox |-> IF s \in stopped THEN "gone" ELSE state[s]]
        /\ guest' = [s \in Sandbox |-> IF s \in stopped THEN Unmounted ELSE guest[s]]
        /\ pc' = [s \in Sandbox |-> IF s \in here THEN "end" ELSE pc[s]]
        /\ at' = [s \in Sandbox |-> IF s \in here THEN 1 ELSE at[s]]
        /\ read' = [s \in Sandbox |-> IF s \in here THEN Unread ELSE read[s]]
        /\ undone' = [s \in Sandbox |-> IF s \in here THEN 0 ELSE undone[s]]
        /\ op' = [s \in Sandbox |-> IF s \in here THEN "none" ELSE op[s]]
        /\ done' = [s \in Sandbox |-> IF s \in here THEN 0 ELSE done[s]]
        /\ failed' = [s \in Sandbox |-> failed[s] /\ s \notin here]
        /\ pub' = [p \in Publisher |-> IF p[1] \in here THEN Idle ELSE pub[p]]
  /\ UNCHANGED <<catalog, latest, local, due, faults>>

Done ==
  /\ \A s \in Sandbox : pc[s] = "end" /\ op[s] = "none" /\ state[s] \in {"absent", "gone"}
  /\ \A p \in Publisher : pub[p] = Idle
  /\ UNCHANGED vars

Next ==
  \/ \E s \in Sandbox : RequestStep(s) \/ SandboxStep(s)
  \/ \E p \in Publisher : PublishStep(p)
  \/ \E n \in Node : Crash(n) \/ \E v \in Volume : DeleteUnmounted(n, v)
  \/ Done

Spec == Init /\ [][Next]_vars

------------------------------------------------------------------------------
\* Nothing the properties except has happened to the volume.
Spared(v, kinds) == lost[v] \cap kinds \cap Excused = {}

ContentLoss == {"dropped", "early", "unfinished", "overtaken", "restored"}

(***************************************************************************)
(* A volume that can be mounted has the content of the last write to it:    *)
(* what a stopped sandbox wrote is published, or the volume is kept from    *)
(* being mounted (delete_sandbox_impl, publish_records), whatever fails and *)
(* whoever crashes, except in the ways of ContentLoss.                      *)
(***************************************************************************)
NoStaleMount ==
  \A v \in Volume : Spared(v, ContentLoss) =>
    (Usable(v) /\ catalog[v].owner = NoOwner => catalog[v].layers = latest[v])

(***************************************************************************)
(* A sandbox reads the last write to its volumes: no other sandbox writes   *)
(* them, and it was not launched on a backing that its node had kept from   *)
(* before (reserve, materialize_backing).  The exceptions are the same.     *)
(***************************************************************************)
SoleWriter ==
  \A s \in Sandbox : state[s] \in {"running", "paused"} /\ op[s] \in {"none", "publish"} =>
    \A v \in Mounted(s) : Spared(v, ContentLoss) => guest[s][v] = latest[v]

(***************************************************************************)
(* Unless a node crashes, a reservation belongs to a sandbox that exists or *)
(* to a request that has not ended: a mount, a launch, a takeover, a        *)
(* publication or a delete that fails gives back what was taken             *)
(* (resolve_volume_mounts, finish_volume_reservation, delete_sandbox_impl). *)
(* Excepted are a sandbox that ends before its request, and a reservation   *)
(* whose own return failed or whose taking failed with effect.              *)
(***************************************************************************)
NoReservationLeaks ==
  crashes = 0 => \A v \in Volume, s \in Sandbox : Spared(v, {"early", "unreturned"}) =>
    /\ catalog[v].owner = Pending(s) => pc[s] # "end"
    /\ catalog[v].owner = Named(s) => state[s] # "gone"
==============================================================================
