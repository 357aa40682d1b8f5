----------------------------- MODULE VolumeNames -----------------------------
(***************************************************************************)
(* Names of volumes (create_volume, delete_volume and claim_alias of        *)
(* src/volume/catalog.rs, with the calls VolumeManager makes before).       *)
(*                                                                          *)
(* A volume is two documents of the repository, its record and the alias    *)
(* that points its name at it; only one document is changed atomically.     *)
(* Requests on all nodes create volumes with one and the same name, each    *)
(* with an id of its own, and delete them.  Any of them may end after any   *)
(* step, because its node crashes or the repository fails, and a call that  *)
(* fails may have changed the document all the same.  Ids are fresh and so  *)
(* never a name.                                                            *)
(***************************************************************************)
EXTENDS Naturals

CONSTANTS Volume,      \* ids, and the requests that create them
          Deletion,    \* requests that delete some volume
          NoVolume,
          MaxClaimAttempts

ASSUME NamesAssumption == NoVolume \notin Volume /\ MaxClaimAttempts \in Nat \ {0}

VARIABLES record,      \* "unborn", "live", "deleting" or "gone"
          alias,       \* the volume the name points at
          pc, seen,    \* of each creation; the alias it has read
          attempts,    \* of its loop to claim the name
          del, target  \* of each deletion; the volume it deletes

nameVars == <<record, alias, pc, seen, attempts, del, target>>

TypeOK ==
  /\ record \in [Volume -> {"unborn", "live", "deleting", "gone"}]
  /\ alias \in Volume \cup {NoVolume}
  /\ pc \in [Volume -> {"start", "lookup", "write", "claim", "check", "set", "undo",
                        "created", "failed"}]
  /\ seen \in [Volume -> Volume \cup {NoVolume}]
  /\ attempts \in [Volume -> Nat]
  /\ del \in [Deletion -> {"start", "record", "alias", "end"}]
  /\ target \in [Deletion -> Volume \cup {NoVolume}]

Init ==
  /\ record = [v \in Volume |-> "unborn"]
  /\ alias = NoVolume
  /\ pc = [v \in Volume |-> "start"]
  /\ seen = [v \in Volume |-> NoVolume]
  /\ attempts = [v \in Volume |-> 0]
  /\ del = [d \in Deletion |-> "start"]
  /\ target = [d \in Deletion |-> NoVolume]

Exists(v) == v # NoVolume /\ record[v] \in {"live", "deleting"}
Goto(v, l) == pc' = [pc EXCEPT ![v] = l]
Step(d, l) == del' = [del EXCEPT ![d] = l]

------------------------------------------------------------------------------
\* create looks the name up: the alias, then the record it points at.
ReadName(v) ==
  /\ pc[v] = "start"
  /\ seen' = [seen EXCEPT ![v] = alias]
  /\ Goto(v, "lookup")
  /\ UNCHANGED <<record, alias, attempts, del, target>>

Lookup(v) ==
  /\ pc[v] = "lookup"
  /\ Goto(v, IF Exists(seen[v]) THEN "failed" ELSE "write")
  /\ UNCHANGED <<record, alias, seen, attempts, del, target>>

\* Mutant: the name is claimed before the record is written.
WriteRecordLast(v) ==
  /\ \/ pc[v] = "write" /\ Goto(v, "claim") /\ UNCHANGED record
     \/ /\ pc[v] = "created" /\ record[v] = "unborn"
        /\ record' = [record EXCEPT ![v] = "live"]
        /\ UNCHANGED pc
  /\ UNCHANGED <<alias, seen, attempts, del, target>>

\* create_volume writes the record before it claims the name.
WriteRecord(v) ==
  /\ pc[v] = "write"
  /\ record' = [record EXCEPT ![v] = "live"]
  /\ Goto(v, "claim")
  /\ UNCHANGED <<alias, seen, attempts, del, target>>

\* claim_alias reads the alias; one that is the volume's own is enough.
ReadAlias(v) ==
  /\ pc[v] = "claim"
  /\ seen' = [seen EXCEPT ![v] = alias]
  /\ attempts' = [attempts EXCEPT ![v] = @ + 1]
  /\ Goto(v, IF alias = v THEN "created" ELSE IF alias = NoVolume THEN "set" ELSE "check")
  /\ UNCHANGED <<record, alias, del, target>>

\* A name whose record is missing or being deleted is stale.
CheckAlias(v) ==
  /\ pc[v] = "check"
  /\ Goto(v, IF record[seen[v]] = "live" THEN "undo" ELSE "set")
  /\ UNCHANGED <<record, alias, seen, attempts, del, target>>

\* The alias is set if it is still the one that was read.
SetAlias(v) ==
  /\ pc[v] = "set" /\ alias = seen[v]
  /\ alias' = v
  /\ Goto(v, "created")
  /\ UNCHANGED <<record, seen, attempts, del, target>>

AliasChanged(v) ==
  /\ pc[v] = "set" /\ alias # seen[v]
  /\ Goto(v, IF attempts[v] < MaxClaimAttempts THEN "claim" ELSE "undo")
  /\ UNCHANGED <<record, alias, seen, attempts, del, target>>

\* Without the name the record is removed again.
Undo(v) ==
  /\ pc[v] = "undo"
  /\ record' = [record EXCEPT ![v] = "gone"]
  /\ Goto(v, "failed")
  /\ UNCHANGED <<alias, seen, attempts, del, target>>

\* A call of a creation fails, and one that sets the alias may have set it; a
\* claim that fails is undone, and the request ends at once when its node
\* crashes or the call was another one.  (A write or a removal of the record
\* that fails after its effect is that step and then this one.)
CreateFails(v) ==
  /\ pc[v] \notin {"created", "failed"}
  /\ alias' \in {alias} \cup (IF pc[v] = "set" /\ alias = seen[v] THEN {v} ELSE {})
  /\ \/ Goto(v, "failed")
     \/ pc[v] \in {"claim", "check", "set"} /\ Goto(v, "undo")
  /\ UNCHANGED <<record, seen, attempts, del, target>>

------------------------------------------------------------------------------
\* delete_volume marks the record, which the listing shows to anybody.
MarkDeleting(d, v) ==
  /\ del[d] = "start" /\ Exists(v)
  /\ record' = [record EXCEPT ![v] = "deleting"]
  /\ target' = [target EXCEPT ![d] = v]
  /\ Step(d, "record")
  /\ UNCHANGED <<alias, pc, seen, attempts>>

DeleteRecord(d) ==
  /\ del[d] = "record"
  /\ record' = [record EXCEPT ![target[d]] = "gone"]
  /\ Step(d, "alias")
  /\ UNCHANGED <<alias, pc, seen, attempts, target>>

\* Mutant: the name is freed whatever it points at by now.
DeleteAliasBlindly(d) ==
  /\ del[d] = "alias"
  /\ alias' = NoVolume
  /\ Step(d, "end")
  /\ UNCHANGED <<record, pc, seen, attempts, target>>

\* A creation may have taken the name from the deleting record.
DeleteAlias(d) ==
  /\ del[d] = "alias"
  /\ alias' = IF alias = target[d] THEN NoVolume ELSE alias
  /\ Step(d, "end")
  /\ UNCHANGED <<record, pc, seen, attempts, target>>

\* A deletion ends between two of its steps: a call fails or its node crashes.
DeleteFails(d) ==
  /\ del[d] # "end"
  /\ Step(d, "end")
  /\ UNCHANGED <<record, alias, pc, seen, attempts, target>>

CreateStep(v) ==
  \/ ReadName(v) \/ Lookup(v) \/ WriteRecord(v) \/ ReadAlias(v) \/ CheckAlias(v)
  \/ SetAlias(v) \/ AliasChanged(v) \/ Undo(v) \/ CreateFails(v)

DeleteStep(d) ==
  \/ \E v \in Volume : MarkDeleting(d, v)
  \/ DeleteRecord(d) \/ DeleteAlias(d) \/ DeleteFails(d)

Next == (\E v \in Volume : CreateStep(v)) \/ (\E d \in Deletion : DeleteStep(d))

Spec == Init /\ [][Next]_nameVars

------------------------------------------------------------------------------
(***************************************************************************)
(* A volume whose creation succeeded has its name until it is deleted, so   *)
(* no two of them share it, whatever creations and deletions of the name    *)
(* run beside or were cut short (docs/src/concepts/volumes/index.md:9,      *)
(* "a unique name"; claim_alias and delete_volume).                         *)
(***************************************************************************)
NameKept == \A v \in Volume : pc[v] = "created" /\ record[v] = "live" => alias = v

(***************************************************************************)
(* The name never points at a volume whose record is yet to be written: "a  *)
(* name whose record is missing is always stale rather than mid-creation"   *)
(* (create_volume), which is what lets claim_alias take it over.            *)
(***************************************************************************)
MissingIsStale == alias # NoVolume => record[alias] # "unborn"

------------------------------------------------------------------------------
\* The inductive invariant.  A record is written once, on the way to the claim ...
WrittenOnce ==
  \A v \in Volume : pc[v] \in {"start", "lookup", "write"} <=> record[v] = "unborn" /\ pc[v] # "failed"

\* ... an alias that was read is that of a written record, and a stale one for
\* good once it was found stale ...
SeenIsStale ==
  \A v \in Volume :
    /\ pc[v] = "check" => seen[v] \in Volume /\ record[seen[v]] # "unborn"
    /\ pc[v] = "set" => seen[v] = NoVolume \/ record[seen[v]] \in {"deleting", "gone"}

\* ... and a deletion frees the name of a record that is gone.
DeletionOrder ==
  \A d \in Deletion :
    /\ del[d] = "record" => target[d] \in Volume /\ record[target[d]] \in {"deleting", "gone"}
    /\ del[d] = "alias" => target[d] \in Volume /\ record[target[d]] = "gone"

NamesInvariant ==
  TypeOK /\ NameKept /\ MissingIsStale /\ WrittenOnce /\ SeenIsStale /\ DeletionOrder
==============================================================================
