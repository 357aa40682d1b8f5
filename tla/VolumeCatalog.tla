---------------------------- MODULE VolumeCatalog ----------------------------
(***************************************************************************)
(* The shared volume catalog (src/volume/catalog.rs): one document per      *)
(* volume, which every node reads and changes with an atomic update.  Each  *)
(* operator here is what one such update does to the documents; the calls   *)
(* it takes to create, mount, publish and release a volume are in Volumes,  *)
(* those that give it its name in VolumeNames.  Volumes are exclusive: a    *)
(* read-only volume is never written or published.  Layers are repository-  *)
(* owned and immutable, so a number that stands for the content of the      *)
(* volume replaces the list of layers.                                      *)
(***************************************************************************)
EXTENDS Naturals

CONSTANTS Volume, NoOwner

VARIABLE catalog    \* the record of each volume: status, owner and layers

Status == {"ready", "uploading", "failed", "deleted"}

\* A volume just created, published and not mounted.
NewRecord == [status |-> "ready", owner |-> NoOwner, layers |-> 1]

Exists(v) == catalog[v].status # "deleted"

(***************************************************************************)
(* validate_catalog_update: the layers change only while the volume is      *)
(* uploading, and a failed one becomes ready only through uploading.        *)
(***************************************************************************)
Validates(now, next) ==
  /\ now.status # "deleted"
  /\ now.layers # next.layers => now.status = "uploading"
  /\ now.status = "failed" => next.status # "ready"

\* put_volume: the reservation in the catalog stays, whatever the caller read.
Put(v, status, layers) ==
  [catalog EXCEPT ![v].status = status, ![v].layers = layers]

\* What the caller of put_volume sees: whether its update was taken.
Accepted(v, status, layers) ==
  Validates(catalog[v], [status |-> status, layers |-> layers])

\* usable_record: what a new reservation needs.
Usable(v) == catalog[v].status = "ready"

\* reserve_volume takes a free volume, and again one the caller has.
Reserved(v, o) == Usable(v) /\ catalog[v].owner \in {NoOwner, o}

Reserve(v, o) == [catalog EXCEPT ![v].owner = o]

\* replace_volume_owner_for changes the record only if `from` has it.
ReplaceOwner(v, from, to) ==
  IF Exists(v) /\ catalog[v].owner = from
  THEN [catalog EXCEPT ![v].owner = to]
  ELSE catalog

\* delete_volume refuses a volume that is reserved.
DeleteVolume(v) ==
  /\ catalog[v].owner = NoOwner
  /\ catalog' = [catalog EXCEPT ![v].status = "deleted"]
==============================================================================
