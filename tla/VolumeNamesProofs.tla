-------------------------- MODULE VolumeNamesProofs --------------------------
(***************************************************************************)
(* A created volume keeps its name: for any number of creations, deletions  *)
(* and attempts, the invariant of VolumeNames is inductive.  One lemma for  *)
(* the steps of a creation, one for those of a deletion.                    *)
(***************************************************************************)
EXTENDS VolumeNames, TLAPS

\* The steps of a creation keep the invariant.
LEMMA CreateStepKeeps ==
  ASSUME NamesInvariant, NEW v \in Volume, CreateStep(v)
  PROVE  NamesInvariant'
<1> USE NamesAssumption DEF NamesInvariant
<1>1. CASE ReadName(v)
  BY <1>1 DEF ReadName, Goto, TypeOK, NameKept, MissingIsStale, WrittenOnce, SeenIsStale, DeletionOrder
<1>2. CASE Lookup(v)
  BY <1>2 DEF Lookup, Goto, TypeOK, NameKept, MissingIsStale, WrittenOnce, SeenIsStale, DeletionOrder
<1>3. CASE WriteRecord(v)
  BY <1>3 DEF WriteRecord, Goto, TypeOK, NameKept, MissingIsStale, WrittenOnce, SeenIsStale, DeletionOrder
<1>4. CASE ReadAlias(v)
  BY <1>4 DEF ReadAlias, Goto, TypeOK, NameKept, MissingIsStale, WrittenOnce, SeenIsStale, DeletionOrder
<1>5. CASE CheckAlias(v)
  BY <1>5 DEF CheckAlias, Goto, TypeOK, NameKept, MissingIsStale, WrittenOnce, SeenIsStale, DeletionOrder
<1>6. CASE SetAlias(v)
  BY <1>6 DEF SetAlias, Goto, TypeOK, NameKept, MissingIsStale, WrittenOnce, SeenIsStale, DeletionOrder
<1>7. CASE AliasChanged(v)
  BY <1>7 DEF AliasChanged, Goto, TypeOK, NameKept, MissingIsStale, WrittenOnce, SeenIsStale, DeletionOrder
<1>8. CASE Undo(v)
  BY <1>8 DEF Undo, Goto, TypeOK, NameKept, MissingIsStale, WrittenOnce, SeenIsStale, DeletionOrder
<1>9. CASE CreateFails(v)
  BY <1>9 DEF CreateFails, Goto, TypeOK, NameKept, MissingIsStale, WrittenOnce, SeenIsStale, DeletionOrder
<1> QED BY <1>1, <1>2, <1>3, <1>4, <1>5, <1>6, <1>7, <1>8, <1>9 DEF CreateStep

\* The steps of a deletion keep the invariant.
LEMMA DeleteStepKeeps ==
  ASSUME NamesInvariant, NEW d \in Deletion, DeleteStep(d)
  PROVE  NamesInvariant'
<1> USE NamesAssumption DEF NamesInvariant
<1>1. ASSUME NEW v \in Volume, MarkDeleting(d, v) PROVE NamesInvariant'
  BY <1>1 DEF MarkDeleting, Exists, Step, TypeOK, NameKept, MissingIsStale, WrittenOnce, SeenIsStale, DeletionOrder
<1>2. CASE DeleteRecord(d)
  BY <1>2 DEF DeleteRecord, Step, TypeOK, NameKept, MissingIsStale, WrittenOnce, SeenIsStale, DeletionOrder
<1>3. CASE DeleteAlias(d)
  BY <1>3 DEF DeleteAlias, Step, TypeOK, NameKept, MissingIsStale, WrittenOnce, SeenIsStale, DeletionOrder
<1>4. CASE DeleteFails(d)
  BY <1>4 DEF DeleteFails, Step, TypeOK, NameKept, MissingIsStale, WrittenOnce, SeenIsStale, DeletionOrder
<1> QED BY <1>1, <1>2, <1>3, <1>4 DEF DeleteStep

(***************************************************************************)
(* The name of a volume is its own from the end of its creation to its      *)
(* deletion, and never points at a record yet to be written (create_volume, *)
(* claim_alias, delete_volume), however many requests there are.            *)
(***************************************************************************)
THEOREM NamesKept == Spec => [](NameKept /\ MissingIsStale)
<1>1. Init => NamesInvariant
  BY NamesAssumption DEF Init, NamesInvariant, TypeOK, NameKept, MissingIsStale,
     WrittenOnce, SeenIsStale, DeletionOrder
<1>2. NamesInvariant /\ [Next]_nameVars => NamesInvariant'
  <2> SUFFICES ASSUME NamesInvariant, [Next]_nameVars PROVE NamesInvariant'
    OBVIOUS
  <2>1. CASE Next
    BY <2>1, CreateStepKeeps, DeleteStepKeeps DEF Next
  <2>2. CASE UNCHANGED nameVars
    BY <2>2 DEF nameVars, NamesInvariant, TypeOK, NameKept, MissingIsStale,
       WrittenOnce, SeenIsStale, DeletionOrder
  <2> QED BY <2>1, <2>2
<1>3. NamesInvariant => NameKept /\ MissingIsStale
  BY DEF NamesInvariant
<1> QED BY <1>1, <1>2, <1>3, PTL DEF Spec
==============================================================================
