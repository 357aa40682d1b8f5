--------------------------- MODULE MCArtifactCache ---------------------------
(***************************************************************************)
(* Two requests for one file and one for another, in a cache that has room  *)
(* for either of them.                                                      *)
(***************************************************************************)
EXTENDS ArtifactCache

CONSTANTS r1, r2, r3, vm, image

MCRequest == {r1, r2, r3}
MCKey == {vm, image}
MCKeyOf == [r \in MCRequest |-> IF r = r3 THEN image ELSE vm]
MCSize == [k \in MCKey |-> IF k = vm THEN 2 ELSE 1]
==============================================================================
