----------------------------- MODULE MCVolumes -------------------------------
(***************************************************************************)
(* Instances of Volumes: two sandboxes of different nodes mount the same    *)
(* volume, one of them along with another volume or with a snapshot.        *)
(***************************************************************************)
EXTENDS Volumes

CONSTANTS n1, n2, a, b, c, x, y

MCHost == [s \in Sandbox |-> IF s = b THEN n2 ELSE n1]
MCMounts == [s \in Sandbox |-> IF s = a THEN <<x, y>> ELSE <<x>>]
Reversed == [s \in Sandbox |-> Reverse(MCMounts[s])]
==============================================================================
