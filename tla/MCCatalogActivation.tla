------------------------ MODULE MCCatalogActivation ------------------------
(***************************************************************************)
(* Small instances of CatalogActivation: the shipped catalog, two          *)
(* successors signed with different keys, and one candidate that never     *)
(* passes.                                                                 *)
(***************************************************************************)
EXTENDS CatalogActivation, TLC

CONSTANTS v1, v2, v3, forged, remapped, oldKey, newKey

FiveCatalogs == {v1, v2, v3, forged, remapped}
Versions == v1 :> 1 @@ v2 :> 2 @@ v3 :> 3 @@ forged :> 4 @@ remapped :> 2
TwoKeys == {oldKey, newKey}
Signers == [c \in FiveCatalogs |-> IF c = v3 THEN newKey ELSE oldKey]
OneForged == {forged}
OneRemapped == {remapped}

(* The checkpoints of interruptAt and the other points from which the code *)
(* goes on.                                                                *)
ResumablePoints == {"append", "checksum", "trust", "remaps", "switch",
                    "launch", "rollback", "accept"}

(* Between the pointer switched back and the record of it.                 *)
RolledBack == {"undone"}
=============================================================================
