----------------------------- MODULE MCNodeMesh -----------------------------
(* Small instances of NodeMesh for TLC. *)
EXTENDS NodeMesh, TLC

CONSTANTS r, s

OneOfEach == [k \in Kind |-> 1]

TwoDirect == [k \in Kind |-> IF k = "direct" THEN 2 ELSE 1]

DirectOnly == [k \in Kind |-> IF k = "direct" THEN 1 ELSE 0]

=============================================================================
