--------------------------- MODULE MCChatSession ---------------------------
(* Small instances of ChatSession for TLC: two nodes, symmetric where both *)
(* have the same bounds.                                                   *)
EXTENDS ChatSession, TLC

CONSTANTS a, b

Symmetry == Permutations(Peer)

None == [p \in Peer |-> 0]

OneEach == [p \in Peer |-> 1]

TwoEach == [p \in Peer |-> 2]

OnlyA == [p \in Peer |-> IF p = a THEN 1 ELSE 0]

TwoByA == [p \in Peer |-> IF p = a THEN 2 ELSE 1]

=============================================================================
