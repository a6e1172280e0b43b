----------------------------- MODULE MCVoidDns -----------------------------
(* Small instances of VoidDns for TLC. *)
EXTENDS VoidDns

CONSTANTS a, b, x, y

None == [n \in Node |-> 0]

OneEach == [n \in Node |-> 1]

TwoByA == [n \in Node |-> IF n = a THEN 2 ELSE 1]

OnlyA == [n \in Node |-> IF n = a THEN 1 ELSE 0]

ThreeOnlyA == [n \in Node |-> IF n = a THEN 3 ELSE 0]

TwoOnlyA == [n \in Node |-> IF n = a THEN 2 ELSE 0]

TwoOnlyB == [n \in Node |-> IF n = b THEN 2 ELSE 0]

=============================================================================
