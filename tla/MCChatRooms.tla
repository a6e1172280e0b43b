---------------------------- MODULE MCChatRooms ----------------------------
(* Small instances of ChatRooms for TLC. *)
EXTENDS ChatRooms

CONSTANTS a, b, r1

TwoByA == [n \in Node |-> IF n = a THEN 2 ELSE 1]

=============================================================================
