-------------------------- MODULE MCShellProcesses --------------------------
(* Small instances of ShellProcesses for TLC: one gateway, one application. *)
EXTENDS ShellProcesses

CONSTANTS gw, notes, me, other, storage, http

\* The gateway's record asks for an HTTP capability, the application's for a
\* sensitive one.
Asked == [d \in Domain |-> IF d = gw THEN {http} ELSE {storage}]

\* Names nobody else serves.
OwnNames == {[d \in Domain |-> Nobody]}

\* The application may be another peer's.
ForeignNotes == OwnNames \cup {[d \in Domain |-> IF d = notes THEN other ELSE Nobody]}

\* So may the gateway.
ForeignNames == [Domain -> {Nobody, other}]

=============================================================================
