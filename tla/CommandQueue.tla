---------------------------- MODULE CommandQueue ----------------------------
(***************************************************************************)
(* The commands directory between the processes that queue chat commands   *)
(* (void-cli, the console, a mounted surface) and the node that drains it. *)
(* fs::write creates a file and then fills it, so a reader may find it     *)
(* torn; a torn file is an error that ends drain_local_commands, the tick  *)
(* and with it the node.                                                   *)
(*                                                                         *)
(* A file is named by the millisecond of its command, and the node reads   *)
(* them in that order.  Commands are numbered by it: no two are queued in  *)
(* one millisecond.                                                        *)
(***************************************************************************)
EXTENDS Naturals

CONSTANTS
    Writer,       \* processes that queue commands
    MaxCommands   \* bound: commands queued

ASSUME QueueAssumption == MaxCommands \in Nat

Command == 1..MaxCommands

VARIABLES
    files,      \* files[c]: the file of command c
    writing,    \* writing[w]: the command whose file w is filling
    next,       \* the next command
    node,       \* whether the node runs, and whether it is draining
    listed,     \* the files read_dir returned and the node has not read yet
    drained,    \* commands read and removed, not carried out yet
    executed    \* executed[c]: how often c was carried out

queueVars == <<files, writing, next, node, listed, drained, executed>>

QueueInit ==
    /\ files = [c \in Command |-> "absent"]
    /\ writing = [w \in Writer |-> {}]
    /\ next = 1
    /\ node = "off"
    /\ listed = {}
    /\ drained = {}
    /\ executed = [c \in Command |-> 0]

-----------------------------------------------------------------------------
(* enqueue_local_command.                                                  *)

CreateCommand(w) ==
    /\ writing[w] = {}
    /\ next \in Command
    /\ files' = [files EXCEPT ![next] = "torn"]
    /\ writing' = [writing EXCEPT ![w] = {next}]
    /\ next' = next + 1
    /\ UNCHANGED <<node, listed, drained, executed>>

\* The command is reported as queued.
WriteCommand(w) ==
    /\ writing[w] # {}
    /\ files' = [c \in Command |-> IF c \in writing[w] THEN "complete" ELSE files[c]]
    /\ writing' = [writing EXCEPT ![w] = {}]
    /\ UNCHANGED <<next, node, listed, drained, executed>>

\* The process is killed, or the disk is full.
AbandonCommand(w) ==
    /\ writing[w] # {}
    /\ writing' = [writing EXCEPT ![w] = {}]
    /\ UNCHANGED <<files, next, node, listed, drained, executed>>

-----------------------------------------------------------------------------
(* drain_local_commands and the tick that calls it.                        *)

StartNode ==
    /\ node = "off"
    /\ node' = "idle"
    /\ UNCHANGED <<files, writing, next, listed, drained, executed>>

\* The node ends, for whatever reason, with what it holds.
StopNode ==
    /\ node' = "off"
    /\ listed' = {}
    /\ drained' = {}
    /\ UNCHANGED <<writing, next, executed>>

ListCommands ==
    /\ node = "idle"
    /\ \E c \in Command : files[c] # "absent"
    /\ node' = "draining"
    /\ listed' = {c \in Command : files[c] # "absent"}
    /\ UNCHANGED <<files, writing, next, drained, executed>>

\* Fault: the file stays until the command was carried out, and for ever.
DrainKeepingFile(c) ==
    /\ node = "draining"
    /\ c \in listed
    /\ \A d \in listed : c <= d
    /\ files[c] = "complete"
    /\ listed' = listed \ {c}
    /\ drained' = drained \cup {c}
    /\ UNCHANGED <<files, writing, next, node, executed>>

DrainCommand(c) ==
    /\ node = "draining"
    /\ c \in listed
    /\ \A d \in listed : c <= d
    /\ files[c] = "complete"
    /\ files' = [files EXCEPT ![c] = "absent"]
    /\ listed' = listed \ {c}
    /\ drained' = drained \cup {c}
    /\ UNCHANGED <<writing, next, node, executed>>

\* What was drained before the torn file is gone.
DrainError(c) ==
    /\ node = "draining"
    /\ c \in listed
    /\ \A d \in listed : c <= d
    /\ files[c] = "torn"
    /\ StopNode
    /\ UNCHANGED files

ProcessCommands ==
    /\ node = "draining"
    /\ listed = {}
    /\ node' = "idle"
    /\ executed' = [c \in Command |-> IF c \in drained THEN executed[c] + 1 ELSE executed[c]]
    /\ drained' = {}
    /\ UNCHANGED <<files, writing, next, listed>>

Crash ==
    /\ node # "off"
    /\ StopNode
    /\ UNCHANGED files

QueueNext ==
    \/ \E w \in Writer : CreateCommand(w) \/ WriteCommand(w) \/ AbandonCommand(w)
    \/ StartNode
    \/ ListCommands
    \/ \E c \in Command : DrainCommand(c) \/ DrainError(c)
    \/ ProcessCommands
    \/ Crash

QueueSpec == QueueInit /\ [][QueueNext]_queueVars

-----------------------------------------------------------------------------
(* The abstract queue it implements.                                       *)

\* Where a command is, for CommandDelivery.
StateOf(c) ==
    IF files[c] = "complete" \/ c \in drained THEN "queued"
    ELSE IF executed[c] > 0 THEN "done"
    ELSE IF files[c] = "torn" \/ c >= next THEN "new"
    ELSE "lost"

Delivered == INSTANCE CommandDelivery WITH
    state <- [c \in Command |-> StateOf(c)],
    runs <- executed,
    up <- node # "off"

\* The command queue keeps what CommandDelivery promises: a reported command is
\* carried out at most once and only lost in a step that stops the node.
ImplementsDelivery == Delivered!Delivery

QueueTypeOK ==
    /\ files \in [Command -> {"absent", "torn", "complete"}]
    /\ writing \in [Writer -> SUBSET Command]
    /\ next \in 1..(MaxCommands + 1)
    /\ node \in {"off", "idle", "draining"}
    /\ listed \subseteq Command
    /\ drained \subseteq Command
    /\ executed \in [Command -> Nat]

=============================================================================
