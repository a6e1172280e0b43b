--------------------------- MODULE CommandDelivery ---------------------------
(***************************************************************************)
(* What the file-backed command queue promises, without its files: a       *)
(* command that was reported as queued is carried out at most once, and is *)
(* lost only in the step in which the node stops.                          *)
(***************************************************************************)
EXTENDS Naturals

CONSTANT Command

VARIABLES
    state,  \* state[c]: where command c is
    runs,   \* runs[c]: how often c was carried out
    up      \* whether the node runs

deliveryVars == <<state, runs, up>>

CommandState == {"new", "queued", "done", "lost"}

Queued == {c \in Command : state[c] = "queued"}

DeliveryInit ==
    /\ state = [c \in Command |-> "new"]
    /\ runs = [c \in Command |-> 0]
    /\ up = FALSE

Queue(c) ==
    /\ state[c] = "new"
    /\ state' = [state EXCEPT ![c] = "queued"]
    /\ UNCHANGED <<runs, up>>

Start ==
    /\ ~up
    /\ up' = TRUE
    /\ UNCHANGED <<state, runs>>

Run(S) ==
    /\ up
    /\ state' = [c \in Command |-> IF c \in S THEN "done" ELSE state[c]]
    /\ runs' = [c \in Command |-> IF c \in S THEN runs[c] + 1 ELSE runs[c]]
    /\ UNCHANGED up

Stop(S) ==
    /\ up
    /\ up' = FALSE
    /\ state' = [c \in Command |-> IF c \in S THEN "lost" ELSE state[c]]
    /\ UNCHANGED runs

DeliveryNext ==
    \/ \E c \in Command : Queue(c)
    \/ Start
    \/ \E S \in SUBSET Queued : Run(S) \/ Stop(S)

Delivery == DeliveryInit /\ [][DeliveryNext]_deliveryVars

=============================================================================
