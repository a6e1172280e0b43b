-------------------------- MODULE MessageDelivery --------------------------
(***************************************************************************)
(* What the chat service promises, without sessions, keys, nonces, clocks  *)
(* or gossip: a node's command loop accepts messages, and an accepted      *)
(* message reaches its recipient's inbox at most once.  Nothing promises   *)
(* that it arrives, nor in which order.                                    *)
(***************************************************************************)
EXTENDS Naturals, Sequences

CONSTANT Peer

VARIABLES
    accepted,   \* the messages accepted so far
    mailbox     \* mailbox[p]: what p has received, in order of arrival

vars == <<accepted, mailbox>>

Message == [from : Peer, to : Peer, body : Nat]

Received(p) == {mailbox[p][i] : i \in DOMAIN mailbox[p]}

Init ==
    /\ accepted = {}
    /\ mailbox = [p \in Peer |-> <<>>]

\* A command is addressed to any number of recipients at once (SendRoom).
Accept ==
    /\ accepted \subseteq accepted'
    /\ accepted' \subseteq Message
    /\ UNCHANGED mailbox

Deliver(p, e) ==
    /\ e \in accepted \ Received(p)
    /\ e.to = p
    /\ mailbox' = [mailbox EXCEPT ![p] = Append(@, e)]
    /\ UNCHANGED accepted

Next ==
    \/ Accept
    \/ \E p \in Peer, e \in accepted : Deliver(p, e)

Spec == Init /\ [][Next]_vars

=============================================================================
