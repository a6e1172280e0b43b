----------------------------- MODULE ChatSession -----------------------------
(***************************************************************************)
(* End-to-end encrypted chat sessions between VOIDNET nodes: the handlers  *)
(* of core/transport/src/node.rs that queue a message, negotiate an X25519 *)
(* session (SessionOffer / SessionAck), flush what was queued and deliver  *)
(* encrypted envelopes, and the ReplayProtector of apps/void-chat.         *)
(*                                                                         *)
(* Every handler runs to completion in the node's single select! loop, so  *)
(* one handler is one action.  Gossipsub gives no order, may deliver an    *)
(* envelope late, more than once or never, and may refuse a publish; a     *)
(* node may restart between any two handlers.                              *)
(*                                                                         *)
(* Conventions: an Option<T> is a set of at most one T.  A random token    *)
(* (session id, nonce, ephemeral secret) is an identifier nobody else      *)
(* generates.  An envelope's random nonce is the envelope itself, since    *)
(* no two envelopes of the model are equal.                                *)
(***************************************************************************)
EXTENDS Naturals, Sequences

CONSTANTS
    Peer,            \* the nodes of the mesh
    ReplayWindow,    \* CHAT_REPLAY_WINDOW_SECS, in clock ticks
    PublishMayFail,  \* nodes whose gossipsub.publish may return an error
    MaxSends,        \* bound: chat commands drained by each node
    MaxRestarts,     \* bound: restarts of each node
    MaxClock         \* bound: reading of a node's clock

ASSUME ChatSessionAssumption ==
    /\ ReplayWindow \in Nat
    /\ PublishMayFail \subseteq Peer
    /\ MaxSends \in [Peer -> Nat]
    /\ MaxRestarts \in [Peer -> Nat]
    /\ MaxClock \in Nat

VARIABLES
    sent,       \* sent[p]: local history entries of p's inbox (append_local_history)
    accepted,   \* the (from, to, body) triples handed to dispatch_or_queue_outbound_message
    active,     \* active[p][q]: p's ActiveChatSession with q, if any
    pending,    \* pending[p][q]: session id of p's PendingChatSession with q, if any
    queue,      \* queue[p][q]: bodies in p's pending_messages for q
    seen,       \* seen[p]: envelopes recorded by p's ReplayProtector
    inbox,      \* inbox[p]: inbound entries of p's persisted inbox
    shown,      \* shown[p][q]: chat part of the SessionInfo p's topology keeps of q
    epoch,      \* epoch[p]: how often p has restarted
    ctr,        \* ctr[p]: randomness p has consumed
    clock,      \* clock[p]: p's unix_millis()
    msgs        \* every envelope gossipsub accepted

vars == <<sent, accepted, active, pending, queue, seen, inbox, shown,
          epoch, ctr, clock, msgs>>

-----------------------------------------------------------------------------
(* Values. *)

Token == [by : Peer, to : Peer, epoch : Nat, n : Nat]

Key == [shared : SUBSET Token, sid : Token]

Session == [sid : Token, key : Key]

SessionOffer == [type : {"offer"}, from : Peer, to : Peer, sid : Token, ts : Nat]

SessionAck == [type : {"ack"}, from : Peer, to : Peer, sid : Token,
               eph : Token, ts : Nat]

Envelope == [type : {"direct"}, from : Peer, to : Peer, sid : Token,
             key : Key, body : Nat, ts : Nat]

Entry == [from : Peer, to : Peer, body : Nat]

\* What connection handlers write over the state (OFFLINE, TRANSPORT-SECURE) is
\* left out: it only ever hides a session.
View == [state : {"IDLE", "NEGOTIATING", "ESTABLISHED", "FAILED"},
         sid : SUBSET Token]

IdleView == [state |-> "IDLE", sid |-> {}]

FreshToken(p, q) == [by |-> p, to |-> q, epoch |-> epoch[p], n |-> ctr[p]]

\* Diffie-Hellman is symmetric in its two secrets; the session id is mixed in.
derive_session_key(secret, remote, sid) == [shared |-> {secret, remote}, sid |-> sid]

\* The offer's ephemeral secret is generated with its session id, one for one.
MakeOffer(p, q) ==
    [type |-> "offer", from |-> p, to |-> q, sid |-> FreshToken(p, q), ts |-> clock[p]]

MakeAck(p, q, sid) ==
    [type |-> "ack", from |-> p, to |-> q, sid |-> sid,
     eph |-> FreshToken(p, q), ts |-> clock[p]]

build_direct_message_action(p, q, session, body) ==
    [type |-> "direct", from |-> p, to |-> q, sid |-> session.sid,
     key |-> session.key, body |-> body, ts |-> clock[p]]

-----------------------------------------------------------------------------
(* ReplayProtector::check_and_record.                                      *)

Lower(p) == IF clock[p] > ReplayWindow THEN clock[p] - ReplayWindow ELSE 0

Retained(p) == {m \in seen[p] : m.ts >= Lower(p)}

\* Fault: an envelope older than the window is not refused.
PassesWithoutFloor(p, m) ==
    /\ m.ts <= clock[p] + ReplayWindow
    /\ m \notin Retained(p)

PassesReplayCheck(p, m) ==
    /\ m.ts >= Lower(p)
    /\ m.ts <= clock[p] + ReplayWindow
    /\ m \notin Retained(p)

check_and_record(p, m) ==
    seen' = [seen EXCEPT ![p] = Retained(p) \cup (IF PassesReplayCheck(p, m) THEN {m} ELSE {})]

-----------------------------------------------------------------------------
(* apply_chat_actions, the publishing part: every publish of a handler may *)
(* fail on its own; a failure on a direct topic reaches observe_failure,   *)
(* which leaves the peer's session shown as FAILED.                        *)

apply_chat_actions(p, out, view) ==
    \E ok \in IF p \in PublishMayFail THEN SUBSET out ELSE {out} :
        /\ msgs' = msgs \cup ok
        /\ shown' = [shown EXCEPT ![p] =
                        [q \in Peer |-> IF \E m \in out \ ok : m.to = q
                                        THEN [view[q] EXCEPT !.state = "FAILED"]
                                        ELSE view[q]]]

ViewOf(p, q, v) == [shown[p] EXCEPT ![q] = v]

observe_session_failure(p, q) ==
    shown' = [shown EXCEPT ![p] = ViewOf(p, q, [shown[p][q] EXCEPT !.state = "FAILED"])]

observe_encrypted_session(p, q, sid) ==
    ViewOf(p, q, [state |-> "ESTABLISHED", sid |-> {sid}])

-----------------------------------------------------------------------------
(* A drained chat command: SendDirect when Q is one peer, SendRoom when Q  *)
(* is the online membership of a room.  dispatch_or_queue_outbound_message *)
(* runs for every recipient.                                               *)

NeedsOffer(p, q) == active[p][q] = {} /\ pending[p][q] = {}

dispatch_or_queue_outbound_message(p, Q, body) ==
    LET offered == {q \in Q : NeedsOffer(p, q)}
        out == {MakeOffer(p, q) : q \in offered}
                 \cup UNION {{build_direct_message_action(p, q, s, body) :
                                s \in active[p][q]} : q \in Q}
        view == [q \in Peer |-> IF q \in offered
                                THEN [state |-> "NEGOTIATING", sid |-> {FreshToken(p, q)}]
                                ELSE shown[p][q]]
    IN  /\ queue' = [queue EXCEPT ![p] =
                        [q \in Peer |-> IF q \in Q /\ active[p][q] = {}
                                        THEN queue[p][q] \cup {body}
                                        ELSE queue[p][q]]]
        /\ pending' = [pending EXCEPT ![p] =
                        [q \in Peer |-> IF q \in offered THEN {FreshToken(p, q)}
                                                         ELSE pending[p][q]]]
        /\ apply_chat_actions(p, out, view)

\* Fault: a room message also goes to peers outside the room.
SendToEveryone(p, Q) ==
    /\ sent[p] < MaxSends[p]
    /\ sent' = [sent EXCEPT ![p] = @ + 1]
    /\ accepted' = accepted \cup {[from |-> p, to |-> q, body |-> sent[p]] : q \in Q}
    /\ ctr' = [ctr EXCEPT ![p] = @ + 1]
    /\ dispatch_or_queue_outbound_message(p, Peer \ {p}, sent[p])
    /\ UNCHANGED <<active, seen, inbox, epoch, clock>>

Send(p, Q) ==
    /\ sent[p] < MaxSends[p]
    /\ sent' = [sent EXCEPT ![p] = @ + 1]
    /\ accepted' = accepted \cup {[from |-> p, to |-> q, body |-> sent[p]] : q \in Q}
    /\ ctr' = [ctr EXCEPT ![p] = @ + 1]
    /\ dispatch_or_queue_outbound_message(p, Q, sent[p])
    /\ UNCHANGED <<active, seen, inbox, epoch, clock>>

-----------------------------------------------------------------------------
(* Inbound envelopes, handle_chat_wire_message.                            *)

\* Replayed or outside the window: ReplayRejected, nothing but the pruning.
RejectReplay(p, m) ==
    /\ ~PassesReplayCheck(p, m)
    /\ check_and_record(p, m)
    /\ UNCHANGED <<sent, accepted, active, pending, queue, inbox, shown,
                   epoch, ctr, clock, msgs>>

\* Fault: a new session is added to the one p already has with q.
EstablishBeside(p, q, session, replies) ==
    /\ active' = [active EXCEPT ![p][q] = @ \cup {session}]
    /\ queue' = [queue EXCEPT ![p][q] = {}]
    /\ apply_chat_actions(p, replies, observe_encrypted_session(p, q, session.sid))

\* Fault: what was queued before the session existed stays queued.
EstablishWithoutFlush(p, q, session, replies) ==
    /\ active' = [active EXCEPT ![p][q] = {session}]
    /\ apply_chat_actions(p, replies, observe_encrypted_session(p, q, session.sid))
    /\ UNCHANGED queue

\* Fault: what was queued is taken from the queue and not published.
EstablishAndForget(p, q, session, replies) ==
    /\ active' = [active EXCEPT ![p][q] = {session}]
    /\ queue' = [queue EXCEPT ![p][q] = {}]
    /\ apply_chat_actions(p, replies, observe_encrypted_session(p, q, session.sid))

\* Both handshake handlers end the same way: the session replaces whatever
\* session p had with q, and everything queued for q is sent under it.
Establish(p, q, session, replies) ==
    /\ active' = [active EXCEPT ![p][q] = {session}]
    /\ queue' = [queue EXCEPT ![p][q] = {}]
    /\ apply_chat_actions(p,
           replies \cup {build_direct_message_action(p, q, session, b) : b \in queue[p][q]},
           observe_encrypted_session(p, q, session.sid))

AcceptOffer(p, m, replies) ==
    /\ ctr' = [ctr EXCEPT ![p] = @ + 1]
    /\ Establish(p, m.from,
           [sid |-> m.sid,
            key |-> derive_session_key(FreshToken(p, m.from), m.sid, m.sid)], replies)
    /\ UNCHANGED <<sent, accepted, pending, inbox, epoch, clock>>

\* Fault: offers bypass the replay check.
OfferUnchecked(p, m) ==
    /\ m.type = "offer"
    /\ check_and_record(p, m)
    /\ AcceptOffer(p, m, {MakeAck(p, m.from, m.sid)})

\* Fault: the responder keeps its session and never answers.
OfferUnanswered(p, m) ==
    /\ m.type = "offer"
    /\ PassesReplayCheck(p, m)
    /\ check_and_record(p, m)
    /\ AcceptOffer(p, m, {})

process_session_offer(p, m) ==
    /\ m.type = "offer"
    /\ PassesReplayCheck(p, m)
    /\ check_and_record(p, m)
    /\ AcceptOffer(p, m, {MakeAck(p, m.from, m.sid)})

\* Fault: an ack for another session drops the pending one silently.
AckMismatchIgnored(p, m) ==
    /\ m.type = "ack"
    /\ PassesReplayCheck(p, m)
    /\ check_and_record(p, m)
    /\ pending' = [pending EXCEPT ![p][m.from] = {}]
    /\ \/ /\ pending[p][m.from] # {m.sid}
          /\ UNCHANGED <<active, queue, shown, msgs>>
       \/ /\ pending[p][m.from] = {m.sid}
          /\ Establish(p, m.from,
                 [sid |-> m.sid, key |-> derive_session_key(m.sid, m.eph, m.sid)], {})
    /\ UNCHANGED <<sent, accepted, inbox, epoch, ctr, clock>>

\* The pending session is removed before its id is compared with the ack's.
process_session_ack(p, m) ==
    /\ m.type = "ack"
    /\ PassesReplayCheck(p, m)
    /\ check_and_record(p, m)
    /\ pending' = [pending EXCEPT ![p][m.from] = {}]
    /\ \/ /\ pending[p][m.from] = {}
          /\ UNCHANGED <<active, queue, shown, msgs>>
       \/ /\ pending[p][m.from] \notin {{}, {m.sid}}
          /\ observe_session_failure(p, m.from)
          /\ UNCHANGED <<active, queue, msgs>>
       \/ /\ pending[p][m.from] = {m.sid}
          /\ Establish(p, m.from,
                 [sid |-> m.sid, key |-> derive_session_key(m.sid, m.eph, m.sid)], {})
    /\ UNCHANGED <<sent, accepted, inbox, epoch, ctr, clock>>

Decrypts(p, m) == [sid |-> m.sid, key |-> m.key] \in active[p][m.from]

\* No session, another session id or another key: the payload is dropped.
process_direct_message(p, m) ==
    /\ m.type = "direct"
    /\ PassesReplayCheck(p, m)
    /\ check_and_record(p, m)
    /\ \/ /\ ~Decrypts(p, m)
          /\ observe_session_failure(p, m.from)
          /\ UNCHANGED inbox
       \/ /\ Decrypts(p, m)
          /\ inbox' = [inbox EXCEPT ![p] =
                         Append(@, [from |-> m.from, to |-> p, body |-> m.body])]
          /\ UNCHANGED shown
    /\ UNCHANGED <<sent, accepted, active, pending, queue, epoch, ctr, clock, msgs>>

handle_chat_wire_message(p, m) ==
    /\ m.to = p
    /\ \/ RejectReplay(p, m)
       \/ process_session_offer(p, m)
       \/ process_session_ack(p, m)
       \/ process_direct_message(p, m)

-----------------------------------------------------------------------------
(* The environment: clocks that drift apart, nodes that restart.           *)

Tick(p) ==
    /\ clock[p] < MaxClock
    /\ clock' = [clock EXCEPT ![p] = @ + 1]
    /\ UNCHANGED <<sent, accepted, active, pending, queue, seen, inbox, shown,
                   epoch, ctr, msgs>>

\* ChatRuntimeState::new reloads the inbox and starts everything else empty;
\* the topology starts empty too.
Restart(p) ==
    /\ epoch[p] < MaxRestarts[p]
    /\ epoch' = [epoch EXCEPT ![p] = @ + 1]
    /\ active' = [active EXCEPT ![p] = [q \in Peer |-> {}]]
    /\ pending' = [pending EXCEPT ![p] = [q \in Peer |-> {}]]
    /\ queue' = [queue EXCEPT ![p] = [q \in Peer |-> {}]]
    /\ seen' = [seen EXCEPT ![p] = {}]
    /\ shown' = [shown EXCEPT ![p] = [q \in Peer |-> IdleView]]
    /\ UNCHANGED <<sent, accepted, inbox, ctr, clock, msgs>>

-----------------------------------------------------------------------------

Init ==
    /\ sent = [p \in Peer |-> 0]
    /\ accepted = {}
    /\ active = [p \in Peer |-> [q \in Peer |-> {}]]
    /\ pending = [p \in Peer |-> [q \in Peer |-> {}]]
    /\ queue = [p \in Peer |-> [q \in Peer |-> {}]]
    /\ seen = [p \in Peer |-> {}]
    /\ inbox = [p \in Peer |-> <<>>]
    /\ shown = [p \in Peer |-> [q \in Peer |-> IdleView]]
    /\ epoch = [p \in Peer |-> 0]
    /\ ctr = [p \in Peer |-> 0]
    /\ clock = [p \in Peer |-> 0]
    /\ msgs = {}

Next ==
    \E p \in Peer :
        \/ \E Q \in SUBSET (Peer \ {p}) : Send(p, Q)
        \/ \E m \in msgs : handle_chat_wire_message(p, m)
        \/ Tick(p)
        \/ Restart(p)

Spec == Init /\ [][Next]_vars

\* The gossip mesh delivers what it accepted and the select! loop keeps polling
\* the swarm: while a node has an envelope it has not handled, it handles one.
FairSpec ==
    Spec /\ \A p \in Peer : WF_vars(\E m \in msgs : handle_chat_wire_message(p, m))

-----------------------------------------------------------------------------
(* Properties. *)

AtMostOne(f) == \A p, q \in Peer : \A s, t \in f[p][q] : s = t

\* Every variable keeps its type; an Option never holds two values.
TypeOK ==
    /\ sent \in [Peer -> Nat]
    /\ accepted \subseteq Entry
    /\ active \in [Peer -> [Peer -> SUBSET Session]]
    /\ pending \in [Peer -> [Peer -> SUBSET Token]]
    /\ queue \in [Peer -> [Peer -> SUBSET Nat]]
    /\ seen \in [Peer -> SUBSET (SessionOffer \cup SessionAck \cup Envelope)]
    /\ inbox \in [Peer -> Seq(Entry)]
    /\ shown \in [Peer -> [Peer -> View]]
    /\ epoch \in [Peer -> Nat]
    /\ ctr \in [Peer -> Nat]
    /\ clock \in [Peer -> Nat]
    /\ msgs \subseteq (SessionOffer \cup SessionAck \cup Envelope)
    /\ AtMostOne(active)
    /\ AtMostOne(pending)

\* process_direct_message never appends the same message to an inbox twice,
\* although envelopes are redelivered, the ReplayProtector forgets what has left
\* its window, and a restart forgets all of it while the inbox persists.
DeliveredAtMostOnce ==
    \A p \in Peer : \A i, j \in DOMAIN inbox[p] :
        i # j => inbox[p][i] # inbox[p][j]

Delivery == INSTANCE MessageDelivery WITH mailbox <- inbox

\* The session layer implements MessageDelivery: no handler invents, misroutes or
\* relabels a message or appends it to an inbox twice, although envelopes are
\* redelivered, sessions are replaced under queued messages and nodes restart.
ImplementsDelivery == Delivery!Spec

\* What `sessions` shows an operator is backed by the chat state: ESTABLISHED by
\* an active session with that id, NEGOTIATING by a pending one with that id.
ShownSessionIsHeld ==
    \A p, q \in Peer :
        /\ shown[p][q].state = "ESTABLISHED" =>
               \E s \in active[p][q] : shown[p][q].sid = {s.sid}
        /\ shown[p][q].state = "NEGOTIATING" => shown[p][q].sid = pending[p][q]

Offered(p, q) == \E m \in msgs : m.type = "offer" /\ m.from = p /\ m.to = q

Settled(p, q) ==
    /\ epoch[p] = 0 /\ epoch[q] = 0
    /\ pending[p][q] = {} /\ pending[q][p] = {}
    /\ active[p][q] # {} /\ active[q][p] # {}

\* When only one of two running nodes offered a session and the negotiation is
\* over, both hold the same session and key: no duplicate of the offer or of an
\* ack makes either of them rekey alone.
OneSidedSessionsAgree ==
    \A p, q \in Peer :
        Settled(p, q) /\ ~Offered(q, p) => active[p][q] = active[q][p]

Envelopes(p, q) == {m \in msgs : m.type = "direct" /\ m.from = p /\ m.to = q}

\* The sessions p has with q or has encrypted for q with.
Held(p, q) == active[p][q] \cup {[sid |-> m.sid, key |-> m.key] : m \in Envelopes(p, q)}

\* No node restarted between drawing its secret of the one key and of the other.
SameLifetimes(k, l) == \A x \in k.shared, y \in l.shared : x.by = y.by => x.epoch = y.epoch

\* "Both peers derive the same AES key from the X25519 shared secret plus
\* `session_id`" (docs/operations/secure-peer-communication.md), as the code keeps
\* it: a session id stands for one key at both ends and in every envelope, through
\* glare, redelivered offers and lost acks, unless the responder restarted and
\* answered the same offer once more.
SessionIdFixesKey ==
    \A p, q \in Peer : \A s \in active[p][q], t \in Held(q, p) :
        s.sid = t.sid /\ SameLifetimes(s.key, t.key) => s.key = t.key

\* dispatch_or_queue_outbound_message and the flush of pending_messages never lose
\* an accepted message between them: at a node that has not restarted and whose
\* publishes succeed it is queued or on the wire.
AcceptedIsKept ==
    \A e \in accepted : epoch[e.from] = 0 /\ e.from \notin PublishMayFail =>
        \/ e.body \in queue[e.from][e.to]
        \/ \E m \in Envelopes(e.from, e.to) : m.body = e.body

\* What the only initiator of a negotiation encrypts is readable: no envelope its
\* running responder takes from it fails to decrypt, in whatever order it comes.
OneSidedIsReliable ==
    \A p, q \in Peer : epoch[p] = 0 /\ epoch[q] = 0 /\ ~Offered(q, p) =>
        \A m \in seen[q] : m.type = "direct" /\ m.from = p =>
            \E i \in DOMAIN inbox[q] : inbox[q][i] = [from |-> p, to |-> q, body |-> m.body]

Handled(p, q) == \A m \in msgs : m.from = p /\ m.to = q => m \in seen[q]

\* "Both peers derive the same AES key from the X25519 shared secret plus
\* `session_id`" (docs/operations/secure-peer-communication.md): once every
\* envelope between two running nodes has been handled, their sessions agree.
SettledSessionsAgree ==
    \A p, q \in Peer :
        Settled(p, q) /\ Handled(p, q) /\ Handled(q, p) => active[p][q] = active[q][p]

\* At a node that has not restarted a message waiting in pending_messages always
\* has a negotiation under way that may release it, whatever the peer does.
QueuedHasNegotiation ==
    \A p, q \in Peer : epoch[p] = 0 /\ queue[p][q] # {} => pending[p][q] # {}

\* "a negotiating session appears and then stabilises as `ESTABLISHED`"
\* (labs/secure-chat/README.md): a message does not wait for a session for ever,
\* it is sent or its node stops.
NegotiationStabilises ==
    \A p, q \in Peer : queue[p][q] # {} ~> queue[p][q] = {}

=============================================================================
