------------------------- MODULE ChatSessionProofs -------------------------
(***************************************************************************)
(* Proofs about ChatSession, for any set of nodes, any replay window and   *)
(* any bounds.  TypeOK comes first; DeliveryInv is the inductive invariant *)
(* that makes at-most-once delivery follow.                                *)
(***************************************************************************)
EXTENDS ChatSession, TLAPS

Msg == SessionOffer \cup SessionAck \cup Envelope

EntryOf(m) == [from |-> m.from, to |-> m.to, body |-> m.body]

Direct == {m \in msgs : m.type = "direct"}

-----------------------------------------------------------------------------
(* The inductive invariant.                                                *)

\* A body is new when its command is drained.
AcceptedWasSent == \A e \in accepted : e.body < sent[e.from]

\* A queued body was accepted and has never been published.
QueuedUnpublished ==
    \A p, q \in Peer : \A b \in queue[p][q] :
        /\ [from |-> p, to |-> q, body |-> b] \in accepted
        /\ \A m \in Direct : EntryOf(m) # [from |-> p, to |-> q, body |-> b]

\* A published body was accepted, and is published in one envelope only.
PublishedAccepted == \A m \in Direct : EntryOf(m) \in accepted

PublishedOnce == \A m, n \in Direct : EntryOf(m) = EntryOf(n) => m = n

\* No token is from the future of the node that generated it.
Past(t) == t.epoch <= epoch[t.by]

TokensPast ==
    /\ \A m \in msgs :
        /\ Past(m.sid)
        /\ m.type = "ack" => Past(m.eph)
        /\ m.type = "direct" => \A x \in m.key.shared : Past(x)
    /\ \A p, q \in Peer : \A s \in active[p][q] :
        Past(s.sid) /\ \A x \in s.key.shared : Past(x)

\* p's secrets live in memory: what p negotiates or holds contains a secret
\* that p generated since it last started.
OwnSecret(p, key) == \E x \in key.shared : x.by = p /\ x.epoch = epoch[p]

SecretsFresh ==
    \A p, q \in Peer :
        /\ \A s \in active[p][q] : OwnSecret(p, s.key)
        /\ \A t \in pending[p][q] : t.by = p /\ t.epoch = epoch[p]

\* A delivered envelope can never be delivered again: p remembers it, or the
\* replay window has passed it, or p lost the secret its key was made from.
Spent(p, m) ==
    \/ m \in seen[p]
    \/ m.ts < Lower(p)
    \/ \A x \in m.key.shared : x.by = p => x.epoch < epoch[p]

DeliveredSpent ==
    \A p \in Peer : \A i \in DOMAIN inbox[p] :
        \E m \in Direct : m.to = p /\ EntryOf(m) = inbox[p][i] /\ Spent(p, m)

DeliveryInv ==
    /\ TypeOK
    /\ AcceptedWasSent
    /\ QueuedUnpublished
    /\ PublishedAccepted
    /\ PublishedOnce
    /\ TokensPast
    /\ SecretsFresh
    /\ DeliveredSpent
    /\ DeliveredAtMostOnce

-----------------------------------------------------------------------------
(* Lemmas on the operators the handlers share.                             *)

Kept(f, g, p, q) == g[p][q] = f[p][q] \/ g[p][q] = {} \/ \E x : g[p][q] = {x}

\* A map of Options stays one when its entries are kept, cleared or set.
LEMMA OptionUpdate ==
    ASSUME NEW f, NEW g, AtMostOne(f),
           \A p, q \in Peer : Kept(f, g, p, q)
    PROVE  AtMostOne(g)
BY DEF AtMostOne, Kept

\* FreshToken stamps a token with its owner and the owner's present epoch.
LEMMA FreshTokenType ==
    ASSUME TypeOK, NEW p \in Peer, NEW q \in Peer
    PROVE  FreshToken(p, q) \in Token
BY DEF TypeOK, FreshToken, Token

\* derive_session_key yields a key.
LEMMA KeyType ==
    ASSUME NEW s \in Token, NEW r \in Token, NEW sid \in Token
    PROVE  derive_session_key(s, r, sid) \in Key
BY DEF derive_session_key, Key

\* check_and_record keeps a node's replay memory a set of envelopes.
LEMMA ReplayType ==
    ASSUME TypeOK, NEW p \in Peer, NEW m \in msgs, check_and_record(p, m)
    PROVE  seen' \in [Peer -> SUBSET Msg]
BY DEF TypeOK, check_and_record, Retained, Msg

\* apply_chat_actions publishes a part of what it is given.
LEMMA ApplyPublishes ==
    ASSUME TypeOK, NEW p \in Peer, NEW out, NEW view, apply_chat_actions(p, out, view)
    PROVE  msgs \subseteq msgs' /\ msgs' \subseteq msgs \cup out
BY DEF apply_chat_actions

\* apply_chat_actions keeps the types of msgs and shown.
LEMMA ApplyType ==
    ASSUME TypeOK, NEW p \in Peer, NEW out \in SUBSET Msg, NEW view \in [Peer -> View],
           apply_chat_actions(p, out, view)
    PROVE  msgs' \subseteq Msg /\ shown' \in [Peer -> [Peer -> View]]
<1>1. msgs' \subseteq Msg
  BY ApplyPublishes DEF TypeOK, Msg
<1>2. PICK ok : shown' = [shown EXCEPT ![p] =
                    [q \in Peer |-> IF \E m \in out \ ok : m.to = q
                                    THEN [view[q] EXCEPT !.state = "FAILED"]
                                    ELSE view[q]]]
  BY DEF apply_chat_actions
<1>3. \A q \in Peer : [view[q] EXCEPT !.state = "FAILED"] \in View
  BY DEF View
<1>4. shown' \in [Peer -> [Peer -> View]]
  BY <1>2, <1>3 DEF TypeOK
<1> QED
  BY <1>1, <1>4

\* Establish keeps the types of the variables it changes.
LEMMA EstablishType ==
    ASSUME TypeOK, NEW p \in Peer, NEW q \in Peer, NEW session \in Session,
           NEW replies \in SUBSET Msg, Establish(p, q, session, replies)
    PROVE  /\ active' \in [Peer -> [Peer -> SUBSET Session]]
           /\ AtMostOne(active')
           /\ queue' \in [Peer -> [Peer -> SUBSET Nat]]
           /\ msgs' \subseteq Msg
           /\ shown' \in [Peer -> [Peer -> View]]
<1>1. active' \in [Peer -> [Peer -> SUBSET Session]]
  BY DEF TypeOK, Establish
<1>2. AtMostOne(active')
  <2>1. \A r, t \in Peer :
            active'[r][t] = IF r = p /\ t = q THEN {session} ELSE active[r][t]
    BY DEF TypeOK, Establish
  <2>2. \A r, t \in Peer : Kept(active, active', r, t)
    BY <2>1 DEF Kept
  <2> QED
    BY <2>2, OptionUpdate, Zenon DEF TypeOK
<1>3. queue' \in [Peer -> [Peer -> SUBSET Nat]]
  BY DEF TypeOK, Establish
<1>4. replies \cup {build_direct_message_action(p, q, session, b) : b \in queue[p][q]}
        \in SUBSET Msg
  <2>1. \A b \in queue[p][q] : build_direct_message_action(p, q, session, b) \in Envelope
    BY DEF TypeOK, build_direct_message_action, Envelope, Session
  <2> QED
    BY <2>1 DEF Msg
<1>5. observe_encrypted_session(p, q, session.sid) \in [Peer -> View]
  BY DEF TypeOK, observe_encrypted_session, ViewOf, View, Session
<1> QED
  BY <1>1, <1>2, <1>3, <1>4, <1>5, ApplyType DEF Establish

\* observe_session_failure keeps the type of shown.
LEMMA FailureType ==
    ASSUME TypeOK, NEW p \in Peer, NEW q \in Peer, observe_session_failure(p, q)
    PROVE  shown' \in [Peer -> [Peer -> View]]
<1>1. shown[p] \in [Peer -> View]
  BY DEF TypeOK
<1>2. [shown[p][q] EXCEPT !.state = "FAILED"] \in View
  BY <1>1 DEF View
<1> QED
  BY <1>1, <1>2 DEF TypeOK, observe_session_failure, ViewOf

-----------------------------------------------------------------------------
(* Type correctness, one lemma for each action.                            *)

\* Draining a chat command keeps the types.
LEMMA SendType ==
    ASSUME TypeOK, NEW p \in Peer, NEW Q \in SUBSET (Peer \ {p}), Send(p, Q)
    PROVE  TypeOK'
<1> DEFINE offered == {q \in Q : NeedsOffer(p, q)}
           out == {MakeOffer(p, q) : q \in offered}
                    \cup UNION {{build_direct_message_action(p, q, s, sent[p]) :
                                   s \in active[p][q]} : q \in Q}
           view == [q \in Peer |-> IF q \in offered
                        THEN [state |-> "NEGOTIATING", sid |-> {FreshToken(p, q)}]
                        ELSE shown[p][q]]
<1>1. apply_chat_actions(p, out, view)
  BY Zenon DEF Send, dispatch_or_queue_outbound_message
<1>2. \A q \in Peer : FreshToken(p, q) \in Token
  BY FreshTokenType
<1>3. out \in SUBSET Msg
  <2>1. \A q \in offered : MakeOffer(p, q) \in SessionOffer
    BY <1>2 DEF MakeOffer, SessionOffer, TypeOK
  <2>2. \A q \in Q : \A s \in active[p][q] :
            build_direct_message_action(p, q, s, sent[p]) \in Envelope
    BY DEF build_direct_message_action, Envelope, TypeOK, Session
  <2> QED
    BY <2>1, <2>2 DEF Msg
<1>4. view \in [Peer -> View]
  BY <1>2 DEF View, TypeOK
<1>5. msgs' \subseteq Msg /\ shown' \in [Peer -> [Peer -> View]]
  BY <1>1, <1>3, <1>4, ApplyType
<1>6. sent' \in [Peer -> Nat] /\ ctr' \in [Peer -> Nat]
  BY DEF Send, TypeOK
<1>7. accepted' \subseteq Entry
  BY DEF Send, TypeOK, Entry
<1>8. queue' \in [Peer -> [Peer -> SUBSET Nat]]
  BY DEF Send, dispatch_or_queue_outbound_message, TypeOK
<1>9. /\ pending' \in [Peer -> [Peer -> SUBSET Token]]
      /\ AtMostOne(pending')
  <2>1. pending' = [pending EXCEPT ![p] =
                      [q \in Peer |-> IF q \in offered THEN {FreshToken(p, q)}
                                                       ELSE pending[p][q]]]
    BY Zenon DEF Send, dispatch_or_queue_outbound_message
  <2>2. \A r, t \in Peer :
            pending'[r][t] = IF r = p /\ t \in offered THEN {FreshToken(p, t)}
                                                      ELSE pending[r][t]
    BY <2>1 DEF TypeOK
  <2> HIDE DEF offered
  <2>3. pending' \in [Peer -> [Peer -> SUBSET Token]]
    BY <2>1, <1>2 DEF TypeOK
  <2>4. AtMostOne(pending')
    <3>1. \A r, t \in Peer : Kept(pending, pending', r, t)
      BY <2>2 DEF Kept
    <3> QED
      BY <3>1, OptionUpdate, Zenon DEF TypeOK
  <2> QED
    BY <2>3, <2>4
<1> QED
  BY <1>5, <1>6, <1>7, <1>8, <1>9 DEF Send, TypeOK, Msg

\* Accepting a session offer keeps the types.
LEMMA OfferType ==
    ASSUME TypeOK, NEW p \in Peer, NEW m \in msgs, process_session_offer(p, m)
    PROVE  TypeOK'
<1> DEFINE session == [sid |-> m.sid,
                       key |-> derive_session_key(FreshToken(p, m.from), m.sid, m.sid)]
<1>1. m \in SessionOffer
  BY DEF TypeOK, process_session_offer, SessionOffer, SessionAck, Envelope
<1>2. m.from \in Peer /\ m.sid \in Token
  BY <1>1 DEF SessionOffer
<1>3. FreshToken(p, m.from) \in Token
  BY <1>2, FreshTokenType
<1>4. session \in Session
  BY <1>2, <1>3, KeyType DEF Session
<1>5. {MakeAck(p, m.from, m.sid)} \in SUBSET Msg
  BY <1>2, <1>3 DEF MakeAck, SessionAck, Msg, TypeOK
<1>6. Establish(p, m.from, session, {MakeAck(p, m.from, m.sid)})
  BY DEF process_session_offer, AcceptOffer
<1> HIDE DEF session
<1>7. /\ active' \in [Peer -> [Peer -> SUBSET Session]]
      /\ AtMostOne(active')
      /\ queue' \in [Peer -> [Peer -> SUBSET Nat]]
      /\ msgs' \subseteq Msg
      /\ shown' \in [Peer -> [Peer -> View]]
  BY <1>2, <1>4, <1>5, <1>6, EstablishType
<1>8. seen' \in [Peer -> SUBSET Msg]
  BY ReplayType DEF process_session_offer
<1>9. ctr' \in [Peer -> Nat]
  BY DEF process_session_offer, AcceptOffer, TypeOK
<1> QED
  BY <1>7, <1>8, <1>9 DEF process_session_offer, AcceptOffer, TypeOK, Msg

\* Handling a session ack, whatever the pending session, keeps the types.
LEMMA AckType ==
    ASSUME TypeOK, NEW p \in Peer, NEW m \in msgs, process_session_ack(p, m)
    PROVE  TypeOK'
<1>1. m \in SessionAck
  BY DEF TypeOK, process_session_ack, SessionOffer, SessionAck, Envelope
<1>2. m.from \in Peer /\ m.sid \in Token /\ m.eph \in Token
  BY <1>1 DEF SessionAck
<1>3. seen' \in [Peer -> SUBSET Msg]
  BY ReplayType DEF process_session_ack
<1>4. /\ pending' \in [Peer -> [Peer -> SUBSET Token]]
      /\ AtMostOne(pending')
  <2>1. \A r, t \in Peer :
            pending'[r][t] = IF r = p /\ t = m.from THEN {} ELSE pending[r][t]
    <3>1. pending' = [pending EXCEPT ![p][m.from] = {}]
      BY DEF process_session_ack
    <3> QED
      BY <1>2, <3>1 DEF TypeOK
  <2>2. pending' \in [Peer -> [Peer -> SUBSET Token]]
    BY DEF process_session_ack, TypeOK
  <2>3. \A r, t \in Peer : Kept(pending, pending', r, t)
    BY <2>1 DEF Kept
  <2> QED
    BY <2>2, <2>3, OptionUpdate, Zenon DEF TypeOK
<1>5. CASE pending[p][m.from] # {m.sid}
  <2>1. UNCHANGED <<active, queue, msgs>>
    BY <1>5 DEF process_session_ack
  <2>2. shown' \in [Peer -> [Peer -> View]]
    BY <1>2, <1>5, FailureType DEF process_session_ack, TypeOK
  <2> QED
    BY <1>3, <1>4, <2>1, <2>2 DEF process_session_ack, TypeOK, Msg
<1>6. CASE pending[p][m.from] = {m.sid}
  <2> DEFINE session == [sid |-> m.sid, key |-> derive_session_key(m.sid, m.eph, m.sid)]
  <2>1. Establish(p, m.from, session, {})
    BY <1>6 DEF process_session_ack
  <2>2. session \in Session
    BY <1>2, KeyType DEF Session
  <2> HIDE DEF session
  <2>3. /\ active' \in [Peer -> [Peer -> SUBSET Session]]
        /\ AtMostOne(active')
        /\ queue' \in [Peer -> [Peer -> SUBSET Nat]]
        /\ msgs' \subseteq Msg
        /\ shown' \in [Peer -> [Peer -> View]]
    BY <1>2, <2>1, <2>2, EstablishType
  <2> QED
    BY <1>3, <1>4, <2>3 DEF process_session_ack, TypeOK, Msg
<1> QED
  BY <1>5, <1>6

\* Delivering or dropping a direct message keeps the types.
LEMMA DirectType ==
    ASSUME TypeOK, NEW p \in Peer, NEW m \in msgs, process_direct_message(p, m)
    PROVE  TypeOK'
<1>1. m \in Envelope
  BY DEF TypeOK, process_direct_message, SessionOffer, SessionAck, Envelope
<1>2. seen' \in [Peer -> SUBSET Msg]
  BY ReplayType DEF process_direct_message
<1>3. inbox' \in [Peer -> Seq(Entry)]
  <2>1. [from |-> m.from, to |-> p, body |-> m.body] \in Entry
    BY <1>1 DEF Envelope, Entry
  <2>2. CASE inbox' = inbox
    BY <2>2 DEF TypeOK
  <2>3. CASE inbox' = [inbox EXCEPT ![p] =
                         Append(@, [from |-> m.from, to |-> p, body |-> m.body])]
    BY <2>1, <2>3 DEF TypeOK
  <2> QED
    BY <2>2, <2>3 DEF process_direct_message
<1>4. shown' \in [Peer -> [Peer -> View]]
  BY <1>1, FailureType DEF process_direct_message, TypeOK, Envelope
<1> QED
  BY <1>2, <1>3, <1>4 DEF process_direct_message, TypeOK, Msg

\* Ticks, restarts and refused replays keep the types.
LEMMA EnvironmentType ==
    ASSUME TypeOK, NEW p \in Peer, Tick(p) \/ Restart(p)
    PROVE  TypeOK'
<1>1. CASE Tick(p)
  BY <1>1 DEF Tick, TypeOK
<1>2. CASE Restart(p)
  <2>1. \A r, t \in Peer :
          /\ active'[r][t] = IF r = p THEN {} ELSE active[r][t]
          /\ pending'[r][t] = IF r = p THEN {} ELSE pending[r][t]
    BY <1>2 DEF Restart, TypeOK
  <2>2. /\ AtMostOne(active')
        /\ AtMostOne(pending')
    <3>1. /\ \A r, t \in Peer : Kept(active, active', r, t)
          /\ \A r, t \in Peer : Kept(pending, pending', r, t)
      BY <2>1 DEF Kept
    <3> QED
      BY <3>1, OptionUpdate, Zenon DEF TypeOK
  <2>3. shown' \in [Peer -> [Peer -> View]]
    BY <1>2 DEF Restart, TypeOK, IdleView, View
  <2>4. /\ active' \in [Peer -> [Peer -> SUBSET Session]]
        /\ pending' \in [Peer -> [Peer -> SUBSET Token]]
        /\ queue' \in [Peer -> [Peer -> SUBSET Nat]]
        /\ seen' \in [Peer -> SUBSET Msg]
        /\ epoch' \in [Peer -> Nat]
    BY <1>2 DEF Restart, TypeOK, Msg
  <2> QED
    BY <1>2, <2>2, <2>3, <2>4 DEF Restart, TypeOK, Msg
<1> QED
  BY <1>1, <1>2

\* Every step keeps the types.
LEMMA TypeStep == TypeOK /\ [Next]_vars => TypeOK'
<1> SUFFICES ASSUME TypeOK, [Next]_vars PROVE TypeOK'
  OBVIOUS
<1>1. CASE UNCHANGED vars
  BY <1>1 DEF vars, TypeOK
<1>2. ASSUME NEW p \in Peer, NEW Q \in SUBSET (Peer \ {p}), Send(p, Q)
      PROVE  TypeOK'
  BY <1>2, SendType
<1>3. ASSUME NEW p \in Peer, NEW m \in msgs, handle_chat_wire_message(p, m)
      PROVE  TypeOK'
  <2>1. CASE RejectReplay(p, m)
    <3>1. seen' \in [Peer -> SUBSET Msg]
      BY <1>3, <2>1, ReplayType DEF RejectReplay
    <3> QED
      BY <2>1, <3>1 DEF RejectReplay, TypeOK, Msg
  <2> QED
    BY <1>3, <2>1, OfferType, AckType, DirectType DEF handle_chat_wire_message
<1>4. ASSUME NEW p \in Peer, Tick(p) \/ Restart(p)
      PROVE  TypeOK'
  BY <1>4, EnvironmentType
<1> QED
  BY <1>1, <1>2, <1>3, <1>4 DEF Next

\* TypeOK is an invariant of every instance: no handler of node.rs leaves the
\* chat runtime with an ill-formed session, queue, inbox or replay memory, or
\* with two sessions in one slot.
THEOREM TypeCorrect == Spec => []TypeOK
<1>1. Init => TypeOK
  BY DEF Init, TypeOK, AtMostOne, IdleView, View
<1> QED
  BY <1>1, TypeStep, PTL DEF Spec

-----------------------------------------------------------------------------
(* What the handlers do to the parts of DeliveryInv.                       *)

\* A published direct message is an envelope, and so has a sender, a recipient
\* and a body.
LEMMA DirectIsEnvelope ==
    ASSUME TypeOK
    PROVE  \A m \in Direct : m \in Envelope /\ EntryOf(m) \in Entry
<1>1. \A m \in Direct : m \in Envelope
  BY DEF TypeOK, Direct, SessionOffer, SessionAck, Envelope
<1> QED
  BY <1>1 DEF Envelope, EntryOf, Entry

\* build_direct_message_action carries the body it is given.
LEMMA BuiltEntry ==
    ASSUME NEW p, NEW q, NEW session, NEW b
    PROVE  LET e == build_direct_message_action(p, q, session, b)
           IN  /\ e.type = "direct"
               /\ e.sid = session.sid
               /\ e.key = session.key
               /\ EntryOf(e) = [from |-> p, to |-> q, body |-> b]
BY DEF build_direct_message_action, EntryOf

\* Flushing a queue into a new session publishes each queued body once.
LEMMA EstablishPublishes ==
    ASSUME DeliveryInv, NEW p \in Peer, NEW q \in Peer, NEW session, NEW replies,
           \A r \in replies : r.type # "direct",
           Establish(p, q, session, replies), UNCHANGED <<sent, accepted>>
    PROVE  AcceptedWasSent' /\ QueuedUnpublished' /\ PublishedAccepted' /\ PublishedOnce'
<1> DEFINE flushed == {build_direct_message_action(p, q, session, b) : b \in queue[p][q]}
           Ent(b) == [from |-> p, to |-> q, body |-> b]
<1>1. msgs' \subseteq msgs \cup (replies \cup flushed)
  BY ApplyPublishes DEF Establish, DeliveryInv
<1>2. \A m \in Direct' : m \in Direct \/ \E b \in queue[p][q] :
            m = build_direct_message_action(p, q, session, b) /\ EntryOf(m) = Ent(b)
  BY <1>1, BuiltEntry DEF Direct
<1>3. \A r, t \in Peer : queue'[r][t] = IF r = p /\ t = q THEN {} ELSE queue[r][t]
  BY DEF Establish, DeliveryInv, TypeOK
<1>4. \A b \in queue[p][q] : Ent(b) \in accepted /\ \A m \in Direct : EntryOf(m) # Ent(b)
  BY DEF DeliveryInv, QueuedUnpublished
<1>5. AcceptedWasSent'
  BY DEF AcceptedWasSent, DeliveryInv
<1>6. PublishedAccepted'
  BY <1>2, <1>4 DEF PublishedAccepted, DeliveryInv
<1>7. PublishedOnce'
  <2>1. \A b, c \in queue[p][q] : Ent(b) = Ent(c) => b = c
    OBVIOUS
  <2> SUFFICES ASSUME NEW m \in Direct', NEW n \in Direct', EntryOf(m) = EntryOf(n)
               PROVE  m = n
    BY Zenon DEF PublishedOnce, EntryOf
  <2> QED
    BY <1>2, <1>4, <2>1 DEF PublishedOnce, DeliveryInv
<1>8. QueuedUnpublished'
  <2> SUFFICES ASSUME NEW r \in Peer, NEW t \in Peer, NEW b \in queue'[r][t]
               PROVE  /\ [from |-> r, to |-> t, body |-> b] \in accepted'
                      /\ \A m \in Direct' : EntryOf(m) # [from |-> r, to |-> t, body |-> b]
    BY Zenon DEF QueuedUnpublished, EntryOf
  <2>1. b \in queue[r][t] /\ ~(r = p /\ t = q)
    BY <1>3
  <2>2. \A c : [from |-> r, to |-> t, body |-> b] # Ent(c)
    BY <2>1
  <2> QED
    BY <1>2, <2>1, <2>2 DEF QueuedUnpublished, DeliveryInv
<1> QED
  BY <1>5, <1>6, <1>7, <1>8

\* A session made of past tokens, and replies made of past tokens, keep
\* TokensPast and SecretsFresh.
LEMMA EstablishTokens ==
    ASSUME DeliveryInv, NEW p \in Peer, NEW q \in Peer, NEW session \in Session, NEW replies,
           \A r \in replies : r.type = "ack" /\ Past(r.sid) /\ Past(r.eph),
           Past(session.sid), \A x \in session.key.shared : Past(x),
           OwnSecret(p, session.key),
           \A r, t \in Peer : pending'[r][t] \subseteq pending[r][t],
           Establish(p, q, session, replies), UNCHANGED epoch
    PROVE  TokensPast' /\ SecretsFresh'
<1> DEFINE flushed == {build_direct_message_action(p, q, session, b) : b \in queue[p][q]}
<1>1. msgs' \subseteq msgs \cup (replies \cup flushed)
  BY ApplyPublishes DEF Establish, DeliveryInv
<1>2. \A r, t \in Peer :
          active'[r][t] = IF r = p /\ t = q THEN {session} ELSE active[r][t]
  BY DEF Establish, DeliveryInv, TypeOK
<1>3. \A m \in flushed : /\ Past(m.sid)
                         /\ m.type = "direct"
                         /\ \A x \in m.key.shared : Past(x)
  BY BuiltEntry
<1> HIDE DEF flushed
<1>4. \A m \in msgs' : /\ Past(m.sid)
                       /\ m.type = "ack" => Past(m.eph)
                       /\ m.type = "direct" => \A x \in m.key.shared : Past(x)
  BY <1>1, <1>3 DEF DeliveryInv, TokensPast
<1>5. \A r, t \in Peer : \A s \in active'[r][t] :
          Past(s.sid) /\ \A x \in s.key.shared : Past(x)
  BY <1>2 DEF DeliveryInv, TokensPast
<1>6. TokensPast'
  BY <1>4, <1>5 DEF TokensPast, Past
<1>7. SecretsFresh'
  BY <1>2 DEF SecretsFresh, DeliveryInv, OwnSecret
<1> QED
  BY <1>6, <1>7

\* Queued bodies stay unpublished while nothing is published.
LEMMA QueuedKept ==
    ASSUME QueuedUnpublished, Direct' = Direct, accepted' = accepted,
           \A r, t \in Peer : queue'[r][t] \subseteq queue[r][t]
    PROVE  QueuedUnpublished'
<1> SUFFICES ASSUME NEW r \in Peer, NEW t \in Peer, NEW b \in queue'[r][t]
             PROVE  /\ [from |-> r, to |-> t, body |-> b] \in accepted'
                    /\ \A m \in Direct' : EntryOf(m) # [from |-> r, to |-> t, body |-> b]
  BY Zenon DEF QueuedUnpublished, EntryOf
<1>1. b \in queue[r][t]
  OBVIOUS
<1> QED
  BY <1>1 DEF QueuedUnpublished

\* The lower end of the replay window is a time.
LEMMA LowerType ==
    ASSUME TypeOK, NEW p \in Peer
    PROVE  Lower(p) \in Nat
BY ChatSessionAssumption DEF TypeOK, Lower

\* check_and_record forgets an envelope only when the window has passed it.
LEMMA CheckKeepsSpent ==
    ASSUME TypeOK, NEW p \in Peer, NEW m, check_and_record(p, m), UNCHANGED <<clock, epoch>>,
           NEW r \in Peer, NEW n, Spent(r, n)
    PROVE  Spent(r, n)'
<1>1. Lower(r)' = Lower(r)
  BY DEF Lower
<1>2. n \in seen[r] => n \in seen'[r] \/ n.ts < Lower(r)
  <2>1. n \in Retained(r) => n \in seen'[r]
    BY DEF TypeOK, check_and_record, Retained
  <2>2. n \in seen[r] => n.ts \in Nat
    BY DEF TypeOK, SessionOffer, SessionAck, Envelope
  <2>3. n \in seen[r] => n \in Retained(r) \/ n.ts < Lower(r)
    BY <2>2, LowerType DEF Retained
  <2> QED
    BY <2>1, <2>3
<1> QED
  BY <1>1, <1>2 DEF Spent

\* What was delivered stays spent while envelopes stay spent.
LEMMA DeliveredSpentKept ==
    ASSUME DeliveryInv, msgs \subseteq msgs', inbox' = inbox,
           \A r \in Peer : \A n \in Direct : Spent(r, n) => Spent(r, n)'
    PROVE  DeliveredSpent' /\ DeliveredAtMostOnce'
<1>1. Direct \subseteq Direct'
  BY DEF Direct
<1>2. DeliveredAtMostOnce'
  BY DEF DeliveredAtMostOnce, DeliveryInv
<1>3. ASSUME NEW r \in Peer, NEW i \in DOMAIN inbox'[r]
      PROVE  \E m \in Direct' : m.to = r /\ EntryOf(m) = inbox'[r][i] /\ Spent(r, m)'
  <2>1. PICK m \in Direct : m.to = r /\ EntryOf(m) = inbox[r][i] /\ Spent(r, m)
    BY <1>3, Zenon DEF DeliveryInv, DeliveredSpent
  <2> QED
    BY <1>1, <2>1
<1>4. DeliveredSpent'
  BY <1>3, Zenon DEF DeliveredSpent, EntryOf
<1> QED
  BY <1>2, <1>4

\* The heart of at-most-once delivery: an envelope that passes the replay check
\* and decrypts is not in the inbox yet.
LEMMA DecryptedIsNew ==
    ASSUME DeliveryInv, NEW p \in Peer, NEW m \in Direct, m.to = p,
           PassesReplayCheck(p, m), Decrypts(p, m)
    PROVE  \A i \in DOMAIN inbox[p] : inbox[p][i] # EntryOf(m)
<1> SUFFICES ASSUME NEW i \in DOMAIN inbox[p], inbox[p][i] = EntryOf(m)
             PROVE  FALSE
  OBVIOUS
<1>1. PICK n \in Direct : n.to = p /\ EntryOf(n) = inbox[p][i] /\ Spent(p, n)
  BY DEF DeliveryInv, DeliveredSpent
<1>2. n = m
  BY <1>1 DEF DeliveryInv, PublishedOnce
<1>3. m \in Envelope
  BY DirectIsEnvelope DEF DeliveryInv
<1>4. m.ts >= Lower(p) /\ m \notin seen[p]
  BY DEF PassesReplayCheck, Retained
<1>5. ~(m.ts < Lower(p))
  <2>1. m.ts \in Nat /\ Lower(p) \in Nat
    BY <1>3, LowerType DEF Envelope, DeliveryInv
  <2> QED
    BY <1>4, <2>1
<1>6. OwnSecret(p, m.key)
  <2>1. [sid |-> m.sid, key |-> m.key] \in active[p][m.from] /\ m.from \in Peer
    BY <1>3 DEF Decrypts, Envelope
  <2> QED
    BY <2>1 DEF DeliveryInv, SecretsFresh
<1>7. ~(\A x \in m.key.shared : x.by = p => x.epoch < epoch[p])
  BY <1>6 DEF OwnSecret, DeliveryInv, TypeOK
<1> QED
  BY <1>1, <1>2, <1>4, <1>5, <1>7 DEF Spent

-----------------------------------------------------------------------------
(* DeliveryInv is inductive, one lemma for each action.                    *)

\* Draining a chat command keeps DeliveryInv: the body is new, so the envelopes
\* it is published in are the only ones, and the queues it enters the first.
LEMMA SendDelivery ==
    ASSUME DeliveryInv, NEW p \in Peer, NEW Q \in SUBSET (Peer \ {p}), Send(p, Q)
    PROVE  DeliveryInv'
<1> DEFINE offered == {q \in Q : NeedsOffer(p, q)}
           out == {MakeOffer(p, q) : q \in offered}
                    \cup UNION {{build_direct_message_action(p, q, s, sent[p]) :
                                   s \in active[p][q]} : q \in Q}
           view == [q \in Peer |-> IF q \in offered
                        THEN [state |-> "NEGOTIATING", sid |-> {FreshToken(p, q)}]
                        ELSE shown[p][q]]
           Ent(q) == [from |-> p, to |-> q, body |-> sent[p]]
<1>t. TypeOK
  BY DEF DeliveryInv
<1>1. TypeOK'
  BY <1>t, SendType
<1>2. msgs \subseteq msgs' /\ msgs' \subseteq msgs \cup out
  <2>1. apply_chat_actions(p, out, view)
    BY Zenon DEF Send, dispatch_or_queue_outbound_message
  <2> HIDE DEF out, view
  <2> QED
    BY <1>t, <2>1, ApplyPublishes
<1>3. \A m \in out : \/ \E q \in offered : m = MakeOffer(p, q)
                    \/ \E q \in Q : \E s \in active[p][q] :
                            /\ m = build_direct_message_action(p, q, s, sent[p])
                            /\ EntryOf(m) = Ent(q)
  <2>1. \A q \in Q : \A s \in active[p][q] :
            EntryOf(build_direct_message_action(p, q, s, sent[p])) = Ent(q)
    BY BuiltEntry
  <2> QED
    BY <2>1
<1>4. \A m \in Direct' : m \in Direct \/ \E q \in Q : \E s \in active[p][q] :
            /\ m = build_direct_message_action(p, q, s, sent[p])
            /\ EntryOf(m) = Ent(q)
  <2>1. \A q \in offered : MakeOffer(p, q).type # "direct"
    BY DEF MakeOffer
  <2> HIDE DEF out, offered
  <2> QED
    BY <1>2, <1>3, <2>1 DEF Direct
<1>5. sent[p] \in Nat
  BY <1>t DEF TypeOK
<1>6. \A q \in Q : Ent(q) \in accepted' /\ Ent(q) \notin accepted
  BY <1>5 DEF Send, DeliveryInv, AcceptedWasSent
<1>7. accepted \subseteq accepted'
  BY DEF Send
<1>8. AcceptedWasSent'
  <2> SUFFICES ASSUME NEW e \in accepted' PROVE e.body < sent'[e.from]
    BY DEF AcceptedWasSent
  <2>1. sent' = [sent EXCEPT ![p] = sent[p] + 1]
    BY DEF Send
  <2>2. CASE e \in accepted
    <3>1. e.from \in Peer /\ e.body \in Nat /\ e.body < sent[e.from]
      BY <1>t, <2>2 DEF DeliveryInv, AcceptedWasSent, TypeOK, Entry
    <3> QED
      BY <1>t, <2>1, <3>1 DEF TypeOK
  <2>3. CASE e \notin accepted
    <3>1. e.from = p /\ e.body = sent[p]
      BY <2>3 DEF Send
    <3> QED
      BY <1>t, <1>5, <2>1, <3>1 DEF TypeOK
  <2> QED
    BY <2>2, <2>3
<1>9. \A m \in Direct : EntryOf(m) \in accepted
  BY DEF DeliveryInv, PublishedAccepted
<1>10. PublishedAccepted'
  <2> SUFFICES ASSUME NEW m \in Direct' PROVE EntryOf(m) \in accepted'
    BY Zenon DEF PublishedAccepted, EntryOf
  <2> QED
    BY <1>4, <1>6, <1>7, <1>9
<1>11. PublishedOnce'
  <2> SUFFICES ASSUME NEW m \in Direct', NEW n \in Direct', EntryOf(m) = EntryOf(n)
               PROVE  m = n
    BY Zenon DEF PublishedOnce, EntryOf
  <2>1. \A q, r \in Q : Ent(q) = Ent(r) => q = r
    OBVIOUS
  <2>2. \A q \in Q : \A s, u \in active[p][q] : s = u
    BY <1>t DEF TypeOK, AtMostOne
  <2> QED
    BY <1>4, <1>6, <1>9, <2>1, <2>2 DEF PublishedOnce, DeliveryInv
<1>12. QueuedUnpublished'
  <2> SUFFICES ASSUME NEW r \in Peer, NEW t \in Peer, NEW b \in queue'[r][t]
               PROVE  /\ [from |-> r, to |-> t, body |-> b] \in accepted'
                      /\ \A m \in Direct' : EntryOf(m) # [from |-> r, to |-> t, body |-> b]
    BY Zenon DEF QueuedUnpublished, EntryOf
  <2>1. queue' = [queue EXCEPT ![p] =
                     [q \in Peer |-> IF q \in Q /\ active[p][q] = {}
                                     THEN queue[p][q] \cup {sent[p]}
                                     ELSE queue[p][q]]]
    BY DEF Send, dispatch_or_queue_outbound_message
  <2>2. \/ b \in queue[r][t]
        \/ r = p /\ t \in Q /\ active[p][t] = {} /\ b = sent[p]
    BY <1>t, <2>1 DEF TypeOK
  <2>3. CASE b \in queue[r][t]
    <3>1. /\ [from |-> r, to |-> t, body |-> b] \in accepted
          /\ \A m \in Direct : EntryOf(m) # [from |-> r, to |-> t, body |-> b]
      BY <2>3 DEF DeliveryInv, QueuedUnpublished
    <3> QED
      BY <1>4, <1>6, <1>7, <3>1
  <2>4. CASE r = p /\ t \in Q /\ active[p][t] = {} /\ b = sent[p]
    <3>1. \A q \in Q : Ent(q) = Ent(t) => q = t
      OBVIOUS
    <3>2. \A m \in Direct : EntryOf(m) # Ent(t)
      BY <1>6, <1>9, <2>4
    <3> QED
      BY <1>4, <1>6, <2>4, <3>1, <3>2
  <2> QED
    BY <2>2, <2>3, <2>4
<1>13. UNCHANGED <<active, seen, inbox, epoch, clock>>
  BY DEF Send
<1>14. TokensPast'
  <2>1. \A q \in Q : Past(FreshToken(p, q))
    BY <1>t DEF Past, FreshToken, TypeOK
  <2>2. \A q \in offered : /\ Past(MakeOffer(p, q).sid)
                           /\ MakeOffer(p, q).type = "offer"
    BY <2>1 DEF MakeOffer
  <2>3. \A q \in Q : \A s \in active[p][q] :
            LET m == build_direct_message_action(p, q, s, sent[p])
            IN  m.type = "direct" /\ m.key = s.key /\ m.sid = s.sid
    BY BuiltEntry
  <2>4. \A q \in Q : \A s \in active[p][q] :
            Past(s.sid) /\ \A x \in s.key.shared : Past(x)
    BY DEF DeliveryInv, TokensPast
  <2> HIDE DEF out, offered
  <2>5. \A m \in msgs' : /\ Past(m.sid)
                         /\ m.type = "ack" => Past(m.eph)
                         /\ m.type = "direct" => \A x \in m.key.shared : Past(x)
    BY <1>2, <1>3, <2>2, <2>3, <2>4 DEF DeliveryInv, TokensPast
  <2> QED
    BY <1>13, <2>5 DEF DeliveryInv, TokensPast, Past
<1>15. SecretsFresh'
  <2>1. pending' = [pending EXCEPT ![p] =
                      [q \in Peer |-> IF q \in offered THEN {FreshToken(p, q)}
                                                       ELSE pending[p][q]]]
    BY Zenon DEF Send, dispatch_or_queue_outbound_message
  <2> HIDE DEF offered
  <2>2. \A r, q \in Peer : \A t \in pending'[r][q] :
            t \in pending[r][q] \/ (r = p /\ t = FreshToken(p, q))
    BY <1>t, <2>1 DEF TypeOK
  <2>3. \A q : FreshToken(p, q).by = p /\ FreshToken(p, q).epoch = epoch[p]
    BY DEF FreshToken
  <2> QED
    BY <1>13, <2>2, <2>3 DEF DeliveryInv, SecretsFresh, OwnSecret
<1>16. DeliveredSpent' /\ DeliveredAtMostOnce'
  <2>1. \A r \in Peer : \A n \in Direct : Spent(r, n) => Spent(r, n)'
    BY <1>13 DEF Spent, Lower
  <2> QED
    BY <1>2, <1>13, <2>1, DeliveredSpentKept
<1> QED
  BY <1>1, <1>8, <1>10, <1>11, <1>12, <1>14, <1>15, <1>16 DEF DeliveryInv

\* Answering an offer keeps DeliveryInv: the session is made with a secret p has
\* just generated.
LEMMA OfferDelivery ==
    ASSUME DeliveryInv, NEW p \in Peer, NEW m \in msgs, process_session_offer(p, m)
    PROVE  DeliveryInv'
<1> DEFINE fresh == FreshToken(p, m.from)
           session == [sid |-> m.sid, key |-> derive_session_key(fresh, m.sid, m.sid)]
           replies == {MakeAck(p, m.from, m.sid)}
<1>t. TypeOK
  BY DEF DeliveryInv
<1>1. TypeOK'
  BY <1>t, OfferType
<1>2. m \in SessionOffer
  BY <1>t DEF TypeOK, process_session_offer, SessionOffer, SessionAck, Envelope
<1>3. m.from \in Peer /\ m.sid \in Token
  BY <1>2 DEF SessionOffer
<1>4. fresh \in Token /\ session \in Session
  BY <1>t, <1>3, FreshTokenType, KeyType DEF Session
<1>5. Establish(p, m.from, session, replies)
  BY DEF process_session_offer, AcceptOffer
<1>6. UNCHANGED <<sent, accepted, pending, inbox, epoch, clock>> /\ check_and_record(p, m)
  BY DEF process_session_offer, AcceptOffer
<1>7. Past(m.sid) /\ Past(fresh)
  BY <1>t DEF DeliveryInv, TokensPast, Past, FreshToken, TypeOK
<1>8. \A r \in replies : r.type = "ack" /\ Past(r.sid) /\ Past(r.eph)
  BY <1>7 DEF MakeAck
<1>9. /\ Past(session.sid)
      /\ \A x \in session.key.shared : Past(x)
      /\ OwnSecret(p, session.key)
  BY <1>7 DEF derive_session_key, OwnSecret, FreshToken
<1> HIDE DEF session, replies
<1>10. TokensPast' /\ SecretsFresh'
  BY <1>3, <1>4, <1>5, <1>6, <1>8, <1>9, EstablishTokens
<1>11. AcceptedWasSent' /\ QueuedUnpublished' /\ PublishedAccepted' /\ PublishedOnce'
  BY <1>3, <1>5, <1>6, <1>8, EstablishPublishes
<1>12. msgs \subseteq msgs'
  BY <1>t, <1>5, ApplyPublishes DEF Establish
<1>13. DeliveredSpent' /\ DeliveredAtMostOnce'
  BY <1>t, <1>6, <1>12, CheckKeepsSpent, DeliveredSpentKept
<1> QED
  BY <1>1, <1>10, <1>11, <1>13 DEF DeliveryInv

\* A handler that leaves sessions, queues, inboxes and publications alone keeps
\* DeliveryInv as long as it only prunes its replay memory.
LEMMA QuietDelivery ==
    ASSUME DeliveryInv, TypeOK', NEW p \in Peer, NEW m \in msgs, check_and_record(p, m),
           UNCHANGED <<sent, accepted, active, queue, inbox, epoch, clock, msgs>>,
           \A r, t \in Peer : pending'[r][t] \subseteq pending[r][t]
    PROVE  DeliveryInv'
<1>1. Direct' = Direct
  BY DEF Direct
<1>2. AcceptedWasSent' /\ PublishedAccepted' /\ PublishedOnce'
  BY <1>1 DEF DeliveryInv, AcceptedWasSent, PublishedAccepted, PublishedOnce, EntryOf
<1>3. QueuedUnpublished'
  BY <1>1, QueuedKept DEF DeliveryInv
<1>4. TokensPast'
  BY DEF DeliveryInv, TokensPast, Past
<1>5. SecretsFresh'
  BY DEF DeliveryInv, SecretsFresh, OwnSecret
<1>6. DeliveredSpent' /\ DeliveredAtMostOnce'
  BY CheckKeepsSpent, DeliveredSpentKept DEF DeliveryInv
<1> QED
  BY <1>2, <1>3, <1>4, <1>5, <1>6 DEF DeliveryInv

\* Handling an ack keeps DeliveryInv: the pending secret it completes is p's own
\* and younger than p's last restart.
LEMMA AckDelivery ==
    ASSUME DeliveryInv, NEW p \in Peer, NEW m \in msgs, process_session_ack(p, m)
    PROVE  DeliveryInv'
<1>t. TypeOK
  BY DEF DeliveryInv
<1>1. TypeOK'
  BY <1>t, AckType
<1>2. m \in SessionAck
  BY <1>t DEF TypeOK, process_session_ack, SessionOffer, SessionAck, Envelope
<1>3. m.from \in Peer /\ m.sid \in Token /\ m.eph \in Token /\ m.type = "ack"
  BY <1>2 DEF SessionAck
<1>4. UNCHANGED <<sent, accepted, inbox, epoch, clock>> /\ check_and_record(p, m)
  BY DEF process_session_ack
<1>5. \A r, t \in Peer : pending'[r][t] \subseteq pending[r][t]
  <2>1. pending' = [pending EXCEPT ![p][m.from] = {}]
    BY DEF process_session_ack
  <2> QED
    BY <1>t, <1>3, <2>1 DEF TypeOK
<1>6. CASE pending[p][m.from] # {m.sid}
  <2>1. UNCHANGED <<active, queue, msgs>>
    BY <1>6 DEF process_session_ack
  <2> QED
    BY <1>1, <1>4, <1>5, <2>1, QuietDelivery
<1>7. CASE pending[p][m.from] = {m.sid}
  <2> DEFINE session == [sid |-> m.sid, key |-> derive_session_key(m.sid, m.eph, m.sid)]
  <2>1. Establish(p, m.from, session, {})
    BY <1>7 DEF process_session_ack
  <2>2. session \in Session
    BY <1>3, KeyType DEF Session
  <2>3. Past(m.sid) /\ Past(m.eph)
    BY <1>3 DEF DeliveryInv, TokensPast
  <2>4. m.sid.by = p /\ m.sid.epoch = epoch[p]
    BY <1>3, <1>7 DEF DeliveryInv, SecretsFresh
  <2>5. /\ Past(session.sid)
        /\ \A x \in session.key.shared : Past(x)
        /\ OwnSecret(p, session.key)
    BY <2>3, <2>4 DEF derive_session_key, OwnSecret
  <2> HIDE DEF session
  <2>6. TokensPast' /\ SecretsFresh'
    BY <1>3, <1>4, <1>5, <2>1, <2>2, <2>5, EstablishTokens
  <2>7. AcceptedWasSent' /\ QueuedUnpublished' /\ PublishedAccepted' /\ PublishedOnce'
    BY <1>3, <1>4, <2>1, EstablishPublishes
  <2>8. msgs \subseteq msgs'
    BY <1>t, <2>1, ApplyPublishes DEF Establish
  <2>9. DeliveredSpent' /\ DeliveredAtMostOnce'
    BY <1>t, <1>4, <2>8, CheckKeepsSpent, DeliveredSpentKept
  <2> QED
    BY <1>1, <2>6, <2>7, <2>9 DEF DeliveryInv
<1> QED
  BY <1>6, <1>7

\* Delivering keeps DeliveryInv: the entry is new, and check_and_record has just
\* remembered its envelope.
LEMMA DirectDelivery ==
    ASSUME DeliveryInv, NEW p \in Peer, NEW m \in msgs, m.to = p,
           process_direct_message(p, m)
    PROVE  DeliveryInv'
<1> DEFINE e == [from |-> m.from, to |-> p, body |-> m.body]
<1>t. TypeOK
  BY DEF DeliveryInv
<1>1. TypeOK'
  BY <1>t, DirectType
<1>2. m \in Direct /\ PassesReplayCheck(p, m) /\ check_and_record(p, m)
  BY DEF process_direct_message, Direct
<1>3. UNCHANGED <<sent, accepted, active, pending, queue, epoch, clock, msgs>>
  BY DEF process_direct_message
<1>4. CASE ~Decrypts(p, m)
  <2>1. inbox' = inbox
    BY <1>4 DEF process_direct_message
  <2> QED
    BY <1>1, <1>2, <1>3, <2>1, QuietDelivery
<1>5. CASE Decrypts(p, m)
  <2>1. inbox' = [inbox EXCEPT ![p] = Append(inbox[p], e)]
    BY <1>5 DEF process_direct_message
  <2>2. EntryOf(m) = e
    BY DEF EntryOf
  <2>3. \A i \in DOMAIN inbox[p] : inbox[p][i] # e
    BY <1>2, <1>5, <2>2, DecryptedIsNew
  <2>4. \A r \in Peer : inbox[r] \in Seq(Entry)
    BY <1>t DEF TypeOK
  <2>5. e \in Entry
    BY <1>t, <1>2, <2>2, DirectIsEnvelope
  <2> HIDE DEF e
  <2>6. \A r \in Peer : \A i \in DOMAIN inbox'[r] :
            \/ i \in DOMAIN inbox[r] /\ inbox'[r][i] = inbox[r][i]
            \/ r = p /\ i = Len(inbox[p]) + 1 /\ inbox'[r][i] = e
    BY <1>t, <2>1, <2>4, <2>5 DEF TypeOK
  <2>7. DeliveredAtMostOnce'
    <3> SUFFICES ASSUME NEW r \in Peer, NEW i \in DOMAIN inbox'[r], NEW j \in DOMAIN inbox'[r],
                        i # j
                 PROVE  inbox'[r][i] # inbox'[r][j]
      BY DEF DeliveredAtMostOnce
    <3> QED
      BY <2>3, <2>6 DEF DeliveryInv, DeliveredAtMostOnce
  <2>8. Direct' = Direct
    BY <1>3 DEF Direct
  <2>9. m \in seen'[p]
    BY <1>t, <1>2 DEF check_and_record, TypeOK
  <2>10. \A r \in Peer : \A n \in Direct : Spent(r, n) => Spent(r, n)'
    BY <1>t, <1>2, <1>3, CheckKeepsSpent
  <2>11. DeliveredSpent'
    <3>1. ASSUME NEW r \in Peer, NEW i \in DOMAIN inbox'[r]
          PROVE  \E n \in Direct : n.to = r /\ EntryOf(n) = inbox'[r][i] /\ Spent(r, n)'
      <4>1. CASE i \in DOMAIN inbox[r] /\ inbox'[r][i] = inbox[r][i]
        BY <4>1, <2>10 DEF DeliveryInv, DeliveredSpent
      <4>2. CASE r = p /\ inbox'[r][i] = e
        <5>1. Spent(p, m)'
          BY <2>9 DEF Spent
        <5> QED
          BY <4>2, <5>1, <1>2, <2>2
      <4> QED
        BY <2>6, <3>1, <4>1, <4>2
    <3> QED
      BY <2>8, <3>1, Zenon DEF DeliveredSpent, EntryOf
  <2>12. AcceptedWasSent' /\ PublishedAccepted' /\ PublishedOnce'
    BY <1>3, <2>8
    DEF DeliveryInv, AcceptedWasSent, PublishedAccepted, PublishedOnce, EntryOf
  <2>13. QueuedUnpublished'
    BY <1>3, <2>8, QueuedKept DEF DeliveryInv
  <2>14. TokensPast' /\ SecretsFresh'
    BY <1>3 DEF DeliveryInv, TokensPast, Past, SecretsFresh, OwnSecret
  <2> QED
    BY <1>1, <2>7, <2>11, <2>12, <2>13, <2>14 DEF DeliveryInv
<1> QED
  BY <1>4, <1>5

\* Time passing keeps DeliveryInv: what the window has passed stays passed.
LEMMA TickDelivery ==
    ASSUME DeliveryInv, NEW p \in Peer, Tick(p)
    PROVE  DeliveryInv'
<1>t. TypeOK
  BY DEF DeliveryInv
<1>1. TypeOK'
  BY <1>t, EnvironmentType
<1>2. UNCHANGED <<sent, accepted, active, pending, queue, seen, inbox, epoch, msgs>>
  BY DEF Tick
<1>3. Direct' = Direct
  BY <1>2 DEF Direct
<1>4. \A r \in Peer : Lower(r) \in Nat /\ Lower(r)' \in Nat /\ Lower(r) <= Lower(r)'
  <2>1. \A r \in Peer : clock[r] \in Nat /\ clock'[r] \in Nat /\ clock[r] <= clock'[r]
    BY <1>t DEF Tick, TypeOK
  <2>2. ReplayWindow \in Nat
    BY ChatSessionAssumption
  <2> QED
    BY <2>1, <2>2 DEF Lower
<1>5. \A r \in Peer : \A n \in Direct : Spent(r, n) => Spent(r, n)'
  <2>1. \A n \in Direct : n.ts \in Nat
    BY <1>t, DirectIsEnvelope DEF Envelope
  <2>2. \A r \in Peer : \A n \in Direct : n.ts < Lower(r) => n.ts < Lower(r)'
    BY <1>4, <2>1
  <2> QED
    BY <1>2, <2>2 DEF Spent
<1>6. DeliveredSpent' /\ DeliveredAtMostOnce'
  BY <1>2, <1>5, DeliveredSpentKept
<1>7. AcceptedWasSent' /\ PublishedAccepted' /\ PublishedOnce'
  BY <1>2, <1>3
  DEF DeliveryInv, AcceptedWasSent, PublishedAccepted, PublishedOnce, EntryOf
<1>8. QueuedUnpublished'
  BY <1>2, <1>3, QueuedKept DEF DeliveryInv
<1>9. TokensPast' /\ SecretsFresh'
  BY <1>2 DEF DeliveryInv, TokensPast, Past, SecretsFresh, OwnSecret
<1> QED
  BY <1>1, <1>6, <1>7, <1>8, <1>9 DEF DeliveryInv

\* A restart keeps DeliveryInv although it forgets every envelope: p also loses
\* every secret, so nothing published before decrypts again.
LEMMA RestartDelivery ==
    ASSUME DeliveryInv, NEW p \in Peer, Restart(p)
    PROVE  DeliveryInv'
<1>t. TypeOK
  BY DEF DeliveryInv
<1>1. TypeOK'
  BY <1>t, EnvironmentType
<1>2. UNCHANGED <<sent, accepted, inbox, clock, msgs>>
  BY DEF Restart
<1>3. Direct' = Direct
  BY <1>2 DEF Direct
<1>4. /\ epoch'[p] = epoch[p] + 1
      /\ \A r \in Peer : r # p => epoch'[r] = epoch[r] /\ seen'[r] = seen[r]
      /\ \A r \in Peer : epoch[r] \in Nat /\ epoch[r] <= epoch'[r] /\ epoch'[r] \in Nat
  BY <1>t DEF Restart, TypeOK
<1>5. \A r, t \in Peer :
          /\ active'[r][t] = IF r = p THEN {} ELSE active[r][t]
          /\ pending'[r][t] = IF r = p THEN {} ELSE pending[r][t]
          /\ queue'[r][t] = IF r = p THEN {} ELSE queue[r][t]
  BY <1>t DEF Restart, TypeOK
<1>6. \A t \in Token : Past(t) => Past(t)'
  BY <1>4 DEF Past, Token
<1>7. TokensPast'
  <2>1. \A m \in msgs : /\ m.sid \in Token
                        /\ m.type = "ack" => m.eph \in Token
                        /\ m.type = "direct" => m.key.shared \subseteq Token
    BY <1>t DEF TypeOK, SessionOffer, SessionAck, Envelope, Key
  <2>2. \A r, t \in Peer : \A s \in active[r][t] :
            s.sid \in Token /\ s.key.shared \subseteq Token
    BY <1>t DEF TypeOK, Session, Key
  <2>3. \A m \in msgs : /\ Past(m.sid)'
                        /\ m.type = "ack" => Past(m.eph)'
                        /\ m.type = "direct" => \A x \in m.key.shared : Past(x)'
    BY <1>6, <2>1 DEF DeliveryInv, TokensPast
  <2>4. \A r, t \in Peer : \A s \in active'[r][t] :
            Past(s.sid)' /\ \A x \in s.key.shared : Past(x)'
    BY <1>5, <1>6, <2>2 DEF DeliveryInv, TokensPast
  <2> QED
    BY <1>2, <2>3, <2>4 DEF TokensPast, Past
<1>8. SecretsFresh'
  BY <1>4, <1>5 DEF DeliveryInv, SecretsFresh, OwnSecret
<1>9. \A r \in Peer : \A n \in Direct : Spent(r, n) => Spent(r, n)'
  <2>1. ASSUME NEW n \in Direct
        PROVE  \A x \in n.key.shared : x.by = p => x.epoch < epoch'[p]
    <3>1. \A x \in n.key.shared : x.epoch \in Nat /\ x.epoch <= epoch[x.by]
      BY <1>t, <2>1, DirectIsEnvelope
      DEF DeliveryInv, TokensPast, Past, Direct, Envelope, Key, Token
    <3> QED
      BY <1>4, <3>1
  <2>2. \A r \in Peer : Lower(r)' = Lower(r)
    BY <1>2 DEF Lower
  <2> QED
    BY <1>4, <2>1, <2>2 DEF Spent
<1>10. DeliveredSpent' /\ DeliveredAtMostOnce'
  BY <1>2, <1>9, DeliveredSpentKept
<1>11. AcceptedWasSent' /\ PublishedAccepted' /\ PublishedOnce'
  BY <1>2, <1>3
  DEF DeliveryInv, AcceptedWasSent, PublishedAccepted, PublishedOnce, EntryOf
<1>12. QueuedUnpublished'
  <2>1. \A r, t \in Peer : queue'[r][t] \subseteq queue[r][t]
    BY <1>5
  <2> QED
    BY <1>2, <1>3, <2>1, QueuedKept DEF DeliveryInv
<1> QED
  BY <1>1, <1>7, <1>8, <1>10, <1>11, <1>12 DEF DeliveryInv

\* DeliveryInv is inductive.
LEMMA DeliveryStep == DeliveryInv /\ [Next]_vars => DeliveryInv'
<1> SUFFICES ASSUME DeliveryInv, [Next]_vars PROVE DeliveryInv'
  OBVIOUS
<1>t. TypeOK /\ TypeOK'
  BY TypeStep DEF DeliveryInv
<1>1. CASE UNCHANGED vars
  <2>1. UNCHANGED <<sent, accepted, active, pending, queue, seen, inbox, epoch, clock, msgs>>
    BY <1>1 DEF vars
  <2>2. Direct' = Direct
    BY <2>1 DEF Direct
  <2>3. DeliveredSpent' /\ DeliveredAtMostOnce'
    <3>1. \A r \in Peer : \A n \in Direct : Spent(r, n) => Spent(r, n)'
      BY <2>1 DEF Spent, Lower
    <3> QED
      BY <2>1, <3>1, DeliveredSpentKept
  <2>4. AcceptedWasSent' /\ PublishedAccepted' /\ PublishedOnce'
    BY <2>1, <2>2
    DEF DeliveryInv, AcceptedWasSent, PublishedAccepted, PublishedOnce, EntryOf
  <2>5. QueuedUnpublished'
    BY <2>1, <2>2, QueuedKept DEF DeliveryInv
  <2>6. TokensPast' /\ SecretsFresh'
    BY <2>1 DEF DeliveryInv, TokensPast, Past, SecretsFresh, OwnSecret
  <2> QED
    BY <1>t, <2>3, <2>4, <2>5, <2>6 DEF DeliveryInv
<1>2. ASSUME NEW p \in Peer, NEW Q \in SUBSET (Peer \ {p}), Send(p, Q)
      PROVE  DeliveryInv'
  BY <1>2, SendDelivery
<1>3. ASSUME NEW p \in Peer, NEW m \in msgs, handle_chat_wire_message(p, m)
      PROVE  DeliveryInv'
  <2>1. CASE RejectReplay(p, m)
    <3>1. /\ check_and_record(p, m)
          /\ UNCHANGED <<sent, accepted, active, pending, queue, inbox, epoch, clock, msgs>>
      BY <2>1 DEF RejectReplay
    <3> QED
      BY <1>t, <1>3, <3>1, QuietDelivery
  <2> QED
    BY <1>3, <2>1, OfferDelivery, AckDelivery, DirectDelivery DEF handle_chat_wire_message
<1>4. ASSUME NEW p \in Peer, Tick(p) \/ Restart(p)
      PROVE  DeliveryInv'
  BY <1>4, TickDelivery, RestartDelivery
<1> QED
  BY <1>1, <1>2, <1>3, <1>4 DEF Next

\* DeliveryInv holds initially.
LEMMA DeliveryInit == Init => DeliveryInv
<1> SUFFICES ASSUME Init PROVE DeliveryInv
  OBVIOUS
<1>1. TypeOK
  BY DEF Init, TypeOK, AtMostOne, IdleView, View
<1>2. AcceptedWasSent /\ QueuedUnpublished /\ PublishedAccepted /\ PublishedOnce
  BY DEF Init, AcceptedWasSent, QueuedUnpublished, PublishedAccepted, PublishedOnce, Direct
<1>3. TokensPast /\ SecretsFresh
  BY DEF Init, TokensPast, SecretsFresh
<1>4. DeliveredSpent /\ DeliveredAtMostOnce
  BY DEF Init, DeliveredSpent, DeliveredAtMostOnce
<1> QED
  BY <1>1, <1>2, <1>3, <1>4 DEF DeliveryInv

\* process_direct_message never puts a message into an inbox twice, for any
\* number of nodes, any replay window, and any loss, delay, duplication,
\* clock drift and restarts.
THEOREM AtMostOnce == Spec => []DeliveredAtMostOnce
<1>1. DeliveryInv => DeliveredAtMostOnce
  BY DEF DeliveryInv
<1> QED
  BY <1>1, DeliveryInit, DeliveryStep, PTL DEF Spec

-----------------------------------------------------------------------------
(* Refinement of MessageDelivery.                                          *)

\* Every step of the session layer is an acceptance, a delivery of something
\* accepted and not yet delivered, or no step of MessageDelivery at all.
LEMMA RefinementStep == DeliveryInv /\ [Next]_vars => [Delivery!Next]_(Delivery!vars)
<1> SUFFICES ASSUME DeliveryInv, [Next]_vars
             PROVE  Delivery!Next \/ UNCHANGED <<accepted, inbox>>
  BY DEF Delivery!vars
<1>t. TypeOK /\ TypeOK'
  BY TypeStep DEF DeliveryInv
<1>1. CASE UNCHANGED vars
  BY <1>1 DEF vars
<1>2. ASSUME NEW p \in Peer, NEW Q \in SUBSET (Peer \ {p}), Send(p, Q)
      PROVE  Delivery!Next
  <2>1. accepted \subseteq accepted' /\ inbox' = inbox
    BY <1>2 DEF Send
  <2>2. accepted' \subseteq Delivery!Message
    BY <1>t DEF TypeOK, Entry, Delivery!Message
  <2> QED
    BY <2>1, <2>2 DEF Delivery!Next, Delivery!Accept
<1>3. ASSUME NEW p \in Peer, NEW m \in msgs, handle_chat_wire_message(p, m)
      PROVE  Delivery!Next \/ UNCHANGED <<accepted, inbox>>
  <2>1. CASE ~(process_direct_message(p, m) /\ Decrypts(p, m))
    BY <1>3, <2>1
    DEF handle_chat_wire_message, RejectReplay, process_session_offer, AcceptOffer,
        process_session_ack, process_direct_message
  <2>2. CASE process_direct_message(p, m) /\ Decrypts(p, m)
    <3> DEFINE e == [from |-> m.from, to |-> p, body |-> m.body]
    <3>1. m \in Direct /\ PassesReplayCheck(p, m) /\ m.to = p
      BY <1>3, <2>2 DEF process_direct_message, handle_chat_wire_message, Direct
    <3>2. EntryOf(m) = e
      BY <3>1 DEF EntryOf
    <3>3. e \in accepted
      BY <3>1, <3>2 DEF DeliveryInv, PublishedAccepted
    <3>4. e \notin Delivery!Received(p)
      BY <1>3, <2>2, <3>1, <3>2, DecryptedIsNew DEF Delivery!Received
    <3>5. inbox' = [inbox EXCEPT ![p] = Append(@, e)] /\ accepted' = accepted
      BY <2>2 DEF process_direct_message
    <3>6. e.to = p
      OBVIOUS
    <3> HIDE DEF e
    <3> QED
      BY <1>3, <3>3, <3>4, <3>5, <3>6 DEF Delivery!Next, Delivery!Deliver
  <2> QED
    BY <2>1, <2>2
<1>4. ASSUME NEW p \in Peer, Tick(p) \/ Restart(p)
      PROVE  UNCHANGED <<accepted, inbox>>
  BY <1>4 DEF Tick, Restart
<1> QED
  BY <1>1, <1>2, <1>3, <1>4 DEF Next

\* The session layer implements MessageDelivery: whatever gossipsub, clocks and
\* restarts do, users see messages accepted and then delivered at most once, to
\* the recipient they were accepted for.
THEOREM SessionsImplementDelivery == Spec => ImplementsDelivery
<1>1. Init => Delivery!Init
  BY DEF Init, Delivery!Init
<1> QED
  BY <1>1, DeliveryInit, DeliveryStep, RefinementStep, PTL
  DEF Spec, ImplementsDelivery, Delivery!Spec

=============================================================================
