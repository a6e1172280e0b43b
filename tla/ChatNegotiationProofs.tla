----------------------- MODULE ChatNegotiationProofs -----------------------
(***************************************************************************)
(* Proofs about the negotiation of sessions, for any set of nodes, any     *)
(* replay window and any bounds: ShownSessionIsHeld, QueuedHasNegotiation, *)
(* OneSidedSessionsAgree, SessionIdFixesKey, AcceptedIsKept and            *)
(* OneSidedIsReliable.                                                     *)
(***************************************************************************)
EXTENDS ChatSessionProofs

-----------------------------------------------------------------------------
(* What the actions do, entry by entry.                                    *)

\* apply_chat_actions shows every peer as the handler wants or as FAILED.
LEMMA ApplyShows ==
    ASSUME TypeOK, NEW p \in Peer, NEW out, NEW view \in [Peer -> View],
           apply_chat_actions(p, out, view)
    PROVE  /\ \A q \in Peer : shown'[p][q] = view[q] \/ shown'[p][q].state = "FAILED"
           /\ \A r \in Peer \ {p} : shown'[r] = shown[r]
<1>1. PICK ok : shown' = [shown EXCEPT ![p] =
                    [q \in Peer |-> IF \E m \in out \ ok : m.to = q
                                    THEN [view[q] EXCEPT !.state = "FAILED"]
                                    ELSE view[q]]]
  BY DEF apply_chat_actions
<1>2. \A q \in Peer : [view[q] EXCEPT !.state = "FAILED"].state = "FAILED"
  BY DEF View
<1>3. QED
  BY <1>1, <1>2 DEF TypeOK

\* A drained command negotiates with whom it has to, and publishes offers to
\* them and direct messages.
LEMMA SendDoes ==
    ASSUME TypeOK, NEW p \in Peer, NEW Q \in SUBSET (Peer \ {p}), Send(p, Q)
    PROVE  /\ UNCHANGED <<active, seen, epoch, clock>>
           /\ \A q \in Peer :
                /\ pending'[p][q] = IF q \in Q /\ NeedsOffer(p, q) THEN {FreshToken(p, q)}
                                    ELSE pending[p][q]
                /\ queue[p][q] = {} /\ active[p][q] # {} => queue'[p][q] = {}
                /\ active[p][q] # {} => queue'[p][q] = queue[p][q]
                /\ q \notin Q => queue'[p][q] = queue[p][q]
           /\ \A r \in Peer \ {p} : pending'[r] = pending[r] /\ queue'[r] = queue[r]
           /\ msgs \subseteq msgs'
           /\ \A m \in msgs' : \/ m \in msgs
                               \/ m.type = "direct"
                               \/ \E q \in Q : NeedsOffer(p, q) /\ m = MakeOffer(p, q)
           /\ \A q \in Peer :
                \/ shown'[p][q].state = "FAILED"
                \/ q \in Q /\ NeedsOffer(p, q)
                     /\ shown'[p][q] = [state |-> "NEGOTIATING", sid |-> {FreshToken(p, q)}]
                \/ ~(q \in Q /\ NeedsOffer(p, q)) /\ shown'[p][q] = shown[p][q]
           /\ \A r \in Peer \ {p} : shown'[r] = shown[r]
<1> DEFINE offered == {q \in Q : NeedsOffer(p, q)}
           out == {MakeOffer(p, q) : q \in offered}
                    \cup UNION {{build_direct_message_action(p, q, s, sent[p]) :
                                   s \in active[p][q]} : q \in Q}
           view == [q \in Peer |-> IF q \in offered
                                   THEN [state |-> "NEGOTIATING", sid |-> {FreshToken(p, q)}]
                                   ELSE shown[p][q]]
<1>1. /\ queue' = [queue EXCEPT ![p] =
                     [q \in Peer |-> IF q \in Q /\ active[p][q] = {}
                                     THEN queue[p][q] \cup {sent[p]}
                                     ELSE queue[p][q]]]
      /\ pending' = [pending EXCEPT ![p] =
                     [q \in Peer |-> IF q \in offered THEN {FreshToken(p, q)}
                                                      ELSE pending[p][q]]]
      /\ apply_chat_actions(p, out, view)
      /\ UNCHANGED <<active, seen, epoch, clock>>
  BY DEF Send, dispatch_or_queue_outbound_message
<1>2. \A m \in out : \/ m.type = "direct"
                     \/ \E q \in Q : NeedsOffer(p, q) /\ m = MakeOffer(p, q)
  BY DEF build_direct_message_action
<1>3. msgs \subseteq msgs' /\ msgs' \subseteq msgs \cup out
  BY <1>1, ApplyPublishes
<1>4. view \in [Peer -> View]
  <2>1. \A q \in Peer : shown[p][q] \in View
    BY DEF TypeOK
  <2>2. \A q \in Peer : [state |-> "NEGOTIATING", sid |-> {FreshToken(p, q)}] \in View
    BY FreshTokenType DEF View
  <2>3. QED
    BY <2>1, <2>2
<1> HIDE DEF out
<1>5. /\ \A q \in Peer : shown'[p][q] = view[q] \/ shown'[p][q].state = "FAILED"
      /\ \A r \in Peer \ {p} : shown'[r] = shown[r]
  <2> HIDE DEF view
  <2>1. QED
    BY <1>1, <1>4, ApplyShows
<1>6. \A q \in Peer :
         \/ shown'[p][q].state = "FAILED"
         \/ q \in Q /\ NeedsOffer(p, q)
              /\ shown'[p][q] = [state |-> "NEGOTIATING", sid |-> {FreshToken(p, q)}]
         \/ ~(q \in Q /\ NeedsOffer(p, q)) /\ shown'[p][q] = shown[p][q]
  BY <1>5
<1>7. \A m \in msgs' : \/ m \in msgs
                       \/ m.type = "direct"
                       \/ \E q \in Q : NeedsOffer(p, q) /\ m = MakeOffer(p, q)
  BY <1>2, <1>3
<1>8. /\ \A q \in Peer :
           /\ pending'[p][q] = IF q \in Q /\ NeedsOffer(p, q) THEN {FreshToken(p, q)}
                               ELSE pending[p][q]
           /\ queue'[p][q] = IF q \in Q /\ active[p][q] = {}
                             THEN queue[p][q] \cup {sent[p]} ELSE queue[p][q]
      /\ \A r \in Peer \ {p} : pending'[r] = pending[r] /\ queue'[r] = queue[r]
  BY <1>1 DEF TypeOK
<1> HIDE DEF view
<1>9. QED
  BY <1>1, <1>3, <1>5, <1>6, <1>7, <1>8

\* A session replaces the one before and releases the queue.
Established(p, q, session, replies) ==
    /\ active'[p][q] = {session} /\ queue'[p][q] = {}
    /\ \A r \in Peer \ {q} : active'[p][r] = active[p][r] /\ queue'[p][r] = queue[p][r]
    /\ \A r \in Peer \ {p} : active'[r] = active[r] /\ queue'[r] = queue[r]
    /\ msgs \subseteq msgs'
    /\ \A m \in msgs' : m \in msgs \/ m.type = "direct" \/ m \in replies
    /\ \/ shown'[p][q].state = "FAILED"
       \/ shown'[p][q] = [state |-> "ESTABLISHED", sid |-> {session.sid}]
    /\ \A r \in Peer \ {q} : shown'[p][r].state = "FAILED" \/ shown'[p][r] = shown[p][r]
    /\ \A r \in Peer \ {p} : shown'[r] = shown[r]

LEMMA EstablishDoes ==
    ASSUME TypeOK, NEW p \in Peer, NEW q \in Peer, NEW session \in Session, NEW replies,
           Establish(p, q, session, replies)
    PROVE  Established(p, q, session, replies)
<1> DEFINE out == replies \cup {build_direct_message_action(p, q, session, b) : b \in queue[p][q]}
           view == observe_encrypted_session(p, q, session.sid)
<1>1. /\ active' = [active EXCEPT ![p][q] = {session}] /\ queue' = [queue EXCEPT ![p][q] = {}]
      /\ apply_chat_actions(p, out, view)
  BY DEF Establish
<1>2. /\ view \in [Peer -> View]
      /\ view[q] = [state |-> "ESTABLISHED", sid |-> {session.sid}]
      /\ \A r \in Peer \ {q} : view[r] = shown[p][r]
  BY DEF TypeOK, observe_encrypted_session, ViewOf, View, Session
<1>3. \A m \in out : m.type = "direct" \/ m \in replies
  BY DEF build_direct_message_action
<1> HIDE DEF out, view
<1>4. msgs \subseteq msgs' /\ msgs' \subseteq msgs \cup out
  BY <1>1, ApplyPublishes
<1>5. /\ \A r \in Peer : shown'[p][r] = view[r] \/ shown'[p][r].state = "FAILED"
      /\ \A r \in Peer \ {p} : shown'[r] = shown[r]
  BY <1>1, <1>2, ApplyShows
<1>6. /\ active'[p][q] = {session} /\ queue'[p][q] = {}
      /\ \A r \in Peer \ {q} : active'[p][r] = active[p][r] /\ queue'[p][r] = queue[p][r]
      /\ \A r \in Peer \ {p} : active'[r] = active[r] /\ queue'[r] = queue[r]
  BY <1>1 DEF TypeOK
<1>7. QED
  BY <1>2, <1>3, <1>4, <1>5, <1>6 DEF Established

\* A failure is shown and nothing else.
LEMMA FailureDoes ==
    ASSUME TypeOK, NEW p \in Peer, NEW q \in Peer, observe_session_failure(p, q)
    PROVE  /\ shown'[p][q].state = "FAILED"
           /\ \A r \in Peer \ {q} : shown'[p][r] = shown[p][r]
           /\ \A r \in Peer \ {p} : shown'[r] = shown[r]
BY DEF TypeOK, observe_session_failure, ViewOf, View

\* An offer makes its session and is answered.
OfferSession(p, m) ==
    [sid |-> m.sid, key |-> derive_session_key(FreshToken(p, m.from), m.sid, m.sid)]

LEMMA OfferDoes ==
    ASSUME TypeOK, NEW p \in Peer, NEW m \in msgs, process_session_offer(p, m)
    PROVE  /\ m \in SessionOffer /\ PassesReplayCheck(p, m) /\ check_and_record(p, m)
           /\ OfferSession(p, m) \in Session
           /\ Establish(p, m.from, OfferSession(p, m), {MakeAck(p, m.from, m.sid)})
           /\ UNCHANGED <<pending, epoch, clock>>
<1>1. m \in SessionOffer
  BY DEF TypeOK, process_session_offer, SessionOffer, SessionAck, Envelope
<1>2. m.from \in Peer /\ m.sid \in Token
  BY <1>1 DEF SessionOffer
<1>3. OfferSession(p, m) \in Session
  BY <1>2, FreshTokenType, KeyType DEF OfferSession, Session
<1>4. QED
  BY <1>1, <1>3 DEF process_session_offer, AcceptOffer, OfferSession

AckSession(m) == [sid |-> m.sid, key |-> derive_session_key(m.sid, m.eph, m.sid)]

LEMMA AckDoes ==
    ASSUME TypeOK, NEW p \in Peer, NEW m \in msgs, process_session_ack(p, m)
    PROVE  /\ m \in SessionAck /\ check_and_record(p, m) /\ UNCHANGED <<epoch, clock>>
           /\ AckSession(m) \in Session
           /\ pending'[p][m.from] = {}
           /\ \A q \in Peer \ {m.from} : pending'[p][q] = pending[p][q]
           /\ \A r \in Peer \ {p} : pending'[r] = pending[r]
           /\ \/ pending[p][m.from] = {} /\ UNCHANGED <<active, queue, shown, msgs>>
              \/ /\ pending[p][m.from] \notin {{}, {m.sid}}
                 /\ observe_session_failure(p, m.from)
                 /\ UNCHANGED <<active, queue, msgs>>
              \/ /\ pending[p][m.from] = {m.sid}
                 /\ Establish(p, m.from, AckSession(m), {})
<1>1. m \in SessionAck
  BY DEF TypeOK, process_session_ack, SessionOffer, SessionAck, Envelope
<1>2. m.from \in Peer /\ m.sid \in Token /\ m.eph \in Token
  BY <1>1 DEF SessionAck
<1>3. AckSession(m) \in Session
  BY <1>2, KeyType DEF AckSession, Session
<1>4. pending' = [pending EXCEPT ![p][m.from] = {}]
  BY DEF process_session_ack
<1>5. /\ pending'[p][m.from] = {}
      /\ \A q \in Peer \ {m.from} : pending'[p][q] = pending[p][q]
      /\ \A r \in Peer \ {p} : pending'[r] = pending[r]
  BY <1>2, <1>4 DEF TypeOK
<1>6. QED
  BY <1>1, <1>3, <1>5 DEF process_session_ack, AckSession

LEMMA DirectDoes ==
    ASSUME TypeOK, NEW p \in Peer, NEW m \in msgs, process_direct_message(p, m)
    PROVE  /\ check_and_record(p, m)
           /\ UNCHANGED <<active, pending, queue, epoch, clock, msgs>>
           /\ m.from \in Peer
           /\ observe_session_failure(p, m.from) \/ UNCHANGED shown
BY DEF TypeOK, process_direct_message, SessionOffer, SessionAck, Envelope

LEMMA RestartDoes ==
    ASSUME TypeOK, NEW p \in Peer, Restart(p)
    PROVE  /\ epoch'[p] > 0 /\ \A r \in Peer \ {p} : epoch'[r] = epoch[r] /\ seen'[r] = seen[r]
           /\ \A q \in Peer : /\ active'[p][q] = {} /\ pending'[p][q] = {} /\ queue'[p][q] = {}
                              /\ shown'[p][q] = IdleView
           /\ \A r \in Peer \ {p} : /\ active'[r] = active[r] /\ pending'[r] = pending[r]
                                    /\ queue'[r] = queue[r] /\ shown'[r] = shown[r]
           /\ UNCHANGED <<clock, msgs>>
BY DEF TypeOK, Restart

-----------------------------------------------------------------------------
(* What is shown.                                                          *)

ShownHeld(p, q) ==
    /\ shown[p][q].state = "ESTABLISHED" => \E s \in active[p][q] : shown[p][q].sid = {s.sid}
    /\ shown[p][q].state = "NEGOTIATING" => shown[p][q].sid = pending[p][q]

LEMMA ShownIsHeld == ShownSessionIsHeld <=> \A p, q \in Peer : ShownHeld(p, q)
BY DEF ShownSessionIsHeld, ShownHeld

\* An entry stays backed when neither it nor what backs it changes.
LEMMA ShownKept ==
    ASSUME NEW p \in Peer, NEW q \in Peer, ShownHeld(p, q),
           active'[p][q] = active[p][q], pending'[p][q] = pending[p][q],
           shown'[p][q] = shown[p][q] \/ shown'[p][q].state = "FAILED"
    PROVE  ShownHeld(p, q)'
BY DEF ShownHeld

LEMMA ShownEstablished ==
    ASSUME NEW p \in Peer, NEW k \in Peer, NEW s, NEW replies, Established(p, k, s, replies),
           NEW r \in Peer, NEW q \in Peer, ShownHeld(r, q),
           \/ r = p /\ q = k
           \/ pending'[r][q] = pending[r][q]
    PROVE  ShownHeld(r, q)'
<1>1. CASE r = p /\ q = k
  <2>1. /\ active'[r][q] = {s}
        /\ \/ shown'[r][q].state = "FAILED"
           \/ shown'[r][q] = [state |-> "ESTABLISHED", sid |-> {s.sid}]
    BY <1>1 DEF Established
  <2>2. QED
    BY <2>1 DEF ShownHeld
<1>2. CASE r # p
  <2>1. active'[r][q] = active[r][q] /\ shown'[r][q] = shown[r][q]
    BY <1>2 DEF Established
  <2>2. QED
    BY <1>2, <2>1, ShownKept
<1>3. CASE r = p /\ q # k
  <2>1. /\ active'[r][q] = active[r][q]
        /\ shown'[r][q].state = "FAILED" \/ shown'[r][q] = shown[r][q]
    BY <1>3 DEF Established
  <2>2. QED
    BY <1>3, <2>1, ShownKept
<1>4. QED
  BY <1>1, <1>2, <1>3

LEMMA ShownStep == TypeOK /\ ShownSessionIsHeld /\ [Next]_vars => ShownSessionIsHeld'
<1> SUFFICES ASSUME TypeOK, ShownSessionIsHeld, [Next]_vars, NEW r \in Peer, NEW q \in Peer
             PROVE  ShownHeld(r, q)'
  BY ShownIsHeld DEF ShownSessionIsHeld, ShownHeld
<1>1. ShownHeld(r, q)
  BY ShownIsHeld
<1>2. CASE UNCHANGED vars
  BY <1>1, <1>2 DEF vars, ShownHeld
<1>3. ASSUME NEW p \in Peer, NEW Q \in SUBSET (Peer \ {p}), Send(p, Q)
      PROVE  ShownHeld(r, q)'
  <2>1. CASE r # p
    <3>1. /\ active'[r][q] = active[r][q] /\ pending'[r][q] = pending[r][q]
          /\ shown'[r][q] = shown[r][q]
      BY <1>3, <2>1, SendDoes
    <3>2. QED
      BY <1>1, <3>1, ShownKept
  <2>2. CASE r = p /\ q \in Q /\ NeedsOffer(p, q)
    <3>1. /\ pending'[r][q] = {FreshToken(p, q)}
          /\ \/ shown'[r][q].state = "FAILED"
             \/ shown'[r][q] = [state |-> "NEGOTIATING", sid |-> {FreshToken(p, q)}]
      BY <1>3, <2>2, SendDoes
    <3>2. QED
      BY <3>1 DEF ShownHeld
  <2>3. CASE r = p /\ ~(q \in Q /\ NeedsOffer(p, q))
    <3>1. /\ active'[r][q] = active[r][q] /\ pending'[r][q] = pending[r][q]
          /\ shown'[r][q] = shown[r][q] \/ shown'[r][q].state = "FAILED"
      BY <1>3, <2>3, SendDoes
    <3>2. QED
      BY <1>1, <3>1, ShownKept
  <2>4. QED
    BY <2>1, <2>2, <2>3
<1>4. ASSUME NEW p \in Peer, NEW m \in msgs, process_session_offer(p, m)
      PROVE  ShownHeld(r, q)'
  <2> DEFINE s == OfferSession(p, m)
             replies == {MakeAck(p, m.from, m.sid)}
  <2>1. m.from \in Peer /\ UNCHANGED pending /\ Established(p, m.from, s, replies)
    BY <1>4, OfferDoes, EstablishDoes DEF SessionOffer
  <2> HIDE DEF s, replies
  <2>2. QED
    BY <1>1, <2>1, ShownEstablished
<1>5. ASSUME NEW p \in Peer, NEW m \in msgs, process_session_ack(p, m)
      PROVE  ShownHeld(r, q)'
  <2> DEFINE s == AckSession(m)
  <2>1. /\ m.from \in Peer /\ s \in Session
        /\ pending'[p][m.from] = {}
        /\ \A k \in Peer \ {m.from} : pending'[p][k] = pending[p][k]
        /\ \A k \in Peer \ {p} : pending'[k] = pending[k]
    BY <1>5, AckDoes DEF SessionAck
  <2>2. \/ pending[p][m.from] = {} /\ UNCHANGED <<active, shown>>
        \/ observe_session_failure(p, m.from) /\ UNCHANGED active
        \/ Establish(p, m.from, s, {})
    BY <1>5, AckDoes
  <2> HIDE DEF s
  <2>3. CASE pending[p][m.from] = {} /\ UNCHANGED <<active, shown>>
    BY <1>1, <2>1, <2>3 DEF ShownHeld
  <2>4. CASE observe_session_failure(p, m.from) /\ UNCHANGED active
    <3>1. CASE r = p /\ q = m.from
      BY <2>1, <2>4, <3>1, FailureDoes DEF ShownHeld
    <3>2. CASE ~(r = p /\ q = m.from)
      BY <1>1, <2>1, <2>4, <3>2, FailureDoes, ShownKept
    <3>3. QED
      BY <3>1, <3>2
  <2>5. CASE Establish(p, m.from, s, {})
    <3> DEFINE none == {}
    <3>1. Established(p, m.from, s, none)
      BY <2>1, <2>5, EstablishDoes
    <3> HIDE DEF none
    <3>2. QED
      BY <1>1, <2>1, <3>1, ShownEstablished
  <2>6. QED
    BY <2>2, <2>3, <2>4, <2>5
<1>6. ASSUME NEW p \in Peer, NEW m \in msgs, process_direct_message(p, m)
      PROVE  ShownHeld(r, q)'
  <2>1. /\ UNCHANGED <<active, pending>> /\ m.from \in Peer
        /\ observe_session_failure(p, m.from) \/ UNCHANGED shown
    BY <1>6, DirectDoes
  <2>2. shown'[r][q] = shown[r][q] \/ shown'[r][q].state = "FAILED"
    BY <2>1, FailureDoes
  <2>3. QED
    BY <1>1, <2>1, <2>2, ShownKept
<1>7. ASSUME NEW p \in Peer, NEW m \in msgs, RejectReplay(p, m)
      PROVE  ShownHeld(r, q)'
  BY <1>1, <1>7 DEF RejectReplay, ShownHeld
<1>8. ASSUME NEW p \in Peer, Tick(p)
      PROVE  ShownHeld(r, q)'
  BY <1>1, <1>8 DEF Tick, ShownHeld
<1>9. ASSUME NEW p \in Peer, Restart(p)
      PROVE  ShownHeld(r, q)'
  <2>1. CASE r = p
    BY <1>9, <2>1, RestartDoes DEF ShownHeld, IdleView
  <2>2. CASE r # p
    BY <1>1, <1>9, <2>2, RestartDoes, ShownKept
  <2>3. QED
    BY <2>1, <2>2
<1>10. QED
  BY <1>2, <1>3, <1>4, <1>5, <1>6, <1>7, <1>8, <1>9 DEF Next, handle_chat_wire_message

\* What `sessions` shows an operator is held by the chat state, through glare,
\* renegotiation, failed publishes, replays and restarts.
THEOREM ShownHeldAlways == Spec => []ShownSessionIsHeld
<1>1. Init => TypeOK /\ ShownSessionIsHeld
  BY DEF Init, TypeOK, AtMostOne, IdleView, View, ShownSessionIsHeld
<1>2. TypeOK /\ ShownSessionIsHeld /\ [Next]_vars => (TypeOK /\ ShownSessionIsHeld)'
  BY TypeStep, ShownStep
<1>3. QED
  BY <1>1, <1>2, PTL DEF Spec

-----------------------------------------------------------------------------
(* Who offered what to whom.  a negotiates with b.                         *)

Offers(a, b) == {m \in msgs : m.type = "offer" /\ m.from = a /\ m.to = b}

\* The answers of b to a.
Acks(b, a) == {m \in msgs : m.type = "ack" /\ m.from = b /\ m.to = a}

\* q will not take m again.
Heard(q, m) == m \in seen[q] \/ m.ts < Lower(q)

\* What a node that has not restarted offered, it negotiates or has settled.
OfferPends(a, b) ==
    epoch[a] = 0 =>
        \A o \in Offers(a, b) : \/ pending[a][b] = {o.sid}
                                \/ pending[a][b] = {} /\ active[a][b] # {}

OfferedOnce(a, b) == epoch[a] = 0 => \A o, m \in Offers(a, b) : o = m

AcksAnswer(a, b) ==
    \A k \in Acks(b, a) :
        \E o \in Offers(a, b) : o.sid = k.sid /\ (epoch[b] = 0 => Heard(b, o))

QueueWaits(a, b) == epoch[a] = 0 /\ queue[a][b] # {} => pending[a][b] # {}

AnswerSession(k) == [sid |-> k.sid, key |-> derive_session_key(k.eph, k.sid, k.sid)]

\* When only a offers, b holds the session it answered with and a only one that
\* b answered with.
OneSided(a, b) ==
    epoch[a] = 0 /\ epoch[b] = 0 /\ Offers(b, a) = {} =>
        /\ \A k \in Acks(b, a) : active[b][a] = {AnswerSession(k)}
        /\ \A s \in active[a][b] : \E k \in Acks(b, a) : s = AckSession(k)

Negotiation(a, b) ==
    /\ OfferPends(a, b)
    /\ OfferedOnce(a, b)
    /\ AcksAnswer(a, b)
    /\ QueueWaits(a, b)
    /\ OneSided(a, b)

NegotiationInv == TypeOK /\ \A a, b \in Peer : Negotiation(a, b)

LEMMA HeardKept ==
    ASSUME TypeOK, NEW p \in Peer, NEW m, check_and_record(p, m), UNCHANGED clock,
           NEW q \in Peer, NEW o, Heard(q, o)
    PROVE  Heard(q, o)'
<1>1. Lower(q)' = Lower(q)
  BY DEF Lower
<1>2. o \in seen[q] => o \in seen'[q] \/ o.ts < Lower(q)
  <2>1. o \in Retained(q) => o \in seen'[q]
    BY DEF TypeOK, check_and_record, Retained
  <2>2. o \in seen[q] => o.ts \in Nat
    BY DEF TypeOK, SessionOffer, SessionAck, Envelope
  <2>3. o \in seen[q] => o \in Retained(q) \/ o.ts < Lower(q)
    BY <2>2, LowerType DEF Retained
  <2>4. QED
    BY <2>1, <2>3
<1>3. QED
  BY <1>1, <1>2 DEF Heard

\* What has been heard does not pass the replay check, and what passes is heard.
LEMMA HeardOnce ==
    ASSUME TypeOK, NEW p \in Peer, NEW m \in msgs, PassesReplayCheck(p, m),
           check_and_record(p, m)
    PROVE  ~Heard(p, m) /\ Heard(p, m)'
<1>1. m.ts \in Nat /\ Lower(p) \in Nat
  BY LowerType DEF TypeOK, SessionOffer, SessionAck, Envelope
<1>2. ~Heard(p, m)
  BY <1>1 DEF Heard, PassesReplayCheck, Retained
<1>3. m \in seen'[p]
  BY DEF TypeOK, check_and_record
<1>4. QED
  BY <1>2, <1>3 DEF Heard

\* A pair is kept by a step that leaves it alone, whatever is heard or offered
\* the other way.
LEMMA NegotiationKept ==
    ASSUME NEW a \in Peer, NEW b \in Peer, Negotiation(a, b),
           Offers(a, b)' = Offers(a, b), Acks(b, a)' = Acks(b, a),
           Offers(b, a) \subseteq Offers(b, a)',
           epoch'[a] = epoch[a], epoch'[b] = epoch[b],
           active'[a][b] = active[a][b], active'[b][a] = active[b][a],
           pending'[a][b] = pending[a][b],
           queue'[a][b] = queue[a][b] \/ pending[a][b] # {},
           \A o \in Offers(a, b) : Heard(b, o) => Heard(b, o)'
    PROVE  Negotiation(a, b)'
<1>1. OfferPends(a, b)' /\ OfferedOnce(a, b)' /\ QueueWaits(a, b)'
  BY DEF Negotiation, OfferPends, OfferedOnce, QueueWaits
<1>2. AcksAnswer(a, b)'
  BY DEF Negotiation, AcksAnswer
<1>3. OneSided(a, b)'
  <2>1. Offers(b, a)' = {} => Offers(b, a) = {}
    OBVIOUS
  <2>2. QED
    BY <2>1 DEF Negotiation, OneSided, AckSession, AnswerSession
<1>4. QED
  BY <1>1, <1>2, <1>3 DEF Negotiation

-----------------------------------------------------------------------------
(* Every action keeps every pair.                                          *)

LEMMA SendNegotiates ==
    ASSUME NegotiationInv, NEW p \in Peer, NEW Q \in SUBSET (Peer \ {p}), Send(p, Q),
           NEW a \in Peer, NEW b \in Peer
    PROVE  Negotiation(a, b)'
<1>1. TypeOK /\ Negotiation(a, b)
  BY DEF NegotiationInv
<1>2. /\ UNCHANGED <<active, seen, epoch, clock>>
      /\ msgs \subseteq msgs'
      /\ \A m \in msgs' : \/ m \in msgs
                          \/ m.type = "direct"
                          \/ \E q \in Q : NeedsOffer(p, q) /\ m = MakeOffer(p, q)
  BY <1>1, SendDoes
<1>3. Acks(b, a)' = Acks(b, a)
  <2>1. \A m \in msgs' : m.type = "ack" => m \in msgs
    BY <1>2 DEF MakeOffer
  <2>2. QED
    BY <1>2, <2>1 DEF Acks
<1>4. /\ Offers(a, b) \subseteq Offers(a, b)' /\ Offers(b, a) \subseteq Offers(b, a)'
      /\ \A m \in Offers(a, b)' : \/ m \in Offers(a, b)
                                  \/ p = a /\ b \in Q /\ NeedsOffer(a, b) /\ m = MakeOffer(a, b)
  BY <1>2 DEF Offers, MakeOffer
<1>5. \A o : Heard(b, o) => Heard(b, o)'
  BY <1>2 DEF Heard, Lower
<1>6. CASE ~(p = a /\ b \in Q /\ NeedsOffer(a, b))
  <2>1. Offers(a, b)' = Offers(a, b)
    BY <1>4, <1>6
  <2>2. pending'[a][b] = pending[a][b]
    <3>1. CASE p # a
      BY <1>1, <3>1, SendDoes
    <3>2. CASE p = a
      <4>1. pending'[p][b] = IF b \in Q /\ NeedsOffer(p, b) THEN {FreshToken(p, b)}
                             ELSE pending[p][b]
        BY <1>1, SendDoes
      <4>2. QED
        BY <1>6, <3>2, <4>1
    <3>3. QED
      BY <3>1, <3>2
  <2>3. queue'[a][b] = queue[a][b] \/ pending[a][b] # {}
    <3>1. CASE p # a
      BY <1>1, <3>1, SendDoes
    <3>2. CASE p = a /\ (b \notin Q \/ active[a][b] # {})
      BY <1>1, <3>2, SendDoes
    <3>3. CASE p = a /\ b \in Q /\ active[a][b] = {}
      BY <1>6, <3>3 DEF NeedsOffer
    <3>4. QED
      BY <3>1, <3>2, <3>3
  <2>4. QED
    BY <1>1, <1>2, <1>3, <1>4, <1>5, <2>1, <2>2, <2>3, NegotiationKept
<1>7. CASE p = a /\ b \in Q /\ NeedsOffer(a, b)
  <2>1. pending'[a][b] = {FreshToken(a, b)}
    BY <1>1, <1>7, SendDoes
  <2>2. MakeOffer(a, b).sid = FreshToken(a, b)
    BY DEF MakeOffer
  <2>3. epoch'[a] = 0 => \A o \in Offers(a, b)' : o = MakeOffer(a, b)
    BY <1>1, <1>2, <1>4, <1>7 DEF Negotiation, OfferPends, NeedsOffer
  <2>4. OfferPends(a, b)' /\ OfferedOnce(a, b)' /\ QueueWaits(a, b)'
    BY <2>1, <2>2, <2>3 DEF OfferPends, OfferedOnce, QueueWaits
  <2>5. AcksAnswer(a, b)'
    BY <1>1, <1>2, <1>3, <1>4, <1>5 DEF Negotiation, AcksAnswer
  <2>6. OneSided(a, b)'
    <3>1. Offers(b, a)' = {} => Offers(b, a) = {}
      BY <1>4
    <3>2. QED
      BY <1>1, <1>2, <1>3, <3>1 DEF Negotiation, OneSided, AckSession, AnswerSession
  <2>7. QED
    BY <2>4, <2>5, <2>6 DEF Negotiation
<1>8. QED
  BY <1>6, <1>7

LEMMA OfferNegotiates ==
    ASSUME NegotiationInv, NEW p \in Peer, NEW m \in msgs, m.to = p,
           process_session_offer(p, m), NEW a \in Peer, NEW b \in Peer
    PROVE  Negotiation(a, b)'
<1> DEFINE f == m.from
           s == OfferSession(p, m)
           ack == MakeAck(p, f, m.sid)
           replies == {ack}
<1>1. TypeOK /\ Negotiation(a, b)
  BY DEF NegotiationInv
<1>2. /\ f \in Peer /\ m \in Offers(f, p) /\ PassesReplayCheck(p, m) /\ check_and_record(p, m)
      /\ UNCHANGED <<pending, epoch, clock>>
  BY <1>1, OfferDoes DEF SessionOffer, Offers
<1>3. Established(p, f, s, replies)
  BY <1>1, <1>2, OfferDoes, EstablishDoes
<1>4. /\ ack.type = "ack" /\ ack.from = p /\ ack.to = f /\ ack.sid = m.sid
      /\ AnswerSession(ack) = s
  BY DEF MakeAck, AnswerSession, OfferSession
<1>5. \A o : Heard(b, o) => Heard(b, o)'
  BY <1>1, <1>2, HeardKept
<1>6. ~Heard(p, m) /\ Heard(p, m)'
  BY <1>1, <1>2, HeardOnce
<1> HIDE DEF s, ack
<1>7. /\ msgs \subseteq msgs'
      /\ \A k \in msgs' : k \in msgs \/ k.type = "direct" \/ k = ack
  BY <1>3 DEF Established
<1>8. Offers(a, b)' = Offers(a, b) /\ Offers(b, a)' = Offers(b, a)
  BY <1>4, <1>7 DEF Offers
<1>9. CASE ~(a = f /\ b = p) /\ ~(a = p /\ b = f)
  <2>1. Acks(b, a)' = Acks(b, a)
    BY <1>4, <1>7, <1>9 DEF Acks
  <2>2. active'[a][b] = active[a][b] /\ active'[b][a] = active[b][a] /\ queue'[a][b] = queue[a][b]
    <3>1. CASE a # p /\ b # p
      BY <1>3, <3>1 DEF Established
    <3>2. CASE a = p /\ b # p
      BY <1>3, <1>9, <3>2 DEF Established
    <3>3. CASE a # p /\ b = p
      BY <1>3, <1>9, <3>3 DEF Established
    <3>4. CASE a = p /\ b = p
      BY <1>3, <1>9, <3>4 DEF Established
    <3>5. QED
      BY <3>1, <3>2, <3>3, <3>4
  <2>3. QED
    BY <1>1, <1>2, <1>5, <1>8, <2>1, <2>2, NegotiationKept
<1>10. CASE a = p /\ b = f
  <2>1. Offers(b, a)' # {}
    BY <1>2, <1>8, <1>10
  <2>2. active'[a][b] = {s} /\ queue'[a][b] = {}
    BY <1>3, <1>10 DEF Established
  <2>3. OfferPends(a, b)' /\ OfferedOnce(a, b)' /\ QueueWaits(a, b)' /\ OneSided(a, b)'
    BY <1>1, <1>2, <1>8, <2>1, <2>2
    DEF Negotiation, OfferPends, OfferedOnce, QueueWaits, OneSided
  <2>4. AcksAnswer(a, b)'
    <3>1. \A k \in Acks(b, a)' : k \in Acks(b, a) \/ (k = ack /\ p = f)
      BY <1>4, <1>7, <1>10 DEF Acks
    <3>2. \A k \in Acks(b, a) : \E o \in Offers(a, b)' : o.sid = k.sid /\ (epoch'[b] = 0 => Heard(b, o)')
      BY <1>1, <1>2, <1>5, <1>8 DEF Negotiation, AcksAnswer
    <3>3. p = f => m \in Offers(a, b)' /\ Heard(b, m)' /\ m.sid = ack.sid
      BY <1>2, <1>4, <1>6, <1>8, <1>10
    <3>4. QED
      BY <3>1, <3>2, <3>3 DEF AcksAnswer
  <2>5. QED
    BY <2>3, <2>4 DEF Negotiation
<1>11. CASE a = f /\ b = p /\ f # p
  <2>1. \A k \in Acks(b, a)' : k \in Acks(b, a) \/ k = ack
    BY <1>4, <1>7 DEF Acks
  <2>2. Acks(b, a) \subseteq Acks(b, a)'
    BY <1>7 DEF Acks
  <2>3. active'[b][a] = {s} /\ active'[a][b] = active[a][b] /\ queue'[a][b] = queue[a][b]
    BY <1>3, <1>11 DEF Established
  <2>4. OfferPends(a, b)' /\ OfferedOnce(a, b)' /\ QueueWaits(a, b)'
    BY <1>1, <1>2, <1>8, <2>3 DEF Negotiation, OfferPends, OfferedOnce, QueueWaits
  <2>5. AcksAnswer(a, b)'
    <3>1. \A k \in Acks(b, a) : \E o \in Offers(a, b)' : o.sid = k.sid /\ (epoch'[b] = 0 => Heard(b, o)')
      BY <1>1, <1>2, <1>5, <1>8 DEF Negotiation, AcksAnswer
    <3>2. m \in Offers(a, b)' /\ Heard(b, m)' /\ m.sid = ack.sid
      BY <1>2, <1>4, <1>6, <1>8, <1>11
    <3>3. QED
      BY <2>1, <3>1, <3>2 DEF AcksAnswer
  <2>6. epoch[a] = 0 /\ epoch[b] = 0 => Acks(b, a) = {}
    BY <1>1, <1>2, <1>6, <1>11 DEF Negotiation, OfferedOnce, AcksAnswer
  <2>7. OneSided(a, b)'
    <3> SUFFICES ASSUME epoch'[a] = 0, epoch'[b] = 0, Offers(b, a)' = {}
                 PROVE  /\ \A k \in Acks(b, a)' : active'[b][a] = {AnswerSession(k)}
                        /\ active'[a][b] = {}
      BY DEF OneSided
    <3>1. Acks(b, a) = {} /\ active[a][b] = {}
      BY <1>1, <1>2, <1>8, <2>6 DEF Negotiation, OneSided
    <3>2. QED
      BY <1>4, <2>1, <2>3, <3>1
  <2>8. QED
    BY <2>4, <2>5, <2>7 DEF Negotiation
<1>12. QED
  BY <1>9, <1>10, <1>11

LEMMA AckNegotiates ==
    ASSUME NegotiationInv, NEW p \in Peer, NEW m \in msgs, m.to = p,
           process_session_ack(p, m), NEW a \in Peer, NEW b \in Peer
    PROVE  Negotiation(a, b)'
<1> DEFINE f == m.from
           s == AckSession(m)
<1>1. TypeOK /\ Negotiation(a, b)
  BY DEF NegotiationInv
<1>2. /\ f \in Peer /\ m \in Acks(f, p) /\ check_and_record(p, m) /\ UNCHANGED <<epoch, clock>>
      /\ s \in Session
      /\ pending'[p][f] = {}
      /\ \A q \in Peer \ {f} : pending'[p][q] = pending[p][q]
      /\ \A r \in Peer \ {p} : pending'[r] = pending[r]
  BY <1>1, AckDoes DEF SessionAck, Acks
<1>3. \/ pending[p][f] = {} /\ UNCHANGED <<active, queue, msgs>>
      \/ pending[p][f] \notin {{}, {m.sid}} /\ UNCHANGED <<active, queue, msgs>>
      \/ pending[p][f] = {m.sid} /\ Establish(p, f, s, {})
  BY <1>1, AckDoes
<1>4. \A o : Heard(b, o) => Heard(b, o)'
  BY <1>1, <1>2, HeardKept
<1>5. ~(a = p /\ b = f) => pending'[a][b] = pending[a][b]
  BY <1>2
<1>6. PICK o \in Offers(p, f) : o.sid = m.sid
  BY <1>2 DEF NegotiationInv, Negotiation, AcksAnswer
<1>7. Negotiation(p, f)
  BY <1>2 DEF NegotiationInv
<1>8. CASE UNCHANGED <<active, queue, msgs>> /\ (pending[p][f] = {} \/ ~(a = p /\ b = f))
  <2>1. pending'[a][b] = pending[a][b]
    BY <1>2, <1>5, <1>8
  <2>2. Offers(a, b)' = Offers(a, b) /\ Offers(b, a)' = Offers(b, a) /\ Acks(b, a)' = Acks(b, a)
    BY <1>8 DEF Offers, Acks
  <2>3. QED
    BY <1>1, <1>2, <1>4, <1>8, <2>1, <2>2, NegotiationKept
<1>9. CASE /\ UNCHANGED <<active, queue, msgs>> /\ pending[p][f] \notin {{}, {m.sid}}
           /\ a = p /\ b = f
  <2>1. epoch[p] # 0
    BY <1>6, <1>7, <1>9 DEF Negotiation, OfferPends
  <2>2. Offers(a, b)' = Offers(a, b) /\ Acks(b, a)' = Acks(b, a)
    BY <1>9 DEF Offers, Acks
  <2>3. OfferPends(a, b)' /\ OfferedOnce(a, b)' /\ QueueWaits(a, b)' /\ OneSided(a, b)'
    BY <1>2, <1>9, <2>1 DEF OfferPends, OfferedOnce, QueueWaits, OneSided
  <2>4. AcksAnswer(a, b)'
    BY <1>1, <1>2, <1>4, <2>2 DEF Negotiation, AcksAnswer
  <2>5. QED
    BY <2>3, <2>4 DEF Negotiation
<1>10. CASE pending[p][f] = {m.sid} /\ Establish(p, f, s, {})
  <2> DEFINE none == {}
  <2>1. Established(p, f, s, none)
    BY <1>1, <1>2, <1>10, EstablishDoes
  <2>2. none = {}
    OBVIOUS
  <2> HIDE DEF none, s
  <2>3. msgs \subseteq msgs' /\ \A k \in msgs' : k \in msgs \/ k.type = "direct"
    BY <2>1, <2>2 DEF Established
  <2>4. Offers(a, b)' = Offers(a, b) /\ Offers(b, a)' = Offers(b, a) /\ Acks(b, a)' = Acks(b, a)
    BY <2>3 DEF Offers, Acks
  <2>5. CASE ~(a = f /\ b = p) /\ ~(a = p /\ b = f)
    <3>1. active'[a][b] = active[a][b] /\ active'[b][a] = active[b][a] /\ queue'[a][b] = queue[a][b]
      <4>1. CASE a # p /\ b # p
        BY <2>1, <4>1 DEF Established
      <4>2. CASE a = p /\ b # p
        BY <2>1, <2>5, <4>2 DEF Established
      <4>3. CASE a # p /\ b = p
        BY <2>1, <2>5, <4>3 DEF Established
      <4>4. CASE a = p /\ b = p
        BY <2>1, <2>5, <4>4 DEF Established
      <4>5. QED
        BY <4>1, <4>2, <4>3, <4>4
    <3>2. QED
      BY <1>1, <1>2, <1>4, <1>5, <2>4, <2>5, <3>1, NegotiationKept
  <2>6. CASE a = p /\ b = f
    <3>1. active'[a][b] = {s} /\ queue'[a][b] = {} /\ (f # p => active'[b][a] = active[b][a])
      BY <2>1, <2>6 DEF Established
    <3>2. OfferPends(a, b)' /\ OfferedOnce(a, b)' /\ QueueWaits(a, b)'
      BY <1>1, <1>2, <2>4, <2>6, <3>1 DEF Negotiation, OfferPends, OfferedOnce, QueueWaits
    <3>3. AcksAnswer(a, b)'
      BY <1>1, <1>2, <1>4, <2>4 DEF Negotiation, AcksAnswer
    <3>4. OneSided(a, b)'
      <4>1. CASE f = p
        <5>1. Offers(b, a)' # {}
          BY <1>6, <2>4, <2>6, <4>1
        <5>2. QED
          BY <5>1 DEF OneSided
      <4>2. CASE f # p
        <5> SUFFICES ASSUME epoch'[a] = 0, epoch'[b] = 0, Offers(b, a)' = {}
                     PROVE  /\ \A k \in Acks(b, a)' : active'[b][a] = {AnswerSession(k)}
                            /\ m \in Acks(b, a)' /\ active'[a][b] = {AckSession(m)}
          BY DEF OneSided, AckSession
        <5>1. \A k \in Acks(b, a) : active[b][a] = {AnswerSession(k)}
          BY <1>1, <1>2, <2>4 DEF Negotiation, OneSided
        <5>2. active'[a][b] = {AckSession(m)}
          BY <3>1 DEF s
        <5>3. QED
          BY <1>2, <2>4, <2>6, <3>1, <4>2, <5>1, <5>2 DEF AnswerSession
      <4>3. QED
        BY <4>1, <4>2
    <3>5. QED
      BY <3>2, <3>3, <3>4 DEF Negotiation
  <2>7. CASE a = f /\ b = p /\ f # p
    <3>1. Offers(b, a)' # {}
      BY <1>6, <2>4, <2>7
    <3>2. active'[a][b] = active[a][b] /\ queue'[a][b] = queue[a][b]
      BY <2>1, <2>7 DEF Established
    <3>3. pending'[a][b] = pending[a][b]
      BY <1>5, <2>7
    <3>4. OfferPends(a, b)' /\ OfferedOnce(a, b)' /\ QueueWaits(a, b)' /\ OneSided(a, b)'
      BY <1>1, <1>2, <2>4, <3>1, <3>2, <3>3
      DEF Negotiation, OfferPends, OfferedOnce, QueueWaits, OneSided
    <3>5. AcksAnswer(a, b)'
      BY <1>1, <1>2, <1>4, <2>4 DEF Negotiation, AcksAnswer
    <3>6. QED
      BY <3>4, <3>5 DEF Negotiation
  <2>8. QED
    BY <2>5, <2>6, <2>7
<1>11. QED
  BY <1>3, <1>8, <1>9, <1>10

\* A replay, a direct message, a tick: the negotiation is left alone.
LEMMA QuietNegotiates ==
    ASSUME NegotiationInv, UNCHANGED <<active, pending, queue, epoch, msgs>>,
           \A q \in Peer : \A o \in msgs : Heard(q, o) => Heard(q, o)',
           NEW a \in Peer, NEW b \in Peer
    PROVE  Negotiation(a, b)'
<1>1. Negotiation(a, b)
  BY DEF NegotiationInv
<1>2. Offers(a, b)' = Offers(a, b) /\ Offers(b, a)' = Offers(b, a) /\ Acks(b, a)' = Acks(b, a)
  BY DEF Offers, Acks
<1>3. \A o \in Offers(a, b) : Heard(b, o) => Heard(b, o)'
  BY DEF Offers
<1>4. QED
  BY <1>1, <1>2, <1>3, NegotiationKept

\* The window only moves forward: what it passed it does not take back.
LEMMA TickHears ==
    ASSUME TypeOK, NEW p \in Peer, Tick(p)
    PROVE  \A q \in Peer : \A o \in msgs : Heard(q, o) => Heard(q, o)'
<1>1. TypeOK
  OBVIOUS
<1>2. \A q \in Peer : Lower(q) \in Nat /\ Lower(q)' \in Nat /\ Lower(q) <= Lower(q)'
  <2>1. \A q \in Peer : clock[q] \in Nat /\ clock'[q] \in Nat /\ clock[q] <= clock'[q]
    <3>1. clock \in [Peer -> Nat]
      BY <1>1 DEF TypeOK
    <3>2. clock' = [clock EXCEPT ![p] = clock[p] + 1]
      BY DEF Tick
    <3>3. QED
      BY <3>1, <3>2
  <2>2. ReplayWindow \in Nat
    BY ChatSessionAssumption
  <2>3. QED
    BY <2>1, <2>2 DEF Lower
<1>3. \A o \in msgs : o.ts \in Nat
  BY <1>1 DEF TypeOK, SessionOffer, SessionAck, Envelope
<1>4. \A q \in Peer : \A o \in msgs : o.ts < Lower(q) => o.ts < Lower(q)'
  BY <1>2, <1>3
<1>5. UNCHANGED <<msgs, seen>>
  BY DEF Tick
<1>6. QED
  BY <1>4, <1>5 DEF Heard

LEMMA TickNegotiates ==
    ASSUME NegotiationInv, NEW p \in Peer, Tick(p), NEW a \in Peer, NEW b \in Peer
    PROVE  Negotiation(a, b)'
<1>1. \A q \in Peer : \A o \in msgs : Heard(q, o) => Heard(q, o)'
  BY TickHears DEF NegotiationInv
<1>2. UNCHANGED <<active, pending, queue, epoch, msgs>>
  BY DEF Tick
<1>3. QED
  BY <1>1, <1>2, QuietNegotiates

LEMMA RestartNegotiates ==
    ASSUME NegotiationInv, NEW p \in Peer, Restart(p), NEW a \in Peer, NEW b \in Peer
    PROVE  Negotiation(a, b)'
<1>1. TypeOK /\ Negotiation(a, b)
  BY DEF NegotiationInv
<1>2. /\ epoch'[p] > 0 /\ \A r \in Peer \ {p} : epoch'[r] = epoch[r] /\ seen'[r] = seen[r]
      /\ \A r \in Peer \ {p} : /\ active'[r] = active[r] /\ pending'[r] = pending[r]
                               /\ queue'[r] = queue[r]
      /\ UNCHANGED <<clock, msgs>>
  BY <1>1, RestartDoes
<1>3. Offers(a, b)' = Offers(a, b) /\ Offers(b, a)' = Offers(b, a) /\ Acks(b, a)' = Acks(b, a)
  BY <1>2 DEF Offers, Acks
<1>4. b # p => \A o : Heard(b, o) => Heard(b, o)'
  BY <1>2 DEF Heard, Lower
<1>5. epoch'[p] # 0
  BY <1>2
<1>6. AcksAnswer(a, b)'
  <2>1. CASE b = p
    BY <1>1, <1>3, <1>5, <2>1 DEF Negotiation, AcksAnswer
  <2>2. CASE b # p
    BY <1>1, <1>2, <1>3, <1>4, <2>2 DEF Negotiation, AcksAnswer
  <2>3. QED
    BY <2>1, <2>2
<1>7. OfferPends(a, b)' /\ OfferedOnce(a, b)' /\ QueueWaits(a, b)'
  <2>1. CASE a = p
    BY <1>5, <2>1 DEF OfferPends, OfferedOnce, QueueWaits
  <2>2. CASE a # p
    BY <1>1, <1>2, <1>3, <2>2 DEF Negotiation, OfferPends, OfferedOnce, QueueWaits
  <2>3. QED
    BY <2>1, <2>2
<1>8. OneSided(a, b)'
  <2>1. CASE a = p \/ b = p
    BY <1>5, <2>1 DEF OneSided
  <2>2. CASE a # p /\ b # p
    BY <1>1, <1>2, <1>3, <2>2 DEF Negotiation, OneSided, AckSession, AnswerSession
  <2>3. QED
    BY <2>1, <2>2
<1>9. QED
  BY <1>6, <1>7, <1>8 DEF Negotiation

LEMMA NegotiationInit == Init => NegotiationInv
<1> SUFFICES ASSUME Init PROVE NegotiationInv
  OBVIOUS
<1>1. TypeOK
  BY DEF Init, TypeOK, AtMostOne, IdleView, View
<1>2. \A a, b \in Peer : /\ Offers(a, b) = {} /\ Acks(b, a) = {}
                         /\ active[a][b] = {} /\ queue[a][b] = {}
  BY DEF Init, Offers, Acks
<1>3. \A a, b \in Peer : Negotiation(a, b)
  BY <1>2 DEF Negotiation, OfferPends, OfferedOnce, AcksAnswer, QueueWaits, OneSided
<1>4. QED
  BY <1>1, <1>3 DEF NegotiationInv

LEMMA NegotiationStep == NegotiationInv /\ [Next]_vars => NegotiationInv'
<1> SUFFICES ASSUME NegotiationInv, [Next]_vars PROVE NegotiationInv'
  OBVIOUS
<1>1. TypeOK /\ TypeOK'
  BY TypeStep DEF NegotiationInv
<1>2. SUFFICES ASSUME NEW a \in Peer, NEW b \in Peer PROVE Negotiation(a, b)'
  BY <1>1 DEF NegotiationInv
<1>3. CASE UNCHANGED vars
  <2>1. \A q \in Peer : \A o \in msgs : Heard(q, o) => Heard(q, o)'
    BY <1>3 DEF vars, Heard, Lower
  <2>2. UNCHANGED <<active, pending, queue, epoch, msgs>>
    BY <1>3 DEF vars
  <2>3. QED
    BY <2>1, <2>2, QuietNegotiates
<1>4. ASSUME NEW p \in Peer, NEW Q \in SUBSET (Peer \ {p}), Send(p, Q)
      PROVE  Negotiation(a, b)'
  BY <1>4, SendNegotiates
<1>5. ASSUME NEW p \in Peer, NEW m \in msgs, handle_chat_wire_message(p, m)
      PROVE  Negotiation(a, b)'
  <2>1. m.to = p
    BY <1>5 DEF handle_chat_wire_message
  <2>2. CASE process_session_offer(p, m)
    BY <2>1, <2>2, OfferNegotiates
  <2>3. CASE process_session_ack(p, m)
    BY <2>1, <2>3, AckNegotiates
  <2>4. CASE RejectReplay(p, m) \/ process_direct_message(p, m)
    <3>1. check_and_record(p, m) /\ UNCHANGED <<active, pending, queue, epoch, clock, msgs>>
      BY <2>4 DEF RejectReplay, process_direct_message
    <3>2. \A q \in Peer : \A o \in msgs : Heard(q, o) => Heard(q, o)'
      BY <1>1, <3>1, HeardKept
    <3>3. QED
      BY <3>1, <3>2, QuietNegotiates
  <2>5. QED
    BY <1>5, <2>2, <2>3, <2>4 DEF handle_chat_wire_message
<1>6. ASSUME NEW p \in Peer, Tick(p) \/ Restart(p)
      PROVE  Negotiation(a, b)'
  BY <1>6, TickNegotiates, RestartNegotiates
<1>7. QED
  BY <1>3, <1>4, <1>5, <1>6 DEF Next

\* A message waits in pending_messages of a node that has not restarted only
\* while a negotiation is under way: no ack of another session, no offer of the
\* peer and no replay ever strands it.
THEOREM QueuedWaits == Spec => []QueuedHasNegotiation
<1>1. NegotiationInv => QueuedHasNegotiation
  BY DEF NegotiationInv, Negotiation, QueueWaits, QueuedHasNegotiation
<1>2. QED
  BY <1>1, NegotiationInit, NegotiationStep, PTL DEF Spec

\* A negotiation that only one of two running nodes began ends in one session and
\* one key, whatever is redelivered or lost: the responder answers once.
THEOREM OneSidedAgrees == Spec => []OneSidedSessionsAgree
<1>1. NegotiationInv => OneSidedSessionsAgree
  <2> SUFFICES ASSUME NegotiationInv, NEW p \in Peer, NEW q \in Peer,
                      Settled(p, q), ~Offered(q, p)
               PROVE  active[p][q] = active[q][p]
    BY DEF OneSidedSessionsAgree
  <2>1. OneSided(p, q) /\ epoch[p] = 0 /\ epoch[q] = 0 /\ active[p][q] # {}
    BY DEF NegotiationInv, Negotiation, Settled
  <2>2. Offers(q, p) = {}
    BY DEF Offers, Offered
  <2>3. PICK s \in active[p][q], k \in Acks(q, p) : s = AckSession(k)
    BY <2>1, <2>2 DEF OneSided
  <2>4. active[q][p] = {AnswerSession(k)}
    BY <2>1, <2>2, <2>3 DEF OneSided
  <2>5. AnswerSession(k) = AckSession(k)
    <3>1. {k.eph, k.sid} = {k.sid, k.eph}
      OBVIOUS
    <3>2. QED
      BY <3>1 DEF AnswerSession, AckSession, derive_session_key
  <2>6. active[p][q] = {s}
    BY <2>3 DEF NegotiationInv, TypeOK, AtMostOne
  <2>7. QED
    BY <2>3, <2>4, <2>5, <2>6
<1>2. QED
  BY <1>1, NegotiationInit, NegotiationStep, PTL DEF Spec

-----------------------------------------------------------------------------
(* Where sessions come from.  a holds them with b.                         *)

\* Offers of a node differ in their tokens.
OffersDistinct(a, b) ==
    \A o \in Offers(a, b) :
        /\ a # b /\ o.sid.by = a /\ o.sid.n < ctr[a]
        /\ \A m \in Offers(a, b) : m.sid = o.sid => m = o

\* b draws the secret of an answer while it hears the offer.
AcksDrawn(a, b) ==
    \A k \in Acks(b, a) :
        /\ k.eph.by = b /\ k.eph.epoch <= epoch[b]
        /\ \E o \in Offers(a, b) :
              o.sid = k.sid /\ (k.eph.epoch = epoch[b] => Heard(b, o))

\* a began t and b answered.
Asked(a, b, t) == \E k \in Acks(b, a) : t = AckSession(k)

\* a drew x for t when it took offer o of b; its only answers with a secret of
\* that lifetime name x.
Draws(a, b, t, o, x) ==
    /\ t = [sid |-> o.sid, key |-> derive_session_key(x, o.sid, o.sid)]
    /\ x.by = a /\ x.epoch <= epoch[a]
    /\ x.epoch = epoch[a] => Heard(a, o)
    /\ \A k \in Acks(a, b) : k.sid = o.sid /\ k.eph.epoch = x.epoch => k.eph = x

Answered(a, b, t) == \E o \in Offers(b, a) : \E x \in t.key.shared : Draws(a, b, t, o, x)

SessionsOrigin(a, b) == \A t \in Held(a, b) : Asked(a, b, t) \/ Answered(a, b, t)

Origins(a, b) == OffersDistinct(a, b) /\ AcksDrawn(a, b) /\ SessionsOrigin(a, b)

OriginInv == TypeOK /\ \A a, b \in Peer : Origins(a, b)

\* A drained command encrypts with the sessions there are.
LEMMA SendHolds ==
    ASSUME TypeOK, NEW p \in Peer, NEW Q \in SUBSET (Peer \ {p}), Send(p, Q),
           NEW a \in Peer, NEW b \in Peer
    PROVE  Held(a, b)' \subseteq Held(a, b)
<1> DEFINE out == {MakeOffer(p, q) : q \in {r \in Q : NeedsOffer(p, r)}}
                    \cup UNION {{build_direct_message_action(p, q, s, sent[p]) :
                                   s \in active[p][q]} : q \in Q}
<1>1. \E view : apply_chat_actions(p, out, view)
  BY Zenon DEF Send, dispatch_or_queue_outbound_message
<1>2. msgs' \subseteq msgs \cup out
  BY <1>1, ApplyPublishes
<1>3. \A m \in out : m.type = "direct" =>
         /\ m.from = p
         /\ \E s \in active[p][m.to] : m.sid = s.sid /\ m.key = s.key
  BY DEF MakeOffer, build_direct_message_action
<1> HIDE DEF out
<1>4. ASSUME NEW m \in Envelopes(a, b)'
      PROVE  [sid |-> m.sid, key |-> m.key] \in Held(a, b)
  <2>1. CASE m \in msgs
    BY <2>1 DEF Envelopes, Held
  <2>2. CASE m \notin msgs
    <3>1. m.type = "direct" /\ m.from = a /\ m.to = b /\ m \in out
      BY <1>2, <2>2 DEF Envelopes
    <3>2. PICK s \in active[a][b] : m.sid = s.sid /\ m.key = s.key
      BY <1>3, <3>1
    <3>3. s \in Session
      BY DEF TypeOK
    <3>4. s = [sid |-> m.sid, key |-> m.key]
      BY <3>2, <3>3 DEF Session
    <3>5. QED
      BY <3>4 DEF Held
  <2>3. QED
    BY <2>1, <2>2
<1>5. active' = active
  BY DEF Send
<1>6. QED
  BY <1>4, <1>5 DEF Held

\* Establishing a session brings that session and no other.
LEMMA EstablishHolds ==
    ASSUME TypeOK, NEW p \in Peer, NEW q \in Peer, NEW session \in Session, NEW replies,
           Establish(p, q, session, replies), \A m \in replies : m.type # "direct",
           NEW a \in Peer, NEW b \in Peer
    PROVE  \A t \in Held(a, b)' : t \in Held(a, b) \/ (a = p /\ b = q /\ t = session)
<1> DEFINE out == replies \cup {build_direct_message_action(p, q, session, c) : c \in queue[p][q]}
<1>1. /\ active' = [active EXCEPT ![p][q] = {session}]
      /\ apply_chat_actions(p, out, observe_encrypted_session(p, q, session.sid))
  BY DEF Establish
<1>2. \A m \in out : m.type = "direct" =>
         m.from = p /\ m.to = q /\ m.sid = session.sid /\ m.key = session.key
  BY DEF build_direct_message_action
<1> HIDE DEF out
<1>3. msgs' \subseteq msgs \cup out
  BY <1>1, ApplyPublishes
<1>4. session = [sid |-> session.sid, key |-> session.key]
  BY DEF Session
<1>5. ASSUME NEW m \in Envelopes(a, b)'
      PROVE  \/ [sid |-> m.sid, key |-> m.key] \in Held(a, b)
             \/ a = p /\ b = q /\ [sid |-> m.sid, key |-> m.key] = session
  <2>1. CASE m \in msgs
    BY <2>1 DEF Envelopes, Held
  <2>2. CASE m \notin msgs
    BY <1>2, <1>3, <1>4, <2>2 DEF Envelopes
  <2>3. QED
    BY <2>1, <2>2
<1>6. \A t \in active'[a][b] : t \in active[a][b] \/ (a = p /\ b = q /\ t = session)
  BY <1>1 DEF TypeOK
<1>7. QED
  BY <1>5, <1>6 DEF Held

\* A pair's sessions keep their origin when only known sessions come to it and
\* the answers between the two are the same.
LEMMA OriginsKept ==
    ASSUME NEW a \in Peer, NEW b \in Peer, Origins(a, b),
           Acks(a, b)' = Acks(a, b), Acks(b, a)' = Acks(b, a),
           Offers(a, b) \subseteq Offers(a, b)', Offers(b, a) \subseteq Offers(b, a)',
           epoch'[a] = epoch[a], epoch'[b] = epoch[b],
           \A o \in msgs : Heard(a, o) => Heard(a, o)', \A o \in msgs : Heard(b, o) => Heard(b, o)',
           \A t \in Held(a, b)' : t \in Held(a, b) \/ Asked(a, b, t)
    PROVE  AcksDrawn(a, b)' /\ SessionsOrigin(a, b)'
<1>1. AcksDrawn(a, b)'
  BY DEF Origins, AcksDrawn, Offers
<1>2. ASSUME NEW t, Asked(a, b, t) PROVE Asked(a, b, t)'
  BY <1>2 DEF Asked, AckSession
<1>3. ASSUME NEW t, Answered(a, b, t) PROVE Answered(a, b, t)'
  <2>1. PICK o \in Offers(b, a), x \in t.key.shared : Draws(a, b, t, o, x)
    BY <1>3 DEF Answered
  <2>2. Draws(a, b, t, o, x)'
    BY <2>1 DEF Draws, Offers
  <2>3. QED
    BY <2>1, <2>2 DEF Answered
<1>4. QED
  BY <1>1, <1>2, <1>3 DEF Origins, SessionsOrigin

LEMMA SendOrigins ==
    ASSUME OriginInv, NEW p \in Peer, NEW Q \in SUBSET (Peer \ {p}), Send(p, Q),
           NEW a \in Peer, NEW b \in Peer
    PROVE  Origins(a, b)'
<1>1. TypeOK /\ Origins(a, b)
  BY DEF OriginInv
<1>2. /\ UNCHANGED <<seen, epoch, clock>> /\ msgs \subseteq msgs'
      /\ \A m \in msgs' : \/ m \in msgs
                          \/ m.type = "direct"
                          \/ \E q \in Q : NeedsOffer(p, q) /\ m = MakeOffer(p, q)
  BY <1>1, SendDoes
<1>3. Acks(a, b)' = Acks(a, b) /\ Acks(b, a)' = Acks(b, a)
  <2>1. \A m \in msgs' : m.type = "ack" => m \in msgs
    BY <1>2 DEF MakeOffer
  <2>2. QED
    BY <1>2, <2>1 DEF Acks
<1>4. /\ Offers(a, b) \subseteq Offers(a, b)' /\ Offers(b, a) \subseteq Offers(b, a)'
      /\ \A m \in Offers(a, b)' : \/ m \in Offers(a, b)
                                  \/ a = p /\ b \in Q /\ m = MakeOffer(a, b)
  BY <1>2 DEF Offers, MakeOffer
<1>5. \A q \in Peer : \A o \in msgs : Heard(q, o) => Heard(q, o)'
  BY <1>2 DEF Heard, Lower
<1>6. Held(a, b)' \subseteq Held(a, b)
  BY <1>1, SendHolds
<1>7. AcksDrawn(a, b)' /\ SessionsOrigin(a, b)'
  BY <1>1, <1>2, <1>3, <1>4, <1>5, <1>6, OriginsKept
<1>8. OffersDistinct(a, b)'
  <2>1. ctr[a] \in Nat /\ ctr'[a] = IF a = p THEN ctr[a] + 1 ELSE ctr[a]
    <3>1. ctr \in [Peer -> Nat] /\ ctr' = [ctr EXCEPT ![p] = ctr[p] + 1]
      BY <1>1 DEF TypeOK, Send
    <3>2. QED
      BY <3>1
  <2>2. \A o \in Offers(a, b) :
           /\ a # b /\ o.sid.by = a /\ o.sid.n < ctr[a] /\ o.sid.n \in Nat
           /\ \A m \in Offers(a, b) : m.sid = o.sid => m = o
    BY <1>1 DEF Origins, OffersDistinct, Offers, TypeOK, SessionOffer, SessionAck, Envelope, Token
  <2>3. /\ MakeOffer(a, b).sid.by = a /\ MakeOffer(a, b).sid.n = ctr[a]
        /\ b \in Q /\ a = p => a # b
    BY DEF MakeOffer, FreshToken
  <2> DEFINE new == MakeOffer(a, b)
  <2> HIDE DEF new
  <2>4. \A o \in Offers(a, b) : o.sid.n < ctr'[a] /\ o.sid # new.sid
    BY <2>1, <2>2, <2>3 DEF new
  <2>5. a = p => new.sid.n < ctr'[a]
    BY <2>1, <2>3 DEF new
  <2>6. QED
    BY <1>4, <2>2, <2>3, <2>4, <2>5 DEF OffersDistinct, new
<1>9. QED
  BY <1>7, <1>8 DEF Origins

\* Offers stay distinct as long as no offer is made, whatever randomness is drawn.
LEMMA OffersStayDistinct ==
    ASSUME TypeOK, NEW a \in Peer, NEW b \in Peer, OffersDistinct(a, b),
           Offers(a, b)' = Offers(a, b), ctr'[a] \in Nat, ctr[a] <= ctr'[a]
    PROVE  OffersDistinct(a, b)'
<1>1. ctr[a] \in Nat
  BY DEF TypeOK
<1>2. \A o \in Offers(a, b) : o.sid.n \in Nat
  BY DEF Offers, TypeOK, SessionOffer, SessionAck, Envelope, Token
<1>3. \A o \in Offers(a, b) : o.sid.n < ctr'[a]
  BY <1>1, <1>2 DEF OffersDistinct
<1>4. QED
  BY <1>3 DEF OffersDistinct

LEMMA OfferOrigins ==
    ASSUME OriginInv, NEW p \in Peer, NEW m \in msgs, m.to = p,
           process_session_offer(p, m), NEW a \in Peer, NEW b \in Peer
    PROVE  Origins(a, b)'
<1> DEFINE f == m.from
           s == OfferSession(p, m)
           x == FreshToken(p, f)
           ack == MakeAck(p, f, m.sid)
           replies == {ack}
<1>1. TypeOK /\ TypeOK' /\ Origins(a, b) /\ Origins(b, a)
  <2>1. TypeOK'
    BY OfferType DEF OriginInv
  <2>2. QED
    BY <2>1 DEF OriginInv
<1>2. /\ f \in Peer /\ m \in Offers(f, p) /\ PassesReplayCheck(p, m) /\ check_and_record(p, m)
      /\ UNCHANGED <<epoch, clock>> /\ s \in Session
      /\ Establish(p, f, s, replies)
  BY <1>1, OfferDoes DEF SessionOffer, Offers
<1>3. Established(p, f, s, replies)
  BY <1>1, <1>2, EstablishDoes
<1>4. /\ ack.type = "ack" /\ ack.from = p /\ ack.to = f /\ ack.sid = m.sid /\ ack.eph = x
      /\ x.by = p /\ x.epoch = epoch[p]
      /\ x \in s.key.shared /\ s = [sid |-> m.sid, key |-> derive_session_key(x, m.sid, m.sid)]
  BY DEF MakeAck, FreshToken, OfferSession, derive_session_key
<1>5. \A q \in Peer : \A o \in msgs : Heard(q, o) => Heard(q, o)'
  BY <1>1, <1>2, HeardKept
<1>6. ~Heard(p, m) /\ Heard(p, m)'
  BY <1>1, <1>2, HeardOnce
<1>7. epoch[p] \in Nat
  BY <1>1 DEF TypeOK
<1>8. ctr'[a] \in Nat /\ ctr[a] <= ctr'[a]
  <2>1. ctr \in [Peer -> Nat] /\ ctr' = [ctr EXCEPT ![p] = ctr[p] + 1]
    BY <1>1 DEF TypeOK, process_session_offer, AcceptOffer
  <2>2. QED
    BY <2>1
<1> HIDE DEF s, x, ack
<1>9. \A t \in Held(a, b)' : t \in Held(a, b) \/ (a = p /\ b = f /\ t = s)
  BY <1>1, <1>2, <1>4, EstablishHolds
<1>10. /\ msgs \subseteq msgs'
       /\ \A k \in msgs' : k \in msgs \/ k.type = "direct" \/ k = ack
  BY <1>3 DEF Established
<1>11. Offers(a, b)' = Offers(a, b) /\ Offers(b, a)' = Offers(b, a)
  BY <1>4, <1>10 DEF Offers
<1>12. OffersDistinct(a, b)'
  BY <1>1, <1>8, <1>11, OffersStayDistinct DEF Origins
<1>13. /\ Acks(b, a) \subseteq Acks(b, a)'
       /\ \A k \in Acks(b, a)' : k \in Acks(b, a) \/ (b = p /\ a = f /\ k = ack)
       /\ \A k \in Acks(a, b)' : k \in Acks(a, b) \/ (a = p /\ b = f /\ k = ack)
  BY <1>4, <1>10 DEF Acks
<1>14. AcksDrawn(a, b)'
  <2>1. \A k \in Acks(b, a) :
          /\ k.eph.by = b /\ k.eph.epoch <= epoch'[b]
          /\ \E o \in Offers(a, b)' : o.sid = k.sid /\ (k.eph.epoch = epoch'[b] => Heard(b, o)')
    BY <1>1, <1>2, <1>5, <1>11 DEF Origins, AcksDrawn, Offers
  <2>2. b = p /\ a = f => /\ ack.eph.by = b /\ ack.eph.epoch <= epoch'[b]
                          /\ m \in Offers(a, b)' /\ m.sid = ack.sid /\ Heard(b, m)'
    BY <1>2, <1>4, <1>6, <1>7, <1>11
  <2>3. QED
    BY <1>13, <2>1, <2>2 DEF AcksDrawn
<1>15. SessionsOrigin(a, b)'
  <2>1. ASSUME NEW t, Asked(a, b, t) PROVE Asked(a, b, t)'
    BY <1>13, <2>1 DEF Asked, AckSession
  <2>2. ASSUME NEW t, Answered(a, b, t) PROVE Answered(a, b, t)'
    <3>1. PICK o \in Offers(b, a), y \in t.key.shared : Draws(a, b, t, o, y)
      BY <2>2 DEF Answered
    <3>2. a = p /\ b = f /\ ack.sid = o.sid => y.epoch # epoch[a]
      BY <1>1, <1>2, <1>4, <1>6, <3>1 DEF Origins, OffersDistinct, Draws
    <3>3. \A k \in Acks(a, b)' : k.sid = o.sid /\ k.eph.epoch = y.epoch => k.eph = y
      BY <1>4, <1>13, <3>1, <3>2 DEF Draws
    <3>4. Draws(a, b, t, o, y)'
      BY <1>2, <1>5, <3>1, <3>3 DEF Draws, Offers
    <3>5. QED
      BY <1>11, <3>1, <3>4 DEF Answered
  <2>3. ASSUME a = p, b = f, NEW t, t = s PROVE Answered(a, b, t)'
    <3>0. PICK y : y = x
      OBVIOUS
    <3>1. \A k \in Acks(a, b) : k.sid = m.sid => k.eph.epoch # y.epoch
      <4> SUFFICES ASSUME NEW k \in Acks(a, b), k.sid = m.sid, k.eph.epoch = y.epoch
                   PROVE  FALSE
        OBVIOUS
      <4>1. PICK o \in Offers(b, a) : o.sid = k.sid /\ (k.eph.epoch = epoch[a] => Heard(a, o))
        BY <1>1 DEF Origins, AcksDrawn
      <4>2. o = m
        BY <1>1, <1>2, <2>3, <4>1 DEF Origins, OffersDistinct
      <4>3. QED
        BY <1>4, <1>6, <2>3, <3>0, <4>1, <4>2
    <3>2. \A k \in Acks(a, b)' : k.sid = m.sid /\ k.eph.epoch = y.epoch => k.eph = y
      BY <1>4, <1>13, <3>0, <3>1
    <3>3. Draws(a, b, t, m, y)'
      BY <1>2, <1>4, <1>6, <1>7, <2>3, <3>0, <3>2 DEF Draws
    <3>4. QED
      BY <1>2, <1>4, <1>11, <2>3, <3>0, <3>3 DEF Answered
  <2>4. QED
    BY <1>1, <1>9, <2>1, <2>2, <2>3 DEF Origins, SessionsOrigin
<1>16. QED
  BY <1>12, <1>14, <1>15 DEF Origins

\* A step that makes no offer and no answer, and encrypts with known sessions.
LEMMA QuietOrigins ==
    ASSUME OriginInv, NEW a \in Peer, NEW b \in Peer, UNCHANGED <<epoch, ctr>>,
           Offers(a, b)' = Offers(a, b), Offers(b, a)' = Offers(b, a),
           Acks(a, b)' = Acks(a, b), Acks(b, a)' = Acks(b, a),
           \A q \in Peer : \A o \in msgs : Heard(q, o) => Heard(q, o)',
           \A t \in Held(a, b)' : t \in Held(a, b) \/ Asked(a, b, t)
    PROVE  Origins(a, b)'
<1>1. TypeOK /\ Origins(a, b)
  BY DEF OriginInv
<1>2. AcksDrawn(a, b)' /\ SessionsOrigin(a, b)'
  BY <1>1, OriginsKept
<1>3. OffersDistinct(a, b)'
  BY <1>1 DEF Origins, OffersDistinct
<1>4. QED
  BY <1>2, <1>3 DEF Origins

LEMMA AckOrigins ==
    ASSUME OriginInv, NEW p \in Peer, NEW m \in msgs, m.to = p,
           process_session_ack(p, m), NEW a \in Peer, NEW b \in Peer
    PROVE  Origins(a, b)'
<1> DEFINE f == m.from
           s == AckSession(m)
<1>1. TypeOK
  BY DEF OriginInv
<1>2. /\ f \in Peer /\ m \in Acks(f, p) /\ check_and_record(p, m) /\ UNCHANGED <<epoch, ctr, clock>>
      /\ s \in Session
  BY <1>1, AckDoes DEF SessionAck, Acks, process_session_ack
<1>3. UNCHANGED <<active, msgs>> \/ Establish(p, f, s, {})
  BY <1>1, AckDoes
<1>4. \A q \in Peer : \A o \in msgs : Heard(q, o) => Heard(q, o)'
  BY <1>1, <1>2, HeardKept
<1>5. Asked(p, f, s)
  BY <1>2 DEF Asked
<1> HIDE DEF s
<1>6. CASE UNCHANGED <<active, msgs>>
  <2>1. /\ Offers(a, b)' = Offers(a, b) /\ Offers(b, a)' = Offers(b, a)
        /\ Acks(a, b)' = Acks(a, b) /\ Acks(b, a)' = Acks(b, a)
        /\ Held(a, b)' = Held(a, b)
    BY <1>6 DEF Offers, Acks, Held, Envelopes
  <2>2. QED
    BY <1>2, <1>4, <2>1, QuietOrigins
<1>7. CASE Establish(p, f, s, {})
  <2> DEFINE none == {}
  <2>1. Established(p, f, s, none)
    BY <1>1, <1>2, <1>7, EstablishDoes
  <2>2. \A t \in Held(a, b)' : t \in Held(a, b) \/ (a = p /\ b = f /\ t = s)
    <3>1. Establish(p, f, s, none) /\ \A k \in none : k.type # "direct"
      BY <1>7
    <3> HIDE DEF none
    <3>2. QED
      BY <1>1, <1>2, <3>1, EstablishHolds
  <2>3. none = {}
    OBVIOUS
  <2> HIDE DEF none
  <2>4. msgs \subseteq msgs' /\ \A k \in msgs' : k \in msgs \/ k.type = "direct"
    BY <2>1, <2>3 DEF Established
  <2>5. /\ Offers(a, b)' = Offers(a, b) /\ Offers(b, a)' = Offers(b, a)
        /\ Acks(a, b)' = Acks(a, b) /\ Acks(b, a)' = Acks(b, a)
    BY <2>4 DEF Offers, Acks
  <2>6. \A t \in Held(a, b)' : t \in Held(a, b) \/ Asked(a, b, t)
    BY <1>5, <2>2
  <2>7. QED
    BY <1>2, <1>4, <2>5, <2>6, QuietOrigins
<1>8. QED
  BY <1>3, <1>6, <1>7

\* After a restart no secret is of the present lifetime, and no session is left.
LEMMA RestartOrigins ==
    ASSUME OriginInv, NEW p \in Peer, Restart(p), NEW a \in Peer, NEW b \in Peer
    PROVE  Origins(a, b)'
<1>1. TypeOK /\ Origins(a, b)
  BY DEF OriginInv
<1>2. /\ \A r \in Peer \ {p} : epoch'[r] = epoch[r] /\ seen'[r] = seen[r]
      /\ \A r \in Peer \ {p} : active'[r] = active[r]
      /\ \A q \in Peer : active'[p][q] = {}
      /\ UNCHANGED <<ctr, clock, msgs>>
  BY <1>1, RestartDoes DEF Restart
<1>3. epoch[p] \in Nat /\ epoch'[p] = epoch[p] + 1
  <2>1. epoch \in [Peer -> Nat] /\ epoch' = [epoch EXCEPT ![p] = epoch[p] + 1]
    BY <1>1 DEF TypeOK, Restart
  <2>2. QED
    BY <2>1
<1>4. /\ Offers(a, b)' = Offers(a, b) /\ Offers(b, a)' = Offers(b, a)
      /\ Acks(a, b)' = Acks(a, b) /\ Acks(b, a)' = Acks(b, a)
      /\ Held(a, b)' \subseteq Held(a, b)
  BY <1>2 DEF Offers, Acks, Held, Envelopes
<1>5. \A r \in Peer \ {p} : \A o : Heard(r, o) => Heard(r, o)'
  BY <1>2 DEF Heard, Lower
<1>6. OffersDistinct(a, b)'
  BY <1>1, <1>2, <1>4 DEF Origins, OffersDistinct
<1>7. \A k \in Acks(b, a) : k.eph.epoch \in Nat
  BY <1>1 DEF Acks, TypeOK, SessionOffer, SessionAck, Envelope, Token
<1>8. AcksDrawn(a, b)'
  <2>1. CASE b = p
    <3>1. \A k \in Acks(b, a) : k.eph.epoch <= epoch'[b] /\ k.eph.epoch # epoch'[b]
      BY <1>1, <1>3, <1>7, <2>1 DEF Origins, AcksDrawn
    <3>2. QED
      BY <1>1, <1>4, <3>1 DEF Origins, AcksDrawn
  <2>2. CASE b # p
    BY <1>1, <1>2, <1>4, <1>5, <2>2 DEF Origins, AcksDrawn
  <2>3. QED
    BY <2>1, <2>2
<1>9. SessionsOrigin(a, b)'
  <2>1. ASSUME NEW t, Asked(a, b, t) PROVE Asked(a, b, t)'
    BY <1>4, <2>1 DEF Asked, AckSession
  <2>2. ASSUME NEW t \in Held(a, b), Answered(a, b, t) PROVE Answered(a, b, t)'
    <3>1. PICK o \in Offers(b, a), x \in t.key.shared : Draws(a, b, t, o, x)
      BY <2>2 DEF Answered
    <3>2. x.epoch \in Nat
      <4>1. \A m \in Envelopes(a, b) : m.key \in Key
        BY <1>1 DEF Envelopes, TypeOK, SessionOffer, SessionAck, Envelope
      <4>2. \A s \in active[a][b] : s.key \in Key
        BY <1>1 DEF TypeOK, Session
      <4>3. t.key \in Key
        BY <2>2, <4>1, <4>2 DEF Held
      <4>4. QED
        BY <4>3 DEF Key, Token
    <3>3. x.epoch <= epoch'[a] /\ (x.epoch = epoch'[a] => Heard(a, o)')
      <4>1. CASE a = p
        BY <1>3, <3>1, <3>2, <4>1 DEF Draws
      <4>2. CASE a # p
        BY <1>2, <1>5, <3>1, <4>2 DEF Draws
      <4>3. QED
        BY <4>1, <4>2
    <3>4. Draws(a, b, t, o, x)'
      BY <1>4, <3>1, <3>3 DEF Draws
    <3>5. QED
      BY <1>4, <3>1, <3>4 DEF Answered
  <2>3. QED
    BY <1>1, <1>4, <2>1, <2>2 DEF Origins, SessionsOrigin
<1>10. QED
  BY <1>6, <1>8, <1>9 DEF Origins

LEMMA OriginInit == Init => OriginInv
<1> SUFFICES ASSUME Init PROVE OriginInv
  OBVIOUS
<1>1. TypeOK
  BY DEF Init, TypeOK, AtMostOne, IdleView, View
<1>2. \A a, b \in Peer : Offers(a, b) = {} /\ Acks(b, a) = {} /\ Held(a, b) = {}
  BY DEF Init, Offers, Acks, Held, Envelopes
<1>3. QED
  BY <1>1, <1>2 DEF OriginInv, Origins, OffersDistinct, AcksDrawn, SessionsOrigin

LEMMA OriginStep == OriginInv /\ [Next]_vars => OriginInv'
<1> SUFFICES ASSUME OriginInv, [Next]_vars PROVE OriginInv'
  OBVIOUS
<1>1. TypeOK /\ TypeOK'
  BY TypeStep DEF OriginInv
<1>2. SUFFICES ASSUME NEW a \in Peer, NEW b \in Peer PROVE Origins(a, b)'
  BY <1>1 DEF OriginInv
<1>3. ASSUME UNCHANGED <<active, epoch, ctr, msgs>>,
             \A q \in Peer : \A o \in msgs : Heard(q, o) => Heard(q, o)'
      PROVE  Origins(a, b)'
  <2>1. /\ Offers(a, b)' = Offers(a, b) /\ Offers(b, a)' = Offers(b, a)
        /\ Acks(a, b)' = Acks(a, b) /\ Acks(b, a)' = Acks(b, a)
        /\ Held(a, b)' = Held(a, b)
    BY <1>3 DEF Offers, Acks, Held, Envelopes
  <2>2. QED
    BY <1>3, <2>1, QuietOrigins
<1>4. CASE UNCHANGED vars
  <2>1. \A q \in Peer : \A o \in msgs : Heard(q, o) => Heard(q, o)'
    BY <1>4 DEF vars, Heard, Lower
  <2>2. QED
    BY <1>3, <1>4, <2>1 DEF vars
<1>5. ASSUME NEW p \in Peer, NEW Q \in SUBSET (Peer \ {p}), Send(p, Q)
      PROVE  Origins(a, b)'
  BY <1>5, SendOrigins
<1>6. ASSUME NEW p \in Peer, NEW m \in msgs, handle_chat_wire_message(p, m)
      PROVE  Origins(a, b)'
  <2>1. m.to = p
    BY <1>6 DEF handle_chat_wire_message
  <2>2. CASE process_session_offer(p, m)
    BY <2>1, <2>2, OfferOrigins
  <2>3. CASE process_session_ack(p, m)
    BY <2>1, <2>3, AckOrigins
  <2>4. CASE RejectReplay(p, m) \/ process_direct_message(p, m)
    <3>1. check_and_record(p, m) /\ UNCHANGED <<active, epoch, ctr, clock, msgs>>
      BY <2>4 DEF RejectReplay, process_direct_message
    <3>2. \A q \in Peer : \A o \in msgs : Heard(q, o) => Heard(q, o)'
      BY <1>1, <3>1, HeardKept
    <3>3. QED
      BY <1>3, <3>1, <3>2
  <2>5. QED
    BY <1>6, <2>2, <2>3, <2>4 DEF handle_chat_wire_message
<1>7. ASSUME NEW p \in Peer, Tick(p) PROVE Origins(a, b)'
  <2>1. \A q \in Peer : \A o \in msgs : Heard(q, o) => Heard(q, o)'
    BY <1>1, <1>7, TickHears
  <2>2. QED
    BY <1>3, <1>7, <2>1 DEF Tick
<1>8. ASSUME NEW p \in Peer, Restart(p) PROVE Origins(a, b)'
  BY <1>8, RestartOrigins
<1>9. QED
  BY <1>4, <1>5, <1>6, <1>7, <1>8 DEF Next

\* The session an ack makes and the one its sender made have one key.
LEMMA OriginsAgree ==
    ASSUME OriginInv, NEW a \in Peer, NEW b \in Peer,
           NEW s, Asked(a, b, s), NEW t, Answered(b, a, t),
           s.sid = t.sid,
           \A x \in s.key.shared, y \in t.key.shared : x.by = y.by => x.epoch = y.epoch
    PROVE  s.key = t.key
<1>1. PICK k \in Acks(b, a) : s = AckSession(k)
  BY DEF Asked
<1>2. PICK o \in Offers(a, b), y \in t.key.shared : Draws(b, a, t, o, y)
  BY DEF Answered
<1>3. k.eph.by = b
  BY <1>1 DEF OriginInv, Origins, AcksDrawn
<1>4. s.sid = k.sid /\ s.key = [shared |-> {k.sid, k.eph}, sid |-> k.sid]
  BY <1>1 DEF AckSession, derive_session_key
<1>5. t.sid = o.sid /\ t.key = [shared |-> {y, o.sid}, sid |-> o.sid] /\ y.by = b
  BY <1>2 DEF Draws, derive_session_key
<1>6. k.eph.epoch = y.epoch
  BY <1>3, <1>4, <1>5
<1>7. k.eph = y
  BY <1>2, <1>4, <1>5, <1>6 DEF Draws
<1>8. {k.sid, y} = {y, k.sid}
  OBVIOUS
<1>9. QED
  BY <1>4, <1>5, <1>7, <1>8

\* A session id stands for one key between two nodes, whoever began, through glare,
\* renegotiation, redelivery and restarts, up to a responder that restarted and
\* answered once more.
THEOREM SessionIdFixes == Spec => []SessionIdFixesKey
<1>1. OriginInv => SessionIdFixesKey
  <2> SUFFICES ASSUME OriginInv, NEW p \in Peer, NEW q \in Peer,
                      NEW s \in active[p][q], NEW t \in Held(q, p),
                      s.sid = t.sid, SameLifetimes(s.key, t.key)
               PROVE  s.key = t.key
    BY DEF SessionIdFixesKey
  <2>1. Asked(p, q, s) \/ Answered(p, q, s)
    BY DEF OriginInv, Origins, SessionsOrigin, Held
  <2>2. Asked(q, p, t) \/ Answered(q, p, t)
    BY DEF OriginInv, Origins, SessionsOrigin
  <2>3. /\ Asked(p, q, s) \/ Answered(q, p, t) => p # q
        /\ Asked(p, q, s) => s.sid.by = p
        /\ Answered(p, q, s) => s.sid.by = q
        /\ Asked(q, p, t) => t.sid.by = q
        /\ Answered(q, p, t) => t.sid.by = p
    BY DEF OriginInv, Origins, OffersDistinct, AcksDrawn, Asked, Answered, Draws, AckSession
  <2>4. CASE Asked(p, q, s) /\ Answered(q, p, t)
    BY <2>4, OriginsAgree DEF SameLifetimes
  <2>5. CASE Answered(p, q, s) /\ Asked(q, p, t)
    <3>1. \A x \in t.key.shared, y \in s.key.shared : x.by = y.by => x.epoch = y.epoch
      BY DEF SameLifetimes
    <3>2. QED
      BY <2>5, <3>1, OriginsAgree
  <2>6. p # q
    BY <2>1, <2>2, <2>3 DEF OriginInv, Origins, OffersDistinct, AcksDrawn, Asked, Answered
  <2>7. QED
    BY <2>1, <2>2, <2>3, <2>4, <2>5, <2>6
<1>2. QED
  BY <1>1, OriginInit, OriginStep, PTL DEF Spec

-----------------------------------------------------------------------------
(* What a node accepted is queued or on the wire.                          *)

\* e is not lost: its sender has it queued or has published it.
NotLost(e) ==
    epoch[e.from] = 0 /\ e.from \notin PublishMayFail =>
        \/ e.body \in queue[e.from][e.to]
        \/ \E m \in Envelopes(e.from, e.to) : m.body = e.body

LEMMA AcceptedNotLost == AcceptedIsKept <=> \A e \in accepted : NotLost(e)
BY DEF AcceptedIsKept, NotLost

\* A node whose publishes succeed publishes all it is given.
LEMMA ApplyPublishesAll ==
    ASSUME TypeOK, NEW p \in Peer, p \notin PublishMayFail, NEW out, NEW view,
           apply_chat_actions(p, out, view)
    PROVE  out \subseteq msgs'
BY DEF apply_chat_actions

LEMMA SendLosesNothing ==
    ASSUME TypeOK, AcceptedIsKept, NEW p \in Peer, NEW Q \in SUBSET (Peer \ {p}), Send(p, Q)
    PROVE  AcceptedIsKept'
<1> DEFINE direct == UNION {{build_direct_message_action(p, q, s, sent[p]) :
                               s \in active[p][q]} : q \in Q}
           out == {MakeOffer(p, q) : q \in {r \in Q : NeedsOffer(p, r)}} \cup direct
<1>1. \E view : apply_chat_actions(p, out, view)
  BY Zenon DEF Send, dispatch_or_queue_outbound_message
<1>2. msgs \subseteq msgs' /\ (p \notin PublishMayFail => direct \subseteq msgs')
  <2> HIDE DEF direct
  <2>1. QED
    BY <1>1, ApplyPublishes, ApplyPublishesAll
<1>3. \A r, q \in Peer :
        queue'[r][q] = IF r = p /\ q \in Q /\ active[p][q] = {}
                       THEN queue[r][q] \cup {sent[p]} ELSE queue[r][q]
  BY DEF Send, dispatch_or_queue_outbound_message, TypeOK
<1>4. \A q \in Q : \A s \in active[p][q] :
        LET m == build_direct_message_action(p, q, s, sent[p])
        IN  m \in direct /\ m.type = "direct" /\ m.from = p /\ m.to = q /\ m.body = sent[p]
  BY DEF build_direct_message_action
<1> HIDE DEF direct, out
<1>5. SUFFICES ASSUME NEW e \in accepted' PROVE NotLost(e)'
  BY DEF AcceptedIsKept, NotLost
<1>6. CASE e \in accepted
  <2>1. NotLost(e) /\ e \in Entry /\ epoch' = epoch
    BY <1>6, AcceptedNotLost DEF TypeOK, Send
  <2>2. e.from \in Peer /\ e.to \in Peer
    BY <2>1 DEF Entry
  <2>3. queue[e.from][e.to] \subseteq queue'[e.from][e.to]
    BY <1>3, <2>2
  <2>4. Envelopes(e.from, e.to) \subseteq Envelopes(e.from, e.to)'
    BY <1>2 DEF Envelopes
  <2>5. QED
    BY <2>1, <2>3, <2>4 DEF NotLost
<1>7. CASE e \notin accepted
  <2>1. PICK q \in Q : e = [from |-> p, to |-> q, body |-> sent[p]]
    BY <1>7 DEF Send
  <2>2. CASE active[p][q] = {}
    BY <1>3, <2>1, <2>2 DEF NotLost
  <2>3. CASE active[p][q] # {}
    <3>1. PICK s \in active[p][q] : TRUE
      BY <2>3
    <3>2. PICK m \in direct : m.type = "direct" /\ m.from = p /\ m.to = q /\ m.body = sent[p]
      BY <1>4, <3>1
    <3>3. p \notin PublishMayFail => m \in Envelopes(p, q)'
      BY <1>2, <3>2 DEF Envelopes
    <3>4. QED
      BY <2>1, <3>2, <3>3 DEF NotLost
  <2>4. QED
    BY <2>2, <2>3
<1>8. QED
  BY <1>6, <1>7

LEMMA EstablishLosesNothing ==
    ASSUME TypeOK, AcceptedIsKept, NEW p \in Peer, NEW q \in Peer, NEW session, NEW replies,
           Establish(p, q, session, replies), UNCHANGED <<accepted, epoch>>
    PROVE  AcceptedIsKept'
<1> DEFINE flushed == {build_direct_message_action(p, q, session, b) : b \in queue[p][q]}
           out == replies \cup flushed
<1>1. \E view : apply_chat_actions(p, out, view)
  BY DEF Establish
<1>2. msgs \subseteq msgs' /\ (p \notin PublishMayFail => flushed \subseteq msgs')
  <2> HIDE DEF flushed
  <2>1. QED
    BY <1>1, ApplyPublishes, ApplyPublishesAll
<1>3. \A r, t \in Peer : queue'[r][t] = IF r = p /\ t = q THEN {} ELSE queue[r][t]
  BY DEF Establish, TypeOK
<1>4. \A b \in queue[p][q] :
        LET m == build_direct_message_action(p, q, session, b)
        IN  m \in flushed /\ m.type = "direct" /\ m.from = p /\ m.to = q /\ m.body = b
  BY DEF build_direct_message_action
<1> HIDE DEF flushed, out
<1>5. SUFFICES ASSUME NEW e \in accepted' PROVE NotLost(e)'
  BY DEF AcceptedIsKept, NotLost
<1>6. NotLost(e) /\ e.from \in Peer /\ e.to \in Peer
  <2>1. NotLost(e)
    BY AcceptedNotLost
  <2>2. e \in Entry
    BY DEF TypeOK
  <2>3. QED
    BY <2>1, <2>2 DEF Entry
<1>7. Envelopes(e.from, e.to) \subseteq Envelopes(e.from, e.to)'
  BY <1>2 DEF Envelopes
<1>8. CASE e.from = p /\ e.to = q /\ e.body \in queue[p][q]
  <2>1. PICK m \in flushed : m.type = "direct" /\ m.from = p /\ m.to = q /\ m.body = e.body
    BY <1>4, <1>8
  <2>2. p \notin PublishMayFail => m \in Envelopes(p, q)'
    BY <1>2, <2>1 DEF Envelopes
  <2>3. QED
    BY <1>8, <2>1, <2>2 DEF NotLost
<1>9. CASE ~(e.from = p /\ e.to = q /\ e.body \in queue[p][q])
  BY <1>3, <1>6, <1>7, <1>9 DEF NotLost
<1>10. QED
  BY <1>8, <1>9

\* An accepted message is never lost between the queue and the wire: neither an ack
\* of another session, nor a session replaced under it, nor an offer of the peer
\* drops it at a node that has not restarted and whose publishes succeed.
THEOREM AcceptedKept == Spec => []AcceptedIsKept
<1>1. Init => TypeOK /\ AcceptedIsKept
  BY DEF Init, TypeOK, AtMostOne, IdleView, View, AcceptedIsKept
<1>2. TypeOK /\ AcceptedIsKept /\ [Next]_vars => (TypeOK /\ AcceptedIsKept)'
  <2> SUFFICES ASSUME TypeOK, AcceptedIsKept, [Next]_vars PROVE AcceptedIsKept'
    BY TypeStep
  <2>1. ASSUME UNCHANGED <<accepted, queue, epoch, msgs>> PROVE AcceptedIsKept'
    BY <2>1 DEF AcceptedIsKept, Envelopes
  <2>2. ASSUME NEW p \in Peer, NEW m \in msgs, process_session_offer(p, m)
        PROVE  AcceptedIsKept'
    <3> DEFINE s == OfferSession(p, m)
               replies == {MakeAck(p, m.from, m.sid)}
    <3>1. m.from \in Peer /\ Establish(p, m.from, s, replies) /\ UNCHANGED <<accepted, epoch>>
      BY <2>2, OfferDoes DEF SessionOffer, process_session_offer, AcceptOffer
    <3> HIDE DEF s, replies
    <3>2. QED
      BY <3>1, EstablishLosesNothing
  <2>3. ASSUME NEW p \in Peer, NEW m \in msgs, process_session_ack(p, m)
        PROVE  AcceptedIsKept'
    <3> DEFINE s == AckSession(m)
               none == {}
    <3>1. m.from \in Peer /\ UNCHANGED <<accepted, epoch>>
      BY <2>3, AckDoes DEF SessionAck, process_session_ack
    <3>2. UNCHANGED <<queue, msgs>> \/ Establish(p, m.from, s, none)
      BY <2>3, AckDoes
    <3> HIDE DEF s, none
    <3>3. QED
      BY <2>1, <3>1, <3>2, EstablishLosesNothing
  <2>4. ASSUME NEW p \in Peer, Restart(p) PROVE AcceptedIsKept'
    <3>1. /\ epoch'[p] > 0 /\ \A r \in Peer \ {p} : epoch'[r] = epoch[r]
          /\ \A r \in Peer \ {p} : queue'[r] = queue[r]
          /\ UNCHANGED <<accepted, msgs>>
      BY <2>4, RestartDoes DEF Restart
    <3>2. \A e \in accepted : e.from \in Peer
      BY DEF TypeOK, Entry
    <3>3. QED
      BY <3>1, <3>2 DEF AcceptedIsKept, Envelopes
  <2>5. CASE UNCHANGED vars
    BY <2>1, <2>5 DEF vars
  <2>6. ASSUME NEW p \in Peer, NEW m \in msgs, RejectReplay(p, m) \/ process_direct_message(p, m)
        PROVE  AcceptedIsKept'
    BY <2>1, <2>6 DEF RejectReplay, process_direct_message
  <2>7. ASSUME NEW p \in Peer, Tick(p) PROVE AcceptedIsKept'
    BY <2>1, <2>7 DEF Tick
  <2>8. QED
    BY <2>2, <2>3, <2>4, <2>5, <2>6, <2>7, SendLosesNothing DEF Next, handle_chat_wire_message
<1>3. QED
  BY <1>1, <1>2, PTL DEF Spec

-----------------------------------------------------------------------------
(* What the only initiator sends is read.                                  *)

\* q has message b of p in its inbox.
Read(p, q, b) ==
    \E i \in DOMAIN inbox[q] : inbox[q][i] = [from |-> p, to |-> q, body |-> b]

\* Of what q took from p, all is read while only p negotiates.
Reliable(p, q) ==
    epoch[p] = 0 /\ epoch[q] = 0 /\ ~Offered(q, p) =>
        \A m \in seen[q] : m.type = "direct" /\ m.from = p => Read(p, q, m.body)

ReliableInv == NegotiationInv /\ OriginInv /\ \A p, q \in Peer : Reliable(p, q)

\* An envelope of the only initiator decrypts wherever it comes.
LEMMA OneSidedDecrypts ==
    ASSUME NegotiationInv, OriginInv, NEW p \in Peer, NEW q \in Peer,
           epoch[p] = 0, epoch[q] = 0, ~Offered(q, p), NEW m \in Envelopes(p, q)
    PROVE  Decrypts(q, m)
<1> DEFINE s == [sid |-> m.sid, key |-> m.key]
<1>1. Offers(q, p) = {}
  BY DEF Offers, Offered
<1>2. s \in Held(p, q)
  BY DEF Held
<1> HIDE DEF s
<1>3. Asked(p, q, s)
  BY <1>1, <1>2 DEF OriginInv, Origins, SessionsOrigin, Answered
<1>4. PICK k \in Acks(q, p) : s = AckSession(k)
  BY <1>3 DEF Asked
<1>5. active[q][p] = {AnswerSession(k)}
  BY <1>1, <1>4 DEF NegotiationInv, Negotiation, OneSided
<1>6. {k.eph, k.sid} = {k.sid, k.eph}
  OBVIOUS
<1>7. AnswerSession(k) = AckSession(k)
  BY <1>6 DEF AnswerSession, AckSession, derive_session_key
<1>8. m.from = p
  BY DEF Envelopes
<1>9. QED
  BY <1>4, <1>5, <1>7, <1>8 DEF Decrypts, s

\* A pair stays reliable when q takes nothing new from p and keeps its inbox.
LEMMA ReliableKept ==
    ASSUME NEW p \in Peer, NEW q \in Peer, Reliable(p, q), msgs \subseteq msgs',
           epoch'[p] = 0 => epoch[p] = 0, epoch'[q] = 0 => epoch[q] = 0,
           \A m \in seen'[q] : m \in seen[q] \/ m.type # "direct" \/ m.from # p
                               \/ Read(p, q, m.body)',
           \A b : Read(p, q, b) => Read(p, q, b)'
    PROVE  Reliable(p, q)'
<1>1. Offered(q, p) => Offered(q, p)'
  BY DEF Offered
<1>2. QED
  BY <1>1 DEF Reliable

\* An inbox only grows at its end.
LEMMA ReadKept ==
    ASSUME TypeOK, NEW r \in Peer, NEW e, inbox' = [inbox EXCEPT ![r] = Append(@, e)],
           NEW p \in Peer, NEW q \in Peer, NEW b, Read(p, q, b)
    PROVE  Read(p, q, b)'
<1>1. inbox[q] \in Seq(Entry) /\ inbox'[q] = IF q = r THEN Append(inbox[q], e) ELSE inbox[q]
  BY DEF TypeOK
<1>2. PICK i \in DOMAIN inbox[q] : inbox[q][i] = [from |-> p, to |-> q, body |-> b]
  BY DEF Read
<1>3. i \in DOMAIN inbox'[q] /\ inbox'[q][i] = inbox[q][i]
  BY <1>1
<1>4. QED
  BY <1>2, <1>3 DEF Read

\* What is taken is all that is added to the replay memory.
LEMMA CheckTakes ==
    ASSUME TypeOK, NEW r \in Peer, NEW m, check_and_record(r, m), NEW q \in Peer
    PROVE  \A n \in seen'[q] : n \in seen[q] \/ (q = r /\ n = m /\ PassesReplayCheck(r, m))
BY DEF TypeOK, check_and_record, Retained

LEMMA DirectReliable ==
    ASSUME ReliableInv, NEW r \in Peer, NEW m \in msgs, m.to = r, process_direct_message(r, m),
           NEW p \in Peer, NEW q \in Peer
    PROVE  Reliable(p, q)'
<1>1. /\ TypeOK /\ Reliable(p, q) /\ check_and_record(r, m)
      /\ UNCHANGED <<epoch, msgs>> /\ m.type = "direct"
  BY DEF ReliableInv, NegotiationInv, process_direct_message
<1>2. \A b : Read(p, q, b) => Read(p, q, b)'
  <2>1. CASE UNCHANGED inbox
    BY <2>1 DEF Read
  <2>2. CASE ~UNCHANGED inbox
    BY <1>1, <2>2, ReadKept DEF process_direct_message
  <2>3. QED
    BY <2>1, <2>2
<1>3. \A n \in seen'[q] : n \in seen[q] \/ (q = r /\ n = m)
  BY <1>1, CheckTakes
<1>4. CASE ~(q = r /\ m.from = p)
  BY <1>1, <1>2, <1>3, <1>4, ReliableKept
<1>5. CASE q = r /\ m.from = p
  <2>1. CASE epoch[p] = 0 /\ epoch[q] = 0 /\ ~Offered(q, p)
    <3>1. m \in Envelopes(p, q)
      BY <1>1, <1>5 DEF Envelopes
    <3>2. Decrypts(q, m)
      BY <2>1, <3>1, OneSidedDecrypts DEF ReliableInv
    <3>3. inbox' = [inbox EXCEPT ![q] =
                      Append(inbox[q], [from |-> m.from, to |-> q, body |-> m.body])]
      BY <1>5, <3>2 DEF process_direct_message
    <3>4. inbox \in [Peer -> Seq(Entry)]
      BY <1>1 DEF TypeOK
    <3>5. inbox'[q] = Append(inbox[q], [from |-> p, to |-> q, body |-> m.body])
      BY <1>5, <3>3, <3>4
    <3>6. Len(inbox[q]) + 1 \in DOMAIN inbox'[q]
          /\ inbox'[q][Len(inbox[q]) + 1] = [from |-> p, to |-> q, body |-> m.body]
      BY <3>4, <3>5
    <3>7. Read(p, q, m.body)'
      BY <3>6 DEF Read
    <3>8. QED
      BY <1>1, <1>2, <1>3, <3>7, ReliableKept
  <2>2. CASE ~(epoch[p] = 0 /\ epoch[q] = 0 /\ ~Offered(q, p))
    BY <1>1, <2>2 DEF Reliable, Offered
  <2>3. QED
    BY <2>1, <2>2
<1>6. QED
  BY <1>4, <1>5

LEMMA ReliableStep == ReliableInv /\ [Next]_vars => ReliableInv'
<1> SUFFICES ASSUME ReliableInv, [Next]_vars PROVE ReliableInv'
  OBVIOUS
<1>1. TypeOK /\ NegotiationInv' /\ OriginInv'
  BY NegotiationStep, OriginStep DEF ReliableInv, NegotiationInv
<1>2. SUFFICES ASSUME NEW p \in Peer, NEW q \in Peer PROVE Reliable(p, q)'
  BY <1>1 DEF ReliableInv
<1>3. Reliable(p, q)
  BY DEF ReliableInv
<1>4. ASSUME UNCHANGED <<inbox, epoch>>, msgs \subseteq msgs',
             \A m \in seen'[q] : m \in seen[q] \/ m.type # "direct"
      PROVE  Reliable(p, q)'
  <2>1. \A b : Read(p, q, b) => Read(p, q, b)'
    BY <1>4 DEF Read
  <2>2. QED
    BY <1>3, <1>4, <2>1, ReliableKept
<1>5. CASE UNCHANGED vars
  BY <1>4, <1>5 DEF vars
<1>6. ASSUME NEW r \in Peer, NEW Q \in SUBSET (Peer \ {r}), Send(r, Q)
      PROVE  Reliable(p, q)'
  <2>1. msgs \subseteq msgs'
    BY <1>1, <1>6, SendDoes
  <2>2. QED
    BY <1>4, <1>6, <2>1 DEF Send
<1>7. ASSUME NEW r \in Peer, NEW m \in msgs, RejectReplay(r, m)
      PROVE  Reliable(p, q)'
  <2>1. check_and_record(r, m) /\ ~PassesReplayCheck(r, m) /\ UNCHANGED <<inbox, epoch, msgs>>
    BY <1>7 DEF RejectReplay
  <2>2. \A n \in seen'[q] : n \in seen[q]
    BY <1>1, <2>1, CheckTakes
  <2>3. QED
    BY <1>4, <2>1, <2>2
<1>8. ASSUME NEW r \in Peer, NEW m \in msgs, process_session_offer(r, m) \/ process_session_ack(r, m)
      PROVE  Reliable(p, q)'
  <2>1. check_and_record(r, m) /\ m.type # "direct" /\ UNCHANGED <<inbox, epoch>>
    BY <1>8 DEF process_session_offer, AcceptOffer, process_session_ack
  <2>2. \A n \in seen'[q] : n \in seen[q] \/ n.type # "direct"
    BY <1>1, <2>1, CheckTakes
  <2>3. msgs \subseteq msgs'
    BY <1>1, <1>8, ApplyPublishes
    DEF process_session_offer, AcceptOffer, process_session_ack, Establish
  <2>4. QED
    BY <1>4, <2>1, <2>2, <2>3
<1>9. ASSUME NEW r \in Peer, NEW m \in msgs, m.to = r, process_direct_message(r, m)
      PROVE  Reliable(p, q)'
  BY <1>9, DirectReliable
<1>10. ASSUME NEW r \in Peer, Tick(r) PROVE Reliable(p, q)'
  BY <1>4, <1>10 DEF Tick
<1>11. ASSUME NEW r \in Peer, Restart(r) PROVE Reliable(p, q)'
  <2>1. /\ epoch'[r] > 0 /\ \A t \in Peer \ {r} : epoch'[t] = epoch[t] /\ seen'[t] = seen[t]
        /\ UNCHANGED <<inbox, msgs>>
    BY <1>1, <1>11, RestartDoes DEF Restart
  <2>2. CASE p = r \/ q = r
    BY <2>1, <2>2 DEF Reliable
  <2>3. CASE p # r /\ q # r
    BY <1>3, <2>1, <2>3 DEF Reliable, Offered, Read
  <2>4. QED
    BY <2>2, <2>3
<1>12. QED
  BY <1>5, <1>6, <1>7, <1>8, <1>9, <1>10, <1>11 DEF Next, handle_chat_wire_message

\* While only one of two running nodes negotiates, its envelopes are delivered in
\* whatever order and however often they come: not one of them is dropped for want
\* of its session or for another key.
THEOREM OneSidedReliable == Spec => []OneSidedIsReliable
<1>1. Init => ReliableInv
  <2>1. Init => \A p, q \in Peer : Reliable(p, q)
    BY DEF Init, Reliable
  <2>2. QED
    BY <2>1, NegotiationInit, OriginInit DEF ReliableInv
<1>2. ReliableInv => OneSidedIsReliable
  BY DEF ReliableInv, Reliable, Read, OneSidedIsReliable
<1>3. QED
  BY <1>1, <1>2, ReliableStep, PTL DEF Spec

=============================================================================
