--------------------------- MODULE ChatRoomsProofs ---------------------------
(***************************************************************************)
(* Proofs about the rooms for any nodes, rooms, limits and bounds: type    *)
(* correctness, NotificationsBacked, RoomMessagesStayInRoom and            *)
(* MembershipIsLocal.                                                      *)
(***************************************************************************)
EXTENDS ChatRooms, FiniteSetTheorems, SequenceTheorems, TLAPS

ChatMessage ==
    [kind : Kind, from : Node, to : Node, room : Room, members : [Node -> RoomMember]]

-----------------------------------------------------------------------------
(* What is true of the state of one node and of one message.  E are those  *)
(* who have ever been in a room, B bounds the stamps in use.               *)

About(notes, r) ==
    {i \in DOMAIN notes : notes[i].kind = "message.received" /\ notes[i].room = r}

\* Every notification about a message has its message.
Counted(s) == \A r \in Room : Cardinality(About(s.notifications, r)) <= s.received[r]

Seen(members, B) == \A p \in Node : members[p].last_seen <= B

\* Who is shown online in r has been in it.
Known(members, r, E) == \A p \in Node : members[p].presence = "ONLINE" => <<p, r>> \in E

Good(n, s, E, B) ==
    /\ s \in ChatState
    /\ Counted(s)
    /\ \A r \in Room : Seen(s.members[r], B) /\ Known(s.members[r], r, E)
    /\ \A r \in s.joined : <<n, r>> \in E
    /\ \A r \in Room : s.received[r] > 0 => <<n, r>> \in E

Sound(m, E, B) ==
    /\ m \in ChatMessage
    /\ Seen(m.members, B) /\ Known(m.members, m.room, E)
    /\ m.kind \in {"join", "message"} => <<m.from, m.room>> \in E
    /\ m.kind = "message" => <<m.to, m.room>> \in E

\* What a handler of n makes of the state s.
Effect(n, s, e, E, B) ==
    /\ Good(n, e.state, E, B)
    /\ \A r \in Room : s.received[r] <= e.state.received[r]
    /\ \A m \in e.out : Sound(m, E, B)

LEMMA LaterIsGood ==
    ASSUME NEW n \in Node, NEW s, NEW E, NEW F, E \subseteq F, NEW B \in Nat, NEW C \in Nat,
           B <= C, Good(n, s, E, B)
    PROVE  Good(n, s, F, C)
<1>1. \A r \in Room, p \in Node : s.members[r][p].last_seen \in Nat
  BY DEF Good, ChatState, RoomMember
<1>2. QED
  BY <1>1 DEF Good, Seen, Known

LEMMA LaterIsSound ==
    ASSUME NEW m, NEW E, NEW F, E \subseteq F, NEW B \in Nat, NEW C \in Nat,
           B <= C, Sound(m, E, B)
    PROVE  Sound(m, F, C)
<1>1. \A p \in Node : m.members[p].last_seen \in Nat
  BY DEF Sound, ChatMessage, RoomMember
<1>2. QED
  BY <1>1 DEF Sound, Seen, Known

LEMMA AboutIsFinite ==
    ASSUME NEW notes \in Seq(ChatNotification), NEW r
    PROVE  IsFiniteSet(About(notes, r)) /\ Cardinality(About(notes, r)) \in Nat
<1>1. DOMAIN notes = 1..Len(notes) /\ Len(notes) \in Nat
  BY LenProperties
<1>2. IsFiniteSet(1..Len(notes))
  BY <1>1, FS_Interval
<1>3. About(notes, r) \in SUBSET (1..Len(notes))
  BY <1>1 DEF About
<1>4. IsFiniteSet(About(notes, r))
  BY <1>2, <1>3, FS_Subset
<1>5. QED
  BY <1>4, FS_CardinalityType

-----------------------------------------------------------------------------
(* Notifications. *)

\* Appending adds at most the new notification.
LEMMA AppendAbout ==
    ASSUME NEW notes \in Seq(ChatNotification), NEW k \in ChatNotification, NEW r \in Room
    PROVE  /\ Append(notes, k) \in Seq(ChatNotification)
           /\ Cardinality(About(Append(notes, k), r)) <=
                Cardinality(About(notes, r)) +
                    IF k.kind = "message.received" /\ k.room = r THEN 1 ELSE 0
<1> DEFINE all == Append(notes, k)
           last == Len(notes) + 1
<1>1. /\ all \in Seq(ChatNotification) /\ Len(all) = last /\ Len(notes) \in Nat
      /\ DOMAIN all = 1..last /\ DOMAIN notes = 1..Len(notes)
      /\ all[last] = k /\ \A i \in 1..Len(notes) : all[i] = notes[i]
  BY LenProperties
<1>2. IsFiniteSet(About(notes, r)) /\ Cardinality(About(notes, r)) \in Nat
  BY AboutIsFinite
<1> HIDE DEF all, last
<1>3. CASE k.kind = "message.received" /\ k.room = r
  <2>1. About(all, r) \in SUBSET (About(notes, r) \cup {last})
    BY <1>1 DEF About, last
  <2>2. /\ IsFiniteSet(About(notes, r) \cup {last})
        /\ Cardinality(About(notes, r) \cup {last}) <= Cardinality(About(notes, r)) + 1
    BY <1>2, FS_AddElement
  <2>3. /\ Cardinality(About(all, r)) <= Cardinality(About(notes, r) \cup {last})
        /\ Cardinality(About(all, r)) \in Nat
        /\ Cardinality(About(notes, r) \cup {last}) \in Nat
    BY <1>1, <2>1, <2>2, FS_Subset, FS_CardinalityType, AboutIsFinite
  <2>4. QED
    BY <1>1, <1>2, <1>3, <2>2, <2>3 DEF all
<1>4. CASE ~(k.kind = "message.received" /\ k.room = r)
  <2>1. About(all, r) \in SUBSET About(notes, r)
    BY <1>1, <1>4 DEF About, last
  <2>2. Cardinality(About(all, r)) <= Cardinality(About(notes, r))
    BY <1>2, <2>1, FS_Subset
  <2>3. QED
    BY <1>1, <1>2, <1>4, <2>2 DEF all
<1>5. QED
  BY <1>3, <1>4

\* Dropping the oldest adds none.
LEMMA SuffixAbout ==
    ASSUME NEW all \in Seq(ChatNotification), NEW over \in Nat, over <= Len(all), NEW r \in Room
    PROVE  /\ SubSeq(all, over + 1, Len(all)) \in Seq(ChatNotification)
           /\ Cardinality(About(SubSeq(all, over + 1, Len(all)), r)) <=
                Cardinality(About(all, r))
<1> DEFINE sub == SubSeq(all, over + 1, Len(all))
           shift == [i \in About(sub, r) |-> i + over]
<1>1. Len(all) \in Nat /\ DOMAIN all = 1..Len(all)
  BY LenProperties
<1>2. /\ sub \in Seq(ChatNotification) /\ Len(sub) = Len(all) - over
      /\ DOMAIN sub = 1..(Len(all) - over)
      /\ \A i \in 1..(Len(all) - over) : sub[i] = all[i + over]
  <2>1. \A i \in (over + 1)..Len(all) : all[i] \in ChatNotification
    BY <1>1, ElementOfSeq
  <2>2. /\ sub \in Seq(ChatNotification)
        /\ Len(sub) = IF over + 1 <= Len(all) THEN Len(all) - (over + 1) + 1 ELSE 0
        /\ \A i \in 1..(Len(all) - (over + 1) + 1) : sub[i] = all[over + 1 + i - 1]
    BY <1>1, <2>1, SubSeqProperties
  <2> HIDE DEF sub
  <2>3. Len(sub) = Len(all) - over /\ DOMAIN sub = 1..Len(sub)
    <3>1. DOMAIN sub = 1..Len(sub)
      BY <2>2, LenProperties
    <3>2. Len(sub) = Len(all) - over
      <4> DEFINE L == Len(all)
      <4>1. L \in Nat /\ over <= L /\ Len(sub) = IF over + 1 <= L THEN L - (over + 1) + 1 ELSE 0
        BY <1>1, <2>2
      <4> HIDE DEF L
      <4>2. (IF over + 1 <= L THEN L - (over + 1) + 1 ELSE 0) = L - over
        BY <4>1
      <4>3. QED
        BY <4>1, <4>2 DEF L
    <3>3. QED
      BY <3>1, <3>2
  <2>4. ASSUME NEW i \in 1..(Len(all) - over) PROVE sub[i] = all[i + over]
    <3>1. i \in 1..(Len(all) - (over + 1) + 1) /\ over + 1 + i - 1 = i + over
      BY <1>1
    <3>2. QED
      BY <2>2, <3>1
  <2>5. QED
    BY <2>2, <2>3, <2>4
<1> HIDE DEF sub
<1>3. \A i \in About(sub, r) : i \in Nat /\ i + over \in About(all, r)
  BY <1>1, <1>2 DEF About
<1>4. shift \in Injection(About(sub, r), About(all, r))
  <2>1. shift \in [About(sub, r) -> About(all, r)]
    BY <1>3
  <2>2. \A i, j \in About(sub, r) : shift[i] = shift[j] => i = j
    BY <1>3
  <2>3. QED
    BY <2>1, <2>2 DEF Injection, IsInjective
<1>5. Cardinality(About(sub, r)) <= Cardinality(About(all, r))
  BY <1>4, FS_Injection, AboutIsFinite
<1>6. QED
  BY <1>2, <1>5 DEF sub

LEMMA PushKeeps ==
    ASSUME NEW s \in ChatState, NEW r \in Room,
           NEW k \in {"room.join", "room.leave", "room.peer-join", "room.peer-leave",
                      "message.received"}
    PROVE  /\ push_notification(s, k, r) \in ChatState
           /\ push_notification(s, k, r).joined = s.joined
           /\ push_notification(s, k, r).members = s.members
           /\ push_notification(s, k, r).received = s.received
           /\ \A q \in Room :
                Cardinality(About(push_notification(s, k, r).notifications, q)) <=
                    Cardinality(About(s.notifications, q)) +
                        IF k = "message.received" /\ q = r THEN 1 ELSE 0
<1> DEFINE note == [kind |-> k, room |-> r, unread |-> TRUE]
           all == Append(s.notifications, note)
           over == IF Len(all) > NotificationLimit THEN Len(all) - NotificationLimit ELSE 0
           sub == SubSeq(all, over + 1, Len(all))
           t == push_notification(s, k, r)
<1>1. note \in ChatNotification /\ s.notifications \in Seq(ChatNotification)
  BY DEF ChatNotification, ChatState
<1>2. all \in Seq(ChatNotification) /\ Len(all) \in Nat
  BY <1>1
<1>3. over \in Nat /\ over <= Len(all)
  BY <1>2, ChatRoomsAssumption
<1>4. t = [s EXCEPT !.notifications = sub]
  BY DEF push_notification
<1>5. note.kind = k /\ note.room = r
  OBVIOUS
<1> HIDE DEF over, t, all, note
<1>6. sub \in Seq(ChatNotification)
  BY <1>2, <1>3
<1>7. ASSUME NEW q \in Room
      PROVE  Cardinality(About(sub, q)) <=
                 Cardinality(About(s.notifications, q)) +
                     IF k = "message.received" /\ q = r THEN 1 ELSE 0
  <2>1. Cardinality(About(sub, q)) <= Cardinality(About(all, q))
    BY <1>2, <1>3, SuffixAbout
  <2>2. Cardinality(About(all, q)) <=
            Cardinality(About(s.notifications, q)) +
                IF note.kind = "message.received" /\ note.room = q THEN 1 ELSE 0
    BY <1>1, AppendAbout DEF all
  <2>3. /\ Cardinality(About(sub, q)) \in Nat /\ Cardinality(About(all, q)) \in Nat
        /\ Cardinality(About(s.notifications, q)) \in Nat
    BY <1>1, <1>2, <1>6, AboutIsFinite
  <2>4. QED
    BY <1>5, <2>1, <2>2, <2>3
<1> HIDE DEF sub
<1>8. t \in ChatState /\ t.notifications = sub
  BY <1>4, <1>6 DEF ChatState
<1>9. t.joined = s.joined /\ t.members = s.members /\ t.received = s.received
  BY <1>4 DEF ChatState
<1>10. QED
  BY <1>7, <1>8, <1>9 DEF t

\* A notification that is not about a message.
LEMMA PushIsGood ==
    ASSUME NEW n \in Node, NEW s, NEW E, NEW B, Good(n, s, E, B), NEW r \in Room,
           NEW k \in {"room.join", "room.leave", "room.peer-join", "room.peer-leave"}
    PROVE  /\ Good(n, push_notification(s, k, r), E, B)
           /\ push_notification(s, k, r).joined = s.joined
           /\ push_notification(s, k, r).received = s.received
           /\ push_notification(s, k, r).members = s.members
<1> DEFINE t == push_notification(s, k, r)
<1>1. s \in ChatState
  BY DEF Good
<1>2. /\ t \in ChatState /\ t.joined = s.joined /\ t.members = s.members
      /\ t.received = s.received
      /\ \A q \in Room :
           Cardinality(About(t.notifications, q)) <=
               Cardinality(About(s.notifications, q)) +
                   IF k = "message.received" /\ q = r THEN 1 ELSE 0
  <2>1. k \in {"room.join", "room.leave", "room.peer-join", "room.peer-leave",
                "message.received"}
    OBVIOUS
  <2>2. QED
    BY <1>1, <2>1, PushKeeps
<1> HIDE DEF t
<1>3. Counted(t)
  <2> SUFFICES ASSUME NEW q \in Room
               PROVE  Cardinality(About(t.notifications, q)) <= t.received[q]
    BY DEF Counted
  <2>1. s.notifications \in Seq(ChatNotification) /\ t.notifications \in Seq(ChatNotification)
    BY <1>1, <1>2 DEF ChatState
  <2>2. /\ Cardinality(About(t.notifications, q)) \in Nat
        /\ Cardinality(About(s.notifications, q)) \in Nat /\ s.received[q] \in Nat
    BY <1>1, <2>1, AboutIsFinite DEF ChatState
  <2>3. QED
    BY <1>2, <2>2 DEF Good, Counted
<1>4. QED
  BY <1>2, <1>3 DEF Good, t

-----------------------------------------------------------------------------
(* The other operations on the state of one node. *)

\* s with its member lists replaced.
LEMMA MembersReplaced ==
    ASSUME NEW n \in Node, NEW s, NEW E, NEW B \in Nat, Good(n, s, E, B),
           NEW members \in [Room -> [Node -> RoomMember]],
           \A r \in Room : Seen(members[r], B) /\ Known(members[r], r, E)
    PROVE  /\ Good(n, [s EXCEPT !.members = members], E, B)
           /\ [s EXCEPT !.members = members].joined = s.joined
           /\ [s EXCEPT !.members = members].received = s.received
           /\ [s EXCEPT !.members = members].members = members
           /\ [s EXCEPT !.members = members].notifications = s.notifications
<1> DEFINE t == [s EXCEPT !.members = members]
<1>1. s \in ChatState
  BY DEF Good
<1>2. /\ t \in ChatState /\ t.joined = s.joined /\ t.received = s.received
      /\ t.notifications = s.notifications /\ t.members = members
  BY <1>1 DEF ChatState
<1> HIDE DEF t
<1>3. Counted(t)
  BY <1>2 DEF Good, Counted
<1>4. QED
  BY <1>2, <1>3 DEF Good, t

LEMMA UpsertIsGood ==
    ASSUME NEW n \in Node, NEW s, NEW E, NEW B \in Nat, Good(n, s, E, B),
           NEW r \in Room, NEW p \in Node, NEW joined \in BOOLEAN,
           NEW now \in Nat, now <= B, joined => <<p, r>> \in E
    PROVE  /\ Good(n, upsert_room_member(s, r, p, joined, now), E, B)
           /\ upsert_room_member(s, r, p, joined, now).joined = s.joined
           /\ upsert_room_member(s, r, p, joined, now).received = s.received
           /\ upsert_room_member(s, r, p, joined, now).notifications = s.notifications
<1> DEFINE member == [presence |-> IF joined THEN "ONLINE" ELSE "OFFLINE", last_seen |-> now]
           list == [s.members[r] EXCEPT ![p] = member]
           new == [s.members EXCEPT ![r] = list]
<1>1. s \in ChatState /\ s.members \in [Room -> [Node -> RoomMember]]
  BY DEF Good, ChatState
<1>2. /\ member \in RoomMember /\ member.last_seen <= B
      /\ member.presence = "ONLINE" => <<p, r>> \in E
  BY DEF RoomMember
<1>3. upsert_room_member(s, r, p, joined, now) = [s EXCEPT !.members = new]
  BY <1>1 DEF upsert_room_member, ChatState
<1> HIDE DEF member
<1>4. list \in [Node -> RoomMember] /\ Seen(list, B) /\ Known(list, r, E)
  BY <1>1, <1>2 DEF Good, Seen, Known
<1> HIDE DEF list
<1>5. new \in [Room -> [Node -> RoomMember]]
  BY <1>1, <1>4
<1>6. \A q \in Room : Seen(new[q], B) /\ Known(new[q], q, E)
  BY <1>1, <1>4 DEF Good
<1> HIDE DEF new
<1>7. QED
  BY <1>3, <1>5, <1>6, MembersReplaced

LEMMA MergeIsGood ==
    ASSUME NEW n \in Node, NEW s, NEW E, NEW B \in Nat, Good(n, s, E, B), NEW r \in Room,
           NEW members \in [Node -> RoomMember], Seen(members, B), Known(members, r, E)
    PROVE  /\ Good(n, merge_room_snapshot(s, r, members), E, B)
           /\ merge_room_snapshot(s, r, members).joined = s.joined
           /\ merge_room_snapshot(s, r, members).received = s.received
<1> DEFINE list == [p \in Node |->
                       IF members[p] # Absent
                          /\ (s.members[r][p] = Absent
                               \/ members[p].last_seen >= s.members[r][p].last_seen)
                       THEN members[p] ELSE s.members[r][p]]
           new == [s.members EXCEPT ![r] = list]
<1>1. s \in ChatState /\ s.members \in [Room -> [Node -> RoomMember]]
  BY DEF Good, ChatState
<1>2. merge_room_snapshot(s, r, members) = [s EXCEPT !.members = new]
  BY <1>1 DEF merge_room_snapshot, ChatState
<1>3. \A p \in Node : list[p] = members[p] \/ list[p] = s.members[r][p]
  OBVIOUS
<1>4. list = [p \in Node |-> list[p]]
  OBVIOUS
<1> HIDE DEF list
<1>5. list \in [Node -> RoomMember] /\ Seen(list, B) /\ Known(list, r, E)
  <2>1. list \in [Node -> RoomMember]
    BY <1>1, <1>3, <1>4
  <2>2. Seen(list, B) /\ Known(list, r, E)
    BY <1>3 DEF Good, Seen, Known
  <2>3. QED
    BY <2>1, <2>2
<1>6. new \in [Room -> [Node -> RoomMember]]
  BY <1>1, <1>5
<1>7. \A q \in Room : Seen(new[q], B) /\ Known(new[q], q, E)
  BY <1>1, <1>5 DEF Good
<1> HIDE DEF new
<1>8. QED
  BY <1>2, <1>6, <1>7, MembersReplaced

LEMMA JoinedIsGood ==
    ASSUME NEW n \in Node, NEW s, NEW E, NEW B, Good(n, s, E, B), NEW r \in Room,
           NEW joined \in BOOLEAN, joined => <<n, r>> \in E
    PROVE  /\ Good(n, set_local_room_joined(s, r, joined), E, B)
           /\ set_local_room_joined(s, r, joined).received = s.received
           /\ joined => r \in set_local_room_joined(s, r, joined).joined
<1> DEFINE t == set_local_room_joined(s, r, joined)
           rest == s.joined \ {r}
<1>1. s \in ChatState /\ s.joined \subseteq Room /\ s.current_room \in Room \cup {NoRoom}
  BY DEF Good, ChatState
<1>2. /\ t \in ChatState /\ t.received = s.received /\ t.members = s.members
      /\ t.notifications = s.notifications
      /\ t.joined \subseteq s.joined \cup (IF joined THEN {r} ELSE {})
      /\ joined => r \in t.joined
  <2>1. CASE joined
    <3>1. t = [s EXCEPT !.joined = s.joined \cup {r}, !.current_room = r]
      BY <1>1, <2>1 DEF set_local_room_joined, ChatState
    <3> HIDE DEF t
    <3>2. QED
      BY <1>1, <2>1, <3>1 DEF ChatState
  <2>2. CASE ~joined
    <3> DEFINE current == IF s.current_room # r THEN s.current_room
                          ELSE IF rest = {} THEN NoRoom
                          ELSE CHOOSE other \in rest : TRUE
    <3>1. t = [s EXCEPT !.joined = rest, !.current_room = current]
      BY <1>1, <2>2 DEF set_local_room_joined, ChatState
    <3>2. current \in Room \cup {NoRoom}
      BY <1>1
    <3> HIDE DEF t, current
    <3>3. QED
      BY <1>1, <2>2, <3>1, <3>2 DEF ChatState
  <2>3. QED
    BY <2>1, <2>2
<1> HIDE DEF t
<1>3. Counted(t)
  BY <1>2 DEF Good, Counted
<1>4. QED
  BY <1>2, <1>3 DEF Good, t

LEMMA ReadIsGood ==
    ASSUME NEW n \in Node, NEW s, NEW E, NEW B, Good(n, s, E, B), NEW room \in Room \cup {NoRoom}
    PROVE  /\ Good(n, mark_inbox_read(s, room), E, B)
           /\ mark_inbox_read(s, room).joined = s.joined
           /\ mark_inbox_read(s, room).received = s.received
<1> DEFINE t == mark_inbox_read(s, room)
<1>1. s \in ChatState /\ s.unread \in [Room -> Nat]
  BY DEF Good, ChatState
<1>2. /\ t \in ChatState /\ t.received = s.received /\ t.members = s.members
      /\ t.notifications = s.notifications /\ t.joined = s.joined
  <2> DEFINE unread == [r \in Room |-> IF Concerns(room, r) THEN 0 ELSE s.unread[r]]
  <2>1. t = [s EXCEPT !.unread = unread] /\ unread \in [Room -> Nat]
    BY <1>1 DEF mark_inbox_read, ChatState
  <2> HIDE DEF t, unread
  <2>2. QED
    BY <1>1, <2>1 DEF ChatState
<1> HIDE DEF t
<1>3. Counted(t)
  BY <1>2 DEF Good, Counted
<1>4. QED
  BY <1>2, <1>3 DEF Good, t

LEMMA NotedIsGood ==
    ASSUME NEW n \in Node, NEW s, NEW E, NEW B, Good(n, s, E, B), NEW room \in Room \cup {NoRoom}
    PROVE  /\ Good(n, mark_notifications_read(s, room), E, B)
           /\ mark_notifications_read(s, room).joined = s.joined
           /\ mark_notifications_read(s, room).received = s.received
<1> DEFINE t == mark_notifications_read(s, room)
           notes == [i \in DOMAIN s.notifications |->
                        IF Concerns(room, s.notifications[i].room)
                        THEN [s.notifications[i] EXCEPT !.unread = FALSE]
                        ELSE s.notifications[i]]
<1>1. s \in ChatState /\ s.notifications \in Seq(ChatNotification)
  BY DEF Good, ChatState
<1>2. /\ Len(s.notifications) \in Nat /\ DOMAIN s.notifications = 1..Len(s.notifications)
      /\ \A i \in DOMAIN s.notifications : s.notifications[i] \in ChatNotification
  BY <1>1, LenProperties, ElementOfSeq
<1>3. \A i \in DOMAIN s.notifications :
         /\ notes[i] \in ChatNotification
         /\ notes[i].kind = s.notifications[i].kind
         /\ notes[i].room = s.notifications[i].room
  BY <1>2 DEF ChatNotification
<1>4. notes = [i \in 1..Len(s.notifications) |-> notes[i]]
  BY <1>2
<1>5. t = [s EXCEPT !.notifications = notes]
  BY <1>1 DEF mark_notifications_read, ChatState
<1> HIDE DEF notes, t
<1>6. notes \in [1..Len(s.notifications) -> ChatNotification]
  BY <1>2, <1>3, <1>4
<1>7. notes \in Seq(ChatNotification) /\ DOMAIN notes = DOMAIN s.notifications
  BY <1>2, <1>6, SeqDef
<1>8. \A r \in Room : About(notes, r) = About(s.notifications, r)
  BY <1>3, <1>7 DEF About
<1>9. /\ t \in ChatState /\ t.received = s.received /\ t.members = s.members
      /\ t.notifications = notes /\ t.joined = s.joined
  BY <1>1, <1>5, <1>7 DEF ChatState
<1>10. Counted(t)
  BY <1>8, <1>9 DEF Good, Counted
<1>11. QED
  BY <1>9, <1>10 DEF Good, t

LEMMA CurrentIsGood ==
    ASSUME NEW n \in Node, NEW s, NEW E, NEW B, Good(n, s, E, B), NEW r \in Room
    PROVE  /\ Good(n, set_current_room(s, r), E, B)
           /\ set_current_room(s, r).received = s.received
           /\ set_current_room(s, r).members = s.members
<1> DEFINE t == set_current_room(s, r)
<1>1. s \in ChatState
  BY DEF Good
<1>2. /\ t \in ChatState /\ t.received = s.received /\ t.members = s.members
      /\ t.notifications = s.notifications /\ t.joined = s.joined
  BY <1>1 DEF ChatState, set_current_room
<1> HIDE DEF t
<1>3. Counted(t)
  BY <1>2 DEF Good, Counted
<1>4. QED
  BY <1>2, <1>3 DEF Good, t

-----------------------------------------------------------------------------
(* What handlers publish. *)

LEMMA EventsAreSound ==
    ASSUME NEW n \in Node, NEW r \in Room, NEW E, NEW B \in Nat,
           NEW kind \in {"join", "leave"}, kind = "join" => <<n, r>> \in E
    PROVE  \A m \in RoomMembershipEvent(n, r, kind) : Sound(m, E, B)
<1> SUFFICES ASSUME NEW q \in Node
             PROVE  Sound(Message(kind, n, q, r, NoMembers), E, B)
  BY DEF RoomMembershipEvent
<1> DEFINE m == Message(kind, n, q, r, NoMembers)
<1>1. /\ m.kind = kind /\ m.from = n /\ m.to = q /\ m.room = r /\ m.members = NoMembers
      /\ m = [kind |-> kind, from |-> n, to |-> q, room |-> r, members |-> NoMembers]
  BY DEF Message
<1> HIDE DEF m
<1>2. NoMembers \in [Node -> RoomMember] /\ Seen(NoMembers, B) /\ Known(NoMembers, r, E)
  BY DEF NoMembers, Absent, RoomMember, Seen, Known
<1>3. m \in ChatMessage
  BY <1>1, <1>2 DEF ChatMessage, Kind
<1>4. QED
  BY <1>1, <1>2, <1>3 DEF Sound, m

LEMMA SnapshotsAreSound ==
    ASSUME NEW n \in Node, NEW r \in Room, NEW E, NEW B, NEW k, NEW s, Good(k, s, E, B)
    PROVE  \A m \in RoomStateSnapshot(n, s, r) : Sound(m, E, B)
<1> SUFFICES ASSUME NEW q \in Node
             PROVE  Sound(Message("snapshot", n, q, r, s.members[r]), E, B)
  BY DEF RoomStateSnapshot
<1> DEFINE m == Message("snapshot", n, q, r, s.members[r])
<1>1. /\ m.kind = "snapshot" /\ m.from = n /\ m.to = q /\ m.room = r
      /\ m.members = s.members[r]
      /\ m = [kind |-> "snapshot", from |-> n, to |-> q, room |-> r, members |-> s.members[r]]
  BY DEF Message
<1> HIDE DEF m
<1>2. s.members[r] \in [Node -> RoomMember] /\ Seen(s.members[r], B) /\ Known(s.members[r], r, E)
  BY DEF Good, ChatState
<1>3. m \in ChatMessage
  BY <1>1, <1>2 DEF ChatMessage, Kind
<1>4. QED
  BY <1>1, <1>2, <1>3 DEF Sound, m

\* Who gets a room message is shown online, so has been in the room.
LEMMA RoomMessagesAreSound ==
    ASSUME NEW n \in Node, NEW r \in Room, NEW E, NEW B \in Nat, NEW s, Good(n, s, E, B),
           <<n, r>> \in E
    PROVE  \A q \in room_recipients(n, s, r) : Sound(Message("message", n, q, r, NoMembers), E, B)
<1> SUFFICES ASSUME NEW q \in room_recipients(n, s, r)
             PROVE  Sound(Message("message", n, q, r, NoMembers), E, B)
  OBVIOUS
<1> DEFINE m == Message("message", n, q, r, NoMembers)
<1>1. /\ m.kind = "message" /\ m.from = n /\ m.to = q /\ m.room = r /\ m.members = NoMembers
      /\ m = [kind |-> "message", from |-> n, to |-> q, room |-> r, members |-> NoMembers]
  BY DEF Message
<1> HIDE DEF m
<1>2. q \in Node /\ <<q, r>> \in E
  BY DEF room_recipients, Good, Known
<1>3. NoMembers \in [Node -> RoomMember] /\ Seen(NoMembers, B) /\ Known(NoMembers, r, E)
  BY DEF NoMembers, Absent, RoomMember, Seen, Known
<1>4. m \in ChatMessage
  BY <1>1, <1>2, <1>3 DEF ChatMessage, Kind
<1>5. QED
  BY <1>1, <1>2, <1>3, <1>4 DEF Sound, m

-----------------------------------------------------------------------------
(* The handlers. *)

LEMMA JoinedWorks ==
    ASSUME NEW n \in Node, NEW s, NEW E, NEW B \in Nat, Good(n, s, E, B), NEW r \in Room,
           NEW now \in Nat, now <= B, <<n, r>> \in E
    PROVE  Effect(n, s, Joined(n, s, r, now), E, B)
<1> DEFINE in == TRUE
           local == set_local_room_joined(s, r, in)
           entered == IF r \in s.joined THEN s ELSE upsert_room_member(local, r, n, in, now)
           pushed == push_notification(entered, "room.join", r)
           e == Joined(n, s, r, now)
<1>1. e = [state |-> pushed,
           out |-> RoomMembershipEvent(n, r, "join") \cup RoomStateSnapshot(n, entered, r)]
  BY DEF Joined
<1>2. in \in BOOLEAN /\ (in => <<n, r>> \in E)
  OBVIOUS
<1> HIDE DEF in, e
<1>3. Good(n, local, E, B) /\ local.received = s.received
  BY <1>2, JoinedIsGood
<1> HIDE DEF local
<1>4. Good(n, entered, E, B) /\ entered.received = s.received
  <2>1. /\ Good(n, upsert_room_member(local, r, n, in, now), E, B)
        /\ upsert_room_member(local, r, n, in, now).received = local.received
    BY <1>2, <1>3, UpsertIsGood
  <2>2. QED
    BY <1>3, <2>1
<1> HIDE DEF entered
<1>5. Good(n, pushed, E, B) /\ pushed.received = entered.received
  BY <1>4, PushIsGood
<1> HIDE DEF pushed
<1>6. e.state = pushed
      /\ e.out = RoomMembershipEvent(n, r, "join") \cup RoomStateSnapshot(n, entered, r)
  BY <1>1
<1>7. \A m \in RoomMembershipEvent(n, r, "join") : Sound(m, E, B)
  BY EventsAreSound
<1>8. \A m \in RoomStateSnapshot(n, entered, r) : Sound(m, E, B)
  BY <1>4, SnapshotsAreSound
<1>9. \A q \in Room : s.received[q] <= pushed.received[q]
  BY <1>4, <1>5 DEF Good, ChatState
<1>10. QED
  BY <1>5, <1>6, <1>7, <1>8, <1>9 DEF Effect, e

LEMMA LeftWorks ==
    ASSUME NEW n \in Node, NEW s, NEW E, NEW B \in Nat, Good(n, s, E, B), NEW r \in Room,
           NEW now \in Nat, now <= B
    PROVE  Effect(n, s, Left(n, s, r, now), E, B)
<1> DEFINE in == FALSE
           local == set_local_room_joined(s, r, in)
           gone == upsert_room_member(local, r, n, in, now)
           pushed == push_notification(gone, "room.leave", r)
           e == Left(n, s, r, now)
<1>1. e = [state |-> pushed, out |-> RoomMembershipEvent(n, r, "leave")]
  BY DEF Left
<1>2. in \in BOOLEAN /\ (in => <<n, r>> \in E)
  OBVIOUS
<1> HIDE DEF in, e
<1>3. Good(n, local, E, B) /\ local.received = s.received
  BY <1>2, JoinedIsGood
<1> HIDE DEF local
<1>4. Good(n, gone, E, B) /\ gone.received = local.received
  BY <1>2, <1>3, UpsertIsGood
<1> HIDE DEF gone
<1>5. Good(n, pushed, E, B) /\ pushed.received = gone.received
  BY <1>4, PushIsGood
<1> HIDE DEF pushed
<1>6. e.state = pushed /\ e.out = RoomMembershipEvent(n, r, "leave")
  BY <1>1
<1>7. \A m \in RoomMembershipEvent(n, r, "leave") : Sound(m, E, B)
  BY EventsAreSound
<1>8. \A q \in Room : s.received[q] <= pushed.received[q]
  BY <1>3, <1>4, <1>5 DEF Good, ChatState
<1>9. QED
  BY <1>5, <1>6, <1>7, <1>8 DEF Effect, e

\* A command; who joins or writes to a room is in E.
LEMMA CommandWorks ==
    ASSUME NEW n \in Node, NEW s, NEW E, NEW B \in Nat, Good(n, s, E, B),
           NEW c \in ChatLocalCommand, NEW now \in Nat, now <= B,
           c.op \in {"Join", "SendRoom"} => <<n, c.room>> \in E
    PROVE  Effect(n, s, process_chat_command(n, s, c, now), E, B)
<1> DEFINE e == process_chat_command(n, s, c, now)
<1>1. /\ c.op \in {"Join", "Leave", "SendRoom", "SwitchRoom", "MarkRead"}
      /\ c.room \in Room \cup {NoRoom}
      /\ c.op # "MarkRead" => c.room \in Room
  BY ChatRoomsAssumption DEF ChatLocalCommand
<1>2. \A q \in Room : s.received[q] <= s.received[q]
  BY DEF Good, ChatState
<1>3. CASE c.op = "Join"
  <2>1. e = Joined(n, s, c.room, now)
    BY <1>3 DEF process_chat_command
  <2> HIDE DEF e
  <2>2. Effect(n, s, Joined(n, s, c.room, now), E, B)
    BY <1>1, <1>3, JoinedWorks
  <2>3. QED
    BY <2>1, <2>2 DEF e
<1>4. CASE c.op = "Leave"
  <2>1. e = Left(n, s, c.room, now)
    BY <1>4 DEF process_chat_command
  <2> HIDE DEF e
  <2>2. Effect(n, s, Left(n, s, c.room, now), E, B)
    BY <1>1, <1>4, LeftWorks
  <2>3. QED
    BY <2>1, <2>2 DEF e
<1>5. CASE c.op = "SendRoom"
  <2> DEFINE t == set_current_room(s, c.room)
             out == {Message("message", n, q, c.room, NoMembers) :
                        q \in room_recipients(n, s, c.room)}
  <2>1. e.state = t /\ e.out = out
    <3>1. e = [state |-> t, out |-> out]
      BY <1>5 DEF process_chat_command
    <3> HIDE DEF e, t, out
    <3>2. QED
      BY <3>1
  <2>2. Good(n, t, E, B) /\ t.received = s.received
    BY <1>1, <1>5, CurrentIsGood
  <2> HIDE DEF t, e
  <2>3. \A m \in out : Sound(m, E, B)
    BY <1>1, <1>5, RoomMessagesAreSound
  <2>4. QED
    BY <1>2, <2>1, <2>2, <2>3 DEF Effect, e
<1>6. CASE c.op = "SwitchRoom"
  <2> DEFINE t == set_current_room(s, c.room)
             u == mark_inbox_read(t, c.room)
             v == mark_notifications_read(u, c.room)
  <2>1. e.state = v /\ e.out = {}
    BY <1>6 DEF process_chat_command
  <2>2. Good(n, t, E, B) /\ t.received = s.received
    BY <1>1, <1>6, CurrentIsGood
  <2> HIDE DEF t, e
  <2>3. Good(n, u, E, B) /\ u.received = t.received
    BY <1>1, <2>2, ReadIsGood
  <2> HIDE DEF u
  <2>4. Good(n, v, E, B) /\ v.received = u.received
    BY <1>1, <2>3, NotedIsGood
  <2> HIDE DEF v
  <2>5. QED
    BY <1>2, <2>1, <2>2, <2>3, <2>4 DEF Effect, e
<1>7. CASE c.op = "MarkRead"
  <2> DEFINE u == mark_inbox_read(s, c.room)
             v == mark_notifications_read(u, c.room)
  <2>1. e.state = v /\ e.out = {}
    BY <1>7 DEF process_chat_command
  <2>2. Good(n, u, E, B) /\ u.received = s.received
    BY <1>1, ReadIsGood
  <2> HIDE DEF u, e
  <2>3. Good(n, v, E, B) /\ v.received = u.received
    BY <1>1, <2>2, NotedIsGood
  <2> HIDE DEF v
  <2>4. QED
    BY <1>2, <2>1, <2>2, <2>3 DEF Effect, e
<1>8. QED
  BY <1>1, <1>3, <1>4, <1>5, <1>6, <1>7

\* A heartbeat shows its node as online where it has joined.
LEMMA SyncWorks ==
    ASSUME NEW n \in Node, NEW s, NEW E, NEW B \in Nat, Good(n, s, E, B),
           NEW now \in Nat, now <= B
    PROVE  /\ Effect(n, s, build_room_sync_actions(n, s, now), E, B)
           /\ build_room_sync_actions(n, s, now).state.joined = s.joined
<1> DEFINE in == TRUE
           members == [r \in Room |-> IF r \in s.joined
                                      THEN upsert_room_member(s, r, n, in, now).members[r]
                                      ELSE s.members[r]]
           shown == [s EXCEPT !.members = members]
           out == UNION {RoomStateSnapshot(n, shown, r) : r \in s.joined}
           e == build_room_sync_actions(n, s, now)
<1>1. e.state = shown /\ e.out = out
  <2>1. shown = [s EXCEPT !.members =
                    [r \in Room |-> IF r \in s.joined
                                    THEN upsert_room_member(s, r, n, TRUE, now).members[r]
                                    ELSE @[r]]]
    BY DEF Good, ChatState
  <2>2. e = [state |-> shown, out |-> out]
    BY <2>1 DEF build_room_sync_actions
  <2> HIDE DEF e, shown, out
  <2>3. QED
    BY <2>2
<1>2. in \in BOOLEAN /\ s.joined \subseteq Room
  BY DEF Good, ChatState
<1>3. \A r \in s.joined : in => <<n, r>> \in E
  BY DEF Good
<1> HIDE DEF in, e
<1>4. ASSUME NEW r \in Room
      PROVE  /\ members[r] \in [Node -> RoomMember]
             /\ Seen(members[r], B) /\ Known(members[r], r, E)
  <2>1. CASE r \in s.joined
    <3>1. Good(n, upsert_room_member(s, r, n, in, now), E, B)
      BY <1>2, <1>3, <2>1, UpsertIsGood
    <3>2. members[r] = upsert_room_member(s, r, n, in, now).members[r]
      BY <2>1
    <3>3. QED
      BY <3>1, <3>2 DEF Good, ChatState
  <2>2. CASE r \notin s.joined
    <3>1. members[r] = s.members[r]
      BY <2>2
    <3>2. QED
      BY <3>1 DEF Good, ChatState
  <2>3. QED
    BY <2>1, <2>2
<1>5. members = [r \in Room |-> members[r]]
  OBVIOUS
<1> HIDE DEF members
<1>6. members \in [Room -> [Node -> RoomMember]]
  BY <1>4, <1>5
<1>7. Good(n, shown, E, B) /\ shown.joined = s.joined /\ shown.received = s.received
  BY <1>4, <1>6, MembersReplaced
<1> HIDE DEF shown
<1>8. \A m \in out : Sound(m, E, B)
  <2> SUFFICES ASSUME NEW r \in s.joined, NEW m \in RoomStateSnapshot(n, shown, r)
               PROVE  Sound(m, E, B)
    OBVIOUS
  <2>1. r \in Room
    BY <1>2
  <2>2. QED
    BY <1>7, <2>1, SnapshotsAreSound
<1>9. \A q \in Room : s.received[q] <= shown.received[q]
  BY <1>7 DEF Good, ChatState
<1> HIDE DEF out
<1>10. QED
  BY <1>1, <1>7, <1>8, <1>9 DEF Effect, e

LEMMA MembershipWorks ==
    ASSUME NEW n \in Node, NEW s, NEW E, NEW B \in Nat, Good(n, s, E, B),
           NEW p \in Node, NEW r \in Room, NEW joined \in BOOLEAN, joined => <<p, r>> \in E,
           NEW now \in Nat, now <= B
    PROVE  /\ Effect(n, s, process_room_membership(n, s, p, r, joined, now), E, B)
           /\ process_room_membership(n, s, p, r, joined, now).state.joined = s.joined
<1> DEFINE listed == upsert_room_member(s, r, p, joined, now)
           kind == IF joined THEN "room.peer-join" ELSE "room.peer-leave"
           pushed == push_notification(listed, kind, r)
           state == IF r \in s.joined THEN pushed ELSE listed
           out == IF joined /\ r \in s.joined THEN RoomStateSnapshot(n, listed, r) ELSE {}
           e == process_room_membership(n, s, p, r, joined, now)
<1>1. e = [state |-> state, out |-> out]
  BY DEF process_room_membership
<1>2. Good(n, listed, E, B) /\ listed.joined = s.joined /\ listed.received = s.received
  BY UpsertIsGood
<1> HIDE DEF listed, kind, e
<1>3. Good(n, pushed, E, B) /\ pushed.joined = listed.joined /\ pushed.received = listed.received
  <2>1. CASE joined
    <3>1. kind = "room.peer-join"
      BY <2>1 DEF kind
    <3>2. QED
      BY <1>2, <3>1, PushIsGood
  <2>2. CASE ~joined
    <3>1. kind = "room.peer-leave"
      BY <2>2 DEF kind
    <3>2. QED
      BY <1>2, <3>1, PushIsGood
  <2>3. QED
    BY <2>1, <2>2
<1> HIDE DEF pushed
<1>5. Good(n, state, E, B) /\ state.joined = s.joined /\ state.received = s.received
  BY <1>2, <1>3
<1>6. \A m \in out : Sound(m, E, B)
  BY <1>2, SnapshotsAreSound
<1>7. \A q \in Room : s.received[q] <= state.received[q]
  BY <1>5 DEF Good, ChatState
<1> HIDE DEF state, out
<1>8. e.state = state /\ e.out = out
  BY <1>1
<1>9. QED
  BY <1>5, <1>6, <1>7, <1>8 DEF Effect, e

\* A room message: the inbox grows before the notification is made.
LEMMA MessageWorks ==
    ASSUME NEW n \in Node, NEW s, NEW E, NEW B \in Nat, Good(n, s, E, B),
           NEW p \in Node, NEW r \in Room, <<p, r>> \in E, <<n, r>> \in E,
           NEW now \in Nat, now <= B
    PROVE  /\ Effect(n, s, process_direct_message(s, p, r, now), E, B)
           /\ process_direct_message(s, p, r, now).state.joined = s.joined
<1> DEFINE in == TRUE
           none == {}
           received == [s.received EXCEPT ![r] = @ + 1]
           unread == [s.unread EXCEPT ![r] = @ + 1]
           stored == [s EXCEPT !.received = received, !.unread = unread]
           listed == upsert_room_member(stored, r, p, in, now)
           pushed == push_notification(listed, "message.received", r)
           e == process_direct_message(s, p, r, now)
<1>1. s \in ChatState /\ s.received \in [Room -> Nat] /\ s.unread \in [Room -> Nat]
  BY DEF Good, ChatState
<1>2. e = [state |-> pushed, out |-> none]
  <2>1. stored = [s EXCEPT !.received[r] = @ + 1, !.unread[r] = @ + 1]
    BY <1>1 DEF ChatState
  <2>2. QED
    BY <2>1 DEF process_direct_message
<1>3. in \in BOOLEAN /\ (in => <<p, r>> \in E)
  OBVIOUS
<1>4. /\ received \in [Room -> Nat] /\ unread \in [Room -> Nat]
      /\ received[r] = s.received[r] + 1
      /\ \A q \in Room \ {r} : received[q] = s.received[q]
  BY <1>1
<1> HIDE DEF in, received, unread, e, none
<1>5. /\ stored \in ChatState /\ stored.received = received /\ stored.members = s.members
      /\ stored.notifications = s.notifications /\ stored.joined = s.joined
  BY <1>1, <1>4 DEF ChatState
<1> HIDE DEF stored
<1>6. \A q \in Room : /\ Cardinality(About(s.notifications, q)) \in Nat
                      /\ Cardinality(About(s.notifications, q)) <= s.received[q]
                      /\ s.received[q] \in Nat /\ s.received[q] <= received[q]
  <2>1. s.notifications \in Seq(ChatNotification)
    BY <1>1 DEF ChatState
  <2>2. \A q \in Room : Cardinality(About(s.notifications, q)) \in Nat
    BY <2>1, AboutIsFinite
  <2>3. \A q \in Room : s.received[q] \in Nat /\ s.received[q] <= received[q]
    BY <1>1, <1>4
  <2>4. QED
    BY <2>2, <2>3 DEF Good, Counted
<1>7. Good(n, stored, E, B)
  <2>1. Counted(stored)
    BY <1>4, <1>5, <1>6 DEF Counted
  <2>2. \A q \in Room : received[q] > 0 => <<n, q>> \in E
    BY <1>4 DEF Good
  <2>3. QED
    BY <1>5, <2>1, <2>2 DEF Good
<1>8. /\ Good(n, listed, E, B) /\ listed.joined = s.joined /\ listed.received = received
      /\ listed.notifications = s.notifications
  BY <1>3, <1>5, <1>7, UpsertIsGood
<1> HIDE DEF listed
<1>9. /\ pushed \in ChatState /\ pushed.joined = s.joined /\ pushed.members = listed.members
      /\ pushed.received = received
      /\ \A q \in Room :
           Cardinality(About(pushed.notifications, q)) <=
               Cardinality(About(s.notifications, q)) +
                   IF "message.received" = "message.received" /\ q = r THEN 1 ELSE 0
  <2>1. listed \in ChatState
    BY <1>8 DEF Good
  <2>2. QED
    BY <1>8, <2>1, PushKeeps
<1> HIDE DEF pushed
<1>10. Counted(pushed)
  <2> SUFFICES ASSUME NEW q \in Room
               PROVE  Cardinality(About(pushed.notifications, q)) <= received[q]
    BY <1>9 DEF Counted
  <2>1. Cardinality(About(pushed.notifications, q)) \in Nat
    BY <1>9, AboutIsFinite DEF ChatState
  <2>2. CASE q = r
    BY <1>4, <1>6, <1>9, <2>1, <2>2
  <2>3. CASE q # r
    BY <1>4, <1>6, <1>9, <2>1, <2>3
  <2>4. QED
    BY <2>2, <2>3
<1>11. Good(n, pushed, E, B)
  BY <1>8, <1>9, <1>10 DEF Good
<1>12. e.state = pushed /\ e.out = {}
  BY <1>2 DEF none
<1>13. QED
  BY <1>6, <1>9, <1>11, <1>12 DEF Effect, e

LEMMA WireWorks ==
    ASSUME NEW n \in Node, NEW s, NEW E, NEW B \in Nat, Good(n, s, E, B),
           NEW m, Sound(m, E, B), m.to = n, NEW now \in Nat, now <= B
    PROVE  /\ Effect(n, s, handle_chat_wire_message(n, s, m, now), E, B)
           /\ handle_chat_wire_message(n, s, m, now).state.joined = s.joined
<1> DEFINE e == handle_chat_wire_message(n, s, m, now)
<1>1. /\ m.kind \in Kind /\ m.from \in Node /\ m.room \in Room
      /\ m.members \in [Node -> RoomMember]
      /\ Seen(m.members, B) /\ Known(m.members, m.room, E)
      /\ m.kind \in {"join", "message"} => <<m.from, m.room>> \in E
      /\ m.kind = "message" => <<n, m.room>> \in E
  BY DEF Sound, ChatMessage
<1>2. \A q \in Room : s.received[q] <= s.received[q]
  BY DEF Good, ChatState
<1>3. CASE m.kind = "message"
  <2>1. e = process_direct_message(s, m.from, m.room, now)
    BY <1>3 DEF handle_chat_wire_message
  <2> HIDE DEF e
  <2>2. <<m.from, m.room>> \in E /\ <<n, m.room>> \in E
    BY <1>1, <1>3
  <2> DEFINE d == process_direct_message(s, m.from, m.room, now)
  <2>3. Effect(n, s, d, E, B)
    BY <1>1, <2>2, MessageWorks
  <2>4. d.state.joined = s.joined
    BY <1>1, <2>2, MessageWorks
  <2> HIDE DEF d
  <2>5. Effect(n, s, e, E, B) /\ e.state.joined = s.joined
    BY <2>1, <2>3, <2>4 DEF d
  <2>6. QED
    BY <2>5 DEF e
<1>4. CASE m.kind # "message" /\ m.room \notin s.joined
  <2> DEFINE none == {}
  <2>1. e = [state |-> s, out |-> none]
    BY <1>4 DEF handle_chat_wire_message
  <2> HIDE DEF e, none
  <2>2. e.state = s /\ e.out = {}
    BY <2>1 DEF none
  <2>3. Effect(n, s, e, E, B) /\ e.state.joined = s.joined
    BY <1>2, <2>2 DEF Effect
  <2>4. QED
    BY <2>3 DEF e
<1>5. CASE m.kind = "snapshot" /\ m.room \in s.joined
  <2> DEFINE none == {}
             t == merge_room_snapshot(s, m.room, m.members)
  <2>1. e = [state |-> t, out |-> none]
    BY <1>5 DEF handle_chat_wire_message, process_room_state_snapshot
  <2> HIDE DEF e, none
  <2>2. Good(n, t, E, B) /\ t.joined = s.joined /\ t.received = s.received
    BY <1>1, MergeIsGood
  <2> HIDE DEF t
  <2>3. e.state = t /\ e.out = {}
    BY <2>1 DEF none
  <2>4. QED
    BY <1>2, <2>2, <2>3 DEF Effect, e
<1>6. CASE m.kind \in {"join", "leave"} /\ m.room \in s.joined
  <2> DEFINE joined == m.kind = "join"
  <2>1. e = process_room_membership(n, s, m.from, m.room, joined, now)
    BY <1>6 DEF handle_chat_wire_message
  <2>2. joined \in BOOLEAN /\ (joined => <<m.from, m.room>> \in E)
    BY <1>1
  <2> HIDE DEF e, joined
  <2>3. QED
    BY <1>1, <2>1, <2>2, MembershipWorks DEF e
<1>7. QED
  BY <1>1, <1>3, <1>4, <1>5, <1>6 DEF Kind

-----------------------------------------------------------------------------
(* A crash after `files' of the files. *)

\* The inbox is the first file, so no notification is saved without its message.
LEMMA PersistWorks ==
    ASSUME NEW n \in Node, NEW s, NEW t, NEW E, NEW B, Good(n, s, E, B), Good(n, t, E, B),
           \A r \in Room : s.received[r] <= t.received[r],
           NEW files \in 0..Files
    PROVE  /\ Good(n, persist(s, t, files), E, B)
           /\ persist(s, t, files).joined \in {s.joined, t.joined}
<1> DEFINE inbox == IF files >= 1
                    THEN [s EXCEPT !.received = t.received, !.unread = t.unread] ELSE s
           notes == IF files >= 2 THEN [inbox EXCEPT !.notifications = t.notifications]
                                  ELSE inbox
           u == persist(s, t, files)
<1>1. /\ s \in ChatState /\ s.notifications \in Seq(ChatNotification) /\ s.received \in [Room -> Nat]
      /\ t \in ChatState /\ t.notifications \in Seq(ChatNotification) /\ t.received \in [Room -> Nat]
      /\ t.unread \in [Room -> Nat]
  BY DEF Good, ChatState
<1>2. u = IF files = Files THEN t ELSE notes
  BY DEF persist
<1>3. files \in {0, 1, 2, 3}
  BY DEF Files
<1> HIDE DEF u
<1>4. Good(n, inbox, E, B) /\ inbox.joined = s.joined /\ (files >= 1 => inbox.received = t.received)
  <2>1. CASE files >= 1
    <3> DEFINE i == [s EXCEPT !.received = t.received, !.unread = t.unread]
    <3>1. inbox = i
      BY <2>1
    <3>2. /\ i \in ChatState /\ i.joined = s.joined /\ i.received = t.received
          /\ i.members = s.members /\ i.notifications = s.notifications
      BY <1>1 DEF ChatState
    <3> HIDE DEF i, inbox
    <3>3. Counted(i)
      <4> SUFFICES ASSUME NEW r \in Room
                   PROVE  Cardinality(About(s.notifications, r)) <= t.received[r]
        BY <3>2 DEF Counted
      <4>1. Cardinality(About(s.notifications, r)) \in Nat
        BY <1>1, AboutIsFinite
      <4>2. /\ Cardinality(About(s.notifications, r)) <= s.received[r]
            /\ s.received[r] \in Nat /\ t.received[r] \in Nat /\ s.received[r] <= t.received[r]
        BY <1>1 DEF Good, Counted
      <4>3. QED
        BY <4>1, <4>2
    <3>4. Good(n, i, E, B)
      BY <3>2, <3>3 DEF Good
    <3>5. QED
      BY <3>1, <3>2, <3>4
  <2>2. CASE ~(files >= 1)
    BY <2>2
  <2>3. QED
    BY <2>1, <2>2
<1> HIDE DEF inbox
<1>5. Good(n, notes, E, B) /\ notes.joined = s.joined
  <2>1. CASE files >= 2
    <3> DEFINE i == [inbox EXCEPT !.notifications = t.notifications]
    <3>1. notes = i
      BY <2>1
    <3>2. files >= 1
      BY <1>3, <2>1
    <3>3. inbox \in ChatState /\ inbox.received = t.received
      BY <1>4, <3>2 DEF Good
    <3>4. /\ i \in ChatState /\ i.joined = s.joined /\ i.received = t.received
          /\ i.members = inbox.members /\ i.notifications = t.notifications
      BY <1>1, <1>4, <3>3 DEF ChatState
    <3> HIDE DEF i, notes
    <3>5. Counted(i)
      BY <3>4 DEF Good, Counted
    <3>6. Good(n, i, E, B)
      BY <1>4, <3>3, <3>4, <3>5 DEF Good
    <3>7. QED
      BY <3>1, <3>4, <3>6
  <2>2. CASE ~(files >= 2)
    BY <1>4, <2>2
  <2>3. QED
    BY <2>1, <2>2
<1> HIDE DEF notes
<1>6. QED
  BY <1>2, <1>5 DEF u

-----------------------------------------------------------------------------
(* Renumbering keeps what is true of states and messages, for some bound.  *)

LEMMA StampsAreBounded ==
    ASSUME NEW c, NEW messages, NEW E, NEW B \in Nat,
           \A n \in Node : Good(n, c[n], E, B),
           \A m \in messages : Sound(m, E, B)
    PROVE  Stamps(c, messages) \in SUBSET (0..B)
<1>1. \A n \in Node, r \in Room :
         c[n].members[r] \in [Node -> RoomMember] /\ Seen(c[n].members[r], B)
  BY DEF Good, ChatState
<1>2. \A m \in messages : m.members \in [Node -> RoomMember] /\ Seen(m.members, B)
  BY DEF Sound, ChatMessage
<1> SUFFICES ASSUME NEW t \in Stamps(c, messages)
             PROVE  t \in Nat /\ t <= B
  OBVIOUS
<1>3. CASE t = 0
  BY <1>3
<1>4. CASE \E n \in Node, r \in Room : t \in StampsOf(c[n].members[r])
  BY <1>1, <1>4 DEF StampsOf, Seen, RoomMember
<1>5. CASE \E m \in messages : t \in StampsOf(m.members)
  BY <1>2, <1>5 DEF StampsOf, Seen, RoomMember
<1>6. QED
  BY <1>3, <1>4, <1>5 DEF Stamps

LEMMA RenumberedWorks ==
    ASSUME NEW c \in [Node -> ChatState], NEW messages, NEW E, NEW B \in Nat,
           \A n \in Node : Good(n, c[n], E, B),
           \A m \in messages : Sound(m, E, B),
           Renumbered(c, messages)
    PROVE  \E D \in Nat :
              /\ chat' \in [Node -> ChatState]
              /\ \A n \in Node : Good(n, chat'[n], E, D) /\ chat'[n].joined = c[n].joined
              /\ \A m \in net' : Sound(m, E, D)
<1> DEFINE used == Stamps(c, messages)
           below(t) == {u \in used : u < t}
           rank == [t \in used |-> Cardinality(below(t))]
           Renumber(members) == [p \in Node |-> [members[p] EXCEPT !.last_seen = rank[@]]]
           C == Cardinality(used)
           D == B + C
<1>1. /\ chat' = [n \in Node |->
                     [c[n] EXCEPT !.members = [r \in Room |-> Renumber(c[n].members[r])]]]
      /\ net' = {[m EXCEPT !.members = Renumber(m.members)] : m \in messages}
  BY DEF Renumbered
<1>2. \A n \in Node, r \in Room :
         /\ c[n].members[r] \in [Node -> RoomMember]
         /\ Seen(c[n].members[r], B) /\ Known(c[n].members[r], r, E)
         /\ StampsOf(c[n].members[r]) \subseteq used
  BY DEF Good, ChatState, Stamps
<1>3. \A m \in messages :
         /\ m \in ChatMessage /\ m.members \in [Node -> RoomMember]
         /\ Seen(m.members, B) /\ Known(m.members, m.room, E)
         /\ StampsOf(m.members) \subseteq used
  <2>1. ASSUME NEW m \in messages PROVE StampsOf(m.members) \subseteq used
    <3>1. StampsOf(m.members) \in {StampsOf(o.members) : o \in messages}
      OBVIOUS
    <3>2. QED
      BY <3>1 DEF Stamps
  <2> HIDE DEF used
  <2>2. QED
    BY <2>1 DEF Sound, ChatMessage
<1>4. used \in SUBSET (0..B)
  BY StampsAreBounded
<1>5. IsFiniteSet(used) /\ C \in Nat
  <2>1. IsFiniteSet(0..B)
    BY FS_Interval
  <2>2. QED
    BY <1>4, <2>1, FS_Subset, FS_CardinalityType
<1>6. D \in Nat /\ B <= D /\ C <= D
  BY <1>5
<1>7. \A t \in used : rank[t] \in Nat /\ rank[t] <= C
  <2> SUFFICES ASSUME NEW t \in used
               PROVE  rank[t] \in Nat /\ rank[t] <= C
    OBVIOUS
  <2>1. below(t) \in SUBSET used /\ rank[t] = Cardinality(below(t))
    OBVIOUS
  <2> HIDE DEF used, below, rank
  <2>2. QED
    BY <1>5, <2>1, FS_Subset, FS_CardinalityType
<1> HIDE DEF used, rank, C
<1>8. ASSUME NEW members \in [Node -> RoomMember], NEW r, Known(members, r, E),
             StampsOf(members) \subseteq used
      PROVE  /\ Renumber(members) \in [Node -> RoomMember]
             /\ Seen(Renumber(members), D) /\ Known(Renumber(members), r, E)
  <2>1. \A p \in Node : members[p].last_seen \in used
    BY <1>8 DEF StampsOf
  <2>2. \A p \in Node : /\ Renumber(members)[p] \in RoomMember
                        /\ Renumber(members)[p].presence = members[p].presence
                        /\ Renumber(members)[p].last_seen = rank[members[p].last_seen]
    BY <1>7, <2>1 DEF RoomMember
  <2>3. Renumber(members) = [p \in Node |-> Renumber(members)[p]]
    OBVIOUS
  <2> HIDE DEF Renumber, D
  <2>4. QED
    BY <1>5, <1>6, <1>7, <1>8, <2>1, <2>2, <2>3 DEF Seen, Known
<1> HIDE DEF Renumber, D
<1>9. ASSUME NEW n \in Node
      PROVE  Good(n, chat'[n], E, D) /\ chat'[n].joined = c[n].joined /\ chat'[n] \in ChatState
  <2> DEFINE members == [r \in Room |-> Renumber(c[n].members[r])]
             s == c[n]
  <2>1. chat'[n] = [s EXCEPT !.members = members]
    BY <1>1
  <2>2. \A r \in Room : /\ members[r] \in [Node -> RoomMember]
                        /\ Seen(members[r], D) /\ Known(members[r], r, E)
    BY <1>2, <1>8
  <2>3. members = [r \in Room |-> members[r]]
    OBVIOUS
  <2> HIDE DEF members
  <2>4. members \in [Room -> [Node -> RoomMember]]
    BY <2>2, <2>3
  <2>5. Good(n, s, E, D)
    BY <1>6, LaterIsGood
  <2> HIDE DEF s
  <2>6. Good(n, [s EXCEPT !.members = members], E, D) /\ [s EXCEPT !.members = members].joined = s.joined
    BY <1>6, <2>2, <2>4, <2>5, MembersReplaced
  <2>7. QED
    BY <2>1, <2>6 DEF s, Good
<1>10. ASSUME NEW m \in messages
       PROVE  Sound([m EXCEPT !.members = Renumber(m.members)], E, D)
  <2> DEFINE members == Renumber(m.members)
             o == [m EXCEPT !.members = members]
  <2>1. members \in [Node -> RoomMember] /\ Seen(members, D) /\ Known(members, m.room, E)
    BY <1>3, <1>8
  <2> HIDE DEF members
  <2>2. /\ o \in ChatMessage /\ o.members = members
        /\ o.kind = m.kind /\ o.from = m.from /\ o.to = m.to /\ o.room = m.room
    BY <1>3, <2>1 DEF ChatMessage
  <2> HIDE DEF o
  <2>3. Sound(o, E, D)
    BY <2>1, <2>2 DEF Sound
  <2>4. QED
    BY <2>3 DEF o, members
<1>11. chat' = [n \in Node |-> chat'[n]]
  BY <1>1
<1>12. chat' \in [Node -> ChatState]
  BY <1>9, <1>11
<1>13. \A m \in net' : Sound(m, E, D)
  BY <1>1, <1>10
<1>14. QED
  BY <1>6, <1>9, <1>12, <1>13

\* The end of a handler of n.
LEMMA FinishWorks ==
    ASSUME NEW n \in Node, NEW effect, NEW rest, NEW files \in 0..Files, NEW sent,
           NEW E, NEW B \in Nat, chat \in [Node -> ChatState],
           \A k \in Node : Good(k, chat[k], E, B),
           \A m \in rest : Sound(m, E, B),
           Effect(n, chat[n], effect, E, B),
           Finish(n, effect, rest, files, sent)
    PROVE  /\ \E D \in Nat :
                 /\ \A k \in Node : Good(k, chat'[k], E, D)
                 /\ \A m \in net' : Sound(m, E, D)
           /\ chat' \in [Node -> ChatState]
           /\ \A k \in Node : \/ chat'[k].joined = chat[k].joined
                              \/ k = n /\ chat'[k].joined = effect.state.joined
<1> DEFINE t == persist(chat[n], effect.state, files)
           c == [chat EXCEPT ![n] = t]
           messages == rest \cup (IF sent THEN Accepted(effect.out, rest) ELSE {})
<1>1. Renumbered(c, messages)
  BY DEF Finish
<1>2. Good(n, t, E, B) /\ t.joined \in {chat[n].joined, effect.state.joined}
  <2>1. Good(n, chat[n], E, B) /\ Good(n, effect.state, E, B)
    BY DEF Effect
  <2>2. \A r \in Room : chat[n].received[r] <= effect.state.received[r]
    BY DEF Effect
  <2>3. QED
    BY <2>1, <2>2, PersistWorks
<1> HIDE DEF t
<1>3. /\ \A k \in Node : Good(k, c[k], E, B)
      /\ c \in [Node -> ChatState] /\ c[n] = t /\ \A k \in Node \ {n} : c[k] = chat[k]
  BY <1>2 DEF Good
<1>4. \A m \in messages : Sound(m, E, B)
  BY DEF Accepted, Effect
<1> HIDE DEF c, messages
<1>5. \E D \in Nat :
         /\ chat' \in [Node -> ChatState]
         /\ \A k \in Node : Good(k, chat'[k], E, D) /\ chat'[k].joined = c[k].joined
         /\ \A m \in net' : Sound(m, E, D)
  BY <1>1, <1>3, <1>4, RenumberedWorks
<1>6. QED
  BY <1>2, <1>3, <1>5

-----------------------------------------------------------------------------
(* The invariant. *)

\* Some bound on the stamps, above which no message and no member list goes.
StatesAreGood ==
    \E B \in Nat :
        /\ \A n \in Node : Good(n, chat[n], everIn, B)
        /\ \A m \in net : Sound(m, everIn, B)

RoomsInv ==
    /\ chat \in [Node -> ChatState]
    /\ up \in [Node -> BOOLEAN]
    /\ drained \in [Node -> Nat]
    /\ crashes \in Nat
    /\ everIn \subseteq Node \X Room
    /\ StatesAreGood

\* What MembershipIsLocal says of a step.
JoinedByCommand ==
    \A n \in Node : chat'[n].joined # chat[n].joined => drained'[n] # drained[n]

LEMMA NowIsSoon ==
    ASSUME NEW B \in Nat, \A n \in Node : Good(n, chat[n], everIn, B),
           \A m \in net : Sound(m, everIn, B), NEW now \in Now
    PROVE  now \in Nat /\ now <= B + 1
<1>1. Stamps(chat, net) \in SUBSET (0..B)
  BY StampsAreBounded
<1>2. PICK last \in Stamps(chat, net) : now \in {last, last + 1}
  BY DEF Now
<1>3. QED
  BY <1>1, <1>2

\* A handler of n that leaves the rooms n has joined as they are.
LEMMA HandlerKeeps ==
    ASSUME RoomsInv, NEW n \in Node, NEW effect, NEW rest, NEW files \in 0..Files,
           NEW sent, NEW B \in Nat,
           \A k \in Node : Good(k, chat[k], everIn, B),
           \A m \in rest : Sound(m, everIn, B),
           Effect(n, chat[n], effect, everIn, B),
           effect.state.joined = chat[n].joined,
           Finish(n, effect, rest, files, sent),
           UNCHANGED <<up, drained, everIn>>
    PROVE  RoomsInv' /\ JoinedByCommand
<1>1. chat \in [Node -> ChatState] /\ crashes \in Nat
  BY DEF RoomsInv
<1>2. /\ \E D \in Nat :
            /\ \A k \in Node : Good(k, chat'[k], everIn, D)
            /\ \A m \in net' : Sound(m, everIn, D)
      /\ chat' \in [Node -> ChatState]
      /\ \A k \in Node : chat'[k].joined = chat[k].joined
  <2>1. /\ \E D \in Nat :
              /\ \A k \in Node : Good(k, chat'[k], everIn, D)
              /\ \A m \in net' : Sound(m, everIn, D)
        /\ chat' \in [Node -> ChatState]
        /\ \A k \in Node : \/ chat'[k].joined = chat[k].joined
                           \/ k = n /\ chat'[k].joined = effect.state.joined
    BY <1>1, FinishWorks
  <2>2. QED
    BY <2>1
<1>3. crashes' \in Nat
  BY <1>1 DEF Finish
<1>4. StatesAreGood'
  BY <1>2 DEF StatesAreGood
<1>5. QED
  BY <1>2, <1>3, <1>4 DEF RoomsInv, JoinedByCommand

LEMMA HeartbeatKeeps ==
    ASSUME RoomsInv, NEW n \in Node, NEW files \in 0..Files, NEW sent, NEW now \in Now,
           Heartbeat(n, files, sent, now)
    PROVE  RoomsInv' /\ JoinedByCommand
<1>1. PICK B \in Nat : /\ \A k \in Node : Good(k, chat[k], everIn, B)
                       /\ \A m \in net : Sound(m, everIn, B)
  BY DEF RoomsInv, StatesAreGood
<1>2. now \in Nat /\ now <= B + 1
  BY <1>1, NowIsSoon
<1>3. B + 1 \in Nat /\ B <= B + 1 /\ everIn \subseteq everIn
  OBVIOUS
<1>4. \A k \in Node : Good(k, chat[k], everIn, B + 1)
  BY <1>1, <1>3, LaterIsGood
<1>5. \A m \in net : Sound(m, everIn, B + 1)
  BY <1>1, <1>3, LaterIsSound
<1> DEFINE effect == build_room_sync_actions(n, chat[n], now)
<1>6. Effect(n, chat[n], effect, everIn, B + 1) /\ effect.state.joined = chat[n].joined
  BY <1>2, <1>3, <1>4, SyncWorks
<1>7. Finish(n, effect, net, files, sent) /\ UNCHANGED <<up, drained, everIn>>
  BY DEF Heartbeat
<1> HIDE DEF effect
<1>8. QED
  BY <1>3, <1>4, <1>5, <1>6, <1>7, HandlerKeeps

LEMMA DeliverKeeps ==
    ASSUME RoomsInv, NEW m \in net, NEW files \in 0..Files, NEW sent, NEW now \in Now,
           Deliver(m, files, sent, now)
    PROVE  RoomsInv' /\ JoinedByCommand
<1>1. PICK B \in Nat : /\ \A k \in Node : Good(k, chat[k], everIn, B)
                       /\ \A o \in net : Sound(o, everIn, B)
  BY DEF RoomsInv, StatesAreGood
<1>2. now \in Nat /\ now <= B + 1
  BY <1>1, NowIsSoon
<1>3. B + 1 \in Nat /\ B <= B + 1 /\ everIn \subseteq everIn
  OBVIOUS
<1>4. \A k \in Node : Good(k, chat[k], everIn, B + 1)
  BY <1>1, <1>3, LaterIsGood
<1>5. \A o \in net : Sound(o, everIn, B + 1)
  BY <1>1, <1>3, LaterIsSound
<1>6. m.to \in Node
  BY <1>5 DEF Sound, ChatMessage
<1> DEFINE n == m.to
           effect == handle_chat_wire_message(n, chat[n], m, now)
           rest == net \ {m}
<1>7. Effect(n, chat[n], effect, everIn, B + 1) /\ effect.state.joined = chat[n].joined
  BY <1>2, <1>3, <1>4, <1>5, <1>6, WireWorks
<1>8. Finish(n, effect, rest, files, sent) /\ UNCHANGED <<up, drained, everIn>>
  BY DEF Deliver
<1>9. \A o \in rest : Sound(o, everIn, B + 1)
  BY <1>5
<1> HIDE DEF effect, n, rest
<1>10. n \in Node
  BY <1>6 DEF n
<1>11. QED
  BY <1>3, <1>4, <1>7, <1>8, <1>9, <1>10, HandlerKeeps

\* Whether the heartbeat is due in the same tick or not.
LEMMA TickWorks ==
    ASSUME NEW n \in Node, NEW s, NEW E, NEW B \in Nat, Good(n, s, E, B),
           NEW c \in ChatLocalCommand, NEW now \in Nat, now <= B,
           c.op \in {"Join", "SendRoom"} => <<n, c.room>> \in E, NEW due \in BOOLEAN,
           NEW done, done = process_chat_command(n, s, c, now),
           NEW sync, sync = build_room_sync_actions(n, done.state, now)
    PROVE  Effect(n, s, IF due THEN [state |-> sync.state, out |-> done.out \cup sync.out]
                               ELSE done, E, B)
<1>1. Effect(n, s, done, E, B)
  BY CommandWorks
<1>2. Good(n, done.state, E, B)
  BY <1>1 DEF Effect
<1>3. Effect(n, done.state, sync, E, B)
  BY <1>2, SyncWorks
<1> DEFINE both == [state |-> sync.state, out |-> done.out \cup sync.out]
<1>4. both.state = sync.state /\ both.out = done.out \cup sync.out
  OBVIOUS
<1> HIDE DEF both
<1>5. \A q \in Room : s.received[q] <= sync.state.received[q]
  <2> SUFFICES ASSUME NEW q \in Room PROVE s.received[q] <= sync.state.received[q]
    OBVIOUS
  <2>1. s.received[q] \in Nat /\ done.state.received[q] \in Nat /\ sync.state.received[q] \in Nat
    BY <1>2, <1>3 DEF Effect, Good, ChatState
  <2>2. s.received[q] <= done.state.received[q] /\ done.state.received[q] <= sync.state.received[q]
    BY <1>1, <1>3 DEF Effect
  <2>3. QED
    BY <2>1, <2>2
<1>6. Effect(n, s, both, E, B)
  BY <1>1, <1>3, <1>4, <1>5 DEF Effect
<1>7. QED
  BY <1>1, <1>6 DEF both

LEMMA TickKeeps ==
    ASSUME RoomsInv, NEW n \in Node, NEW c \in ChatLocalCommand, NEW files \in 0..Files,
           NEW sent, NEW now \in Now, handle_chat_command_tick(n, c, files, sent, now)
    PROVE  RoomsInv' /\ JoinedByCommand
<1> DEFINE E == everIn'
<1>1. PICK B \in Nat : /\ \A k \in Node : Good(k, chat[k], everIn, B)
                       /\ \A m \in net : Sound(m, everIn, B)
  BY DEF RoomsInv, StatesAreGood
<1>2. now \in Nat /\ now <= B + 1
  BY <1>1, NowIsSoon
<1>3. B + 1 \in Nat /\ B <= B + 1
  OBVIOUS
<1>4. /\ everIn \subseteq E /\ E \subseteq Node \X Room
      /\ c.op \in {"Join", "SendRoom"} => <<n, c.room>> \in E
  <2>1. c.op \in {"Join", "SendRoom"} => c.room \in Room
    BY DEF ChatLocalCommand
  <2>2. E = IF c.op \in {"Join", "SendRoom"} THEN everIn \cup {<<n, c.room>>} ELSE everIn
    BY DEF handle_chat_command_tick
  <2> HIDE DEF E
  <2>3. everIn \subseteq Node \X Room
    BY DEF RoomsInv
  <2>4. QED
    BY <2>1, <2>2, <2>3
<1>5. /\ chat \in [Node -> ChatState] /\ up' \in [Node -> BOOLEAN] /\ crashes \in Nat
      /\ drained' \in [Node -> Nat] /\ drained'[n] # drained[n]
      /\ \A k \in Node : drained'[k] # drained[k] \/ k # n
  <2>1. /\ drained \in [Node -> Nat] /\ drained' = [drained EXCEPT ![n] = drained[n] + 1]
        /\ chat \in [Node -> ChatState] /\ crashes \in Nat /\ up \in [Node -> BOOLEAN] /\ up' = up
    BY DEF RoomsInv, handle_chat_command_tick
  <2>2. QED
    BY <2>1
<1> HIDE DEF E
<1>6. \A k \in Node : Good(k, chat[k], E, B + 1)
  BY <1>1, <1>3, <1>4, LaterIsGood
<1>7. \A m \in net : Sound(m, E, B + 1)
  BY <1>1, <1>3, <1>4, LaterIsSound
<1>8. PICK due \in BOOLEAN :
         LET done == process_chat_command(n, chat[n], c, now)
             sync == build_room_sync_actions(n, done.state, now)
         IN  Finish(n, IF due THEN [state |-> sync.state, out |-> done.out \cup sync.out]
                              ELSE done, net, files, sent)
  BY DEF handle_chat_command_tick
<1> DEFINE done == process_chat_command(n, chat[n], c, now)
           sync == build_room_sync_actions(n, done.state, now)
           effect == IF due THEN [state |-> sync.state, out |-> done.out \cup sync.out]
                            ELSE done
<1>9. Finish(n, effect, net, files, sent)
  BY <1>8
<1>10. Effect(n, chat[n], effect, E, B + 1)
  <2>1. Good(n, chat[n], E, B + 1)
    BY <1>6
  <2> DEFINE s == chat[n]
             C == B + 1
  <2> HIDE DEF s
  <2>2. Good(n, s, E, C) /\ C \in Nat /\ now \in Nat /\ now <= C
    BY <1>2, <1>3, <2>1 DEF s
  <2> HIDE DEF C
  <2>3. Effect(n, s, LET d == process_chat_command(n, s, c, now)
                         y == build_room_sync_actions(n, d.state, now)
                     IN  IF due THEN [state |-> y.state, out |-> d.out \cup y.out] ELSE d,
               E, C)
    BY <1>4, <2>2, TickWorks
  <2>4. QED
    BY <2>3 DEF s, C
<1> HIDE DEF effect
<1>11. /\ \E D \in Nat :
             /\ \A k \in Node : Good(k, chat'[k], E, D)
             /\ \A m \in net' : Sound(m, E, D)
       /\ chat' \in [Node -> ChatState]
       /\ \A k \in Node : \/ chat'[k].joined = chat[k].joined
                          \/ k = n /\ chat'[k].joined = effect.state.joined
  BY <1>3, <1>5, <1>6, <1>7, <1>9, <1>10, FinishWorks
<1>12. crashes' \in Nat
  BY <1>5, <1>9 DEF Finish
<1>13. StatesAreGood'
  BY <1>11 DEF StatesAreGood, E
<1>14. JoinedByCommand
  BY <1>5, <1>11 DEF JoinedByCommand
<1>15. QED
  BY <1>4, <1>5, <1>11, <1>12, <1>13, <1>14 DEF RoomsInv, E

LEMMA StopKeeps ==
    ASSUME RoomsInv, NEW n \in Node, Stop(n)
    PROVE  RoomsInv' /\ JoinedByCommand
<1>1. PICK B \in Nat : /\ \A k \in Node : Good(k, chat[k], everIn, B)
                       /\ \A m \in net : Sound(m, everIn, B)
  BY DEF RoomsInv, StatesAreGood
<1> DEFINE rest == {m \in net : m.to # n}
<1>2. \A m \in rest : Sound(m, everIn, B)
  BY <1>1
<1>3. /\ Renumbered(chat, rest) /\ up' = [up EXCEPT ![n] = FALSE]
      /\ UNCHANGED <<drained, crashes, everIn>>
  BY DEF Stop
<1> HIDE DEF rest
<1>4. chat \in [Node -> ChatState] /\ up' \in [Node -> BOOLEAN]
  BY <1>3 DEF RoomsInv
<1>5. \E D \in Nat :
         /\ chat' \in [Node -> ChatState]
         /\ \A k \in Node : Good(k, chat'[k], everIn, D) /\ chat'[k].joined = chat[k].joined
         /\ \A m \in net' : Sound(m, everIn, D)
  BY <1>1, <1>2, <1>3, <1>4, RenumberedWorks
<1>6. StatesAreGood'
  BY <1>3, <1>5 DEF StatesAreGood
<1>7. QED
  BY <1>3, <1>4, <1>5, <1>6 DEF RoomsInv, JoinedByCommand

LEMMA RoomsInit == Init => RoomsInv
<1> SUFFICES ASSUME Init PROVE RoomsInv
  OBVIOUS
<1> DEFINE none == {}
           s == [joined |-> none, current_room |-> NoRoom,
                 members |-> [r \in Room |-> NoMembers],
                 received |-> [r \in Room |-> 0], unread |-> [r \in Room |-> 0],
                 notifications |-> <<>>]
<1>1. chat = [n \in Node |-> s] /\ net = {} /\ everIn = {}
  BY DEF Init
<1>2. NoMembers \in [Node -> RoomMember] /\ Seen(NoMembers, 0)
      /\ \A r \in Room : Known(NoMembers, r, everIn)
  BY DEF NoMembers, Absent, RoomMember, Seen, Known
<1>3. none = {}
  OBVIOUS
<1> HIDE DEF none
<1>4. /\ s.joined = {} /\ s.notifications = <<>>
      /\ \A r \in Room : s.members[r] = NoMembers /\ s.received[r] = 0
      /\ s \in ChatState
  <2>1. /\ [r \in Room |-> NoMembers] \in [Room -> [Node -> RoomMember]]
        /\ [r \in Room |-> 0] \in [Room -> Nat] /\ <<>> \in Seq(ChatNotification)
    BY <1>2
  <2>2. QED
    BY <1>3, <2>1 DEF ChatState
<1> HIDE DEF s
<1>5. Counted(s)
  <2> SUFFICES ASSUME NEW r \in Room
               PROVE  Cardinality(About(s.notifications, r)) <= s.received[r]
    BY DEF Counted
  <2>1. About(s.notifications, r) = {}
    BY <1>4 DEF About
  <2>2. Cardinality(About(s.notifications, r)) = 0
    BY <2>1, FS_EmptySet
  <2>3. s.received[r] = 0
    BY <1>4
  <2>4. QED
    BY <2>2, <2>3
<1>6. \A n \in Node : Good(n, chat[n], everIn, 0)
  BY <1>1, <1>2, <1>4, <1>5 DEF Good
<1>7. StatesAreGood
  BY <1>1, <1>6 DEF StatesAreGood
<1>8. QED
  BY <1>1, <1>4, <1>7 DEF RoomsInv, Init

LEMMA RoomsStep == RoomsInv /\ [Next]_vars => RoomsInv' /\ JoinedByCommand
<1> SUFFICES ASSUME RoomsInv, [Next]_vars PROVE RoomsInv' /\ JoinedByCommand
  OBVIOUS
<1>1. ASSUME NEW files \in 0..Files, NEW sent \in BOOLEAN, NEW now \in Now,
             NEW n \in Node, NEW c \in ChatLocalCommand,
             handle_chat_command_tick(n, c, files, sent, now)
      PROVE  RoomsInv' /\ JoinedByCommand
  BY <1>1, TickKeeps
<1>2. ASSUME NEW files \in 0..Files, NEW sent \in BOOLEAN, NEW now \in Now,
             NEW n \in Node, Heartbeat(n, files, sent, now)
      PROVE  RoomsInv' /\ JoinedByCommand
  BY <1>2, HeartbeatKeeps
<1>3. ASSUME NEW files \in 0..Files, NEW sent \in BOOLEAN, NEW now \in Now,
             NEW m \in net, Deliver(m, files, sent, now)
      PROVE  RoomsInv' /\ JoinedByCommand
  BY <1>3, DeliverKeeps
<1>4. ASSUME NEW n \in Node, Stop(n)
      PROVE  RoomsInv' /\ JoinedByCommand
  BY <1>4, StopKeeps
<1>5. CASE UNCHANGED vars
  BY <1>5 DEF vars, RoomsInv, StatesAreGood, JoinedByCommand
<1>6. QED
  BY <1>1, <1>2, <1>3, <1>4, <1>5 DEF Next

LEMMA Rooms == Spec => []RoomsInv
<1>1. RoomsInv /\ [Next]_vars => RoomsInv'
  BY RoomsStep
<1>2. QED
  BY <1>1, RoomsInit, PTL DEF Spec

-----------------------------------------------------------------------------
(* The theorems. *)

\* The rooms, inbox and notifications of every node are well formed, whatever
\* is written, lost, overtaken or cut off by a crash.
THEOREM TypeCorrect == Spec => []TypeOK
<1>1. RoomsInv => TypeOK
  <2> SUFFICES ASSUME RoomsInv PROVE TypeOK
    OBVIOUS
  <2>1. net \subseteq ChatMessage
    BY DEF RoomsInv, StatesAreGood, Sound
  <2>2. QED
    BY <2>1 DEF RoomsInv, TypeOK, ChatMessage
<1>2. QED
  BY <1>1, Rooms, PTL

\* Every notification about a room message has its message in the inbox, since
\* persist writes inbox.json first and a handler counts before it notifies.
THEOREM NotificationsHaveMessages == Spec => []NotificationsBacked
<1>1. RoomsInv => NotificationsBacked
  <2> SUFFICES ASSUME RoomsInv, NEW n \in Node, NEW r \in Room
               PROVE  Cardinality(About(chat[n].notifications, r)) <= chat[n].received[r]
    BY DEF NotificationsBacked, About
  <2>1. QED
    BY DEF RoomsInv, StatesAreGood, Good, Counted
<1>2. QED
  BY <1>1, Rooms, PTL

\* A room message only reaches a node that has joined the room or written to
\* it: who is listed as online anywhere has been in the room.
THEOREM MessagesStayInRoom == Spec => []RoomMessagesStayInRoom
<1>1. RoomsInv => RoomMessagesStayInRoom
  BY DEF RoomsInv, StatesAreGood, Good, RoomMessagesStayInRoom
<1>2. QED
  BY <1>1, Rooms, PTL

\* Gossip, heartbeats and crashes leave the rooms a node has joined to the
\* commands of its own operator.
THEOREM MembershipStaysLocal == Spec => MembershipIsLocal
<1>1. RoomsInv /\ [Next]_vars => [JoinedByCommand]_vars
  BY RoomsStep
<1>2. QED
  BY <1>1, Rooms, PTL DEF Spec, MembershipIsLocal, JoinedByCommand

=============================================================================
