------------------------------ MODULE ChatRooms ------------------------------
(***************************************************************************)
(* Chat rooms: who is in a room and who is shown as online, the room       *)
(* messages and the notifications about them.                              *)
(* core/transport/src/node.rs drains the room commands, answers the room   *)
(* gossip and sends a heartbeat snapshot every two seconds;                *)
(* apps/void-chat/src/lib.rs keeps rooms.json, inbox.json and              *)
(* notifications.json, which a handler writes one after the other.         *)
(*                                                                         *)
(* A session between two peers is taken for granted (module ChatSession):  *)
(* a room message is on its way until it is delivered or lost.  The event  *)
(* history, texts, and signatures are left out; an id is never used twice, *)
(* so the replay check lets every message of `net' through once.           *)
(* Times are only ever compared, so the model renumbers them: Renumbered.  *)
(***************************************************************************)
EXTENDS Naturals, Sequences, FiniteSets

CONSTANTS
    Node,               \* the nodes, which are also the members of rooms
    Room,               \* the rooms
    NoRoom,             \* current_room is None
    NotificationLimit,  \* CHAT_NOTIFICATION_LIMIT
    Operations,         \* bound: the kinds of commands the operators give
    MaxCommands,        \* bound: room commands drained by each node
    MaxCrashes,         \* bound: crashes in the middle of a handler
    MaxInFlight,        \* bound: messages on their way at a time
    MayStop             \* bound: the nodes that may stop for good

ASSUME ChatRoomsAssumption ==
    /\ NoRoom \notin Room
    /\ NotificationLimit \in Nat
    /\ Operations \subseteq {"Join", "Leave", "SendRoom", "SwitchRoom", "MarkRead"}
    /\ MaxCommands \in [Node -> Nat]
    /\ MaxCrashes \in Nat
    /\ MaxInFlight \in Nat
    /\ MayStop \subseteq Node

VARIABLES
    chat,      \* chat[n]: rooms, inbox and notifications of n, in memory and saved
    up,        \* up[n]: n's process runs
    net,       \* room gossip and room messages on their way
    drained,   \* drained[n]: room commands n has drained
    crashes,   \* crashes in the middle of a handler so far
    everIn     \* auxiliary: who has ever joined a room or written to it

vars == <<chat, up, net, drained, crashes, everIn>>

-----------------------------------------------------------------------------
(* Values.                                                                 *)

RoomMember == [presence : {"ABSENT", "ONLINE", "OFFLINE"}, last_seen : Nat]

Absent == [presence |-> "ABSENT", last_seen |-> 0]

ChatNotification ==
    [kind : {"room.join", "room.leave", "room.peer-join", "room.peer-leave",
             "message.received"},
     room : Room, unread : BOOLEAN]

ChatState ==
    [joined : SUBSET Room,                        \* joined_rooms and the joined flags
     current_room : Room \cup {NoRoom},
     members : [Room -> [Node -> RoomMember]],
     received : [Room -> Nat],                    \* inbox entries from others
     unread : [Room -> Nat],                      \* those that are unread
     notifications : Seq(ChatNotification)]

ChatLocalCommand ==
    {c \in [op : Operations, room : Room \cup {NoRoom}] :
        c.room = NoRoom => c.op = "MarkRead"}

(***************************************************************************)
(* Messages.  `kind' tells a membership event from a snapshot and from the *)
(* room message that goes to one recipient.  What gossipsub accepts may be *)
(* slow and overtaken, and what it does not accept is lost.                *)
(***************************************************************************)
NoMembers == [p \in Node |-> Absent]

Message(kind, n, q, r, members) ==
    [kind |-> kind, from |-> n, to |-> q, room |-> r, members |-> members]

RoomMembershipEvent(n, r, kind) ==
    {Message(kind, n, q, r, NoMembers) : q \in Node \ {n}}

RoomStateSnapshot(n, s, r) ==
    {Message("snapshot", n, q, r, s.members[r]) : q \in Node \ {n}}

InTheWay(m) ==
    {o \in net : o.kind = m.kind /\ o.from = m.from /\ o.to = m.to /\ o.room = m.room}

\* What gossipsub may take of what a handler publishes, besides nothing.
Accepted(out, others) ==
    LET taken == {m \in out : up[m.to] /\ InTheWay(m) = {}}
    IN  IF Cardinality(others) + Cardinality(taken) <= MaxInFlight THEN taken ELSE {}

-----------------------------------------------------------------------------
(* Operations of apps/void-chat/src/lib.rs on the state of one node.       *)

upsert_room_member(s, r, p, joined, now) ==
    [s EXCEPT !.members[r][p] =
        [presence |-> IF joined THEN "ONLINE" ELSE "OFFLINE", last_seen |-> now]]

set_local_room_joined(s, r, joined) ==
    LET rest == s.joined \ {r}
    IN  IF joined
        THEN [s EXCEPT !.joined = @ \cup {r}, !.current_room = r]
        ELSE [s EXCEPT !.joined = rest,
                       !.current_room = IF @ # r THEN @
                                        ELSE IF rest = {} THEN NoRoom
                                        ELSE CHOOSE other \in rest : TRUE]

set_current_room(s, r) == [s EXCEPT !.current_room = r]

push_notification(s, kind, r) ==
    LET all  == Append(s.notifications, [kind |-> kind, room |-> r, unread |-> TRUE])
        over == IF Len(all) > NotificationLimit THEN Len(all) - NotificationLimit ELSE 0
    IN  [s EXCEPT !.notifications = SubSeq(all, over + 1, Len(all))]

Concerns(room, r) == room = NoRoom \/ room = r

mark_inbox_read(s, room) ==
    [s EXCEPT !.unread = [r \in Room |-> IF Concerns(room, r) THEN 0 ELSE @[r]]]

mark_notifications_read(s, room) ==
    [s EXCEPT !.notifications =
        [i \in DOMAIN @ |-> IF Concerns(room, @[i].room)
                            THEN [@[i] EXCEPT !.unread = FALSE] ELSE @[i]]]

\* Fault: the merge also copies the sender's membership flag, which is unset.
MergeWithFlag(s, r, members) ==
    [s EXCEPT !.joined = @ \ {r},
              !.members[r] = [p \in Node |-> IF members[p].last_seen >= @[p].last_seen
                                             THEN members[p] ELSE @[p]]]

merge_room_snapshot(s, r, members) ==
    [s EXCEPT !.members[r] =
        [p \in Node |->
            IF members[p] # Absent
                /\ (@[p] = Absent \/ members[p].last_seen >= @[p].last_seen)
            THEN members[p] ELSE @[p]]]

-----------------------------------------------------------------------------
(* Handlers of core/transport/src/node.rs: the new state and what they     *)
(* publish.                                                                *)

\* Fault: whoever is listed gets the message, offline or not.
RecipientsListed(n, s, r) == {p \in Node \ {n} : s.members[r][p] # Absent}

room_recipients(n, s, r) == {p \in Node \ {n} : s.members[r][p].presence = "ONLINE"}

Joined(n, s, r, now) ==
    LET entered == IF r \in s.joined THEN s
                   ELSE upsert_room_member(set_local_room_joined(s, r, TRUE), r, n, TRUE, now)
    IN  [state |-> push_notification(entered, "room.join", r),
         out   |-> RoomMembershipEvent(n, r, "join") \cup RoomStateSnapshot(n, entered, r)]

Left(n, s, r, now) ==
    [state |-> push_notification(
                   upsert_room_member(set_local_room_joined(s, r, FALSE), r, n, FALSE, now),
                   "room.leave", r),
     out   |-> RoomMembershipEvent(n, r, "leave")]

process_chat_command(n, s, c, now) ==
    CASE c.op = "Join"  -> Joined(n, s, c.room, now)
      [] c.op = "Leave" -> Left(n, s, c.room, now)
      [] c.op = "SendRoom" ->
           [state |-> set_current_room(s, c.room),
            out   |-> {Message("message", n, q, c.room, NoMembers) :
                          q \in room_recipients(n, s, c.room)}]
      [] c.op = "SwitchRoom" ->
           [state |-> mark_notifications_read(
                          mark_inbox_read(set_current_room(s, c.room), c.room), c.room),
            out   |-> {}]
      [] c.op = "MarkRead" ->
           [state |-> mark_notifications_read(mark_inbox_read(s, c.room), c.room),
            out   |-> {}]

\* Fault: a heartbeat tells what the node has without showing itself as online.
HeartbeatWithoutSelf(n, s, now) ==
    [state |-> s, out |-> UNION {RoomStateSnapshot(n, s, r) : r \in s.joined}]

build_room_sync_actions(n, s, now) ==
    LET shown == [s EXCEPT !.members =
                     [r \in Room |-> IF r \in s.joined
                                     THEN upsert_room_member(s, r, n, TRUE, now).members[r]
                                     ELSE @[r]]]
    IN  [state |-> shown, out |-> UNION {RoomStateSnapshot(n, shown, r) : r \in s.joined}]

process_room_membership(n, s, p, r, joined, now) ==
    LET listed == upsert_room_member(s, r, p, joined, now)
    IN  [state |-> IF r \in s.joined
                   THEN push_notification(listed,
                            IF joined THEN "room.peer-join" ELSE "room.peer-leave", r)
                   ELSE listed,
         out   |-> IF joined /\ r \in s.joined THEN RoomStateSnapshot(n, listed, r) ELSE {}]

process_room_state_snapshot(s, r, members) ==
    [state |-> merge_room_snapshot(s, r, members), out |-> {}]

\* Fault: the notification carries the name of the room event.
MessageNotifiedAsEvent(s, p, r, now) ==
    [state |-> push_notification(
                   upsert_room_member([s EXCEPT !.received[r] = @ + 1, !.unread[r] = @ + 1],
                                      r, p, TRUE, now),
                   "room.message", r),
     out   |-> {}]

process_direct_message(s, p, r, now) ==
    [state |-> push_notification(
                   upsert_room_member([s EXCEPT !.received[r] = @ + 1, !.unread[r] = @ + 1],
                                      r, p, TRUE, now),
                   "message.received", r),
     out   |-> {}]

handle_chat_wire_message(n, s, m, now) ==
    LET subscribed == m.room \in s.joined
    IN  CASE m.kind = "message" -> process_direct_message(s, m.from, m.room, now)
          [] m.kind # "message" /\ ~subscribed -> [state |-> s, out |-> {}]
          [] m.kind = "snapshot" /\ subscribed ->
               process_room_state_snapshot(s, m.room, m.members)
          [] OTHER -> process_room_membership(n, s, m.from, m.room, m.kind = "join", now)

(***************************************************************************)
(* ChatRuntimeState::persist writes inbox.json, notifications.json and     *)
(* rooms.json in that order.  A crash after `files' of them leaves the     *)
(* rest as they were, and the restarted node loads what is on disk.        *)
(***************************************************************************)
Files == 3

\* Fault: the notifications are written before the inbox.
PersistNotificationsFirst(old, new, files) ==
    LET n1 == IF files >= 1 THEN [old EXCEPT !.notifications = new.notifications] ELSE old
        n2 == IF files >= 2 THEN [n1 EXCEPT !.received = new.received, !.unread = new.unread]
                            ELSE n1
    IN  IF files = Files THEN new ELSE n2

persist(old, new, files) ==
    LET inbox == IF files >= 1
                 THEN [old EXCEPT !.received = new.received, !.unread = new.unread] ELSE old
        notes == IF files >= 2 THEN [inbox EXCEPT !.notifications = new.notifications]
                               ELSE inbox
    IN  IF files = Files THEN new ELSE notes

-----------------------------------------------------------------------------
(* Time.  A step happens at the latest time in use or after it.  It ends   *)
(* by renumbering the stamps in use, which keeps their order.              *)

StampsOf(members) == {members[p].last_seen : p \in Node}

Stamps(c, messages) ==
    {0} \cup UNION ({StampsOf(c[n].members[r]) : n \in Node, r \in Room}
                      \cup {StampsOf(m.members) : m \in messages})

Now == LET used == Stamps(chat, net)
       IN  UNION {{last, last + 1} : last \in {t \in used : \A u \in used : u <= t}}

Later == Now \ Stamps(chat, net)

Renumbered(c, messages) ==
    LET used == Stamps(c, messages)
        rank == [t \in used |-> Cardinality({u \in used : u < t})]
        Renumber(members) == [p \in Node |-> [members[p] EXCEPT !.last_seen = rank[@]]]
    IN  /\ chat' = [n \in Node |->
                       [c[n] EXCEPT !.members = [r \in Room |-> Renumber(@[r])]]]
        /\ net' = {[m EXCEPT !.members = Renumber(@)] : m \in messages}

\* The end of a handler of n: publish, save, and a crash when not all is saved.
Finish(n, effect, rest, files, sent) ==
    /\ files < Files => crashes < MaxCrashes
    /\ sent => Accepted(effect.out, rest) # {}
    /\ crashes' = IF files < Files THEN crashes + 1 ELSE crashes
    /\ Renumbered([chat EXCEPT ![n] = persist(@, effect.state, files)],
                  rest \cup (IF sent THEN Accepted(effect.out, rest) ELSE {}))

-----------------------------------------------------------------------------
(* Actions.                                                                *)

Init ==
    /\ chat = [n \in Node |->
                  [joined |-> {}, current_room |-> NoRoom,
                   members |-> [r \in Room |-> NoMembers],
                   received |-> [r \in Room |-> 0], unread |-> [r \in Room |-> 0],
                   notifications |-> <<>>]]
    /\ up = [n \in Node |-> TRUE]
    /\ net = {}
    /\ drained = [n \in Node |-> 0]
    /\ crashes = 0
    /\ everIn = {}

\* A tick that drains a command, and after it the heartbeat when that is due.
handle_chat_command_tick(n, c, files, sent, now) ==
    /\ up[n]
    /\ drained[n] < MaxCommands[n]
    /\ drained' = [drained EXCEPT ![n] = @ + 1]
    /\ everIn' = IF c.op \in {"Join", "SendRoom"} THEN everIn \cup {<<n, c.room>>} ELSE everIn
    /\ \E due \in BOOLEAN :
         LET done == process_chat_command(n, chat[n], c, now)
             sync == build_room_sync_actions(n, done.state, now)
         IN  Finish(n, IF due THEN [state |-> sync.state, out |-> done.out \cup sync.out]
                              ELSE done, net, files, sent)
    /\ UNCHANGED up

\* A tick with no command when the two seconds are over.
Heartbeat(n, files, sent, now) ==
    /\ up[n]
    /\ chat[n].joined # {}
    /\ Finish(n, build_room_sync_actions(n, chat[n], now), net, files, sent)
    /\ UNCHANGED <<up, drained, everIn>>

Deliver(m, files, sent, now) ==
    /\ up[m.to]
    /\ Finish(m.to, handle_chat_wire_message(m.to, chat[m.to], m, now), net \ {m}, files, sent)
    /\ UNCHANGED <<up, drained, everIn>>

\* The operator ends the process, or the machine goes away.
Stop(n) ==
    /\ up[n]
    /\ n \in MayStop
    /\ up' = [up EXCEPT ![n] = FALSE]
    /\ Renumbered(chat, {m \in net : m.to # n})
    /\ UNCHANGED <<drained, crashes, everIn>>

Kind == {"join", "leave", "snapshot", "message"}

Next ==
    \/ \E files \in 0..Files, sent \in BOOLEAN, now \in Now :
         \/ \E n \in Node, c \in ChatLocalCommand :
               handle_chat_command_tick(n, c, files, sent, now)
         \/ \E n \in Node : Heartbeat(n, files, sent, now)
         \/ \E m \in net : Deliver(m, files, sent, now)
    \/ \E n \in Node : Stop(n)

Spec == Init /\ [][Next]_vars

(***************************************************************************)
(* The select! loop runs its tick every 250 ms while the process lives, so *)
(* a later heartbeat is made now and then and goes out if anybody is there *)
(* to hear it; what gossipsub has accepted it delivers.                    *)
(***************************************************************************)
Alone(n) == \A q \in Node \ {n} : ~up[q]

HeartbeatGoesOut(n) == \E now \in Later : Heartbeat(n, Files, ~Alone(n), now)

DeliverTo(n) ==
    \E m \in net, sent \in BOOLEAN, now \in Now : m.to = n /\ Deliver(m, Files, sent, now)

FairSpec ==
    /\ Spec
    /\ \A n \in Node : SF_vars(HeartbeatGoesOut(n)) /\ WF_vars(DeliverTo(n))

-----------------------------------------------------------------------------
(* Properties.                                                             *)

Shows(n, p, r) == chat[n].members[r][p].presence

\* Every node holds a well-formed rooms, inbox and notifications state.
TypeOK ==
    /\ chat \in [Node -> ChatState]
    /\ up \in [Node -> BOOLEAN]
    /\ net \subseteq [kind : Kind, from : Node, to : Node, room : Room,
                      members : [Node -> RoomMember]]
    /\ drained \in [Node -> Nat]
    /\ crashes \in Nat
    /\ everIn \subseteq Node \X Room

\* A notification about a room message always has its message in the inbox,
\* through crashes between two files of persist (node.rs 1867).
NotificationsBacked ==
    \A n \in Node, r \in Room :
        LET about == {i \in DOMAIN chat[n].notifications :
                         /\ chat[n].notifications[i].kind = "message.received"
                         /\ chat[n].notifications[i].room = r}
        IN  Cardinality(about) <= chat[n].received[r]

\* A room message only ever reaches a node that joined the room or wrote to it
\* once: snapshots from others and merges of them invent no recipient.
RoomMessagesStayInRoom ==
    \A n \in Node, r \in Room : chat[n].received[r] > 0 => <<n, r>> \in everIn

\* Only the node's own command changes which rooms it has joined: no gossip
\* from others and no crash in the middle of handling it does.
MembershipIsLocal ==
    [][\A n \in Node : chat'[n].joined # chat[n].joined => drained'[n] # drained[n]]_vars

\* Of two running nodes that stay in a room, each comes to show the other and
\* itself as online and keeps doing so, whatever was lost, late or overwritten
\* before.
JoinedIsShown ==
    \A n, p \in Node, r \in Room :
        <>[](/\ up[n] /\ up[p]
             /\ r \in chat[n].joined \cap chat[p].joined)
            => <>[](Shows(n, p, r) = "ONLINE")

=============================================================================
