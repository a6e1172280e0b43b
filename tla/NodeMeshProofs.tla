--------------------------- MODULE NodeMeshProofs ---------------------------
(***************************************************************************)
(* Proofs that the invariants of NodeMesh hold for every set of peers,     *)
(* partition threshold and number of connections.  TypeOK and              *)
(* PartitionIsAgreed are inductive and AttemptIsTracked is beside TypeOK;  *)
(* ShownLinksAreOpen needs that libp2p asks connected relays only.         *)
(***************************************************************************)
EXTENDS NodeMesh, TLAPS

-----------------------------------------------------------------------------
(* What observe_failure does to the records.                               *)

\* A failure keeps the count and the states within their types.
LEMMA FailureType ==
    ASSUME TypeOK, NEW Fs, observe_failure(Fs)
    PROVE  /\ state' \in [Peer -> PeerConnectionState \cup {NoRecord}]
           /\ failures' \in [Peer -> 0..QuarantineAt]
  BY DEF TypeOK, observe_failure, Bumped, Punished, PeerConnectionState, NoRecord, QuarantineAt

\* A failure makes no peer active.
LEMMA FailureActivatesNobody ==
    ASSUME TypeOK, NEW Fs, observe_failure(Fs)
    PROVE  Active' \subseteq Active
  BY DEF TypeOK, observe_failure, Bumped, Punished, Active, NoRecord

-----------------------------------------------------------------------------
(* Type correctness.                                                       *)

\* The initial state is well typed.
LEMMA TypeInit == Init => TypeOK
<1> SUFFICES ASSUME Init PROVE TypeOK
  OBVIOUS
<1>1. silence \in 0..PartitionAfter /\ known_dial_addrs \in SUBSET Peer
  BY NodeMeshAssumption DEF Init
<1>2. failures \in [Peer -> 0..QuarantineAt]
  BY DEF Init, QuarantineAt
<1>3. /\ state \in [Peer -> PeerConnectionState \cup {NoRecord}]
      /\ path \in [Peer -> {"Unknown", "Direct", "Relay"}]
      /\ conns \in [Peer -> [Kind -> Nat]]
  BY DEF Init
<1>4. /\ boot \in [Bootstrap -> BootstrapState]
      /\ relay \in [Bootstrap -> RelayReservationState]
  BY DEF Init, BootstrapState, RelayReservationState
<1>5. QED
  BY <1>1, <1>2, <1>3, <1>4 DEF Init, TypeOK, NodeLifecycleState, MeshState

\* Every event a peer causes keeps the types.
LEMMA TypePeerEvent ==
    ASSUME TypeOK, NEW p \in Peer, PeerEvent(p)
    PROVE  TypeOK'
<1> USE DEF NodeLifecycleState, MeshState, PeerConnectionState, BootstrapState,
            RelayReservationState
<1>1. ASSUME NEW k \in Kind, ConnectionEstablished(p, k) PROVE TypeOK'
  BY <1>1 DEF TypeOK, ConnectionEstablished, observe_path, observe_bootstrap, PathOf, Kind, meshVars
<1>2. ASSUME NEW k \in Kind, ConnectionClosed(p, k) PROVE TypeOK'
  <2>1. conns[p][k] \in Nat /\ conns[p][k] - 1 \in Nat
    BY <1>2 DEF TypeOK, ConnectionClosed, Kind
  <2>2. conns' \in [Peer -> [Kind -> Nat]]
    BY <1>2, <2>1 DEF TypeOK, ConnectionClosed
  <2>3. QED
    BY <1>2, <2>2 DEF TypeOK, ConnectionClosed, clear_relay_reservation,
                      observe_relay_reservation, observe_path, observe_bootstrap, meshVars
<1>3. CASE OutgoingConnectionError(p)
  BY <1>3, FailureType
  DEF TypeOK, OutgoingConnectionError, clear_relay_reservation, observe_relay_reservation,
      observe_bootstrap, meshVars, libp2p
<1>4. CASE IdentifyMismatch(p)
  BY <1>4, FailureType DEF TypeOK, IdentifyMismatch, meshVars, bootVars, libp2p
<1>5. ASSUME NEW named \in BOOLEAN, NEW relayServer \in BOOLEAN,
             IdentifyReceived(p, named, relayServer)
      PROVE  TypeOK'
  BY <1>5 DEF TypeOK, IdentifyReceived, NeedsReservation, observe_relay_reservation, meshVars
<1>6. ASSUME NEW listed \in BOOLEAN, NEW named \in BOOLEAN,
             ReservationListenFails(p, listed, named)
      PROVE  TypeOK'
  <2>1. failures' \in [Peer -> 0..QuarantineAt]
    BY <1>6 DEF TypeOK, ReservationListenFails, Bumped, QuarantineAt
  <2>2. state' \in [Peer -> PeerConnectionState \cup {NoRecord}]
    BY <1>6 DEF TypeOK, ReservationListenFails, Punished
  <2>3. QED
    BY <1>6, <2>1, <2>2
    DEF TypeOK, ReservationListenFails, observe_relay_reservation, meshVars, libp2p
<1>7. CASE IdentifyError(p)
  BY <1>7, FailureType
  DEF TypeOK, IdentifyError, observe_relay_reservation, observe_bootstrap, meshVars, libp2p
<1>8. CASE ReservationReqAccepted(p)
  BY <1>8 DEF TypeOK, ReservationReqAccepted, observe_relay_reservation, meshVars, peerVars, libp2p
<1>9. CASE PingOk(p)
  BY <1>9, NodeMeshAssumption
  DEF TypeOK, PingOk, bootVars, libp2p
<1>10. CASE PingError(p)
  BY <1>10, FailureType DEF TypeOK, PingError, bootVars, libp2p
<1>11. ASSUME NEW dialFails \in BOOLEAN, MdnsDiscovered(p, dialFails) PROVE TypeOK'
  BY <1>11 DEF TypeOK, MdnsDiscovered, Punished, Bumped, QuarantineAt, NoRecord, meshVars,
               bootVars, libp2p
<1>12. CASE MdnsExpired(p)
  BY <1>12 DEF TypeOK, MdnsExpired, observe_path, meshVars, bootVars, libp2p
<1>13. CASE PeerFails(p)
  BY <1>13, FailureType DEF TypeOK, PeerFails, meshVars, bootVars, libp2p
<1>14. CASE RecordCreated(p)
  BY <1>14 DEF TypeOK, RecordCreated, meshVars, bootVars, libp2p
<1>15. CASE ChatSessionShown(p)
  BY <1>15 DEF TypeOK, ChatSessionShown, observe_path, meshVars, bootVars, libp2p
<1>16. QED
  BY <1>1, <1>2, <1>3, <1>4, <1>5, <1>6, <1>7, <1>8, <1>9, <1>10, <1>11, <1>12, <1>13,
     <1>14, <1>15 DEF PeerEvent

\* The node's own ticks keep the types.
LEMMA TypeTick ==
    ASSUME TypeOK, Tick
    PROVE  TypeOK'
<1> USE DEF NodeLifecycleState, MeshState, PeerConnectionState, BootstrapState
<1>1. ASSUME NEW Ds \in SUBSET Peer, NEW Fs \in SUBSET Peer, ReconnectTick(Ds, Fs)
      PROVE  TypeOK'
  BY <1>1, FailureType DEF TypeOK, ReconnectTick, meshVars, libp2p
<1>2. CASE PartitionTick
  BY <1>2 DEF TypeOK, PartitionTick, mark_partitioned, bootVars, libp2p
<1>3. CASE TimePasses
  BY <1>3, NodeMeshAssumption
  DEF TypeOK, TimePasses, peerVars, bootVars, libp2p
<1>4. CASE Shutdown
  BY <1>4 DEF TypeOK, Shutdown, meshVars, peerVars, bootVars, libp2p
<1>5. QED
  BY <1>1, <1>2, <1>3, <1>4 DEF Tick

\* Every reachable state of the node's mesh view is well typed.
THEOREM TypeCorrect == Spec => []TypeOK
<1>1. TypeOK /\ [Next]_vars => TypeOK'
  <2> SUFFICES ASSUME TypeOK, [Next]_vars PROVE TypeOK'
    OBVIOUS
  <2>1. CASE Next
    BY <2>1, TypePeerEvent, TypeTick DEF Next
  <2>2. CASE UNCHANGED vars
    BY <2>2 DEF TypeOK, vars, meshVars, peerVars, bootVars, libp2p
  <2>3. QED
    BY <2>1, <2>2
<1>2. QED
  BY <1>1, TypeInit, PTL DEF Spec

-----------------------------------------------------------------------------
(* What is shown as open is open.                                          *)

\* Libp2p asks relays it is connected to, and forgets the reservation with the
\* last direct connection.
AskedConnected == \A p \in asked : Connected(p)

\* Every event a peer causes keeps AskedConnected.
LEMMA AskedPeerEvent ==
    ASSUME TypeOK, AskedConnected, NEW p \in Peer, PeerEvent(p)
    PROVE  AskedConnected'
<1>b. asked \subseteq Peer
  BY NodeMeshAssumption DEF TypeOK
<1>1. ASSUME NEW k \in Kind, ConnectionEstablished(p, k) PROVE AskedConnected'
  <2>1. asked' = asked /\ \A q \in Peer : Connected(q) => Connected(q)'
    BY <1>1 DEF TypeOK, ConnectionEstablished, Connected, Kind
  <2>2. QED
    BY <1>b, <2>1 DEF AskedConnected
<1>2. ASSUME NEW k \in Kind, ConnectionClosed(p, k) PROVE AskedConnected'
  <2>1. \A q \in Peer \ {p} : conns'[q] = conns[q]
    BY <1>2 DEF TypeOK, ConnectionClosed
  <2>2. asked' \subseteq asked /\ (p \in asked' => conns'[p]["direct"] # 0)
    BY <1>2 DEF ConnectionClosed
  <2>3. conns'[p]["direct"] \in Nat
    <3>1. TypeOK'
      BY TypePeerEvent
    <3>2. QED
      BY <3>1 DEF TypeOK, Kind
  <2>4. p \in asked' => Connected(p)'
    BY <2>2, <2>3 DEF Connected, Kind
  <2>5. \A q \in Peer \ {p} : Connected(q) => Connected(q)'
    BY <2>1 DEF Connected
  <2>6. QED
    BY <1>b, <2>2, <2>4, <2>5 DEF AskedConnected
<1>3. ASSUME NEW named \in BOOLEAN, NEW relayServer \in BOOLEAN,
             IdentifyReceived(p, named, relayServer)
      PROVE  AskedConnected'
  <2>1. conns' = conns /\ asked' \subseteq asked \cup {p} /\ Connected(p)
    BY <1>3 DEF IdentifyReceived
  <2>2. QED
    BY <2>1 DEF AskedConnected, Connected
<1>4. ASSUME UNCHANGED libp2p PROVE AskedConnected'
  BY <1>4 DEF libp2p, AskedConnected, Connected
<1>5. QED
  BY <1>1, <1>2, <1>3, <1>4
  DEF PeerEvent, OutgoingConnectionError, IdentifyMismatch, ReservationListenFails, IdentifyError,
      ReservationReqAccepted, PingOk, PingError, MdnsDiscovered, MdnsExpired, PeerFails,
      RecordCreated, ChatSessionShown

\* Every relay libp2p is asking, or has asked, is connected.
LEMMA AskedAlways == Spec => [](TypeOK /\ AskedConnected)
<1>1. Init => AskedConnected
  BY DEF Init, AskedConnected
<1>2. TypeOK /\ AskedConnected /\ [Next]_vars => AskedConnected'
  <2> SUFFICES ASSUME TypeOK, AskedConnected, [Next]_vars PROVE AskedConnected'
    OBVIOUS
  <2>1. CASE Tick
    BY <2>1 DEF Tick, ReconnectTick, PartitionTick, TimePasses, Shutdown, libp2p,
                AskedConnected, Connected
  <2>2. CASE UNCHANGED vars
    BY <2>2 DEF vars, libp2p, AskedConnected, Connected
  <2>3. QED
    BY <2>1, <2>2, AskedPeerEvent DEF Next
<1>3. QED
  BY <1>1, <1>2, TypeCorrect, PTL DEF Spec

\* A step that opens and closes nothing, and shows nothing new as open or
\* reserved, keeps ShownLinksAreOpen.
LEMMA NothingNewShown ==
    ASSUME ShownLinksAreOpen, conns' = conns, Active' \subseteq Active, asked \subseteq asked',
           \A b \in Bootstrap : relay'[b] = "Reserved" => relay[b] = "Reserved",
           \A b \in Bootstrap : boot'[b] = "Connected" => boot[b] = "Connected",
           \A q \in Peer : path'[q] = "Relay" => path[q] = "Relay"
    PROVE  ShownLinksAreOpen'
  BY DEF ShownLinksAreOpen, Connected

\* Every event a peer causes keeps ShownLinksAreOpen.
LEMMA LinksPeerEvent ==
    ASSUME TypeOK, AskedConnected, ShownLinksAreOpen, NEW p \in Peer, PeerEvent(p)
    PROVE  ShownLinksAreOpen'
<1>b. Bootstrap \subseteq Peer
  BY NodeMeshAssumption
<1>1. ASSUME NEW k \in Kind, ConnectionEstablished(p, k) PROVE ShownLinksAreOpen'
  <2>1. conns'[p][k] > 0 /\ \A q \in Peer : Connected(q) => Connected(q)'
    BY <1>1 DEF TypeOK, ConnectionEstablished, Connected, Kind
  <2>2. Connected(p)'
    BY <2>1 DEF Connected
  <2>3. Active' \subseteq Active
    BY <1>1 DEF TypeOK, ConnectionEstablished, Active
  <2>4. \A q \in Peer : path'[q] = "Relay" => conns'[q]["relay"] > 0
    BY <1>1, <2>1 DEF TypeOK, ShownLinksAreOpen, ConnectionEstablished, observe_path, PathOf, Kind
  <2>5. \A b \in Bootstrap : boot'[b] = "Connected" => Connected(b)'
    BY <1>1, <1>b, <2>1, <2>2 DEF TypeOK, ShownLinksAreOpen, ConnectionEstablished, observe_bootstrap
  <2>6. \A b \in Bootstrap : relay'[b] = "Reserved" => b \in asked' /\ Connected(b)'
    BY <1>1, <1>b, <2>1 DEF ShownLinksAreOpen, ConnectionEstablished
  <2>7. QED
    BY <2>1, <2>3, <2>4, <2>5, <2>6 DEF ShownLinksAreOpen, Active
<1>2. ASSUME NEW k \in Kind, ConnectionClosed(p, k) PROVE ShownLinksAreOpen'
  <2>1. \A q \in Peer \ {p} : conns'[q] = conns[q]
    BY <1>2 DEF TypeOK, ConnectionClosed
  <2>2. Active' \subseteq Active \ {p}
    BY <1>2 DEF TypeOK, ConnectionClosed, Active
  <2>3. \A b \in Bootstrap : boot'[b] = "Connected" => b # p /\ boot[b] = "Connected"
    BY <1>2 DEF TypeOK, ConnectionClosed, observe_bootstrap
  <2>4. \A q \in Peer : path'[q] = "Relay" => q # p /\ path[q] = "Relay"
    BY <1>2 DEF TypeOK, ConnectionClosed, observe_path
  <2>5. \A q \in Active' : Connected(q)'
    BY <2>1, <2>2 DEF ShownLinksAreOpen, Connected, Active
  <2>6. \A b \in Bootstrap : boot'[b] = "Connected" => Connected(b)'
    BY <1>b, <2>1, <2>3 DEF ShownLinksAreOpen, Connected
  <2>7. \A b \in Bootstrap : relay'[b] = "Reserved" => b # p /\ relay[b] = "Reserved"
    BY <1>2 DEF TypeOK, ConnectionClosed, observe_relay_reservation
  <2>8. asked \ {p} \subseteq asked'
    BY <1>2 DEF ConnectionClosed
  <2>9. \A b \in Bootstrap : relay'[b] = "Reserved" => b \in asked' /\ Connected(b)'
    BY <1>b, <2>1, <2>7, <2>8 DEF ShownLinksAreOpen, Connected
  <2>10. QED
    BY <2>1, <2>4, <2>5, <2>6, <2>9 DEF ShownLinksAreOpen
<1>3. CASE OutgoingConnectionError(p)
  BY <1>3, FailureActivatesNobody, NothingNewShown
  DEF TypeOK, OutgoingConnectionError, observe_bootstrap, observe_relay_reservation, libp2p
<1>4. CASE IdentifyMismatch(p)
  BY <1>4, FailureActivatesNobody, NothingNewShown DEF IdentifyMismatch, bootVars, libp2p
<1>5. ASSUME NEW named \in BOOLEAN, NEW relayServer \in BOOLEAN,
             IdentifyReceived(p, named, relayServer)
      PROVE  ShownLinksAreOpen'
  <2>1. Active' \subseteq Active
    BY <1>5 DEF TypeOK, IdentifyReceived, Active
  <2>2. /\ asked \subseteq asked'
        /\ \A b \in Bootstrap : relay'[b] = "Reserved" => relay[b] = "Reserved"
    BY <1>5 DEF IdentifyReceived, observe_relay_reservation
  <2>3. QED
    BY <1>5, <2>1, <2>2, NothingNewShown DEF IdentifyReceived
<1>6. ASSUME NEW listed \in BOOLEAN, NEW named \in BOOLEAN,
             ReservationListenFails(p, listed, named)
      PROVE  ShownLinksAreOpen'
  <2>1. Active' \subseteq Active
    BY <1>6 DEF TypeOK, ReservationListenFails, Active, Punished
  <2>2. QED
    BY <1>6, <2>1, NothingNewShown DEF ReservationListenFails, observe_relay_reservation, libp2p
<1>7. CASE IdentifyError(p)
  BY <1>7, FailureActivatesNobody, NothingNewShown
  DEF TypeOK, IdentifyError, observe_bootstrap, observe_relay_reservation, libp2p
<1>8. CASE ReservationReqAccepted(p)
  <2>1. p \in asked /\ Connected(p) /\ UNCHANGED <<peerVars, boot, libp2p>>
    BY <1>8 DEF ReservationReqAccepted, AskedConnected
  <2>2. \A b \in Bootstrap : relay'[b] = "Reserved" => b = p \/ relay[b] = "Reserved"
    BY <1>8 DEF ReservationReqAccepted, observe_relay_reservation
  <2>3. QED
    BY <2>1, <2>2 DEF ShownLinksAreOpen, Connected, peerVars, libp2p, Active
<1>9. CASE PingOk(p)
  <2>1. Active' \subseteq Active \cup {p} /\ Connected(p)
    BY <1>9 DEF TypeOK, PingOk, Active
  <2>2. QED
    BY <1>9, <2>1 DEF PingOk, ShownLinksAreOpen, Connected, Active, bootVars, libp2p
<1>10. CASE PingError(p)
  BY <1>10, FailureActivatesNobody, NothingNewShown DEF PingError, bootVars, libp2p
<1>11. ASSUME NEW dialFails \in BOOLEAN, MdnsDiscovered(p, dialFails) PROVE ShownLinksAreOpen'
  <2>1. Active' \subseteq Active
    BY <1>11 DEF TypeOK, MdnsDiscovered, Active, Punished
  <2>2. QED
    BY <1>11, <2>1, NothingNewShown DEF MdnsDiscovered, bootVars, libp2p
<1>12. CASE MdnsExpired(p)
  <2>1. Active' \subseteq Active /\ \A q \in Peer : path'[q] = "Relay" => path[q] = "Relay"
    BY <1>12 DEF TypeOK, MdnsExpired, observe_path, Active
  <2>2. QED
    BY <1>12, <2>1, NothingNewShown DEF MdnsExpired, bootVars, libp2p
<1>13. CASE PeerFails(p)
  BY <1>13, FailureActivatesNobody, NothingNewShown DEF PeerFails, bootVars, libp2p
<1>14. CASE RecordCreated(p)
  <2>1. Active' \subseteq Active
    BY <1>14 DEF TypeOK, RecordCreated, Active
  <2>2. QED
    BY <1>14, <2>1, NothingNewShown DEF RecordCreated, bootVars, libp2p
<1>15. CASE ChatSessionShown(p)
  <2>1. Active' \subseteq Active /\ \A q \in Peer : path'[q] = "Relay" => path[q] = "Relay"
    BY <1>15 DEF TypeOK, ChatSessionShown, observe_path, Active
  <2>2. QED
    BY <1>15, <2>1, NothingNewShown DEF ChatSessionShown, bootVars, libp2p
<1>16. QED
  BY <1>1, <1>2, <1>3, <1>4, <1>5, <1>6, <1>7, <1>8, <1>9, <1>10, <1>11, <1>12, <1>13,
     <1>14, <1>15 DEF PeerEvent

\* The node's own ticks keep ShownLinksAreOpen.
LEMMA LinksTick ==
    ASSUME TypeOK, ShownLinksAreOpen, Tick
    PROVE  ShownLinksAreOpen'
<1>1. ASSUME NEW Ds \in SUBSET Peer, NEW Fs \in SUBSET Peer, ReconnectTick(Ds, Fs)
      PROVE  ShownLinksAreOpen'
  BY <1>1, FailureActivatesNobody, NothingNewShown DEF ReconnectTick, libp2p
<1>2. CASE PartitionTick
  <2>1. Active' \subseteq Active
    BY <1>2 DEF TypeOK, PartitionTick, mark_partitioned, Active
  <2>2. QED
    BY <1>2, <2>1, NothingNewShown DEF PartitionTick, bootVars, libp2p
<1>3. CASE TimePasses
  BY <1>3, NothingNewShown DEF TimePasses, peerVars, bootVars, libp2p, Active
<1>4. CASE Shutdown
  BY <1>4, NothingNewShown DEF Shutdown, peerVars, bootVars, libp2p, Active
<1>5. QED
  BY <1>1, <1>2, <1>3, <1>4 DEF Tick

\* A peer shown active, a bootstrap peer shown connected and a session shown
\* as relayed have an open connection of their own, and a relay shown to hold a
\* reservation is connected and was asked for it.
THEOREM ShownLinks == Spec => []ShownLinksAreOpen
<1>1. Init => ShownLinksAreOpen
  BY NodeMeshAssumption DEF Init, ShownLinksAreOpen, Active, NoRecord
<1>2. TypeOK /\ AskedConnected /\ ShownLinksAreOpen /\ [Next]_vars => ShownLinksAreOpen'
  <2> SUFFICES ASSUME TypeOK, AskedConnected, ShownLinksAreOpen, [Next]_vars
               PROVE  ShownLinksAreOpen'
    OBVIOUS
  <2>1. CASE Next
    BY <2>1, LinksPeerEvent, LinksTick DEF Next
  <2>2. CASE UNCHANGED vars
    BY <2>2, NothingNewShown DEF vars, peerVars, bootVars, libp2p, Active
  <2>3. QED
    BY <2>1, <2>2
<1>3. QED
  BY <1>1, <1>2, AskedAlways, PTL DEF Spec

-----------------------------------------------------------------------------
(* The agreement on a partition.                                           *)

\* A step that makes no peer active, leaves the mesh state or degrades it,
\* and calls the node neither active nor partitioned, keeps the agreement.
LEMMA QuietStepAgrees ==
    ASSUME PartitionIsAgreed, Active' \subseteq Active, has_seen_mesh' = has_seen_mesh,
           mesh_state' \in {mesh_state, "Degraded"},
           lifecycle' = lifecycle \/ lifecycle' \notin {"Active", "Partitioned"}
    PROVE  PartitionIsAgreed'
  BY DEF PartitionIsAgreed

\* Every event a peer causes keeps the agreement.
LEMMA AgreedPeerEvent ==
    ASSUME TypeOK, PartitionIsAgreed, NEW p \in Peer, PeerEvent(p)
    PROVE  PartitionIsAgreed'
<1>1. ASSUME NEW k \in Kind, ConnectionEstablished(p, k) PROVE PartitionIsAgreed'
  <2>1. Active' \subseteq Active
    BY <1>1 DEF TypeOK, ConnectionEstablished, Active
  <2>2. QED
    BY <1>1, <2>1, QuietStepAgrees DEF ConnectionEstablished, meshVars
<1>2. ASSUME NEW k \in Kind, ConnectionClosed(p, k) PROVE PartitionIsAgreed'
  <2>1. Active' \subseteq Active
    BY <1>2 DEF TypeOK, ConnectionClosed, Active
  <2>2. QED
    BY <1>2, <2>1, QuietStepAgrees DEF ConnectionClosed, meshVars
<1>3. CASE OutgoingConnectionError(p)
  BY <1>3, FailureActivatesNobody, QuietStepAgrees DEF OutgoingConnectionError, meshVars
<1>4. CASE IdentifyMismatch(p)
  BY <1>4, FailureActivatesNobody, QuietStepAgrees DEF IdentifyMismatch, meshVars
<1>5. ASSUME NEW named \in BOOLEAN, NEW relayServer \in BOOLEAN,
             IdentifyReceived(p, named, relayServer)
      PROVE  PartitionIsAgreed'
  <2>1. Active' \subseteq Active
    BY <1>5 DEF TypeOK, IdentifyReceived, Active
  <2>2. QED
    BY <1>5, <2>1, QuietStepAgrees DEF IdentifyReceived, meshVars
<1>6. ASSUME NEW listed \in BOOLEAN, NEW named \in BOOLEAN,
             ReservationListenFails(p, listed, named)
      PROVE  PartitionIsAgreed'
  <2>1. Active' \subseteq Active
    BY <1>6 DEF TypeOK, ReservationListenFails, Active, Punished
  <2>2. QED
    BY <1>6, <2>1, QuietStepAgrees DEF ReservationListenFails, meshVars
<1>7. CASE IdentifyError(p)
  BY <1>7, FailureActivatesNobody, QuietStepAgrees DEF IdentifyError, meshVars
<1>8. CASE ReservationReqAccepted(p)
  BY <1>8, QuietStepAgrees DEF ReservationReqAccepted, peerVars, meshVars, Active
<1>9. CASE PingOk(p)
  BY <1>9 DEF PingOk, PartitionIsAgreed
<1>10. CASE PingError(p)
  BY <1>10, FailureActivatesNobody, QuietStepAgrees DEF PingError
<1>11. ASSUME NEW dialFails \in BOOLEAN, MdnsDiscovered(p, dialFails) PROVE PartitionIsAgreed'
  <2>1. Active' \subseteq Active
    BY <1>11 DEF TypeOK, MdnsDiscovered, Active, Punished
  <2>2. QED
    BY <1>11, <2>1, QuietStepAgrees DEF MdnsDiscovered, meshVars
<1>12. CASE MdnsExpired(p)
  <2>1. Active' \subseteq Active
    BY <1>12 DEF TypeOK, MdnsExpired, Active
  <2>2. QED
    BY <1>12, <2>1, QuietStepAgrees DEF MdnsExpired, meshVars
<1>13. CASE PeerFails(p)
  BY <1>13, FailureActivatesNobody, QuietStepAgrees DEF PeerFails, meshVars
<1>14. CASE RecordCreated(p)
  <2>1. Active' \subseteq Active
    BY <1>14 DEF TypeOK, RecordCreated, Active
  <2>2. QED
    BY <1>14, <2>1, QuietStepAgrees DEF RecordCreated, meshVars
<1>15. CASE ChatSessionShown(p)
  <2>1. Active' \subseteq Active
    BY <1>15 DEF TypeOK, ChatSessionShown, Active
  <2>2. QED
    BY <1>15, <2>1, QuietStepAgrees DEF ChatSessionShown, meshVars
<1>16. QED
  BY <1>1, <1>2, <1>3, <1>4, <1>5, <1>6, <1>7, <1>8, <1>9, <1>10, <1>11, <1>12, <1>13,
     <1>14, <1>15 DEF PeerEvent

\* The partition tick keeps the agreement: it declares a partition only when
\* nobody is active and unmarks nobody, and it calls the node active only
\* before the mesh was ever seen.
LEMMA AgreedPartitionTick ==
    ASSUME TypeOK, PartitionIsAgreed, PartitionTick
    PROVE  PartitionIsAgreed'
<1>1. CASE LossBeyondThreshold
  <2>1. mark_partitioned /\ mesh_state' = "Partitioned" /\ lifecycle' = "Partitioned"
    BY <1>1 DEF PartitionTick, LossBeyondThreshold
  <2>2. Active' = {}
    BY <2>1, <1>1 DEF TypeOK, mark_partitioned, Active, NoRecord, LossBeyondThreshold
  <2>3. QED
    BY <2>1, <2>2 DEF PartitionIsAgreed
<1>2. CASE ~has_seen_mesh
  <2>1. Active = {} /\ Active' = {}
    BY <1>2 DEF PartitionTick, LossBeyondThreshold, PartitionIsAgreed, Active
  <2>2. mesh_state' = "Bootstrapping" /\ lifecycle' = "Active"
    BY <1>2 DEF PartitionTick, LossBeyondThreshold
  <2>3. QED
    BY <2>1, <2>2 DEF PartitionIsAgreed
<1>3. CASE has_seen_mesh /\ ~LossBeyondThreshold
  BY <1>3 DEF PartitionTick, PartitionIsAgreed, Active
<1>4. QED
  BY <1>1, <1>2, <1>3

\* The node's own ticks keep the agreement.
LEMMA AgreedTick ==
    ASSUME TypeOK, PartitionIsAgreed, Tick
    PROVE  PartitionIsAgreed'
<1>1. ASSUME NEW Ds \in SUBSET Peer, NEW Fs \in SUBSET Peer, ReconnectTick(Ds, Fs)
      PROVE  PartitionIsAgreed'
  BY <1>1, FailureActivatesNobody, QuietStepAgrees DEF ReconnectTick, meshVars
<1>2. CASE TimePasses
  BY <1>2, QuietStepAgrees DEF TimePasses, peerVars, Active
<1>3. CASE Shutdown
  BY <1>3, QuietStepAgrees DEF Shutdown, peerVars, meshVars, Active
<1>4. QED
  BY <1>1, <1>2, <1>3, AgreedPartitionTick DEF Tick

\* The mesh state, the node's lifecycle and the peer records always agree on
\* whether there is a partition.
THEOREM PartitionAgreed == Spec => []PartitionIsAgreed
<1>1. Init => PartitionIsAgreed
  BY DEF Init, PartitionIsAgreed, Active, NoRecord
<1>2. TypeOK /\ PartitionIsAgreed /\ [Next]_vars => PartitionIsAgreed'
  <2> SUFFICES ASSUME TypeOK, PartitionIsAgreed, [Next]_vars PROVE PartitionIsAgreed'
    OBVIOUS
  <2>1. CASE Next
    BY <2>1, AgreedPeerEvent, AgreedTick DEF Next
  <2>2. CASE UNCHANGED vars
    BY <2>2, QuietStepAgrees DEF vars, meshVars, peerVars, Active
  <2>3. QED
    BY <2>1, <2>2
<1>3. QED
  BY <1>1, <1>2, TypeCorrect, PTL DEF Spec

-----------------------------------------------------------------------------
(* Relay reservations.                                                     *)

\* An attempt shown is always one the node remembers, so it is released
\* where it fails and can be made again.
THEOREM AttemptTracked == Spec => []AttemptIsTracked
<1>1. Init => AttemptIsTracked
  BY DEF Init, AttemptIsTracked
<1>2. TypeOK /\ AttemptIsTracked /\ [Next]_vars => AttemptIsTracked'
  <2> SUFFICES ASSUME TypeOK, AttemptIsTracked, [Next]_vars PROVE AttemptIsTracked'
    OBVIOUS
  <2>1. ASSUME NEW p \in Peer, PeerEvent(p) PROVE AttemptIsTracked'
    <3>1. ASSUME NEW k \in Kind, ConnectionClosed(p, k) PROVE AttemptIsTracked'
      BY <3>1 DEF ConnectionClosed, clear_relay_reservation, observe_relay_reservation,
                  AttemptIsTracked
    <3>2. CASE OutgoingConnectionError(p)
      BY <3>2 DEF OutgoingConnectionError, clear_relay_reservation, observe_relay_reservation,
                  AttemptIsTracked
    <3>3. ASSUME NEW named \in BOOLEAN, NEW relayServer \in BOOLEAN,
                 IdentifyReceived(p, named, relayServer)
          PROVE  AttemptIsTracked'
      BY <3>3 DEF IdentifyReceived, observe_relay_reservation, AttemptIsTracked
    <3>4. ASSUME NEW listed \in BOOLEAN, NEW named \in BOOLEAN,
                 ReservationListenFails(p, listed, named)
          PROVE  AttemptIsTracked'
      BY <3>4 DEF ReservationListenFails, observe_relay_reservation, AttemptIsTracked
    <3>5. CASE IdentifyError(p)
      BY <3>5 DEF IdentifyError, observe_relay_reservation, AttemptIsTracked
    <3>6. CASE ReservationReqAccepted(p)
      BY <3>6 DEF ReservationReqAccepted, observe_relay_reservation, AttemptIsTracked
    <3>7. ASSUME UNCHANGED <<relay, relay_reservations>> PROVE AttemptIsTracked'
      BY <3>7 DEF AttemptIsTracked
    <3>8. QED
      BY <2>1, <3>1, <3>2, <3>3, <3>4, <3>5, <3>6, <3>7
      DEF PeerEvent, ConnectionEstablished, IdentifyMismatch, PingOk, PingError, MdnsDiscovered,
          MdnsExpired, PeerFails, RecordCreated, ChatSessionShown, bootVars
  <2>2. CASE Tick
    BY <2>2 DEF Tick, ReconnectTick, PartitionTick, TimePasses, Shutdown, bootVars,
                AttemptIsTracked
  <2>3. CASE UNCHANGED vars
    BY <2>3 DEF vars, bootVars, AttemptIsTracked
  <2>4. QED
    BY <2>1, <2>2, <2>3 DEF Next
<1>3. QED
  BY <1>1, <1>2, TypeCorrect, PTL DEF Spec

=============================================================================
