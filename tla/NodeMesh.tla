------------------------------ MODULE NodeMesh ------------------------------
(***************************************************************************)
(* One node's view of the mesh: the select! loop and handle_swarm_event of *)
(* core/transport/src/node.rs, the LifecycleEngine and the peer records of *)
(* core/transport/src/topology.rs.                                         *)
(*                                                                         *)
(* libp2p is the environment: it opens and closes several connections to a *)
(* peer, direct and relayed, and reports what happens on them.  The node   *)
(* redials every address it knows, so a second connection to a connected   *)
(* peer is ordinary.  An event is handled to its end before the next one.  *)
(*                                                                         *)
(* Left out: addresses, latencies, health and runtime snapshots, event     *)
(* counters and reachability, which nothing here depends on.  Chat and DNS *)
(* appear where they touch a peer record.                                  *)
(***************************************************************************)
EXTENDS Naturals

CONSTANTS
    Peer,            \* the remote peers
    Bootstrap,       \* those configured by an address that names them
    PartitionAfter,  \* config.partition_after, in clock ticks
    Mdns,            \* config.enable_mdns
    MaxConns         \* bound: connections of each kind to one peer

ASSUME NodeMeshAssumption ==
    /\ Bootstrap \subseteq Peer
    /\ PartitionAfter \in Nat
    /\ Mdns \in BOOLEAN
    /\ MaxConns \in [{"direct", "relay"} -> Nat]

VARIABLES
    running,             \* run_transport_node has not returned
    lifecycle,           \* lifecycle.state()
    mesh_state,          \* topology.mesh_state
    has_seen_mesh,
    silence,             \* last_active_peer.elapsed(), up to PartitionAfter
    state,               \* state[p]: p's PeerConnectionState, if it has a record
    failures,            \* failures[p]: up to the three that quarantine
    path,                \* path[p]: p's session.connection_path
    known_dial_addrs,    \* the peers some known address names
    boot,                \* boot[p]: bootstrap peer p's BootstrapState
    relay,               \* relay[p]: bootstrap peer p's RelayReservationState
    relay_reservations,  \* the relays ensure_relay_reservation will not ask again
    conns,               \* conns[p][k]: libp2p's open connections of kind k to p
    asked                \* relays libp2p is asking, or has asked, for a reservation

peerVars == <<state, failures, path>>
bootVars == <<boot, relay, relay_reservations>>
meshVars == <<mesh_state, has_seen_mesh, silence>>
libp2p == <<conns, asked>>
vars == <<running, lifecycle, meshVars, peerVars, known_dial_addrs, bootVars, libp2p>>

-----------------------------------------------------------------------------
Kind == {"direct", "relay"}

PeerConnectionState ==
    {"Discovered", "Authenticating", "Syncing", "Active", "Partitioned", "Quarantined", "Offline"}

NodeLifecycleState ==
    {"Genesis", "Bootstrap", "Discovering", "Authenticating", "Syncing", "Active",
     "Partitioned", "Quarantined", "Offline"}

MeshState == {"Bootstrapping", "Stable", "Degraded", "Partitioned", "Recovering"}

BootstrapState == {"Configured", "Dialing", "Connected", "Degraded"}

RelayReservationState == {"Inactive", "Attempting", "Reserved", "Failed"}

NoRecord == "NoRecord"

QuarantineAt == 3

Connected(p) == \E k \in Kind : conns[p][k] > 0

Known == {p \in Peer : state[p] # NoRecord}

Active == {p \in Peer : state[p] = "Active"}

-----------------------------------------------------------------------------
(* The observe_* operations of PeerTopology.  Fs is the set of peers a     *)
(* handler reports a failure of.                                           *)

Bumped(n) == IF n < QuarantineAt THEN n + 1 ELSE n

\* The state of a peer with record state s after its n-th failure.
Punished(s, n) ==
    IF n = QuarantineAt THEN "Quarantined" ELSE IF s = NoRecord THEN "Discovered" ELSE s

observe_failure(Fs) ==
    /\ failures' = [p \in Peer |-> IF p \in Fs THEN Bumped(failures[p]) ELSE failures[p]]
    /\ state' = [p \in Peer |-> IF p \in Fs THEN Punished(state[p], Bumped(failures[p]))
                                            ELSE state[p]]

observe_path(p, to) == path' = [path EXCEPT ![p] = to]

observe_bootstrap(p, to) == boot' = [b \in Bootstrap |-> IF b = p THEN to ELSE boot[b]]

observe_relay_reservation(p, to) == relay' = [b \in Bootstrap |-> IF b = p THEN to ELSE relay[b]]

\* Only a configured relay ever has an entry to clear.
clear_relay_reservation(p) == relay_reservations' = relay_reservations \ {p}

-----------------------------------------------------------------------------
(* Connections.                                                            *)

PathOf(k) == IF k = "relay" THEN "Relay" ELSE "Direct"

ConnectionEstablished(p, k) ==
    /\ running
    /\ conns[p][k] < MaxConns[k]
    /\ conns' = [conns EXCEPT ![p][k] = @ + 1]
    /\ state' = [state EXCEPT ![p] = "Authenticating"]
    /\ observe_path(p, PathOf(k))
    /\ observe_bootstrap(p, "Connected")
    /\ lifecycle' = "Authenticating"
    /\ UNCHANGED <<running, meshVars, failures, known_dial_addrs, relay, relay_reservations, asked>>

\* Fault: the record keeps the path of the connection that closed.
ClosedKeepingPath(p, k) ==
    /\ running
    /\ conns[p][k] > 0
    /\ conns' = [conns EXCEPT ![p][k] = @ - 1]
    /\ asked' = IF conns'[p]["direct"] = 0 THEN asked \ {p} ELSE asked
    /\ clear_relay_reservation(p)
    /\ observe_relay_reservation(p, "Failed")
    /\ state' = [state EXCEPT ![p] = "Offline"]
    /\ observe_bootstrap(p, "Degraded")
    /\ UNCHANGED <<running, lifecycle, meshVars, path, failures, known_dial_addrs>>

\* The peer is marked offline even when other connections to it remain open.
ConnectionClosed(p, k) ==
    /\ running
    /\ conns[p][k] > 0
    /\ conns' = [conns EXCEPT ![p][k] = @ - 1]
    /\ asked' = IF conns'[p]["direct"] = 0 THEN asked \ {p} ELSE asked
    /\ clear_relay_reservation(p)
    /\ observe_relay_reservation(p, "Failed")
    /\ state' = [state EXCEPT ![p] = "Offline"]
    /\ observe_path(p, "Unknown")
    /\ observe_bootstrap(p, "Degraded")
    /\ UNCHANGED <<running, lifecycle, meshVars, failures, known_dial_addrs>>

\* Fault: the reservation is released without being marked as failed.
DialErrorSilent(p) ==
    /\ running
    /\ clear_relay_reservation(p)
    /\ observe_failure({p})
    /\ observe_bootstrap(p, "Degraded")
    /\ UNCHANGED <<running, lifecycle, meshVars, path, known_dial_addrs, relay, libp2p>>

\* A dial that fails may be one of several to a peer that is connected.
OutgoingConnectionError(p) ==
    /\ running
    /\ clear_relay_reservation(p)
    /\ observe_relay_reservation(p, "Failed")
    /\ observe_failure({p})
    /\ observe_bootstrap(p, "Degraded")
    /\ UNCHANGED <<running, lifecycle, meshVars, path, known_dial_addrs, libp2p>>

-----------------------------------------------------------------------------
(* Identify.                                                               *)

IdentifyMismatch(p) ==
    /\ running
    /\ Connected(p)
    /\ observe_failure({p})
    /\ lifecycle' = "Quarantined"
    /\ UNCHANGED <<running, meshVars, path, known_dial_addrs, bootVars, libp2p>>

\* Fault: a reservation is asked of any peer that serves as a relay.
NeedsReservationOfAny(p, relayServer) ==
    relayServer /\ p \notin relay_reservations

\* ensure_relay_reservation returns at once for a relay it asked before.
NeedsReservation(p, relayServer) ==
    p \in Bootstrap /\ relayServer /\ p \notin relay_reservations

\* named: some listen address of p names p.
IdentifyReceived(p, named, relayServer) ==
    /\ running
    /\ Connected(p)
    /\ state' = [state EXCEPT ![p] = "Syncing"]
    /\ known_dial_addrs' = IF named THEN known_dial_addrs \cup {p} ELSE known_dial_addrs
    /\ IF NeedsReservation(p, relayServer)
         THEN /\ relay_reservations' = relay_reservations \cup {p}
              /\ observe_relay_reservation(p, "Attempting")
              /\ asked' = asked \cup {p}
         ELSE UNCHANGED <<relay_reservations, relay, asked>>
    /\ lifecycle' = "Syncing"
    /\ UNCHANGED <<running, meshVars, failures, path, boot, conns>>

\* swarm.listen_on refuses the relay's address: the error ends the node.
\* listed: p gave listen addresses; named: one of them names p.
ReservationListenFails(p, listed, named) ==
    /\ running
    /\ named => listed
    /\ Connected(p)
    /\ NeedsReservation(p, TRUE)
    /\ observe_relay_reservation(p, "Failed")
    /\ failures' = [failures EXCEPT ![p] = Bumped(@)]
    /\ state' = [state EXCEPT ![p] =
                   Punished(IF listed THEN "Discovered" ELSE @, Bumped(failures[p]))]
    /\ known_dial_addrs' = IF named THEN known_dial_addrs \cup {p} ELSE known_dial_addrs
    /\ running' = FALSE
    /\ UNCHANGED <<lifecycle, meshVars, path, boot, relay_reservations, libp2p>>

\* The relay is shown as failed but stays in relay_reservations.
IdentifyError(p) ==
    /\ running
    /\ Connected(p)
    /\ observe_failure({p})
    /\ observe_relay_reservation(p, "Failed")
    /\ observe_bootstrap(p, "Degraded")
    /\ UNCHANGED <<running, lifecycle, meshVars, path, known_dial_addrs, relay_reservations, libp2p>>

ReservationReqAccepted(p) ==
    /\ running
    /\ p \in asked
    /\ observe_relay_reservation(p, "Reserved")
    /\ UNCHANGED <<running, lifecycle, meshVars, peerVars, known_dial_addrs, boot,
                   relay_reservations, libp2p>>

-----------------------------------------------------------------------------
(* Ping, mDNS, gossip and what chat does to a peer record.                 *)

\* Fault: a heartbeat is only taken for a recovery when the mesh was degraded.
PingOkForgetsPartition(p) ==
    /\ running
    /\ Connected(p)
    /\ state' = [state EXCEPT ![p] = "Active"]
    /\ silence' = 0
    /\ mesh_state' = CASE mesh_state = "Degraded"    -> "Recovering"
                       [] mesh_state = "Partitioned" -> "Partitioned"
                       [] OTHER                      -> "Stable"
    /\ has_seen_mesh' = TRUE
    /\ lifecycle' = "Active"
    /\ UNCHANGED <<running, failures, path, known_dial_addrs, bootVars, libp2p>>

PingOk(p) ==
    /\ running
    /\ Connected(p)
    /\ state' = [state EXCEPT ![p] = "Active"]
    /\ silence' = 0
    /\ mesh_state' = IF mesh_state \in {"Partitioned", "Degraded"} THEN "Recovering" ELSE "Stable"
    /\ has_seen_mesh' = TRUE
    /\ lifecycle' = "Active"
    /\ UNCHANGED <<running, failures, path, known_dial_addrs, bootVars, libp2p>>

PingError(p) ==
    /\ running
    /\ Connected(p)
    /\ observe_failure({p})
    /\ mesh_state' = "Degraded"
    /\ UNCHANGED <<running, lifecycle, has_seen_mesh, silence, path, known_dial_addrs, bootVars, libp2p>>

\* The dial that follows a discovery may be refused at once.
MdnsDiscovered(p, dialFails) ==
    /\ running /\ Mdns
    /\ known_dial_addrs' = known_dial_addrs \cup {p}
    /\ failures' = [failures EXCEPT ![p] = IF dialFails THEN Bumped(@) ELSE @]
    /\ state' = [state EXCEPT ![p] =
                   IF dialFails THEN Punished("Discovered", Bumped(failures[p])) ELSE "Discovered"]
    /\ UNCHANGED <<running, lifecycle, meshVars, path, bootVars, libp2p>>

MdnsExpired(p) ==
    /\ running /\ Mdns
    /\ state' = [state EXCEPT ![p] = "Offline"]
    /\ observe_path(p, "Unknown")
    /\ UNCHANGED <<running, lifecycle, meshVars, failures, known_dial_addrs, bootVars, libp2p>>

\* An invalid announcement or envelope, a peer without gossipsub, a chat
\* publish that fails: a failure and nothing else.
PeerFails(p) ==
    /\ running
    /\ observe_failure({p})
    /\ UNCHANGED <<running, lifecycle, meshVars, path, known_dial_addrs, bootVars, libp2p>>

\* A runtime announcement, or any gossip about a peer, creates its record.
\* (Announcements never carry a latency: node.rs publishes latency_ms: None.)
RecordCreated(p) ==
    /\ running
    /\ state[p] = NoRecord
    /\ state' = [state EXCEPT ![p] = "Discovered"]
    /\ UNCHANGED <<running, lifecycle, meshVars, failures, path, known_dial_addrs, bootVars, libp2p>>

\* Chat shows its gossiped sessions as direct whatever carries them.
ChatSessionShown(p) ==
    /\ running
    /\ state' = [state EXCEPT ![p] = IF @ = NoRecord THEN "Discovered" ELSE @]
    /\ observe_path(p, "Direct")
    /\ UNCHANGED <<running, lifecycle, meshVars, failures, known_dial_addrs, bootVars, libp2p>>

-----------------------------------------------------------------------------
(* The node's own ticks, its clock, and its end.                           *)

\* Ds are the peers dialled again, all but active ones known by a relayed address
\* only; Fs are those whose dial is refused.
ReconnectTick(Ds, Fs) ==
    /\ running
    /\ known_dial_addrs \ Active \subseteq Ds /\ Ds \subseteq known_dial_addrs
    /\ Fs \subseteq Ds
    /\ observe_failure(Fs)
    /\ boot' = [b \in Bootstrap |-> IF b \in Fs THEN "Degraded"
                                    ELSE IF b \in Ds THEN "Dialing" ELSE boot[b]]
    /\ UNCHANGED <<running, lifecycle, meshVars, path, known_dial_addrs, relay,
                   relay_reservations, libp2p>>

mark_partitioned ==
    state' = [p \in Peer |-> IF state[p] \in {NoRecord, "Quarantined"} THEN state[p]
                                                                       ELSE "Partitioned"]

LossBeyondThreshold == has_seen_mesh /\ Active = {} /\ silence >= PartitionAfter

\* Fault: only a stable mesh is found to be partitioned.
PartitionTickFromStable ==
    /\ running
    /\ CASE LossBeyondThreshold /\ mesh_state = "Stable" ->
              /\ mark_partitioned
              /\ mesh_state' = "Partitioned"
              /\ lifecycle' = "Partitioned"
         [] ~has_seen_mesh ->
              mesh_state' = "Bootstrapping" /\ lifecycle' = "Active" /\ UNCHANGED state
         [] OTHER -> UNCHANGED <<mesh_state, lifecycle, state>>
    /\ UNCHANGED <<running, has_seen_mesh, silence, failures, path, known_dial_addrs, bootVars, libp2p>>

PartitionTick ==
    /\ running
    /\ CASE LossBeyondThreshold ->
              /\ mark_partitioned
              /\ mesh_state' = "Partitioned"
              /\ lifecycle' = "Partitioned"
         [] ~has_seen_mesh ->
              mesh_state' = "Bootstrapping" /\ lifecycle' = "Active" /\ UNCHANGED state
         [] has_seen_mesh /\ ~LossBeyondThreshold ->
              /\ mesh_state' = IF mesh_state = "Recovering" THEN "Stable" ELSE mesh_state
              /\ UNCHANGED <<lifecycle, state>>
    /\ UNCHANGED <<running, has_seen_mesh, silence, failures, path, known_dial_addrs, bootVars, libp2p>>

TimePasses ==
    /\ running
    /\ silence < PartitionAfter
    /\ silence' = silence + 1
    /\ UNCHANGED <<running, lifecycle, mesh_state, has_seen_mesh, peerVars, known_dial_addrs,
                   bootVars, libp2p>>

\* ctrl-c, or exit_after has elapsed.
Shutdown ==
    /\ running
    /\ running' = FALSE
    /\ lifecycle' = "Offline"
    /\ UNCHANGED <<meshVars, peerVars, known_dial_addrs, bootVars, libp2p>>

-----------------------------------------------------------------------------
\* The state in which run_transport_node enters its loop.
Init ==
    /\ running = TRUE
    /\ lifecycle = "Discovering"
    /\ mesh_state = "Bootstrapping"
    /\ has_seen_mesh = FALSE
    /\ silence = 0
    /\ state = [p \in Peer |-> NoRecord]
    /\ failures = [p \in Peer |-> 0]
    /\ path = [p \in Peer |-> "Unknown"]
    /\ known_dial_addrs = Bootstrap
    /\ boot \in [Bootstrap -> {"Dialing", "Degraded"}]
    /\ relay = [p \in Bootstrap |-> "Inactive"]
    /\ relay_reservations = {}
    /\ conns = [p \in Peer |-> [k \in Kind |-> 0]]
    /\ asked = {}

PeerEvent(p) ==
    \/ \E k \in Kind : ConnectionEstablished(p, k)
    \/ \E k \in Kind : ConnectionClosed(p, k)
    \/ OutgoingConnectionError(p)
    \/ IdentifyMismatch(p)
    \/ \E named, relayServer \in BOOLEAN : IdentifyReceived(p, named, relayServer)
    \/ \E listed, named \in BOOLEAN : ReservationListenFails(p, listed, named)
    \/ IdentifyError(p)
    \/ ReservationReqAccepted(p)
    \/ PingOk(p)
    \/ PingError(p)
    \/ \E dialFails \in BOOLEAN : MdnsDiscovered(p, dialFails)
    \/ MdnsExpired(p)
    \/ PeerFails(p)
    \/ RecordCreated(p)
    \/ ChatSessionShown(p)

Tick ==
    \/ \E Ds, Fs \in SUBSET Peer : ReconnectTick(Ds, Fs)
    \/ PartitionTick
    \/ TimePasses
    \/ Shutdown

Next == (\E p \in Peer : PeerEvent(p)) \/ Tick

Spec == Init /\ [][Next]_vars

\* select! picks among its ready branches at random, so the partition tick
\* is not starved; time passes.
FairSpec == Spec /\ WF_vars(PartitionTick) /\ WF_vars(TimePasses)

-----------------------------------------------------------------------------
\* Every variable keeps its type; only configured relays are asked for a
\* reservation, and only they appear in relay_reservations.
TypeOK ==
    /\ running \in BOOLEAN
    /\ lifecycle \in NodeLifecycleState
    /\ mesh_state \in MeshState
    /\ has_seen_mesh \in BOOLEAN
    /\ silence \in 0..PartitionAfter
    /\ state \in [Peer -> PeerConnectionState \cup {NoRecord}]
    /\ failures \in [Peer -> 0..QuarantineAt]
    /\ path \in [Peer -> {"Unknown", "Direct", "Relay"}]
    /\ known_dial_addrs \in SUBSET Peer
    /\ boot \in [Bootstrap -> BootstrapState]
    /\ relay \in [Bootstrap -> RelayReservationState]
    /\ relay_reservations \in SUBSET Bootstrap
    /\ conns \in [Peer -> [Kind -> Nat]]
    /\ asked \in SUBSET Bootstrap

\* What an operator is shown as alive is alive: a peer shown ACTIVE and a
\* bootstrap peer shown CONNECTED have an open connection, a session shown as
\* relayed has an open relayed one, and a relay shown to hold a reservation is
\* connected and was asked for it since it last lost its direct connections,
\* however connections to the same peer open, fail and close around each other.
ShownLinksAreOpen ==
    /\ \A p \in Active : Connected(p)
    /\ \A p \in Bootstrap : boot[p] = "Connected" => Connected(p)
    /\ \A p \in Peer : path[p] = "Relay" => conns[p]["relay"] > 0
    /\ \A p \in Bootstrap : relay[p] = "Reserved" => p \in asked /\ Connected(p)

\* The mesh, the node's lifecycle and the peer records agree on a partition:
\* while either of the first two says PARTITIONED no peer is ACTIVE, a
\* partitioned mesh is never one the node calls itself active in, and no
\* peer is ACTIVE in a mesh that is still bootstrapping, in which the
\* partition tick could not notice its loss.
PartitionIsAgreed ==
    /\ mesh_state = "Partitioned" => Active = {} /\ lifecycle # "Active"
    /\ lifecycle = "Partitioned" => Active = {}
    /\ Active # {} => has_seen_mesh /\ mesh_state # "Bootstrapping"

\* A relay reservation shown as being attempted is one the node remembers
\* having asked for, so a lost attempt is released where it is shown failed
\* and can be asked for again.
AttemptIsTracked ==
    \A p \in Bootstrap : relay[p] = "Attempting" => p \in relay_reservations

\* A node that has seen the mesh and has no active peer left declares the
\* partition, unless a peer becomes active again or the node stops.
LossIsDetected ==
    running /\ has_seen_mesh /\ Active = {}
        ~> (~running \/ Active # {} \/ mesh_state = "Partitioned")

\* labs/hole-punch/README.md:40: the session path of a peer whose only open
\* connections are direct ones is shown as direct.
DirectPathShown ==
    \A p \in Peer :
        running /\ conns[p]["direct"] > 0 /\ conns[p]["relay"] = 0 => path[p] = "Direct"

=============================================================================
