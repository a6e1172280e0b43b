# VOIDNET in TLA+

A verification project for VOIDNET, a peer-to-peer runtime in Rust: nodes find
each other over libp2p, gossip signed `.void` name records, negotiate encrypted
chat sessions and keep rooms, and a runtime shell opens surfaces and gateways
from a terminal or a browser. The specifications are translated from the source;
the source paths below are relative to the repository. `PROJECT.json` lists the
components, the runs, the source lines of every definition, the mutated
definitions that show each property can fail, the disagreements between code and
documents, the hazards and the theorems.

## Inventory

| Part | Source | State it keeps | Operations | What is hard |
|---|---|---|---|---|
| Node loop | `core/transport/src/node.rs` `run_transport_node`, `handle_swarm_event` | lifecycle, known addresses, relays asked, last active peer | one `select!` loop: swarm events and five interval ticks | events of several connections to one peer interleave; the ticks race them |
| Peer topology | `core/transport/src/topology.rs` | a record per peer, bootstrap peers, mesh state; saved to `topology.json` | some thirty `observe_*` updates | one record summarises several connections |
| Lifecycle | `core/transport/src/lifecycle.rs` | `NodeLifecycleState`, history | `transition` | must agree with the topology |
| Chat sessions | `node.rs` (`handle_chat_*`, `process_*`), `apps/void-chat/src/lib.rs` | pending and active sessions, queued messages, replay memory, inbox on disk | send, offer, ack, deliver, flush | glare, redelivery, reordering, restart, bounded replay window, publishes that fail |
| Chat rooms | the same | joined rooms, members and presence, history, notifications on disk | join, leave, send, switch, heartbeat, snapshot merge | last-writer-wins on different clocks; three files written one after the other |
| VOIDDNS | `core/dns/src/lib.rs`, `node.rs` (`handle_dns_*`) | record cache and conflicts in memory and in `cache.json`, published names, seen events | publish, apply, expire, propagate | arrival order, expiry, several processes on one file |
| Command queues | `void-chat` and `dns` (`enqueue_*`, `drain_*`) | a directory of JSON files | other processes enqueue, the node drains | partial files, commands lost by an error |
| Runtime shell, gateway, HTTP bridge | `core/runtime/src/lib.rs` | `shell.json`: registrations, permissions, gateway trust, mounts, sessions, routes, UI surfaces | load, open, fetch, mount, render, synchronise, dispatch | every process holds a copy and writes it whole; the fetch is awaited |
| UI runtime | `core/runtime/src/ui` | tree of a surface | build, focus, render | layout |
| Browser shell | `apps/void-browser` | current URI, mounted route, pending prompts | start, navigate, answer prompts, synchronise | prompts of one navigation answered during another |
| CLI, console | `apps/void-cli` | none that lasts but an open surface | commands over the parts above | it is the second process on a node's data |
| Identity, protocol, storage, SDK, binaries | `core/identity`, `core/protocol`, `core/storage`, `sdk/rust`, `apps/*/main.rs` | key files | sign, verify, encode | cryptography and encoding |

How the parts meet. The node loop owns the DNS, chat and topology state and
runs every handler to its end before it polls again, so inside one node there
is no preemption: what interleaves are *whole handlers* and, between nodes and
processes, messages and files. Chat and DNS share the gossip mesh: no order, no
acknowledgement, redelivery possible, and `publish` may return an error. An
error a handler returns with `?` ends the loop and with it the node. The CLI and
the browser are other processes that share a node's data directory and talk to
it through files, which everybody rewrites in place.

What makes each part correct: a chat message reaches an inbox at most once and
the two ends of a session hold the same key; a room message stays in its room,
and members that stay are shown; a name keeps its owner while the record lives
and no claim disappears; what the topology shows alive is alive, and mesh,
lifecycle and peers agree on a partition; a queued command is carried out at most
once; what is mounted was approved and is backed by its session, and decisions
are the user's; a surface shows what the files say and then rests. The hazards
in `PROJECT.json` say where each of these can go wrong.

## Modules

| Module | Models | Extends or instantiates |
|---|---|---|
| `MessageDelivery` | what chat promises: an accepted message is received at most once | |
| `ChatSession` | negotiation, replay protection and delivery between nodes | `MessageDelivery` (refinement) |
| `ChatRooms` | rooms, presence, heartbeats, notifications and the files they are saved in | |
| `VoidDns` | record caches, propagation, and the second process on a cache file | |
| `NodeMesh` | one node's loop, lifecycle and peer records against libp2p | |
| `CommandDelivery` | what the command directory promises | |
| `CommandQueue` | writers and node on the command directory, file by file | `CommandDelivery` (refinement) |
| `SurfaceSync` | an open chat surface, the node it shows and the files between them | `CommandQueue`; refines `CommandDelivery` |
| `RuntimeShell` | the state of `shell.json` and the methods that change it, as functions | |
| `ShellProcesses` | void-cli commands, an open on the terminal and the browser on one `shell.json` | `RuntimeShell` |
| `ChatSessionProofs`, `ChatNegotiationProofs`, `ChatRoomsProofs`, `VoidDnsProofs`, `NodeMeshProofs`, `CommandQueueProofs`, `SurfaceSyncProofs`, `ShellProcessesProofs` | the theorems | the module named, TLAPS |
| `MCChatSession`, `MCChatRooms`, `MCVoidDns`, `MCNodeMesh`, `MCSurfaceSync`, `MCShellProcesses` | constants of the small instances | the module named |

Each component module also holds, next to some of its definitions, a variant
marked `Fault:`. It is a mistake the code could plausibly have made; no action
uses it. Putting it in place of the definition it precedes makes a property
fail, which shows that the property depends on that part of the code.

### ChatSession

One action per handler: `Send` is a drained `SendDirect` or `SendRoom` command
(its recipients are a set) through `dispatch_or_queue_outbound_message` and
`apply_chat_actions`; `handle_chat_wire_message` is the inbound dispatch to
`process_session_offer`, `process_session_ack` and `process_direct_message`,
each beginning with `ReplayProtector::check_and_record`; `Restart` is
`ChatRuntimeState::new` after a stop between two handlers. `Tick` advances one
node's clock: clocks drift apart by as much as their bound allows.

- `active`, `pending`, `queue`, `seen`, `inbox` are the fields of
  `ChatRuntimeState`; `shown` is the chat part of the topology's `SessionInfo`.
- `msgs` is every envelope gossipsub accepted. Handling one does not remove it:
  it may come again, late, or never. That covers loss, reordering and
  redelivery at once.
- Random values are tokens that name their maker and a counter. The X25519
  secret of a session is an unordered pair of tokens, so the two ends compute
  equal keys exactly when they used each other's tokens.
- Signatures are assumed to verify: every node runs this code. Topics (who
  hears a publish), the texts, the logs and the read marks are left out. A
  room's membership enters only as the recipients of a command.
- `apply_chat_actions` lets each publish of a handler fail by itself, as the
  loop over the actions does, at the nodes of `PublishMayFail`.

`MessageDelivery` is the abstract specification. `ImplementsDelivery` maps
`mailbox` to `inbox`; handshake, flush, replay rejection, restart and clocks are
stutters, `Send` is `Accept`, and a decrypted envelope is `Deliver`.

### ChatRooms

A tick that drains a room command (`process_chat_command`), a heartbeat
(`build_room_sync_actions`, every two seconds, also after a command of the same
tick) and a delivery (`handle_chat_wire_message`) each end in `Finish`: what the
handler publishes may be accepted or not, and `persist` writes inbox,
notifications and rooms one after the other; a stop after some of the files
restarts the node from what is on disk. `Stop` ends a node for good.

- The session between two peers is taken for granted (that is `ChatSession`):
  a room message travels until it is delivered or lost. At most `MaxInFlight`
  messages travel at a time; anything beyond is a publish that was lost.
- `last_seen` stamps are only ever compared, so every step renumbers the stamps
  in use, keeping their order (`Renumbered`): clocks need no bound. A step
  happens at the latest stamp in use or after it. There is one clock for all
  nodes: the properties compare only what one receiver stamped, or speak of an
  unending series of heartbeats, which a bounded skew does not change.
- `everIn` is auxiliary: who ever joined a room or wrote to it.
- The event history, texts and message ids are left out.

### VoidDns

`apply_record`, `purge_expired` and `DnsApplyOutcome` are functions on a
snapshot, as in the crate. The node's actions are `handle_dns_command_tick`
(with the event, the propagation and the probe that purges),
`handle_dns_wire_message`, `handle_dns_maintenance_tick` and `Restart`; a
second process of the same user loads the snapshot (`ToolLoad`), resolves
(`ToolResolve`, which may purge and write back) or publishes registry entries
(`synchronize_registry_dns`). `mem` and `disk` are kept apart because the node
and the second process each write a whole snapshot. A record is its own
fingerprint; target, surface and capabilities are left out.

### NodeMesh

One action per arm of `handle_swarm_event` that touches the state kept here, one
per tick, and the two ends of the loop. libp2p is the environment: it opens up
to `MaxConns` connections of each kind to a peer and reports events on them.
`silence` is `last_active_peer.elapsed()` up to the threshold; `failures` stops
at three, where quarantine starts. `ReconnectTick` dials every known address,
some of which may be refused at once; a peer that is active is left out if only a
relayed address of it is known. Each configured peer has one bootstrap record, the
one its configured address names: the code may add records for further addresses
it redials, of which a closed connection resets only the first. Health, latency, reachability, NAT and
counters are left out: nothing kept here depends on them.

### CommandQueue and SurfaceSync

`CommandQueue` splits `enqueue_local_command` at the point where `fs::write` has
created the file and not filled it, and `drain_local_commands` into listing,
reading and removing each file in order, and carrying out what was drained. A
torn file is an error that ends the node; a writer may die in the middle.
Commands are numbered by the millisecond that names their file.
`CommandDelivery` is the queue without files: `ImplementsDelivery` maps a
complete or drained command to `queued`, and a command nobody holds any more
to `lost`, which only a step that stops the node may do.

`SurfaceSync` composes it with the surface loop of `void-cli`
(`interactive_surface_loop`) and the node's writes. A render reads the document
and then the chat files and `topology.json` one by one
(`build_chat_bindings`); a broken document or a torn file goes to the error
boundary; an unchanged frame is dropped; a render that changed something is
followed by `persist_runtime_shell_topology`, which reads and rewrites
`topology.json` while the node may be doing the same. Pressing a button queues a
command or is refused. A file is the empty set while it is torn; two writers of
one file may leave it torn (`Filled`). The revision counter is left out, and a
file's content is the version the node last gave it; what the terminal writes into
`topology.json` after a render (`SaveTopology`) keeps the version it read, because
the bindings of a chat surface read no field that it changes.

### RuntimeShell and ShellProcesses

`RuntimeShell` holds `RuntimeShellState` and its methods as functions from a
state to the next: the `upsert_*` methods, registration, trust, negotiation of
capabilities, and recording a mount, a failed mount or a failed gateway.
`ShellProcesses` says who calls them on which copy and what reaches the disk: a
`void-cli open` and the browser load `shell.json` once, wait in the middle of an
open for a gateway's answer (`Fetches`, `execute_gateway_fetch`), and write back
the whole copy they hold; a short `void-cli` command is one step of load, change
and save; `GatewayDecision` may end between its two writes. The browser side is
`navigate`, `resolve_prompt`, the prompts of a refusal and `synchronize_surface`.
An answer stores the grant, then the trust, and navigates again; `StopInAnswer` is
the browser stopped after one of these writes.

- A route is the root URI of a domain; applications share the one surface
  their records name, a gateway's surface is its domain.
- What VOIDDNS answers is an input: any resolution of `Resolution`, and any record
  may expire while the browser runs.
- `answer` is auxiliary: the answer to a prompt the last step carried out, if it
  carried out one. `DecisionsStick` ties a changed decision to it.
- `register_gateway` writes a throwaway owner that the next load replaces; the
  model writes the owner the load would write.
- The permission history, visited routes, contents of pages and the rendering of
  a mounted page are left out; a mount whose first render fails belongs to
  `SurfaceSync`.

## Runs

All runs set `CHECK_DEADLOCK FALSE`: the bounds on commands, restarts, keys and
clocks make the instances stop, and a node that has ended does nothing.

| Run | Instance | Shows |
|---|---|---|
| `chat_restart` | 2 nodes, 2 messages by one that restarts once, 1 by the other whose publishes may fail, window 0, clock to 1 | `TypeOK`; `DeliveredAtMostOnce` and `ImplementsDelivery` across restarts and expired windows; `ShownSessionIsHeld` while sessions are renegotiated; `SessionIdFixesKey`, `QueuedHasNegotiation` |
| `chat_live` | 2 nodes, 2 messages each, fair delivery | `NegotiationStabilises`, `OneSidedSessionsAgree`, `OneSidedIsReliable`, `QueuedHasNegotiation`, `AcceptedIsKept` |
| `rooms` | 2 nodes, 1 room, 2 commands (join, leave, send, switch, mark read) by one and 1 by the other, which may stop for good, 1 crash between two files, 1 message on its way, 2 notifications kept, fair heartbeats | `TypeOK`, `NotificationsBacked`, `RoomMessagesStayInRoom`, `MembershipIsLocal`, `JoinedIsShown` |
| `dns_node` | 2 nodes, 1 name, 3 publishes of which any may fail, a restart, lifetimes 1 and 2, clock to 2, fair delivery | `FirstOwnerAuthoritative`, `NoRegression`, `CacheIsPersisted`, `ClaimsSpread` |
| `dns_shared` | 2 nodes, 1 name, lifetimes 1 and 3, clock to 2, one restart each; one node publishes twice, the other has a second process that takes 3 steps | `TypeOK`, `FirstOwnerAuthoritative`, `NoClaimVanishes`, `OwnNamesListed` |
| `mesh_links` | 1 bootstrap relay, 2 direct and 1 relayed connection, mDNS, fair partition tick and clock | `ShownLinksAreOpen`, `AttemptIsTracked`, `LossIsDetected` |
| `mesh_partition` | 2 peers, one of them bootstrap, direct connections | `TypeOK`, `PartitionIsAgreed` |
| `shell` | 1 builtin gateway asking for a gateway capability, 1 application asking for another, 2 peers, 2 operator commands of three kinds and 3 opens, at most 4 of both together | `TypeOK`, `MountsAreBacked`, `RefusalHasPrompt`, `RefusalIsAnswerable`, `MountsAreApproved`, `DecisionsStick` |
| `surface` | 3 documents of which 1 is broken, 1 chat file and `topology.json`, 2 writers, 1 command, 1 change by others, 1 edit, 2 lines typed, 1 start, fair terminal and writes | `TypeOK`, `ScreenIsRecord`, `ImplementsDelivery`, `ChangesAreShown`, `SurfaceRests` |

Why the bounds are enough. Two nodes make every pairwise behaviour: sessions,
records, snapshots and connections relate two ends, and a third chat or DNS node
adds only more pairs (the theorems hold for any number). Two messages in one
direction separate what waits for a session from what is sent under it; one
restart separates two runs of a node; a clock that passes the replay window lets
a nonce be forgotten, and since clocks advance apart an envelope is out of the
window for one node and inside it for the other. For rooms, two commands of one
node are a join and a leave, or a join and a message; heartbeats, deliveries and
their times are unbounded, so a message may be arbitrarily late, and a node that
stops leaves the other with what it last heard. For DNS, a clock that passes a
lifetime is enough to see a record expire and its name change owner. The two
lifetimes let a record that replaced another expire before it: then the older
one may come back, and this is all `NoRegression` concedes. In `dns_shared`
the competing claim comes from the second process, which signs for its node, and
enters the node when it restarts; two nodes that both publish are in `dns_node`.
For the mesh, two direct connections and one relayed one are the least for which
one closes while others stay open. For the shell, two opens let a route be
mounted, fail and be mounted again, or let the terminal and the browser each
wait in one, and two commands revoke what an open relies on; a refusal, a denial
answered in the browser, which opens the route again, and a further open that
negotiates the denied capability once more take three, which `DecisionsStick`
needs; the gateway and the application take every path of `open_uri`. For the surface, one chat file next to
`topology.json` is what a render can read torn between; a command, a change and
an edit each interrupt it once, in any order; the second line typed comes after
any of them. The queue with several commands in one drain is proved.

Runs that end in a counterexample record a disagreement between code and a
document; each checks the one property that states the document.

| Run | Document says | Code does |
|---|---|---|
| `chat_glare` | both peers derive the same key | simultaneous offers leave two sessions; the next message under the losing one is dropped |
| `mesh_upgrade` | the path changes from relay to direct | closing the relayed connection resets it to unknown |
| `shell_prompt` | a denied permission surfaces as an actionable prompt | the prompt grants to the owner the registry names, the negotiation asks for the peer the name resolves to: the granted prompt comes back |

More behaviours are in the models and worth knowing. Some contradict a sentence
of a document too, and are left without a run of their own:

- an ack of an earlier run discards the present negotiation and its queued
  messages stay (`process_session_ack`; `labs/secure-chat/README.md:43`);
- a second process that writes `cache.json` erases what the node stored since
  it loaded (`synchronize_registry_dns`; `docs/operations/voiddns-routing.md:8`);
- two nodes that hear competing claims in different order serve different owners
  (`apply_record`; `labs/dns-conflicts/README.md:29`);
- a member that left or stopped may stay shown online: membership is the last
  writer's, and heartbeats of others repeat it (`labs/presence-propagation`);
- `labs/distributed-rooms/README.md:17` lets `inbox.json` converge, but no
  snapshot carries an inbox.

Others contradict nothing:

- a responder that restarted answers a redelivered offer a second time, with
  another secret: the same session id then stands for two keys, one at each end,
  until the next negotiation (the exception in `SessionIdFixesKey`);
- when a node republishes a name for a shorter time, the older record may be
  accepted again once the younger one has expired (the exception in
  `NoRegression`);
- a prompt that is pending keeps its place when the same capability is asked for
  again, whoever the owner is (`push_prompt`); it does no harm, since the
  browser's copy never registers a route under a second owner;
- an offer that gossip loses is never repeated while its negotiation is pending: the
  messages queued for that peer wait until the peer makes an offer of its own, and
  are gone when the node stops (`dispatch_or_queue_outbound_message`;
  `NegotiationStabilises` speaks of envelopes that are delivered);
- a refused gossip publish of a name record ends the node
  (`handle_dns_command_tick`, the `PublishMayFail` disjunct);
- a publish command that conflicts with another owner is still listed among the
  node's own names (`published`);
- a ping takes a peer out of quarantine, which its failure counter never does
  (`PingOk`);
- a torn command file ends the node at every start, and so does a torn chat file
  (`DrainError`, `NodeStarts`);
- the error boundary keeps the last good frame's hashes: a document that is
  repaired to what it was leaves the error screen until something else changes
  (this is why `ChangesAreShown` speaks of the record's frame and
  `ScreenIsRecord` of its error), inputs typed meanwhile are forgotten, and
  opening a surface again whose error recurs fails.

## Fairness

- `ChatSession!FairSpec`: a node with an envelope to handle eventually handles
  one. The `select!` loop polls the swarm for ever and gossipsub delivers what it
  accepted while the mesh is connected. Only weak fairness of "some envelope" is
  assumed, nothing about which or in which order. It is enough for
  `NegotiationStabilises` because every handled envelope is remembered and then
  refused without a change.
- `VoidDns!FairSpec`: the same of records, and only for a node that has run all
  along. Records are gossiped once: nothing is assumed to reach a node that was
  down, or started again, after a record was published. `ClaimsSpread` promises
  nothing about such a node. Neither clocks nor the maintenance tick are forced,
  so a record that has not been heard of cannot be excused by expiring: the claim
  ends when the owner stops serving it, which may be because it did expire.
- `NodeMesh!FairSpec`: the partition tick, an interval of the same `select!`,
  which picks among ready branches at random, and the passing of time. No
  fairness is assumed of libp2p's events.
- `ChatRooms!FairSpec`: a joined node sends a heartbeat now and then, at a time
  later than all before, that goes out if anybody is up to hear it (the chat tick
  of 250 ms, the heartbeat every two seconds); strong, because messages on their
  way may use the room there is in the model. And weak fairness of the delivery
  to each node. One late or lost heartbeat is therefore never the last.
- `SurfaceSync!FairSpec`: the terminal goes on (`interactive_surface_loop` syncs
  every 500 ms while it waits for a line), and a running node that has begun a
  file writes and closes it. Nothing forces changes, commands or edits.

Sends, restarts, crashes, publish commands, connections, operator commands and
other processes are never forced to happen.

## What is proved

Each theorem holds for every value of the constants that the module's named
assumption allows; the assumptions only say that bounds are numbers and that
special values are not ordinary ones. TLC evaluates them in the runs.

**ChatSessionProofs.** `TypeCorrect`, one lemma per handler. `AtMostOnce`: the
property is not inductive, nothing in it says why an envelope cannot be accepted
again after a restart. `DeliveryInv` adds that tokens are used once and secrets
never repeat (`TokensPast`, `SecretsFresh`), that every body was sent, waits or
is published under a single envelope (`AcceptedWasSent`, `QueuedUnpublished`,
`PublishedAccepted`, `PublishedOnce`), and the heart of it, `DeliveredSpent`: an
envelope already in an inbox is still in the replay memory or outside the
window, or the node has no session whose key decrypts it. A restart empties the
memory but also the sessions, and a session made afterwards mixes in a secret no
earlier envelope was encrypted with; that is why redelivery after a crash is
harmless. `SessionsImplementDelivery` is the refinement, from the same invariant.

**ChatNegotiationProofs.** Six theorems. `ShownHeldAlways` is inductive together with `TypeOK`.
`QueuedWaits` and `OneSidedAgrees` follow from `NegotiationInv`, five statements
about every ordered pair of nodes. Without a restart, a node that has offered and
whose offer is unanswered still waits (`OfferPends`), offers a peer at most once
(`OfferedOnce`), and a message queued for a peer has a negotiation under way
(`QueueWaits`). Every ack answers an offer its sender has heard and will not take
again (`AcksAnswer`), so an ack fits the negotiation it meets, and where only one
of the two nodes has offered the responder answers once and holds the session of
that answer (`OneSided`). Nothing is claimed of a node that has restarted: its
negotiations are lost with its memory.

`SessionIdFixes` does speak of restarts. A key is two secrets, and `OriginInv`
says where each came from: every session held, or used in an envelope, was
either asked for (it mixes the secret of the node's one offer of that id with
the secret of an ack) or answered (with the secret of the other's offer and one
of the node's own), offers of a pair have distinct ids, and one run of a node
draws one secret an id (`AcksDrawn`), because it takes an offer once. Two keys
for an id therefore need two runs of the responder.
`AcceptedKept` is inductive one message at a time (`NotLost`): what a handler
takes from a queue it hands to `apply_chat_actions`, which publishes all of it
at a node whose publishes succeed. `OneSidedReliable` joins the two invariants:
under `NegotiationInv` and `OriginInv` the responder holds the only session the
initiator can have encrypted with before that envelope is out
(`OneSidedDecrypts`), so taking the envelope appends it to the inbox, and inboxes
only grow.

**ChatRoomsProofs.** `TypeCorrect`, `NotificationsHaveMessages`,
`MessagesStayInRoom` and `MembershipStaysLocal`. `Good` says of a node's state
that notifications are counted by the inbox, that whoever is shown online is in
`everIn`, and that stamps stay below some bound; `Sound` says the same of a
message. Each operation of void-chat keeps `Good`, each handler has an `Effect`
that keeps both, `persist` keeps `Good` after any number of files
(`PersistWorks`), and so does renumbering for another bound
(`RenumberedWorks`). `MessagesStayInRoom` needs the statement about who is shown
online: recipients are read from a list that others can merge into.

**VoidDnsProofs.** `TypeCorrect`, `ClaimsKept` and `OwnListed` for any second
process: every record in memory counts as served (`KeptInv`), each store carries
the live claims of the snapshot before it and notes every event it remembers,
and memory is loaded from disk only with nothing remembered. `CacheKept`,
`OwnerAuthoritative` and `NothingRegresses` are proved for every behaviour, with
or without second processes, any lifetimes and restarts; each property says
itself what it owes a node whose file another process has written: the file may
then hold anything the other process loaded earlier. `NodeStep` is what any step
does to a node: its snapshot succeeds itself (`Succeeds`: nothing live is lost
or replaced by a record of another owner) unless it restarts from a file a
second process touched, and as long as none has, memory and file agree. For
`NothingRegresses` that is not enough, since a node forgets expired records and
their events: `FreshInv` says that whatever it served is expired or has a
successor, as young or younger, that it also served and that it still holds
unless that one has expired.

**NodeMeshProofs.** `TypeCorrect`, `ShownLinks`, `PartitionAgreed` and
`AttemptTracked`, for any subset of the peers as bootstrap peers and any number
of connections. The first is inductive; partition and attempts are together with
`TypeOK`. What `ShownLinks` says of a reservation needs one more invariant,
`AskedConnected`: libp2p negotiates a reservation only over a connection that is
open. It is why a reservation that is reported late never shows a relay the node
has lost.

**CommandQueueProofs, SurfaceSyncProofs.** `QueueImplementsDelivery` is the
refinement for the queue alone. A command's state is read off its file and off
what the node holds, and `QueueInv` says which of these can be at once: a file
being written is torn and has one writer (`Written`), a command is held only
after its file is gone and carried out only after it was held (`Placed`), and
only while the node drains is anything held (`Holding`).
`SurfaceImplementsDelivery` carries it over to the composition: a step of the
surface is a step of the queue or leaves its variables alone. `TypeCorrect` and
`ScreenAgrees` are about the surface: `ScreenInv` ties the screen to the record
in the shell and says what each stage of a render has already fixed
(`Rendering`).

**ShellProcessesProofs.** `TypeCorrect`, `MountsBacked`, `RefusalsPrompted`,
`RefusalsAnswerable`, `MountsApproved`, `DecisionsSticky`. `ShellOK` (each list
has one entry a key), `Backed` and `IdsBelow` hold of the file *and* of every
copy, so that overwriting the file with a copy keeps them, and `Waits` says what
an open that waits in a fetch has found so far. `Leaves` and `Worked` relate the
state before and after an `open_uri`; the action properties follow from them.
`DecisionsSticky` is about the step itself: the copy an `open_uri` starts from
holds the browser's decisions but for what the step answers (`DecidedByAnswer`),
and whatever the open does then keeps every decision it finds (`Keeps`). So
neither a pending prompt nor the navigation that follows an answer decides again.
`RefusalsAnswerable` draws the line around the disagreement `shell_prompt`
records: a refusal the browser shows can be answered wherever the registered
owner serves the route, and for a gateway whose trust is denied. It is inductive
with `Owned`: every pending prompt asks on behalf of the owner that the
browser's own copy registers, which is what makes it harmless that `push_prompt`
compares no owners. A step either ends a navigation with the prompts of what is
missing (`FailsAnswers`), or changes neither the copy, the route nor the prompts
(`NothingAsked`), or answers a prompt, and then navigates again.

Only model-checked: every liveness property (fairness and ENABLED are out of the
prover's reach).

## Not modelled, and why

- Identity, wire encodings, storage, SDK, binaries: cryptography, formats and
  re-exports; the models take verified signatures and decoded messages.
- Event bus and log: nothing reads them back to decide anything.
- The console, and how the UI runtime lays out and focuses a tree: they draw
  what the modelled files say. A document enters `SurfaceSync` as one that can
  be rendered or cannot.
- In the shell: permission history, visited routes, snapshots, the contents of
  pages; what a fetch returns is an input.
- In rooms: the event history and the limits of its lists.
- Health, latency, reachability, NAT and event counters of the topology.
- Torn `cache.json` and `shell.json` after a crash, and system clocks that step
  back, are hazards without a property. So are smaller ones that are not in the
  list: an announcement's `encrypted_session_established` says only that the
  announcer has some encrypted session; an Identify error keeps the relay in
  `relay_reservations`; `topology.json` still shows an active node after an error
  has ended the loop.

## Plan

Done: all modules above with their runs and proofs. Left, in order:

1. `VoidDns` and `ChatSession` composed with `CommandQueue` through
   `CommandDelivery`, as `SurfaceSync` is.
2. Torn writes of `cache.json` and `shell.json`, and the loads that then fail.
3. The focus and layout rules of the UI runtime as operators over small trees.
