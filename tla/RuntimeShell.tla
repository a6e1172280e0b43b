---------------------------- MODULE RuntimeShell ----------------------------
(***************************************************************************)
(* The state core/runtime's RuntimeShell keeps in shell.json, and the      *)
(* methods that change it, as functions from a shell state to the next.    *)
(* Which process calls them, and what each writes to disk, is              *)
(* ShellProcesses.                                                         *)
(*                                                                         *)
(* A route is the root URI of a domain.  The surface of a gateway belongs  *)
(* to its domain (gateway_surface_id); applications share the surface      *)
(* their records name.  A set with at most one element is an Option.       *)
(***************************************************************************)
EXTENDS Naturals

CONSTANTS
    Domain,      \* authorities of void:// routes
    Gateway,     \* the domains registered as gateways
    Builtin,     \* chat.void and local.gateway.void
    App,         \* the surface the applications' records name
    Cap,         \* capabilities
    SafeCap,     \* those is_safe_capability accepts
    GatewayCap,  \* those named "gateway.*"
    Requested,   \* what the record of a domain asks for
    Peer,        \* peer ids
    Self         \* the persistent identity of this data directory

ASSUME ShellAssumption ==
    /\ Gateway \subseteq Domain
    /\ Builtin \subseteq Domain
    /\ App \notin Domain
    /\ SafeCap \subseteq Cap
    /\ GatewayCap \subseteq Cap
    /\ Requested \in [Domain -> SUBSET Cap]
    /\ Self \in Peer

Surface == Gateway \cup {App}

SurfaceOf(d) == IF d \in Gateway THEN d ELSE App

Policy == [state : {"Trusted", "Pending", "Denied"},
           level : {"Trusted", "Restricted", "Untrusted"}]

MountedRuntimeSurface ==
    [state : {"Mounted", "Failed"}, owner : Peer, caps : SUBSET Cap, session : Nat]

GatewayRouteState == [session : Nat, active : BOOLEAN]

GatewayBridgeSession == [session : Nat, gateway : Gateway, fetch : {"completed", "failed"}]

RuntimeSession == [session : Nat, surface : Surface, owner : Peer, caps : SUBSET Cap]

RuntimeShellState ==
    [registry : [Domain -> SUBSET Peer],          \* the owner, if registered
     permissions : [Surface -> [Peer -> [Cap -> SUBSET BOOLEAN]]],
     gateway_trust : [Gateway -> SUBSET Policy],
     mounts : [Domain -> SUBSET MountedRuntimeSurface],
     gateway_routes : [Gateway -> SUBSET GatewayRouteState],
     bridge_sessions : SUBSET GatewayBridgeSession,
     sessions : SUBSET RuntimeSession]

EmptyShell ==
    [registry |-> [d \in Domain |-> {}],
     permissions |-> [u \in Surface |-> [o \in Peer |-> [c \in Cap |-> {}]]],
     gateway_trust |-> [g \in Gateway |-> {}],
     mounts |-> [d \in Domain |-> {}],
     gateway_routes |-> [g \in Gateway |-> {}],
     bridge_sessions |-> {},
     sessions |-> {}]

-----------------------------------------------------------------------------
(* The upsert_* methods.                                                   *)

\* The lists of the shell are keyed: an entry replaces the one with its key.
upsert_registration(s, d, owner) == [s EXCEPT !.registry[d] = {owner}]

upsert_gateway_trust(s, g, policy) == [s EXCEPT !.gateway_trust[g] = {policy}]

upsert_mount(s, d, mount) == [s EXCEPT !.mounts[d] = {mount}]

upsert_gateway_route(s, g, route) == [s EXCEPT !.gateway_routes[g] = {route}]

upsert_gateway_bridge_session(s, g, id, fetch) ==
    [s EXCEPT !.bridge_sessions = {b \in @ : b.session # id} \cup
                {[session |-> id, gateway |-> g, fetch |-> fetch]}]

upsert_session(s, id, surface, owner, caps) ==
    [s EXCEPT !.sessions = {k \in @ : k.session # id} \cup
                {[session |-> id, surface |-> surface, owner |-> owner, caps |-> caps]}]

-----------------------------------------------------------------------------
(* Loading, registration and trust.                                        *)

\* The builtin gateway is trusted when it is registered for the first time.
ensure_builtin_registry(s) ==
    [s EXCEPT
        !.registry = [d \in Domain |->
            IF d \in Builtin /\ s.registry[d] = {} THEN {Self} ELSE s.registry[d]],
        !.gateway_trust = [g \in Gateway |->
            IF g \in Builtin /\ s.registry[g] = {}
            THEN {[state |-> "Trusted", level |-> "Trusted"]}
            ELSE s.gateway_trust[g]]]

\* Every registration becomes this node's own, those of remote names included.
reconcile_registry_owner(s) ==
    [s EXCEPT !.registry = [d \in Domain |->
        IF s.registry[d] = {} THEN {} ELSE {Self}]]

\* What a process holds after load_or_create and reconcile_registry_owner.
Loaded(s) == reconcile_registry_owner(ensure_builtin_registry(s))

\* The throwaway owner a registration is written with is rewritten by the next
\* load before anything reads it, so it is Self at once.  Stored permissions of
\* the gateway stay.
register_gateway(s, g, level) ==
    upsert_gateway_trust(upsert_registration(s, g, Self), g,
        [state |-> IF level = "Trusted" THEN "Trusted" ELSE "Pending", level |-> level])

\* Fault: a route is registered again under the owner it resolves to.
RegisterBeside(s, d, target) == [s EXCEPT !.registry[d] = @ \cup {target}]

ensure_route_registration(s, d, target) ==
    IF s.registry[d] = {} THEN upsert_registration(s, d, target) ELSE s

set_gateway_trust(s, g, state, level) ==
    upsert_gateway_trust(s, g, [state |-> state, level |-> level])

\* A gateway that was opened before anybody decided about it is pending.
pending_trust(s, g) ==
    IF s.gateway_trust[g] = {} THEN set_gateway_trust(s, g, "Pending", "Restricted") ELSE s

\* Fault: what the operator decided about the gateway is not looked up.
AnyGateway(s, g) == s.gateway_trust[g] # {}

validate_gateway_trust(s, g) ==
    \A t \in s.gateway_trust[g] : t.state # "Denied" /\ t.level # "Untrusted"

-----------------------------------------------------------------------------
(* Capabilities.                                                           *)

grant_permission(s, surface, owner, cap, allowed) ==
    [s EXCEPT !.permissions[surface][owner][cap] = {allowed}]

gateway_capability_is_trusted(s, d, cap) ==
    /\ cap \in GatewayCap
    /\ d \in Gateway
    /\ s.gateway_trust[d] = {[state |-> "Trusted", level |-> "Trusted"]}

\* Fault: any stored decision counts as a grant.
AllowedIfStored(s, d, target, cap) ==
    \/ s.permissions[SurfaceOf(d)][target][cap] # {}
    \/ gateway_capability_is_trusted(s, d, cap) \/ cap \in SafeCap

\* A stored decision counts before trust and before what is safe.
capability_allowed(s, d, target, cap) ==
    LET stored == s.permissions[SurfaceOf(d)][target][cap]
    IN IF stored = {}
       THEN gateway_capability_is_trusted(s, d, cap) \/ cap \in SafeCap
       ELSE stored = {TRUE}

rejected_capabilities(s, d, target) ==
    {c \in Requested[d] : ~capability_allowed(s, d, target, c)}

\* Every outcome is stored, rejections too.
negotiate_capabilities(s, d, target) ==
    [s EXCEPT !.permissions[SurfaceOf(d)][target] = [c \in Cap |->
        IF c \in Requested[d] THEN {capability_allowed(s, d, target, c)} ELSE @[c]]]

-----------------------------------------------------------------------------
(* Mounts.                                                                 *)

\* The route of a gateway that was mounted before stays active.
record_failed_mount(s, d, target, id) ==
    upsert_mount(s, d,
        [state |-> "Failed", owner |-> target, session |-> id,
         caps |-> Requested[d] \ rejected_capabilities(s, d, target)])

\* Fault: a failed fetch leaves the mount of the route as it was.
FailureKeepsMount(s, g, target, id) ==
    upsert_gateway_route(upsert_gateway_bridge_session(s, g, id, "failed"), g,
                         [session |-> id, active |-> FALSE])

record_gateway_failure(s, g, target, id) ==
    upsert_gateway_route(
        upsert_gateway_bridge_session(
            upsert_mount(s, g, [state |-> "Failed", owner |-> target, caps |-> {},
                                session |-> id]),
            g, id, "failed"),
        g, [session |-> id, active |-> FALSE])

\* Sessions are added and never closed.
record_mount(s, d, target, id) ==
    upsert_mount(upsert_session(s, id, SurfaceOf(d), target, Requested[d]), d,
        [state |-> "Mounted", owner |-> target, session |-> id, caps |-> Requested[d]])

record_gateway_mount(s, g, target, id) ==
    record_mount(
        upsert_gateway_route(upsert_gateway_bridge_session(s, g, id, "completed"),
                             g, [session |-> id, active |-> TRUE]),
        g, target, id)

=============================================================================
