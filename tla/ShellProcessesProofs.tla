------------------------ MODULE ShellProcessesProofs ------------------------
(***************************************************************************)
(* Proofs about the shared shell state for any domains, gateways, peers,   *)
(* capabilities and bounds: type correctness, MountsAreBacked,             *)
(* RefusalHasPrompt, RefusalIsAnswerable, MountsAreApproved and            *)
(* DecisionsStick.                                                         *)
(***************************************************************************)
EXTENDS ShellProcesses, TLAPS

-----------------------------------------------------------------------------
(* What every copy of the shell satisfies once k opens have been made.     *)

\* Mounts are backed in one copy.
Backed(s) ==
    \A d \in Domain : \A m \in s.mounts[d] : m.state = "Mounted" => MountBacked(s, d, m)

\* The copy knows of no open after the k-th.
IdsBelow(s, k) ==
    /\ \A b \in s.bridge_sessions : b.session <= k
    /\ \A r \in s.sessions : r.session <= k
    /\ \A d \in Domain : \A m \in s.mounts[d] : m.session <= k

Good(s, k) == ShellOK(s) /\ Backed(s) /\ IdsBelow(s, k)

\* Nothing a mount is backed by differs between s and t.
SameMounts(s, t) ==
    /\ t.mounts = s.mounts
    /\ t.gateway_routes = s.gateway_routes
    /\ t.bridge_sessions = s.bridge_sessions
    /\ t.sessions = s.sessions

\* What was decided in s is decided alike in t.
Keeps(s, t) ==
    /\ \A u \in Surface, o \in Peer, c \in Cap :
           s.permissions[u][o][c] # {} => t.permissions[u][o][c] = s.permissions[u][o][c]
    /\ \A g \in Gateway :
           s.gateway_trust[g] # {} => t.gateway_trust[g] = s.gateway_trust[g]

\* What a mount of d for o needs.
Approved(s, d, o) ==
    /\ \A c \in Requested[d] : s.permissions[SurfaceOf(d)][o][c] = {TRUE}
    /\ d \in Gateway => validate_gateway_trust(s, d)

LEMMA SameIsGood ==
    ASSUME NEW s, NEW t, NEW k, Good(s, k), ShellOK(t), SameMounts(s, t)
    PROVE  Good(t, k)
  BY DEF Good, Backed, IdsBelow, SameMounts, MountBacked

LEMMA LaterIsGood ==
    ASSUME NEW s, NEW k \in Nat, NEW j \in Nat, k <= j, Good(s, k)
    PROVE  Good(s, j)
<1>1. /\ \A b \in s.bridge_sessions : b.session \in Nat
      /\ \A r \in s.sessions : r.session \in Nat
      /\ \A d \in Domain : \A m \in s.mounts[d] : m.session \in Nat
  BY DEF Good, ShellOK, RuntimeShellState, GatewayBridgeSession, RuntimeSession,
         MountedRuntimeSurface
<1>2. QED
  BY <1>1 DEF Good, IdsBelow

LEMMA EmptyIsGood == ASSUME NEW k \in Nat PROVE Good(EmptyShell, k)
  BY DEF Good, ShellOK, EmptyShell, RuntimeShellState, Backed, IdsBelow

-----------------------------------------------------------------------------
(* Methods that touch neither mounts nor sessions.                         *)

LEMMA RegistrationIsGood ==
    ASSUME NEW s, NEW k, Good(s, k), NEW d \in Domain, NEW o \in Peer
    PROVE  /\ Good(upsert_registration(s, d, o), k)
           /\ upsert_registration(s, d, o).registry[d] = {o}
           /\ upsert_registration(s, d, o).gateway_trust = s.gateway_trust
           /\ upsert_registration(s, d, o).permissions = s.permissions
           /\ SameMounts(s, upsert_registration(s, d, o))
<1> DEFINE t == upsert_registration(s, d, o)
           new == [s.registry EXCEPT ![d] = {o}]
<1>1. s \in RuntimeShellState /\ s.registry \in [Domain -> SUBSET Peer]
  BY DEF Good, ShellOK, RuntimeShellState
<1>2. /\ t = [s EXCEPT !.registry = new]
      /\ t.registry = new
      /\ t.gateway_trust = s.gateway_trust
      /\ t.permissions = s.permissions
      /\ SameMounts(s, t)
  BY <1>1 DEF upsert_registration, RuntimeShellState, SameMounts
<1>3. ShellOK(t)
  <2>1. new \in [Domain -> SUBSET Peer]
    BY <1>1
  <2>2. t \in RuntimeShellState
    BY <1>1, <1>2, <2>1 DEF RuntimeShellState
  <2>3. \A e \in Domain : \A o1, o2 \in new[e] : o1 = o2
    BY <1>1 DEF Good, ShellOK
  <2>4. QED
    BY <1>2, <2>2, <2>3 DEF Good, ShellOK, SameMounts
<1>4. t.registry[d] = {o}
  BY <1>1, <1>2
<1>5. QED
  BY <1>2, <1>3, <1>4, SameIsGood

LEMMA TrustIsGood ==
    ASSUME NEW s, NEW k, Good(s, k), NEW g \in Gateway, NEW p \in Policy
    PROVE  /\ Good(upsert_gateway_trust(s, g, p), k)
           /\ upsert_gateway_trust(s, g, p).registry = s.registry
           /\ upsert_gateway_trust(s, g, p).permissions = s.permissions
           /\ SameMounts(s, upsert_gateway_trust(s, g, p))
           /\ \A h \in Gateway \ {g} :
                upsert_gateway_trust(s, g, p).gateway_trust[h] = s.gateway_trust[h]
           /\ upsert_gateway_trust(s, g, p).gateway_trust[g] = {p}
<1> DEFINE t == upsert_gateway_trust(s, g, p)
           new == [s.gateway_trust EXCEPT ![g] = {p}]
<1>1. s \in RuntimeShellState /\ s.gateway_trust \in [Gateway -> SUBSET Policy]
  BY DEF Good, ShellOK, RuntimeShellState
<1>2. /\ t = [s EXCEPT !.gateway_trust = new]
      /\ t.gateway_trust = new
      /\ t.registry = s.registry
      /\ t.permissions = s.permissions
      /\ SameMounts(s, t)
  BY <1>1 DEF upsert_gateway_trust, RuntimeShellState, SameMounts
<1>3. ShellOK(t)
  <2>1. new \in [Gateway -> SUBSET Policy]
    BY <1>1
  <2>2. t \in RuntimeShellState
    BY <1>1, <1>2, <2>1 DEF RuntimeShellState
  <2>3. \A h \in Gateway : \A t1, t2 \in new[h] : t1 = t2
    BY <1>1 DEF Good, ShellOK
  <2>4. QED
    BY <1>2, <2>2, <2>3 DEF Good, ShellOK, SameMounts
<1>4. /\ \A h \in Gateway \ {g} : t.gateway_trust[h] = s.gateway_trust[h]
      /\ t.gateway_trust[g] = {p}
  BY <1>1, <1>2
<1>5. QED
  BY <1>2, <1>3, <1>4, SameIsGood

LEMMA GrantIsGood ==
    ASSUME NEW s, NEW k, Good(s, k), NEW u \in Surface, NEW o \in Peer, NEW c \in Cap,
           NEW allowed \in BOOLEAN
    PROVE  /\ Good(grant_permission(s, u, o, c, allowed), k)
           /\ grant_permission(s, u, o, c, allowed).registry = s.registry
           /\ grant_permission(s, u, o, c, allowed).gateway_trust = s.gateway_trust
           /\ SameMounts(s, grant_permission(s, u, o, c, allowed))
           /\ \A v \in Surface, q \in Peer, e \in Cap :
                <<v, q, e>> # <<u, o, c>> =>
                    grant_permission(s, u, o, c, allowed).permissions[v][q][e] =
                        s.permissions[v][q][e]
           /\ grant_permission(s, u, o, c, allowed).permissions[u][o][c] = {allowed}
<1> DEFINE t == grant_permission(s, u, o, c, allowed)
           perms == [s.permissions EXCEPT ![u][o][c] = {allowed}]
<1>1. s \in RuntimeShellState
  BY DEF Good, ShellOK
<1>2. t = [s EXCEPT !.permissions = perms]
  BY DEF grant_permission
<1>3. perms \in [Surface -> [Peer -> [Cap -> SUBSET BOOLEAN]]]
  BY <1>1 DEF RuntimeShellState
<1>4. /\ t.gateway_trust = s.gateway_trust
      /\ t.registry = s.registry
      /\ SameMounts(s, t)
  BY <1>1, <1>2 DEF RuntimeShellState, SameMounts
<1>5. t \in RuntimeShellState
  BY <1>1, <1>2, <1>3 DEF RuntimeShellState
<1>6. ShellOK(t)
  <2>1. t.permissions = perms /\ {allowed} # BOOLEAN
    BY <1>1, <1>2 DEF RuntimeShellState
  <2>2. \A v \in Surface, q \in Peer, e \in Cap : perms[v][q][e] # BOOLEAN
    BY <1>1, <2>1 DEF Good, ShellOK, RuntimeShellState
  <2>3. QED
    BY <1>4, <1>5, <2>1, <2>2 DEF Good, ShellOK, SameMounts
<1>7. /\ \A v \in Surface, q \in Peer, e \in Cap :
           <<v, q, e>> # <<u, o, c>> => t.permissions[v][q][e] = s.permissions[v][q][e]
      /\ t.permissions[u][o][c] = {allowed}
  <2>1. t.permissions = perms
    BY <1>1, <1>2 DEF RuntimeShellState
  <2>2. QED
    BY <1>1, <2>1 DEF RuntimeShellState
<1>8. Good(t, k)
  BY <1>4, <1>6, SameIsGood
<1>9. QED
  BY <1>4, <1>7, <1>8

\* A stored decision is a grant or a denial.
LEMMA OneBoolean ==
    ASSUME NEW S \in SUBSET BOOLEAN, S # {}, S # BOOLEAN
    PROVE  S \in {{TRUE}, {FALSE}}
<1>1. CASE TRUE \in S /\ FALSE \in S
  <2>1. \A x \in BOOLEAN : x \in S
    BY <1>1
  <2>2. QED
    BY <2>1
<1>2. CASE TRUE \notin S \/ FALSE \notin S
  <2>1. CASE TRUE \in S
    <3>1. S = {TRUE}
      BY <1>2, <2>1
    <3>2. QED
      BY <3>1
  <2>2. CASE TRUE \notin S
    <3>1. S = {FALSE}
      BY <2>2
    <3>2. QED
      BY <3>1
  <2>3. QED
    BY <2>1, <2>2
<1>3. QED
  BY <1>1, <1>2

LEMMA NegotiateIsGood ==
    ASSUME NEW s, NEW k, Good(s, k), NEW d \in Domain, NEW o \in Peer
    PROVE  /\ Good(negotiate_capabilities(s, d, o), k)
           /\ negotiate_capabilities(s, d, o).registry = s.registry
           /\ negotiate_capabilities(s, d, o).gateway_trust = s.gateway_trust
           /\ SameMounts(s, negotiate_capabilities(s, d, o))
           /\ Keeps(s, negotiate_capabilities(s, d, o))
           /\ \A c \in Requested[d] :
                negotiate_capabilities(s, d, o).permissions[SurfaceOf(d)][o][c] =
                    {capability_allowed(s, d, o, c)}
<1> DEFINE t == negotiate_capabilities(s, d, o)
           u == SurfaceOf(d)
           outcome == [c \in Cap |-> IF c \in Requested[d] THEN {capability_allowed(s, d, o, c)}
                                     ELSE s.permissions[u][o][c]]
<1>1. /\ s \in RuntimeShellState /\ u \in Surface
      /\ s.permissions \in [Surface -> [Peer -> [Cap -> SUBSET BOOLEAN]]]
      /\ s.permissions[u][o] \in [Cap -> SUBSET BOOLEAN]
  BY DEF Good, ShellOK, SurfaceOf, Surface, RuntimeShellState
<1>2. \A c \in Cap : capability_allowed(s, d, o, c) \in BOOLEAN
  BY DEF capability_allowed, gateway_capability_is_trusted
<1>3. outcome \in [Cap -> SUBSET BOOLEAN]
  BY <1>1, <1>2
<1> DEFINE mine == [s.permissions[u] EXCEPT ![o] = outcome]
           new == [s.permissions EXCEPT ![u] = mine]
<1>4. t = [s EXCEPT !.permissions = new]
  BY <1>1 DEF negotiate_capabilities
<1>5. new \in [Surface -> [Peer -> [Cap -> SUBSET BOOLEAN]]]
  <2>1. mine \in [Peer -> [Cap -> SUBSET BOOLEAN]]
    BY <1>1, <1>3
  <2>2. QED
    BY <1>1, <2>1
<1>6. /\ t.gateway_trust = s.gateway_trust
      /\ t.registry = s.registry
      /\ SameMounts(s, t)
      /\ t.permissions = new
  BY <1>1, <1>4 DEF RuntimeShellState, SameMounts
<1>7. t \in RuntimeShellState
  BY <1>1, <1>4, <1>5 DEF RuntimeShellState
<1>8. ShellOK(t)
  <2>1. \A c \in Cap : outcome[c] # BOOLEAN
    BY <1>1, <1>2 DEF Good, ShellOK
  <2>2. \A v \in Surface, q \in Peer, c \in Cap : new[v][q][c] # BOOLEAN
    <3>1. mine[o] = outcome /\ \A q \in Peer \ {o} : mine[q] = s.permissions[u][q]
      <4>1. s.permissions[u] \in [Peer -> [Cap -> SUBSET BOOLEAN]]
        BY <1>1
      <4>2. QED
        BY <4>1
    <3>2. \A q \in Peer, c \in Cap : mine[q][c] # BOOLEAN
      <4>1. \A q \in Peer, c \in Cap : s.permissions[u][q][c] # BOOLEAN
        BY <1>1 DEF Good, ShellOK
      <4> HIDE DEF mine, outcome
      <4>2. QED
        BY <2>1, <3>1, <4>1
    <3>3. new[u] = mine /\ \A v \in Surface \ {u} : new[v] = s.permissions[v]
      BY <1>1
    <3>4. \A v \in Surface, q \in Peer, c \in Cap : s.permissions[v][q][c] # BOOLEAN
      BY DEF Good, ShellOK
    <3>5. QED
      BY <3>2, <3>3, <3>4
  <2>3. QED
    BY <1>6, <1>7, <2>2 DEF Good, ShellOK, SameMounts
<1>9. \A c \in Requested[d] : c \in Cap
  BY ShellAssumption
<1>10. t.permissions[u][o] = outcome
  BY <1>1, <1>6
<1>11. Good(t, k)
  BY <1>6, <1>8, SameIsGood
<1>12. Keeps(s, t)
  <2>1. ASSUME NEW v \in Surface, NEW q \in Peer, NEW c \in Cap, s.permissions[v][q][c] # {}
        PROVE  t.permissions[v][q][c] = s.permissions[v][q][c]
    <3>1. CASE v = u /\ q = o
      <4>1. s.permissions[u][o][c] \in {{TRUE}, {FALSE}}
        <5>1. s.permissions[u][o][c] \in SUBSET BOOLEAN
          BY <1>1
        <5>2. s.permissions[u][o][c] # BOOLEAN /\ s.permissions[u][o][c] # {}
          BY <1>1, <2>1, <3>1 DEF Good, ShellOK
        <5>3. QED
          BY <5>1, <5>2, OneBoolean
      <4>2. {capability_allowed(s, d, o, c)} = s.permissions[u][o][c]
        BY <4>1 DEF capability_allowed
      <4>3. QED
        BY <1>10, <3>1, <4>2
    <3>2. CASE ~(v = u /\ q = o)
      BY <1>1, <1>6, <3>2
    <3>3. QED
      BY <3>1, <3>2
  <2>2. QED
    BY <1>6, <2>1 DEF Keeps
<1>13. QED
  BY <1>6, <1>9, <1>10, <1>11, <1>12

\* Loading reads whose registration it finds and makes it this node's.
LEMMA LoadedIsGood ==
    ASSUME NEW s, NEW k, Good(s, k)
    PROVE  Good(Loaded(s), k) /\ SameMounts(s, Loaded(s))
<1> DEFINE e == ensure_builtin_registry(s)
           t == Loaded(s)
           trust == [g \in Gateway |-> IF g \in Builtin /\ s.registry[g] = {}
                                       THEN {[state |-> "Trusted", level |-> "Trusted"]}
                                       ELSE s.gateway_trust[g]]
<1>1. s \in RuntimeShellState
  BY DEF Good, ShellOK
<1>2. e.gateway_trust = trust /\ SameMounts(s, e) /\ e.permissions = s.permissions
  BY <1>1 DEF ensure_builtin_registry, RuntimeShellState, SameMounts
<1>3. trust \in [Gateway -> SUBSET Policy]
  BY <1>1 DEF RuntimeShellState, Policy
<1>4. e \in RuntimeShellState
  BY <1>1, <1>3, ShellAssumption DEF ensure_builtin_registry, RuntimeShellState
<1>5. /\ t.gateway_trust = trust /\ SameMounts(s, t) /\ t.permissions = s.permissions
      /\ t.registry = [d \in Domain |-> IF e.registry[d] = {} THEN {} ELSE {Self}]
  BY <1>2, <1>4 DEF Loaded, reconcile_registry_owner, RuntimeShellState, SameMounts
<1>6. t \in RuntimeShellState
  BY <1>4, ShellAssumption DEF Loaded, reconcile_registry_owner, RuntimeShellState
<1>7. \A g \in Gateway : \A t1, t2 \in trust[g] : t1 = t2
  BY DEF Good, ShellOK
<1>8. ShellOK(t)
  BY <1>5, <1>6, <1>7 DEF Good, ShellOK, SameMounts
<1>9. QED
  BY <1>5, <1>8, SameIsGood

-----------------------------------------------------------------------------
(* Methods that write mounts, routes, bridge sessions and sessions.        *)

\* What those methods leave alone.
SameDecisions(s, t) ==
    /\ t.registry = s.registry
    /\ t.permissions = s.permissions
    /\ t.gateway_trust = s.gateway_trust

LEMMA UpsertMount ==
    ASSUME NEW s, ShellOK(s), NEW d \in Domain, NEW m \in MountedRuntimeSurface
    PROVE  LET t == upsert_mount(s, d, m)
           IN  /\ ShellOK(t) /\ SameDecisions(s, t)
               /\ t.mounts[d] = {m}
               /\ \A e \in Domain \ {d} : t.mounts[e] = s.mounts[e]
               /\ t.gateway_routes = s.gateway_routes
               /\ t.bridge_sessions = s.bridge_sessions
               /\ t.sessions = s.sessions
<1> DEFINE t == upsert_mount(s, d, m)
           new == [s.mounts EXCEPT ![d] = {m}]
<1>1. s \in RuntimeShellState /\ s.mounts \in [Domain -> SUBSET MountedRuntimeSurface]
  BY DEF ShellOK, RuntimeShellState
<1>2. new \in [Domain -> SUBSET MountedRuntimeSurface]
  BY <1>1
<1>3. /\ t = [s EXCEPT !.mounts = new] /\ t.mounts = new /\ SameDecisions(s, t)
      /\ t.gateway_routes = s.gateway_routes
      /\ t.bridge_sessions = s.bridge_sessions
      /\ t.sessions = s.sessions
  BY <1>1 DEF upsert_mount, RuntimeShellState, SameDecisions
<1>4. t \in RuntimeShellState
  BY <1>1, <1>2, <1>3 DEF RuntimeShellState
<1>5. \A e \in Domain : \A m1, m2 \in new[e] : m1 = m2
  BY <1>1 DEF ShellOK
<1>6. ShellOK(t)
  BY <1>3, <1>4, <1>5 DEF ShellOK, SameDecisions
<1>7. new[d] = {m} /\ \A e \in Domain \ {d} : new[e] = s.mounts[e]
  BY <1>1
<1>8. QED
  BY <1>3, <1>6, <1>7

LEMMA UpsertRoute ==
    ASSUME NEW s, ShellOK(s), NEW g \in Gateway, NEW r \in GatewayRouteState
    PROVE  LET t == upsert_gateway_route(s, g, r)
           IN  /\ ShellOK(t) /\ SameDecisions(s, t)
               /\ t.gateway_routes[g] = {r}
               /\ \A h \in Gateway \ {g} : t.gateway_routes[h] = s.gateway_routes[h]
               /\ t.mounts = s.mounts
               /\ t.bridge_sessions = s.bridge_sessions
               /\ t.sessions = s.sessions
<1> DEFINE t == upsert_gateway_route(s, g, r)
           new == [s.gateway_routes EXCEPT ![g] = {r}]
<1>1. /\ s \in RuntimeShellState
      /\ s.gateway_routes \in [Gateway -> SUBSET GatewayRouteState]
  BY DEF ShellOK, RuntimeShellState
<1>2. new \in [Gateway -> SUBSET GatewayRouteState]
  BY <1>1
<1>3. /\ t = [s EXCEPT !.gateway_routes = new] /\ t.gateway_routes = new
      /\ SameDecisions(s, t)
      /\ t.mounts = s.mounts
      /\ t.bridge_sessions = s.bridge_sessions
      /\ t.sessions = s.sessions
  BY <1>1 DEF upsert_gateway_route, RuntimeShellState, SameDecisions
<1>4. t \in RuntimeShellState
  BY <1>1, <1>2, <1>3 DEF RuntimeShellState
<1>5. \A h \in Gateway : \A r1, r2 \in new[h] : r1 = r2
  BY <1>1 DEF ShellOK
<1>6. ShellOK(t)
  BY <1>3, <1>4, <1>5 DEF ShellOK, SameDecisions
<1>7. new[g] = {r} /\ \A h \in Gateway \ {g} : new[h] = s.gateway_routes[h]
  BY <1>1
<1>8. QED
  BY <1>3, <1>6, <1>7

LEMMA UpsertBridge ==
    ASSUME NEW s, ShellOK(s), NEW g \in Gateway, NEW id \in Nat,
           NEW fetch \in {"completed", "failed"}
    PROVE  LET t == upsert_gateway_bridge_session(s, g, id, fetch)
           IN  /\ ShellOK(t) /\ SameDecisions(s, t)
               /\ t.bridge_sessions =
                    {b \in s.bridge_sessions : b.session # id}
                      \cup {[session |-> id, gateway |-> g, fetch |-> fetch]}
               /\ t.mounts = s.mounts
               /\ t.gateway_routes = s.gateway_routes
               /\ t.sessions = s.sessions
<1> DEFINE t == upsert_gateway_bridge_session(s, g, id, fetch)
           new == {b \in s.bridge_sessions : b.session # id}
                    \cup {[session |-> id, gateway |-> g, fetch |-> fetch]}
<1>1. s \in RuntimeShellState /\ s.bridge_sessions \subseteq GatewayBridgeSession
  BY DEF ShellOK, RuntimeShellState
<1>2. new \subseteq GatewayBridgeSession
  BY <1>1 DEF GatewayBridgeSession
<1>3. /\ t = [s EXCEPT !.bridge_sessions = new] /\ t.bridge_sessions = new
      /\ SameDecisions(s, t)
      /\ t.mounts = s.mounts
      /\ t.gateway_routes = s.gateway_routes
      /\ t.sessions = s.sessions
  BY <1>1 DEF upsert_gateway_bridge_session, RuntimeShellState, SameDecisions
<1>4. t \in RuntimeShellState
  BY <1>1, <1>2, <1>3 DEF RuntimeShellState
<1>5. QED
  BY <1>3, <1>4 DEF ShellOK, SameDecisions

LEMMA UpsertSession ==
    ASSUME NEW s, ShellOK(s), NEW id \in Nat, NEW u \in Surface, NEW o \in Peer,
           NEW caps \in SUBSET Cap
    PROVE  LET t == upsert_session(s, id, u, o, caps)
           IN  /\ ShellOK(t) /\ SameDecisions(s, t)
               /\ t.sessions =
                    {k \in s.sessions : k.session # id}
                      \cup {[session |-> id, surface |-> u, owner |-> o, caps |-> caps]}
               /\ t.mounts = s.mounts
               /\ t.gateway_routes = s.gateway_routes
               /\ t.bridge_sessions = s.bridge_sessions
<1> DEFINE t == upsert_session(s, id, u, o, caps)
           new == {k \in s.sessions : k.session # id}
                    \cup {[session |-> id, surface |-> u, owner |-> o, caps |-> caps]}
<1>1. s \in RuntimeShellState /\ s.sessions \subseteq RuntimeSession
  BY DEF ShellOK, RuntimeShellState
<1>2. new \subseteq RuntimeSession
  BY <1>1 DEF RuntimeSession
<1>3. /\ t = [s EXCEPT !.sessions = new] /\ t.sessions = new
      /\ SameDecisions(s, t)
      /\ t.mounts = s.mounts
      /\ t.gateway_routes = s.gateway_routes
      /\ t.bridge_sessions = s.bridge_sessions
  BY <1>1 DEF upsert_session, RuntimeShellState, SameDecisions
<1>4. t \in RuntimeShellState
  BY <1>1, <1>2, <1>3 DEF RuntimeShellState
<1>5. QED
  BY <1>3, <1>4 DEF ShellOK, SameDecisions

\* Other mounts stay backed when a new id enters the lists.
LEMMA FreshId ==
    ASSUME NEW s, NEW t, NEW k \in Nat, NEW id \in Nat, k < id, Good(s, k), ShellOK(t),
           NEW d \in Domain,
           \A e \in Domain \ {d} : t.mounts[e] = s.mounts[e],
           \A g \in Gateway \ {d} : t.gateway_routes[g] = s.gateway_routes[g],
           \A r \in s.sessions : r.session # id => r \in t.sessions,
           \A b \in s.bridge_sessions : b.session # id => b \in t.bridge_sessions,
           \A r \in t.sessions : r \in s.sessions \/ r.session = id,
           \A b \in t.bridge_sessions : b \in s.bridge_sessions \/ b.session = id,
           \A m \in t.mounts[d] :
               m.session = id /\ (m.state = "Mounted" => MountBacked(t, d, m))
    PROVE  Good(t, id)
<1>1. Good(s, id)
  BY LaterIsGood
<1>2. \A e \in Domain : \A m \in s.mounts[e] : m.session \in Nat /\ m.session # id
  <2>1. \A e \in Domain : \A m \in s.mounts[e] : m.session \in Nat /\ m.session <= k
    BY DEF Good, ShellOK, RuntimeShellState, MountedRuntimeSurface, IdsBelow
  <2>2. QED
    BY <2>1
<1>3. IdsBelow(t, id)
  BY <1>1 DEF Good, IdsBelow
<1>4. ASSUME NEW e \in Domain \ {d}, NEW m \in t.mounts[e], m.state = "Mounted"
      PROVE  MountBacked(t, e, m)
  <2>1. m \in s.mounts[e] /\ MountBacked(s, e, m) /\ m.session # id
    BY <1>2, <1>4 DEF Good, Backed
  <2>2. QED
    BY <2>1 DEF MountBacked
<1>5. QED
  BY <1>3, <1>4 DEF Good, Backed

LEMMA FailedMountIsGood ==
    ASSUME NEW s, NEW k \in Nat, NEW id \in Nat, k < id, Good(s, k), NEW d \in Domain,
           NEW o \in Peer
    PROVE  /\ Good(record_failed_mount(s, d, o, id), id)
           /\ SameDecisions(s, record_failed_mount(s, d, o, id))
           /\ \A e \in Domain : \A m \in record_failed_mount(s, d, o, id).mounts[e] :
                m \in s.mounts[e] \/ m.state = "Failed"
<1> DEFINE m == [state |-> "Failed", owner |-> o, session |-> id,
                 caps |-> Requested[d] \ rejected_capabilities(s, d, o)]
           t == upsert_mount(s, d, m)
<1>1. m \in MountedRuntimeSurface
  BY ShellAssumption DEF MountedRuntimeSurface
<1>2. ShellOK(s)
  BY DEF Good
<1>3. /\ Good(t, id) /\ SameDecisions(s, t)
      /\ \A e \in Domain : \A x \in t.mounts[e] : x \in s.mounts[e] \/ x.state = "Failed"
  <2>1. \A x \in t.mounts[d] : x.session = id /\ x.state # "Mounted"
    BY <1>1, <1>2, UpsertMount
  <2>2. Good(t, id) /\ SameDecisions(s, t)
    BY <1>1, <1>2, <2>1, UpsertMount, FreshId
  <2>3. m.state = "Failed"
    OBVIOUS
  <2> HIDE DEF m
  <2>4. t.mounts[d] = {m} /\ \A e \in Domain \ {d} : t.mounts[e] = s.mounts[e]
    BY <1>1, <1>2, UpsertMount
  <2> HIDE DEF t
  <2>5. QED
    BY <2>2, <2>3, <2>4
<1>4. QED
  BY <1>3 DEF record_failed_mount

LEMMA GatewayFailureIsGood ==
    ASSUME NEW s, NEW k \in Nat, NEW id \in Nat, k < id, Good(s, k), NEW g \in Gateway,
           NEW o \in Peer
    PROVE  /\ Good(record_gateway_failure(s, g, o, id), id)
           /\ SameDecisions(s, record_gateway_failure(s, g, o, id))
           /\ \A e \in Domain : \A m \in record_gateway_failure(s, g, o, id).mounts[e] :
                m \in s.mounts[e] \/ m.state = "Failed"
<1> DEFINE m == [state |-> "Failed", owner |-> o, caps |-> {}, session |-> id]
           r == [session |-> id, active |-> FALSE]
           s1 == upsert_mount(s, g, m)
           s2 == upsert_gateway_bridge_session(s1, g, id, "failed")
           t == upsert_gateway_route(s2, g, r)
<1>1. m \in MountedRuntimeSurface /\ r \in GatewayRouteState /\ g \in Domain
  BY ShellAssumption DEF MountedRuntimeSurface, GatewayRouteState
<1>2. ShellOK(s)
  BY DEF Good
<1>3. /\ ShellOK(s1) /\ SameDecisions(s, s1)
      /\ s1.mounts[g] = {m}
      /\ \A e \in Domain \ {g} : s1.mounts[e] = s.mounts[e]
      /\ s1.gateway_routes = s.gateway_routes
      /\ s1.bridge_sessions = s.bridge_sessions
      /\ s1.sessions = s.sessions
  BY <1>1, <1>2, UpsertMount
<1>4. /\ ShellOK(s2) /\ SameDecisions(s1, s2)
      /\ s2.bridge_sessions =
           {b \in s1.bridge_sessions : b.session # id}
             \cup {[session |-> id, gateway |-> g, fetch |-> "failed"]}
      /\ s2.mounts = s1.mounts
      /\ s2.gateway_routes = s1.gateway_routes
      /\ s2.sessions = s1.sessions
  BY <1>3, UpsertBridge
<1> HIDE DEF m, r, s1, s2
<1>5. /\ ShellOK(t) /\ SameDecisions(s2, t)
      /\ \A h \in Gateway \ {g} : t.gateway_routes[h] = s2.gateway_routes[h]
      /\ t.mounts = s2.mounts
      /\ t.bridge_sessions = s2.bridge_sessions
      /\ t.sessions = s2.sessions
  BY <1>1, <1>4, UpsertRoute
<1> HIDE DEF t
<1>6. \A b \in t.bridge_sessions : b \in s.bridge_sessions \/ b.session = id
  BY <1>3, <1>4, <1>5
<1>7. \A x \in t.mounts[g] : x.session = id /\ x.state # "Mounted"
  BY <1>3, <1>4, <1>5 DEF m
<1>8. Good(t, id)
  <2>1. /\ \A e \in Domain \ {g} : t.mounts[e] = s.mounts[e]
        /\ \A h \in Gateway \ {g} : t.gateway_routes[h] = s.gateway_routes[h]
        /\ t.sessions = s.sessions
        /\ \A b \in s.bridge_sessions : b.session # id => b \in t.bridge_sessions
    BY <1>3, <1>4, <1>5
  <2>2. QED
    BY <1>1, <1>5, <1>6, <1>7, <2>1, FreshId
<1>9. SameDecisions(s, t)
  BY <1>3, <1>4, <1>5 DEF SameDecisions
<1>10. \A e \in Domain : \A x \in t.mounts[e] : x \in s.mounts[e] \/ x.state = "Failed"
  BY <1>3, <1>4, <1>5 DEF m
<1>11. QED
  BY <1>8, <1>9, <1>10 DEF record_gateway_failure, m, r, s1, s2, t

\* What record_mount writes, whatever the route.
LEMMA MountShape ==
    ASSUME NEW s, ShellOK(s), NEW d \in Domain, NEW o \in Peer, NEW id \in Nat
    PROVE  LET t == record_mount(s, d, o, id)
               m == [state |-> "Mounted", owner |-> o, session |-> id, caps |-> Requested[d]]
           IN  /\ ShellOK(t) /\ SameDecisions(s, t)
               /\ t.mounts[d] = {m}
               /\ \A e \in Domain \ {d} : t.mounts[e] = s.mounts[e]
               /\ t.sessions =
                    {k \in s.sessions : k.session # id}
                      \cup {[session |-> id, surface |-> SurfaceOf(d), owner |-> o,
                             caps |-> Requested[d]]}
               /\ t.gateway_routes = s.gateway_routes
               /\ t.bridge_sessions = s.bridge_sessions
<1> DEFINE m == [state |-> "Mounted", owner |-> o, session |-> id, caps |-> Requested[d]]
           s1 == upsert_session(s, id, SurfaceOf(d), o, Requested[d])
           t == upsert_mount(s1, d, m)
<1>1. m \in MountedRuntimeSurface /\ SurfaceOf(d) \in Surface /\ Requested[d] \in SUBSET Cap
  BY ShellAssumption DEF MountedRuntimeSurface, SurfaceOf, Surface
<1>2. /\ ShellOK(s1) /\ SameDecisions(s, s1)
      /\ s1.sessions =
           {k \in s.sessions : k.session # id}
             \cup {[session |-> id, surface |-> SurfaceOf(d), owner |-> o,
                    caps |-> Requested[d]]}
      /\ s1.mounts = s.mounts
      /\ s1.gateway_routes = s.gateway_routes
      /\ s1.bridge_sessions = s.bridge_sessions
  BY <1>1, UpsertSession
<1> HIDE DEF s1, m
<1>3. /\ ShellOK(t) /\ SameDecisions(s1, t)
      /\ t.mounts[d] = {m}
      /\ \A e \in Domain \ {d} : t.mounts[e] = s1.mounts[e]
      /\ t.gateway_routes = s1.gateway_routes
      /\ t.bridge_sessions = s1.bridge_sessions
      /\ t.sessions = s1.sessions
  BY <1>1, <1>2, UpsertMount
<1>4. SameDecisions(s, t)
  BY <1>2, <1>3 DEF SameDecisions
<1>5. t = record_mount(s, d, o, id)
  BY DEF record_mount, s1, m
<1> HIDE DEF t
<1>6. QED
  BY <1>2, <1>3, <1>4, <1>5 DEF m

\* An application's mount.
LEMMA MountIsGood ==
    ASSUME NEW s, NEW k \in Nat, NEW id \in Nat, k < id, Good(s, k),
           NEW d \in Domain \ Gateway, NEW o \in Peer
    PROVE  Good(record_mount(s, d, o, id), id)
<1> DEFINE t == record_mount(s, d, o, id)
           m == [state |-> "Mounted", owner |-> o, session |-> id, caps |-> Requested[d]]
           r == [session |-> id, surface |-> SurfaceOf(d), owner |-> o, caps |-> Requested[d]]
<1>1. /\ ShellOK(t) /\ t.mounts[d] = {m}
      /\ \A e \in Domain \ {d} : t.mounts[e] = s.mounts[e]
      /\ t.sessions = {x \in s.sessions : x.session # id} \cup {r}
      /\ t.gateway_routes = s.gateway_routes
      /\ t.bridge_sessions = s.bridge_sessions
  BY MountShape DEF Good
<1> HIDE DEF t
<1>2. \A x \in t.mounts[d] : x.session = id /\ MountBacked(t, d, x)
  BY <1>1 DEF MountBacked
<1>3. \A x \in t.sessions : x \in s.sessions \/ x.session = id
  BY <1>1
<1>4. QED
  BY <1>1, <1>2, <1>3, FreshId DEF t

\* A gateway's mount.
LEMMA GatewayMountIsGood ==
    ASSUME NEW s, NEW k \in Nat, NEW id \in Nat, k < id, Good(s, k), NEW g \in Gateway,
           NEW o \in Peer
    PROVE  LET t == record_gateway_mount(s, g, o, id)
           IN  /\ Good(t, id) /\ SameDecisions(s, t)
               /\ t.mounts[g] = {[state |-> "Mounted", owner |-> o, session |-> id,
                                  caps |-> Requested[g]]}
               /\ \A e \in Domain \ {g} : t.mounts[e] = s.mounts[e]
<1> DEFINE b == [session |-> id, gateway |-> g, fetch |-> "completed"]
           w == [session |-> id, active |-> TRUE]
           s1 == upsert_gateway_bridge_session(s, g, id, "completed")
           s2 == upsert_gateway_route(s1, g, w)
           t == record_mount(s2, g, o, id)
           m == [state |-> "Mounted", owner |-> o, session |-> id, caps |-> Requested[g]]
           r == [session |-> id, surface |-> SurfaceOf(g), owner |-> o, caps |-> Requested[g]]
<1>1. ShellOK(s) /\ w \in GatewayRouteState /\ g \in Domain
  BY ShellAssumption DEF Good, GatewayRouteState
<1>2. /\ ShellOK(s1) /\ SameDecisions(s, s1)
      /\ s1.bridge_sessions = {x \in s.bridge_sessions : x.session # id} \cup {b}
      /\ s1.mounts = s.mounts
      /\ s1.gateway_routes = s.gateway_routes
      /\ s1.sessions = s.sessions
  BY <1>1, UpsertBridge
<1> HIDE DEF s1
<1>3. /\ ShellOK(s2) /\ SameDecisions(s1, s2)
      /\ s2.gateway_routes[g] = {w}
      /\ \A h \in Gateway \ {g} : s2.gateway_routes[h] = s1.gateway_routes[h]
      /\ s2.mounts = s1.mounts
      /\ s2.bridge_sessions = s1.bridge_sessions
      /\ s2.sessions = s1.sessions
  BY <1>1, <1>2, UpsertRoute
<1> HIDE DEF s2
<1>4. /\ ShellOK(t) /\ SameDecisions(s2, t)
      /\ t.mounts[g] = {m}
      /\ \A e \in Domain \ {g} : t.mounts[e] = s2.mounts[e]
      /\ t.sessions = {x \in s2.sessions : x.session # id} \cup {r}
      /\ t.gateway_routes = s2.gateway_routes
      /\ t.bridge_sessions = s2.bridge_sessions
  BY <1>1, <1>3, MountShape
<1> HIDE DEF t
<1>5. \A x \in t.mounts[g] : x.session = id /\ MountBacked(t, g, x)
  BY <1>2, <1>3, <1>4 DEF MountBacked
<1>6. /\ \A x \in t.sessions : x \in s.sessions \/ x.session = id
      /\ \A x \in t.bridge_sessions : x \in s.bridge_sessions \/ x.session = id
      /\ \A x \in s.sessions : x.session # id => x \in t.sessions
      /\ \A x \in s.bridge_sessions : x.session # id => x \in t.bridge_sessions
  BY <1>2, <1>3, <1>4
<1>7. /\ \A e \in Domain \ {g} : t.mounts[e] = s.mounts[e]
      /\ \A h \in Gateway \ {g} : t.gateway_routes[h] = s.gateway_routes[h]
  BY <1>2, <1>3, <1>4
<1>8. Good(t, id)
  BY <1>1, <1>4, <1>5, <1>6, <1>7, FreshId
<1>9. SameDecisions(s, t)
  BY <1>2, <1>3, <1>4 DEF SameDecisions
<1>10. t = record_gateway_mount(s, g, o, id)
  BY DEF record_gateway_mount, s1, s2, t
<1>11. QED
  BY <1>4, <1>7, <1>8, <1>9, <1>10

-----------------------------------------------------------------------------
(* An open up to its wait.                                                 *)

LEMMA KeepsTransitive ==
    ASSUME NEW s, NEW t, NEW f, Keeps(s, t), Keeps(t, f)
    PROVE  Keeps(s, f)
  BY DEF Keeps

\* The trust a gateway gets when it has none yet.
LEMMA PendingIsGood ==
    ASSUME NEW s, NEW k, Good(s, k), NEW g \in Gateway
    PROVE  /\ Good(pending_trust(s, g), k) /\ Keeps(s, pending_trust(s, g))
           /\ SameMounts(s, pending_trust(s, g))
           /\ pending_trust(s, g).registry = s.registry
<1> DEFINE p == [state |-> "Pending", level |-> "Restricted"]
<1>1. p \in Policy
  BY DEF Policy
<1>2. CASE s.gateway_trust[g] = {}
  <2>1. pending_trust(s, g) = upsert_gateway_trust(s, g, p)
    BY <1>2 DEF pending_trust, set_gateway_trust
  <2> HIDE DEF p
  <2>2. QED
    BY <1>1, <1>2, <2>1, TrustIsGood DEF Keeps
<1>3. CASE s.gateway_trust[g] # {}
  BY <1>3 DEF pending_trust, Keeps, SameMounts
<1>4. QED
  BY <1>2, <1>3

\* The copies open_uri goes through before it decides.
Registered(s, d, o) == ensure_route_registration(s, d, o)

Considered(s, d, o) ==
    IF d \in Gateway THEN pending_trust(Registered(s, d, o), d) ELSE Registered(s, d, o)

Negotiated(s, d, o) == negotiate_capabilities(Considered(s, d, o), d, o)

Prepared(s, k, d, o, t, n) ==
    /\ Good(t, k) /\ SameMounts(s, t) /\ Keeps(s, t) /\ t.registry[d] # {}
    /\ Good(n, k) /\ SameMounts(s, n) /\ Keeps(s, n) /\ n.registry[d] # {}
    /\ n.gateway_trust = t.gateway_trust
    /\ rejected_capabilities(t, d, o) = {} =>
         \A c \in Requested[d] : n.permissions[SurfaceOf(d)][o][c] = {TRUE}

LEMMA OpenPrepares ==
    ASSUME NEW s, NEW k, Good(s, k), NEW d \in Domain, NEW o \in Peer
    PROVE  /\ Good(Registered(s, d, o), k)
           /\ Prepared(s, k, d, o, Considered(s, d, o), Negotiated(s, d, o))
<1> DEFINE r == Registered(s, d, o)
           t == Considered(s, d, o)
           n == Negotiated(s, d, o)
<1>1. Good(r, k) /\ SameMounts(s, r) /\ Keeps(s, r) /\ r.registry[d] # {}
  <2>1. CASE s.registry[d] = {}
    <3>1. r = upsert_registration(s, d, o)
      BY <2>1 DEF Registered, ensure_route_registration
    <3>2. QED
      BY <3>1, RegistrationIsGood DEF Keeps
  <2>2. CASE s.registry[d] # {}
    BY <2>2 DEF Registered, ensure_route_registration, SameMounts, Keeps
  <2>3. QED
    BY <2>1, <2>2
<1>2. Good(t, k) /\ SameMounts(s, t) /\ Keeps(s, t) /\ t.registry[d] # {}
  <2>1. CASE d \in Gateway
    <3>1. /\ Good(t, k) /\ SameMounts(r, t) /\ Keeps(r, t) /\ t.registry = r.registry
      BY <1>1, <2>1, PendingIsGood DEF Considered
    <3>2. QED
      BY <1>1, <3>1, KeepsTransitive DEF SameMounts
  <2>2. CASE d \notin Gateway
    BY <1>1, <2>2 DEF Considered
  <2>3. QED
    BY <2>1, <2>2
<1>3. /\ Good(n, k) /\ n.registry = t.registry /\ n.gateway_trust = t.gateway_trust
      /\ SameMounts(t, n) /\ Keeps(t, n)
  BY <1>2, NegotiateIsGood DEF Negotiated
<1>4. \A c \in Requested[d] :
        n.permissions[SurfaceOf(d)][o][c] = {capability_allowed(t, d, o, c)}
  BY <1>2, NegotiateIsGood DEF Negotiated
<1>5. SameMounts(s, n) /\ Keeps(s, n)
  BY <1>2, <1>3, KeepsTransitive DEF SameMounts
<1>6. ASSUME rejected_capabilities(t, d, o) = {}, NEW c \in Requested[d]
      PROVE  n.permissions[SurfaceOf(d)][o][c] = {TRUE}
  <2>1. capability_allowed(t, d, o, c)
    BY <1>6 DEF rejected_capabilities
  <2>2. capability_allowed(t, d, o, c) \in BOOLEAN
    BY DEF capability_allowed, gateway_capability_is_trusted
  <2>3. capability_allowed(t, d, o, c) = TRUE
    BY <2>1, <2>2
  <2>4. QED
    BY <1>4, <2>3
<1>7. QED
  BY <1>1, <1>2, <1>3, <1>5, <1>6 DEF Prepared

-----------------------------------------------------------------------------
(* How an open ends, or comes to wait.                                     *)

\* What a process p that worked on the copy s leaves behind.
Leaves(p, s) ==
    \E f \in RuntimeShellState :
        /\ Good(f, opens') /\ Good(disk', opens') /\ Keeps(s, f)
        /\ \A e \in Domain : \A m \in f.mounts[e] :
               m \in s.mounts[e] \/ m.state = "Failed" \/ Approved(f, e, m.owner)
        /\ \/ /\ p = Terminal
              /\ phase' = [phase EXCEPT ![p] = "off"]
              /\ shell' = [shell EXCEPT ![p] = EmptyShell]
              /\ opening' = [opening EXCEPT ![p] = {}]
           \/ /\ phase' = [phase EXCEPT ![p] = "idle"]
              /\ shell' = [shell EXCEPT ![p] = f]
              /\ opening' = [opening EXCEPT ![p] = {}]
           \/ /\ phase' = [phase EXCEPT ![p] = "fetching"]
              /\ shell' = [shell EXCEPT ![p] = f]
              /\ \E w \in Opening :
                   /\ opening' = [opening EXCEPT ![p] = {w}]
                   /\ w.session = opens' /\ opens' = opens + 1 /\ Good(f, opens)
                   /\ w.domain \in Gateway /\ Approved(f, w.domain, w.target)
        /\ ui' \in BrowserSurface
        /\ RefusalHasPrompt'

\* The prompts of one refusal.
LEMMA PromptsTyped ==
    ASSUME NEW s, ShellOK(s), NEW d \in Domain, s.registry[d] # {},
           NEW missing \in SUBSET Requested[d]
    PROVE  /\ capture_permission_prompts(s, d, missing) \in SUBSET BrowserPermissionPrompt
           /\ trust_prompt(s, d) \in SUBSET BrowserPermissionPrompt
           /\ missing # {} => \E q \in capture_permission_prompts(s, d, missing) : q.route = d
           /\ \E q \in trust_prompt(s, d) : q.route = d
<1>1. s.registry[d] \subseteq Peer /\ missing \subseteq Cap
  BY ShellAssumption DEF ShellOK, RuntimeShellState
<1>2. PICK o \in s.registry[d] : TRUE
  OBVIOUS
<1>3. \A c \in missing : [route |-> d, owner |-> o, cap |-> {c}]
                            \in capture_permission_prompts(s, d, missing)
  BY <1>2 DEF capture_permission_prompts
<1>4. [route |-> d, owner |-> o, cap |-> {}] \in trust_prompt(s, d)
  BY DEF trust_prompt
<1>5. /\ capture_permission_prompts(s, d, missing) \subseteq BrowserPermissionPrompt
      /\ trust_prompt(s, d) \subseteq BrowserPermissionPrompt
  BY <1>1 DEF capture_permission_prompts, trust_prompt, BrowserPermissionPrompt
<1>6. QED
  BY <1>3, <1>4, <1>5

\* A pending prompt of the same route is as good as a new one.
LEMMA PushKeeps ==
    ASSUME NEW pending \in SUBSET BrowserPermissionPrompt,
           NEW asked \in SUBSET BrowserPermissionPrompt, NEW d
    PROVE  /\ push_prompt(pending, asked) \in SUBSET BrowserPermissionPrompt
           /\ (\E q \in asked : q.route = d) => \E q \in push_prompt(pending, asked) : q.route = d
  BY DEF push_prompt

LEMMA FailsLeaves ==
    ASSUME NEW p \in Process, NEW d \in Domain, NEW s, NEW f \in RuntimeShellState, NEW saved,
           NEW refused \in BOOLEAN, NEW pending \in SUBSET BrowserPermissionPrompt,
           NEW asked \in SUBSET BrowserPermissionPrompt,
           refused => \E q \in asked : q.route = d,
           ui \in BrowserSurface, RefusalHasPrompt,
           Good(f, opens'), Good(saved, opens'), Keeps(s, f),
           \A e \in Domain : \A m \in f.mounts[e] : m \in s.mounts[e] \/ m.state = "Failed",
           Fails(p, d, f, saved, refused, pending, asked)
    PROVE  Leaves(p, s)
<1>1. ui' \in BrowserSurface /\ RefusalHasPrompt'
  <2>1. CASE UNCHANGED ui
    BY <2>1 DEF RefusalHasPrompt
  <2>2. CASE ui' = [ui EXCEPT !.current_uri = {d}, !.refused = refused,
                              !.pending_prompts = push_prompt(pending, asked)]
    <3>1. /\ ui' \in BrowserSurface /\ ui'.current_uri = {d} /\ ui'.refused = refused
          /\ ui'.pending_prompts = push_prompt(pending, asked)
      BY <2>2, PushKeeps DEF BrowserSurface
    <3>2. refused => \E q \in ui'.pending_prompts : q.route = d
      <4>1. (\E q \in asked : q.route = d) =>
              \E q \in push_prompt(pending, asked) : q.route = d
        BY DEF push_prompt
      <4>2. QED
        BY <3>1, <4>1
    <3>3. QED
      BY <3>1, <3>2 DEF RefusalHasPrompt
  <2>3. QED
    BY <2>1, <2>2 DEF Fails
<1>2. Good(disk', opens') /\ opening' = [opening EXCEPT ![p] = {}]
  BY DEF Fails
<1>3. QED
  BY <1>1, <1>2 DEF Fails, Leaves

LEMMA MountsLeaves ==
    ASSUME NEW p \in Process, NEW d \in Domain, NEW s, NEW f \in RuntimeShellState,
           ui \in BrowserSurface, RefusalHasPrompt, Good(f, opens'), Keeps(s, f),
           \A e \in Domain : \A m \in f.mounts[e] : m \in s.mounts[e] \/ Approved(f, e, m.owner),
           Mounts(p, d, f)
    PROVE  Leaves(p, s)
<1>1. ui' \in BrowserSurface /\ RefusalHasPrompt'
  BY DEF Mounts, BrowserSurface, RefusalHasPrompt
<1>2. QED
  BY <1>1 DEF Mounts, Leaves

LEMMA FetchesLeaves ==
    ASSUME NEW p \in Process, NEW d \in Gateway, NEW o \in Peer, NEW s,
           NEW f \in RuntimeShellState, NEW saved,
           NEW pending \in SUBSET BrowserPermissionPrompt,
           ui \in BrowserSurface, RefusalHasPrompt, opens \in Nat, opens' = opens + 1,
           Good(f, opens), Good(saved, opens'), Keeps(s, f), f.mounts = s.mounts,
           Approved(f, d, o), Fetches(p, d, o, f, saved, pending)
    PROVE  Leaves(p, s)
<1> DEFINE w == [domain |-> d, target |-> o, session |-> opens']
<1>1. ui' \in BrowserSurface /\ RefusalHasPrompt'
  <2>1. CASE UNCHANGED ui
    BY <2>1 DEF RefusalHasPrompt
  <2>2. CASE ui' = [ui EXCEPT !.current_uri = {d}, !.refused = FALSE,
                              !.pending_prompts = pending]
    <3>1. ui' \in BrowserSurface /\ ui'.refused = FALSE
      BY <2>2, ShellAssumption DEF BrowserSurface
    <3>2. QED
      BY <3>1 DEF RefusalHasPrompt
  <2>3. QED
    BY <2>1, <2>2 DEF Fetches
<1>2. w \in Opening
  BY ShellAssumption DEF Opening
<1>3. Good(f, opens')
  BY LaterIsGood
<1>4. /\ phase' = [phase EXCEPT ![p] = "fetching"]
      /\ shell' = [shell EXCEPT ![p] = f]
      /\ opening' = [opening EXCEPT ![p] = {w}]
      /\ disk' = saved
  BY DEF Fetches
<1>5. w.session = opens' /\ w.domain = d /\ w.target = o
  OBVIOUS
<1> HIDE DEF w
<1>6. QED
  BY <1>1, <1>2, <1>3, <1>4, <1>5 DEF Leaves

\* Every way open_uri goes.
LEMMA OpenLeaves ==
    ASSUME NEW p \in Process, NEW d \in Domain, NEW o \in Peer \cup {Nobody}, NEW s, NEW saved,
           NEW pending \in SUBSET BrowserPermissionPrompt,
           ui \in BrowserSurface, RefusalHasPrompt, opens \in Nat,
           Good(s, opens), Good(saved, opens), open_uri(p, d, o, s, saved, pending)
    PROVE  opens' = opens + 1 /\ Leaves(p, s)
<1> DEFINE r == Registered(s, d, o)
           t == Considered(s, d, o)
           n == Negotiated(s, d, o)
           rejected == rejected_capabilities(t, d, o)
           kept == IF r = s THEN saved ELSE r
<1>1. opens' = opens + 1 /\ opens' \in Nat /\ opens < opens'
  BY DEF open_uri
<1>2. Good(s, opens') /\ Good(saved, opens') /\ s \in RuntimeShellState
  BY <1>1, LaterIsGood DEF Good, ShellOK
<1>3. \/ /\ o = Nobody
         /\ Fails(p, d, s, saved, FALSE, pending, {})
      \/ /\ o # Nobody
         /\ d \in Gateway
         /\ Fails(p, d, record_gateway_failure(t, d, o, opens'),
                  record_gateway_failure(t, d, o, opens'), TRUE, pending,
                  trust_prompt(record_gateway_failure(t, d, o, opens'), d))
      \/ /\ o # Nobody
         /\ rejected # {}
         /\ Fails(p, d, record_failed_mount(n, d, o, opens'),
                  record_failed_mount(n, d, o, opens'), TRUE, pending,
                  capture_permission_prompts(record_failed_mount(n, d, o, opens'), d, rejected))
      \/ /\ o # Nobody
         /\ d \notin Gateway /\ rejected = {}
         /\ Mounts(p, d, record_mount(n, d, o, opens'))
      \/ /\ o # Nobody
         /\ d \in Gateway /\ validate_gateway_trust(t, d) /\ rejected = {}
         /\ Fetches(p, d, o, n, kept, pending)
  BY DEF open_uri, Registered, Considered, Negotiated
<1>4. CASE o = Nobody /\ Fails(p, d, s, saved, FALSE, pending, {})
  <2> DEFINE none == {}
  <2>1. Keeps(s, s) /\ none \in SUBSET BrowserPermissionPrompt
    BY DEF Keeps
  <2>2. \A e \in Domain : \A m \in s.mounts[e] : m \in s.mounts[e] \/ m.state = "Failed"
    OBVIOUS
  <2>3. FALSE => \E q \in none : q.route = d
    OBVIOUS
  <2>4. Fails(p, d, s, saved, FALSE, pending, none)
    BY <1>4
  <2> HIDE DEF none
  <2>5. QED
    BY <1>1, <1>2, <2>1, <2>2, <2>3, <2>4, FailsLeaves
<1>5. ASSUME o # Nobody PROVE o \in Peer
  BY <1>5
<1>6. ASSUME o # Nobody
      PROVE  /\ Good(r, opens) /\ Good(t, opens) /\ Good(n, opens)
             /\ SameMounts(s, t) /\ Keeps(s, t) /\ t.registry[d] # {}
             /\ SameMounts(s, n) /\ Keeps(s, n) /\ n.registry[d] # {}
             /\ n.gateway_trust = t.gateway_trust
             /\ rejected = {} => \A c \in Requested[d] :
                                    n.permissions[SurfaceOf(d)][o][c] = {TRUE}
  <2>1. o \in Peer
    BY <1>5, <1>6
  <2>2. Good(r, opens)
    BY <2>1, OpenPrepares
  <2>3. Prepared(s, opens, d, o, t, n)
    BY <2>1, OpenPrepares
  <2> HIDE DEF r, t, n
  <2>4. QED
    BY <2>2, <2>3 DEF Prepared
<1>7. rejected \in SUBSET Requested[d]
  BY DEF rejected_capabilities
<1>8. ASSUME Good(t, opens), Good(n, opens) PROVE t \in RuntimeShellState /\ n \in RuntimeShellState
  BY <1>8 DEF Good, ShellOK
<1> HIDE DEF r, t, n, rejected
<1>9. CASE /\ o # Nobody /\ d \in Gateway
           /\ Fails(p, d, record_gateway_failure(t, d, o, opens'),
                    record_gateway_failure(t, d, o, opens'), TRUE, pending,
                    trust_prompt(record_gateway_failure(t, d, o, opens'), d))
  <2> DEFINE f == record_gateway_failure(t, d, o, opens')
  <2>1. /\ Good(f, opens') /\ SameDecisions(t, f)
        /\ \A e \in Domain : \A m \in f.mounts[e] : m \in t.mounts[e] \/ m.state = "Failed"
    BY <1>1, <1>5, <1>6, <1>9, GatewayFailureIsGood
  <2>2. Fails(p, d, f, f, TRUE, pending, trust_prompt(f, d))
    BY <1>9
  <2> HIDE DEF f
  <2>3. Keeps(s, f) /\ f.registry[d] # {} /\ f \in RuntimeShellState /\ ShellOK(f)
    BY <1>6, <1>9, <2>1 DEF Keeps, SameDecisions, Good, ShellOK
  <2>4. \A e \in Domain : \A m \in f.mounts[e] : m \in s.mounts[e] \/ m.state = "Failed"
    BY <1>6, <1>9, <2>1 DEF SameMounts
  <2>5. /\ trust_prompt(f, d) \in SUBSET BrowserPermissionPrompt
        /\ \E q \in trust_prompt(f, d) : q.route = d
    BY <2>3, PromptsTyped
  <2>6. QED
    BY <1>1, <2>1, <2>2, <2>3, <2>4, <2>5, FailsLeaves
<1>10. CASE /\ o # Nobody /\ rejected # {}
            /\ Fails(p, d, record_failed_mount(n, d, o, opens'),
                     record_failed_mount(n, d, o, opens'), TRUE, pending,
                     capture_permission_prompts(record_failed_mount(n, d, o, opens'), d,
                                                rejected))
  <2> DEFINE f == record_failed_mount(n, d, o, opens')
  <2>1. /\ Good(f, opens') /\ SameDecisions(n, f)
        /\ \A e \in Domain : \A m \in f.mounts[e] : m \in n.mounts[e] \/ m.state = "Failed"
    BY <1>1, <1>5, <1>6, <1>10, FailedMountIsGood
  <2>2. Fails(p, d, f, f, TRUE, pending, capture_permission_prompts(f, d, rejected))
    BY <1>10
  <2> HIDE DEF f
  <2>3. Keeps(s, f) /\ f.registry[d] # {} /\ f \in RuntimeShellState /\ ShellOK(f)
    BY <1>6, <1>10, <2>1 DEF Keeps, SameDecisions, Good, ShellOK
  <2>4. \A e \in Domain : \A m \in f.mounts[e] : m \in s.mounts[e] \/ m.state = "Failed"
    BY <1>6, <1>10, <2>1 DEF SameMounts
  <2>5. /\ capture_permission_prompts(f, d, rejected) \in SUBSET BrowserPermissionPrompt
        /\ \E q \in capture_permission_prompts(f, d, rejected) : q.route = d
    BY <1>7, <1>10, <2>3, PromptsTyped
  <2>6. QED
    BY <1>1, <2>1, <2>2, <2>3, <2>4, <2>5, FailsLeaves
<1>11. CASE /\ o # Nobody /\ d \notin Gateway /\ rejected = {}
            /\ Mounts(p, d, record_mount(n, d, o, opens'))
  <2> DEFINE f == record_mount(n, d, o, opens')
             m == [state |-> "Mounted", owner |-> o, session |-> opens', caps |-> Requested[d]]
  <2>1. Good(f, opens')
    BY <1>1, <1>5, <1>6, <1>11, MountIsGood
  <2>2. /\ SameDecisions(n, f) /\ f.mounts[d] = {m}
        /\ \A e \in Domain \ {d} : f.mounts[e] = n.mounts[e]
    BY <1>1, <1>5, <1>6, <1>11, MountShape DEF Good
  <2>3. Mounts(p, d, f)
    BY <1>11
  <2> HIDE DEF f
  <2>4. Keeps(s, f) /\ f \in RuntimeShellState
    BY <1>6, <1>11, <2>1, <2>2 DEF Keeps, SameDecisions, Good, ShellOK
  <2>5. Approved(f, d, o)
    BY <1>6, <1>11, <2>2 DEF Approved, SameDecisions
  <2>6. \A e \in Domain : \A x \in f.mounts[e] : x \in s.mounts[e] \/ Approved(f, e, x.owner)
    BY <1>6, <1>11, <2>2, <2>5 DEF SameMounts
  <2>7. QED
    BY <1>1, <2>1, <2>3, <2>4, <2>6, MountsLeaves
<1>12. CASE /\ o # Nobody
            /\ d \in Gateway /\ validate_gateway_trust(t, d) /\ rejected = {}
            /\ Fetches(p, d, o, n, kept, pending)
  <2>1. Good(kept, opens')
    <3>1. Good(r, opens')
      BY <1>1, <1>6, <1>12, LaterIsGood
    <3>2. QED
      BY <1>2, <3>1
  <2>2. Approved(n, d, o)
    BY <1>6, <1>12 DEF Approved, validate_gateway_trust
  <2>3. Good(n, opens) /\ Keeps(s, n) /\ n.mounts = s.mounts /\ n \in RuntimeShellState
    BY <1>6, <1>8, <1>12 DEF SameMounts
  <2> HIDE DEF kept
  <2>4. QED
    BY <1>1, <1>5, <1>12, <2>1, <2>2, <2>3, FetchesLeaves
<1>13. QED
  BY <1>3, <1>4, <1>9, <1>10, <1>11, <1>12 DEF r, t, n, rejected

-----------------------------------------------------------------------------
(* The inductive invariant.                                                *)

\* A waiting process knows of nothing after its own open, and what it waits for
\* has been approved.
Waits(p) ==
    \A w \in opening[p] :
        /\ w.domain \in Gateway
        /\ 1 <= w.session /\ w.session <= opens
        /\ Good(shell[p], w.session - 1)
        /\ Approved(shell[p], w.domain, w.target)

ShellInv ==
    /\ TypeOK
    /\ shell \in [Process -> RuntimeShellState]
    /\ Good(disk, opens)
    /\ \A p \in Process : Good(shell[p], opens) /\ Waits(p)
    /\ RefusalHasPrompt

LEMMA ShellInit == Init => ShellInv
<1> SUFFICES ASSUME Init PROVE ShellInv
  OBVIOUS
<1>1. Good(EmptyShell, 0)
  BY EmptyIsGood
<1>2. /\ Good(disk, opens) /\ \A p \in Process : Good(shell[p], opens) /\ opening[p] = {}
      /\ ShellOK(EmptyShell)
  BY <1>1 DEF Init, Good
<1>3. ui \in BrowserSurface /\ RefusalHasPrompt
  BY DEF Init, ColdSurface, BrowserSurface, RefusalHasPrompt
<1>4. QED
  BY <1>2, <1>3 DEF Init, ShellInv, TypeOK, Waits, ShellOK

\* Another process does not notice.
LEMMA OthersWait ==
    ASSUME ShellInv, NEW p \in Process, opens' \in Nat, opens <= opens',
           shell'[p] = shell[p], opening'[p] = opening[p]
    PROVE  Good(shell[p], opens')  /\ Waits(p)'
<1>1. opens \in Nat /\ Good(shell[p], opens) /\ Waits(p)
  BY DEF ShellInv, TypeOK
<1>2. Good(shell[p], opens')
  BY <1>1, LaterIsGood
<1>3. \A w \in opening[p] : w.session \in Nat
  BY DEF ShellInv, TypeOK, Opening
<1>4. QED
  BY <1>1, <1>2, <1>3 DEF Waits

LEMMA LeavesInv ==
    ASSUME ShellInv, NEW p \in Process, NEW s, Leaves(p, s), opens' \in Nat, opens <= opens',
           names' \in [Domain -> Peer \cup {Nobody}], commands' \in Nat,
           answer' \in SUBSET Answer
    PROVE  ShellInv'
<1>1. PICK f \in RuntimeShellState :
        /\ Good(f, opens') /\ Good(disk', opens')
        /\ \/ /\ p = Terminal
              /\ phase' = [phase EXCEPT ![p] = "off"]
              /\ shell' = [shell EXCEPT ![p] = EmptyShell]
              /\ opening' = [opening EXCEPT ![p] = {}]
           \/ /\ phase' = [phase EXCEPT ![p] = "idle"]
              /\ shell' = [shell EXCEPT ![p] = f]
              /\ opening' = [opening EXCEPT ![p] = {}]
           \/ /\ phase' = [phase EXCEPT ![p] = "fetching"]
              /\ shell' = [shell EXCEPT ![p] = f]
              /\ \E w \in Opening :
                   /\ opening' = [opening EXCEPT ![p] = {w}]
                   /\ w.session = opens' /\ opens' = opens + 1 /\ Good(f, opens)
                   /\ w.domain \in Gateway /\ Approved(f, w.domain, w.target)
  BY DEF Leaves
<1>2. ui' \in BrowserSurface /\ RefusalHasPrompt'
  BY DEF Leaves
<1>3. /\ opens \in Nat
      /\ phase \in [Process -> {"off", "idle", "fetching"}]
      /\ opening \in [Process -> SUBSET Opening]
      /\ shell \in [Process -> RuntimeShellState]
      /\ \A q \in Process : (phase[q] = "fetching") <=> (opening[q] # {})
  BY DEF ShellInv, TypeOK
<1>4. Good(EmptyShell, opens') /\ EmptyShell \in RuntimeShellState
  BY EmptyIsGood DEF Good, ShellOK
<1>5. /\ phase' \in [Process -> {"off", "idle", "fetching"}]
      /\ opening' \in [Process -> SUBSET Opening]
      /\ shell' \in [Process -> RuntimeShellState]
      /\ Good(shell'[p], opens')
      /\ \A q \in Process \ {p} :
             shell'[q] = shell[q] /\ opening'[q] = opening[q] /\ phase'[q] = phase[q]
      /\ (phase'[p] = "fetching") <=> (opening'[p] # {})
  <2>1. \E ph \in {"off", "idle", "fetching"}, sh \in RuntimeShellState,
           op \in SUBSET Opening :
          /\ phase' = [phase EXCEPT ![p] = ph]
          /\ shell' = [shell EXCEPT ![p] = sh]
          /\ opening' = [opening EXCEPT ![p] = op]
          /\ Good(sh, opens')
          /\ (ph = "fetching") <=> (op # {})
    <3>1. CASE opening' = [opening EXCEPT ![p] = {}]
      <4>1. CASE phase' = [phase EXCEPT ![p] = "off"] /\ shell' = [shell EXCEPT ![p] = EmptyShell]
        BY <1>4, <3>1, <4>1
      <4>2. CASE phase' = [phase EXCEPT ![p] = "idle"] /\ shell' = [shell EXCEPT ![p] = f]
        BY <1>1, <3>1, <4>2
      <4>3. CASE phase' = [phase EXCEPT ![p] = "fetching"]
        <5>1. PICK w \in Opening : opening' = [opening EXCEPT ![p] = {w}]
          BY <1>1, <1>3, <4>3
        <5>2. opening'[p] = {} /\ opening'[p] = {w}
          BY <1>3, <3>1, <5>1
        <5>3. QED
          BY <5>2
      <4>4. QED
        BY <1>1, <4>1, <4>2, <4>3
    <3>2. CASE phase' = [phase EXCEPT ![p] = "fetching"]
      <4>1. PICK w \in Opening : opening' = [opening EXCEPT ![p] = {w}]
        BY <1>1, <1>3, <3>2
      <4>2. shell' = [shell EXCEPT ![p] = f]
        BY <1>1, <1>3, <3>2
      <4>3. {w} # {} /\ {w} \in SUBSET Opening
        OBVIOUS
      <4>4. QED
        BY <1>1, <3>2, <4>1, <4>2, <4>3
    <3>3. QED
      BY <1>1, <3>1, <3>2
  <2>2. QED
    BY <1>3, <2>1
<1>6. Waits(p)'
  <2>1. CASE opening'[p] = {}
    BY <2>1 DEF Waits
  <2>2. CASE opening'[p] # {}
    <3>1. /\ shell'[p] = f /\ opens' = opens + 1 /\ Good(f, opens)
          /\ \A w \in opening'[p] : w.session = opens' /\ w.domain \in Gateway
                                      /\ Approved(f, w.domain, w.target)
      BY <1>1, <1>3, <2>2
    <3>2. 1 <= opens' /\ opens' - 1 = opens
      BY <1>3, <3>1
    <3>3. QED
      BY <3>1, <3>2 DEF Waits
  <2>3. QED
    BY <2>1, <2>2
<1>7. \A q \in Process : Good(shell'[q], opens') /\ Waits(q)'
  BY <1>5, <1>6, OthersWait
<1>8. /\ ShellOK(disk') /\ \A q \in Process : ShellOK(shell'[q])
      /\ \A q \in Process : (phase'[q] = "fetching") <=> (opening'[q] # {})
  BY <1>1, <1>3, <1>5, <1>7 DEF Good
<1>9. QED
  BY <1>1, <1>2, <1>5, <1>7, <1>8 DEF ShellInv, TypeOK

\* What only the file sees.
LEMMA DiskInv ==
    ASSUME ShellInv, Good(disk', opens), UNCHANGED <<shell, phase, opening, names, ui, opens>>,
           commands' \in Nat, answer' = {}
    PROVE  ShellInv'
  BY DEF ShellInv, TypeOK, Waits, RefusalHasPrompt, Good

\* The answer to a prompt decides what the prompt asked for and nothing else, in
\* the first of its writes and in the last.
LEMMA GrantedIsGood ==
    ASSUME NEW s, NEW k, Good(s, k), NEW q \in BrowserPermissionPrompt, NEW allowed \in BOOLEAN
    PROVE  LET t == granted(s, q, allowed)
           IN  /\ Good(t, k) /\ SameMounts(s, t)
               /\ t.gateway_trust = s.gateway_trust /\ t.registry = s.registry
               /\ \A u \in Surface, o \in Peer, c \in Cap :
                    t.permissions[u][o][c] # s.permissions[u][o][c] =>
                        /\ SurfaceOf(q.route) = u /\ q.owner = o /\ q.cap = {c}
                        /\ t.permissions[u][o][c] = {allowed}
<1> DEFINE u == SurfaceOf(q.route)
           cap == CHOOSE c \in q.cap : TRUE
           t == granted(s, q, allowed)
<1>1. q.owner \in Peer /\ u \in Surface
  BY DEF BrowserPermissionPrompt, SurfaceOf, Surface
<1>2. CASE q.cap = {}
  <2>1. t = s
    BY <1>2 DEF granted
  <2>2. QED
    BY <2>1 DEF SameMounts
<1>3. CASE q.cap # {}
  <2>1. q.cap = {cap} /\ cap \in Cap
    BY <1>3 DEF BrowserPermissionPrompt
  <2>2. t = grant_permission(s, u, q.owner, cap, allowed)
    BY <1>3 DEF granted
  <2>3. u = SurfaceOf(q.route)
    OBVIOUS
  <2> HIDE DEF t, u, cap
  <2>4. /\ Good(t, k) /\ SameMounts(s, t)
        /\ t.gateway_trust = s.gateway_trust /\ t.registry = s.registry
        /\ t.permissions[u][q.owner][cap] = {allowed}
        /\ \A v \in Surface, o \in Peer, c \in Cap :
             <<v, o, c>> # <<u, q.owner, cap>> => t.permissions[v][o][c] = s.permissions[v][o][c]
    BY <1>1, <2>1, <2>2, GrantIsGood
  <2>5. ASSUME NEW v \in Surface, NEW o \in Peer, NEW c \in Cap,
               t.permissions[v][o][c] # s.permissions[v][o][c]
        PROVE  /\ u = v /\ q.owner = o /\ q.cap = {c}
               /\ t.permissions[v][o][c] = {allowed}
    BY <2>1, <2>4, <2>5
  <2>6. QED
    BY <2>3, <2>4, <2>5 DEF t
<1>4. QED
  BY <1>2, <1>3

LEMMA AnsweredIsGood ==
    ASSUME NEW s, NEW k, Good(s, k), NEW q \in BrowserPermissionPrompt, NEW allowed \in BOOLEAN
    PROVE  LET t == answered(s, q, allowed)
           IN  /\ Good(t, k) /\ SameMounts(s, t) /\ t.registry = s.registry
               /\ \A u \in Surface, o \in Peer, c \in Cap :
                    t.permissions[u][o][c] # s.permissions[u][o][c] =>
                        /\ SurfaceOf(q.route) = u /\ q.owner = o /\ q.cap = {c}
                        /\ t.permissions[u][o][c] = {allowed}
               /\ \A g \in Gateway : t.gateway_trust[g] # s.gateway_trust[g] =>
                    q.route = g /\ t.gateway_trust[g] = {Verdict(allowed)}
<1> DEFINE g == granted(s, q, allowed)
           t == answered(s, q, allowed)
           p == Verdict(allowed)
<1>1. /\ Good(g, k) /\ SameMounts(s, g)
      /\ g.gateway_trust = s.gateway_trust /\ g.registry = s.registry
      /\ \A u \in Surface, o \in Peer, c \in Cap :
           g.permissions[u][o][c] # s.permissions[u][o][c] =>
               /\ SurfaceOf(q.route) = u /\ q.owner = o /\ q.cap = {c}
               /\ g.permissions[u][o][c] = {allowed}
  BY GrantedIsGood
<1>2. t = IF q.route \in Gateway THEN upsert_gateway_trust(g, q.route, p) ELSE g
  BY DEF answered, set_gateway_trust, Verdict
<1>3. p \in Policy
  BY DEF Verdict, Policy
<1>4. p = Verdict(allowed)
  OBVIOUS
<1> HIDE DEF g, p, t
<1>5. CASE q.route \in Gateway
  <2>1. /\ Good(t, k) /\ SameMounts(g, t)
        /\ t.permissions = g.permissions /\ t.registry = g.registry
        /\ \A h \in Gateway \ {q.route} : t.gateway_trust[h] = g.gateway_trust[h]
        /\ t.gateway_trust[q.route] = {p}
    BY <1>1, <1>2, <1>3, <1>5, TrustIsGood
  <2>2. SameMounts(s, t)
    BY <1>1, <2>1 DEF SameMounts
  <2>3. QED
    BY <1>1, <1>4, <2>1, <2>2 DEF t
<1>6. CASE q.route \notin Gateway
  BY <1>1, <1>2, <1>6 DEF t
<1>7. QED
  BY <1>5, <1>6

\* The answer to a fetch.
LEMMA FetchLeaves ==
    ASSUME ShellInv, NEW p \in Process, NEW ok \in BOOLEAN, execute_gateway_fetch(p, ok)
    PROVE  Leaves(p, shell[p])
<1>1. PICK o \in opening[p] :
        \/ Mounts(p, o.domain, record_gateway_mount(shell[p], o.domain, o.target, o.session))
        \/ Fails(p, o.domain, record_gateway_failure(shell[p], o.domain, o.target, o.session),
                 record_gateway_failure(shell[p], o.domain, o.target, o.session),
                 FALSE, ui.pending_prompts, {})
  BY DEF execute_gateway_fetch
<1> DEFINE g == o.domain
           id == o.session
           s == shell[p]
           k == id - 1
<1>2. /\ o \in Opening /\ opens' = opens /\ opens \in Nat
      /\ ui \in BrowserSurface /\ RefusalHasPrompt
  BY DEF ShellInv, TypeOK, execute_gateway_fetch
<1>3. /\ g \in Gateway /\ g \in Domain /\ o.target \in Peer /\ id \in Nat
      /\ k \in Nat /\ k < id /\ id <= opens
      /\ Good(s, k) /\ Approved(s, g, o.target)
  BY <1>2 DEF ShellInv, Waits, Opening
<1>4. ui.pending_prompts \in SUBSET BrowserPermissionPrompt
  BY <1>2 DEF BrowserSurface
<1> HIDE DEF g, id, k, s
<1>5. CASE Mounts(p, g, record_gateway_mount(s, g, o.target, id))
  <2> DEFINE f == record_gateway_mount(s, g, o.target, id)
             m == [state |-> "Mounted", owner |-> o.target, session |-> id,
                   caps |-> Requested[g]]
  <2>1. /\ Good(f, id) /\ SameDecisions(s, f)
        /\ f.mounts[g] = {m}
        /\ \A e \in Domain \ {g} : f.mounts[e] = s.mounts[e]
    BY <1>3, GatewayMountIsGood
  <2>2. Mounts(p, g, f)
    BY <1>5
  <2> HIDE DEF f
  <2>3. Good(f, opens') /\ f \in RuntimeShellState /\ Keeps(s, f)
    BY <1>2, <1>3, <2>1, LaterIsGood DEF Good, ShellOK, SameDecisions, Keeps
  <2>4. Approved(f, g, o.target)
    BY <1>3, <2>1 DEF Approved, SameDecisions, validate_gateway_trust
  <2>5. \A e \in Domain : \A x \in f.mounts[e] : x \in s.mounts[e] \/ Approved(f, e, x.owner)
    BY <2>1, <2>4
  <2>6. QED
    BY <1>2, <1>3, <2>2, <2>3, <2>5, MountsLeaves DEF s
<1>6. CASE Fails(p, g, record_gateway_failure(s, g, o.target, id),
                 record_gateway_failure(s, g, o.target, id), FALSE, ui.pending_prompts, {})
  <2> DEFINE f == record_gateway_failure(s, g, o.target, id)
             none == {}
  <2>1. /\ Good(f, id) /\ SameDecisions(s, f)
        /\ \A e \in Domain : \A m \in f.mounts[e] : m \in s.mounts[e] \/ m.state = "Failed"
    BY <1>3, GatewayFailureIsGood
  <2>2. Fails(p, g, f, f, FALSE, ui.pending_prompts, none)
    BY <1>6
  <2>3. none \in SUBSET BrowserPermissionPrompt /\ (FALSE => \E q \in none : q.route = g)
    OBVIOUS
  <2> HIDE DEF f, none
  <2>4. Good(f, opens') /\ f \in RuntimeShellState /\ Keeps(s, f)
    BY <1>2, <1>3, <2>1, LaterIsGood DEF Good, ShellOK, SameDecisions, Keeps
  <2>5. Good(f, opens') /\ (FALSE => \E q \in none : q.route = g)
    BY <2>3, <2>4
  <2>6. Leaves(p, s)
    BY <1>2, <1>3, <1>4, <2>1, <2>2, <2>3, <2>4, <2>5, FailsLeaves
  <2>7. QED
    BY <2>6 DEF s
<1>7. QED
  BY <1>1, <1>5, <1>6 DEF g, id, s

-----------------------------------------------------------------------------
(* The actions.                                                            *)

\* One of the answers A is about capability c of owner o on surface u, or about
\* gateway g, and decides v.
PermissionAnswered(A, u, o, c, v) ==
    \E a \in A : /\ SurfaceOf(a.prompt.route) = u /\ a.prompt.owner = o
                 /\ a.prompt.cap = {c}
                 /\ v = {a.allowed}

TrustAnswered(A, g, v) == \E a \in A : a.prompt.route = g /\ v = {Verdict(a.allowed)}

\* The decisions of copy s are the browser's, but for what the answers A decide.
DecidedByAnswer(s, A) ==
    /\ \A u \in Surface, o \in Peer, c \in Cap :
           s.permissions[u][o][c] # shell[Browser].permissions[u][o][c] =>
               PermissionAnswered(A, u, o, c, s.permissions[u][o][c])
    /\ \A g \in Gateway :
           s.gateway_trust[g] # shell[Browser].gateway_trust[g] =>
               TrustAnswered(A, g, s.gateway_trust[g])

\* The steps that open a route or end a fetch.
Opens ==
    \/ \E d \in Domain : OpenCommand(d) \/ navigate(d)
    \/ \E q \in ui.pending_prompts, allowed \in BOOLEAN : resolve_prompt(q, allowed)
    \/ \E p \in Process, ok \in BOOLEAN : execute_gateway_fetch(p, ok)

Worked(p, s) ==
    /\ Leaves(p, s)
    /\ opens' \in Nat /\ opens <= opens'
    /\ names' \in [Domain -> Peer \cup {Nobody}] /\ commands' = commands
    /\ answer' \in SUBSET Answer
    /\ SameMounts(shell[p], s) \/ SameMounts(disk, s)
    /\ p = Browser => DecidedByAnswer(s, answer')

LEMMA SynchronizeTypes ==
    ASSUME NEW s, ShellOK(s), NEW n \in [Domain -> Peer \cup {Nobody}]
    PROVE  synchronize_registry_dns(s, n) \in [Domain -> Peer \cup {Nobody}]
<1>1. ASSUME NEW d \in Domain, s.registry[d] # {}
      PROVE  (CHOOSE o \in s.registry[d] : TRUE) \in Peer
  BY <1>1 DEF ShellOK, RuntimeShellState
<1>2. QED
  BY <1>1 DEF synchronize_registry_dns

LEMMA OpensWork ==
    ASSUME ShellInv, Opens
    PROVE  \E p \in Process, s \in RuntimeShellState : Worked(p, s)
<1>1. /\ ui \in BrowserSurface /\ RefusalHasPrompt /\ opens \in Nat
      /\ Good(disk, opens) /\ \A p \in Process : Good(shell[p], opens) /\ ShellOK(shell[p])
      /\ names \in [Domain -> Peer \cup {Nobody}]
      /\ ui.pending_prompts \in SUBSET BrowserPermissionPrompt
      /\ Browser \in Process /\ Terminal \in Process /\ Terminal # Browser
  BY DEF ShellInv, TypeOK, BrowserSurface, Process, Browser, Terminal
<1>2. \A s : Good(s, opens) => s \in RuntimeShellState /\ ShellOK(s)
  BY DEF Good, ShellOK
<1>3. ASSUME opens' = opens + 1 PROVE opens' \in Nat /\ opens <= opens'
  BY <1>1, <1>3
<1>4. ASSUME NEW d \in Domain, OpenCommand(d)
      PROVE  \E p \in Process, s \in RuntimeShellState : Worked(p, s)
  <2> DEFINE s == Loaded(disk)
             none == {}
  <2>1. Good(s, opens) /\ SameMounts(disk, s)
    BY <1>1, LoadedIsGood
  <2>2. PICK n \in Resolution :
          open_uri(Terminal, d, synchronize_registry_dns(s, n)[d], s, s, none)
    BY <1>4 DEF OpenCommand
  <2>3. none \in SUBSET BrowserPermissionPrompt
    OBVIOUS
  <2> HIDE DEF s, none
  <2>4. synchronize_registry_dns(s, n)[d] \in Peer \cup {Nobody}
    BY <1>2, <2>1, SynchronizeTypes, ProcessAssumption
  <2>5. opens' = opens + 1 /\ Leaves(Terminal, s)
    BY <1>1, <2>1, <2>2, <2>3, <2>4, OpenLeaves
  <2>6. names' = names /\ commands' = commands /\ answer' \in SUBSET Answer
    BY <1>4 DEF OpenCommand
  <2>7. Worked(Terminal, s)
    BY <1>1, <1>3, <2>1, <2>5, <2>6 DEF Worked
  <2>8. QED
    BY <1>1, <1>2, <2>1, <2>7
<1>5. ASSUME NEW d \in Domain, navigate(d)
      PROVE  \E p \in Process, s \in RuntimeShellState : Worked(p, s)
  <2> DEFINE s == shell[Browser]
  <2>1. /\ names' \in [Domain -> Peer \cup {Nobody}] /\ commands' = commands
        /\ answer' \in SUBSET Answer
    BY <1>1, <1>5, SynchronizeTypes DEF navigate
  <2>2. open_uri(Browser, d, names'[d], s, disk, ui.pending_prompts)
    BY <1>5 DEF navigate
  <2>3. opens' = opens + 1 /\ Leaves(Browser, s)
    BY <1>1, <2>1, <2>2, OpenLeaves
  <2>4. SameMounts(shell[Browser], s) /\ DecidedByAnswer(s, answer')
    BY DEF SameMounts, DecidedByAnswer
  <2>5. Worked(Browser, s)
    BY <1>3, <2>1, <2>3, <2>4 DEF Worked
  <2>6. QED
    BY <1>1, <1>2, <2>5
<1>6. ASSUME NEW q \in ui.pending_prompts, NEW allowed \in BOOLEAN, resolve_prompt(q, allowed)
      PROVE  \E p \in Process, s \in RuntimeShellState : Worked(p, s)
  <2> DEFINE s == answered(shell[Browser], q, allowed)
             rest == ui.pending_prompts \ {q}
  <2>1. names' \in [Domain -> Peer \cup {Nobody}] /\ commands' = commands
    BY <1>1, <1>6, SynchronizeTypes DEF resolve_prompt
  <2>2. PICK d \in ui.current_uri : open_uri(Browser, d, names'[d], s, s, rest)
    BY <1>6 DEF resolve_prompt
  <2>3. d \in Domain /\ q \in BrowserPermissionPrompt /\ rest \in SUBSET BrowserPermissionPrompt
    BY <1>1 DEF BrowserSurface
  <2>4. /\ Good(s, opens) /\ SameMounts(shell[Browser], s)
        /\ \A u \in Surface, o \in Peer, c \in Cap :
             s.permissions[u][o][c] # shell[Browser].permissions[u][o][c] =>
                 /\ SurfaceOf(q.route) = u /\ q.owner = o /\ q.cap = {c}
                 /\ s.permissions[u][o][c] = {allowed}
        /\ \A g \in Gateway : s.gateway_trust[g] # shell[Browser].gateway_trust[g] =>
             q.route = g /\ s.gateway_trust[g] = {Verdict(allowed)}
    BY <1>1, <2>3, AnsweredIsGood
  <2> DEFINE a == [prompt |-> q, allowed |-> allowed]
  <2>9. answer' = {a} /\ answer' \in SUBSET Answer
    BY <1>6, <2>3 DEF resolve_prompt, Answer
  <2>10. a.prompt = q /\ a.allowed = allowed /\ a \in answer'
    BY <2>9
  <2> HIDE DEF s, rest, a
  <2>5. opens' = opens + 1 /\ Leaves(Browser, s)
    BY <1>1, <2>1, <2>2, <2>3, <2>4, OpenLeaves
  <2>6. DecidedByAnswer(s, answer')
    BY <2>4, <2>10 DEF DecidedByAnswer, PermissionAnswered, TrustAnswered
  <2>7. Worked(Browser, s)
    BY <1>3, <2>1, <2>4, <2>5, <2>6, <2>9 DEF Worked
  <2>8. QED
    BY <1>1, <1>2, <2>4, <2>7
<1>7. ASSUME NEW p \in Process, NEW ok \in BOOLEAN, execute_gateway_fetch(p, ok)
      PROVE  \E q \in Process, s \in RuntimeShellState : Worked(q, s)
  <2>1. Leaves(p, shell[p])
    BY <1>7, FetchLeaves
  <2>2. UNCHANGED <<names, opens, commands>> /\ answer' \in SUBSET Answer
    BY <1>7 DEF execute_gateway_fetch
  <2>3. SameMounts(shell[p], shell[p]) /\ (p = Browser => DecidedByAnswer(shell[p], answer'))
    BY DEF SameMounts, DecidedByAnswer
  <2>4. Worked(p, shell[p])
    BY <1>1, <2>1, <2>2, <2>3 DEF Worked
  <2>5. QED
    BY <1>1, <1>2, <2>4
<1>8. QED
  BY <1>4, <1>5, <1>6, <1>7 DEF Opens

\* The commands and refreshes that write the file alone.
WritesFile ==
    \/ \E u \in Surface, o \in Peer, c \in Cap, allowed \in BOOLEAN :
         RuntimePermission(u, o, c, allowed)
    \/ \E g \in Gateway, level \in Level : GatewayRegister(g, level)
    \/ \E g \in Gateway, c \in Cap, allowed \in BOOLEAN : GatewayDecision(g, c, allowed)
    \/ \E p \in Process : synchronize_surface(p)

LEMMA WritesFileInv ==
    ASSUME ShellInv, WritesFile
    PROVE  ShellInv' /\ UNCHANGED <<shell, phase>>
<1>1. /\ opens \in Nat /\ commands \in Nat
      /\ Good(disk, opens) /\ \A p \in Process : Good(shell[p], opens)
  BY DEF ShellInv, TypeOK
<1>2. Good(Loaded(disk), opens)
  BY <1>1, LoadedIsGood
<1>3. ASSUME NEW u \in Surface, NEW o \in Peer, NEW c \in Cap, NEW allowed \in BOOLEAN,
             RuntimePermission(u, o, c, allowed)
      PROVE  ShellInv' /\ UNCHANGED <<shell, phase>>
  <2>1. Good(disk', opens)
    BY <1>2, <1>3, GrantIsGood DEF RuntimePermission
  <2>2. QED
    BY <1>1, <1>3, <2>1, DiskInv DEF RuntimePermission, Command
<1>4. ASSUME NEW g \in Gateway, NEW level \in Level, GatewayRegister(g, level)
      PROVE  ShellInv' /\ UNCHANGED <<shell, phase>>
  <2> DEFINE p == [state |-> IF level = "Trusted" THEN "Trusted" ELSE "Pending", level |-> level]
             s == upsert_registration(Loaded(disk), g, Self)
  <2>1. p \in Policy /\ g \in Domain /\ Self \in Peer
    BY ShellAssumption, ProcessAssumption DEF Policy
  <2>2. disk' = upsert_gateway_trust(s, g, p)
    BY <1>4 DEF GatewayRegister, register_gateway
  <2>3. Good(s, opens)
    BY <1>2, <2>1, RegistrationIsGood
  <2> HIDE DEF p, s
  <2>4. Good(disk', opens)
    BY <2>1, <2>2, <2>3, TrustIsGood
  <2>5. QED
    BY <1>1, <1>4, <2>4, DiskInv DEF GatewayRegister, Command
<1>5. ASSUME NEW g \in Gateway, NEW c \in Cap, NEW allowed \in BOOLEAN,
             GatewayDecision(g, c, allowed)
      PROVE  ShellInv' /\ UNCHANGED <<shell, phase>>
  <2> DEFINE p == [state |-> IF allowed THEN "Trusted" ELSE "Denied",
                   level |-> IF allowed THEN "Trusted" ELSE "Untrusted"]
             s == grant_permission(Loaded(disk), g, Self, c, allowed)
  <2>1. p \in Policy /\ g \in Surface /\ Self \in Peer
    BY ShellAssumption DEF Policy, Surface
  <2>2. disk' = s \/ disk' = upsert_gateway_trust(s, g, p)
    BY <1>5 DEF GatewayDecision, set_gateway_trust
  <2>3. Good(s, opens)
    BY <1>2, <2>1, GrantIsGood
  <2> HIDE DEF p, s
  <2>4. Good(disk', opens)
    BY <2>1, <2>2, <2>3, TrustIsGood
  <2>5. QED
    BY <1>1, <1>5, <2>4, DiskInv DEF GatewayDecision, Command
<1>6. ASSUME NEW p \in Process, synchronize_surface(p)
      PROVE  ShellInv' /\ UNCHANGED <<shell, phase>>
  <2>1. /\ disk' = shell[p] /\ answer' = {}
        /\ UNCHANGED <<shell, phase, opening, names, ui, opens, commands>>
    BY <1>6 DEF synchronize_surface
  <2>2. QED
    BY <1>1, <2>1, DiskInv
<1>7. QED
  BY <1>3, <1>4, <1>5, <1>6 DEF WritesFile

\* The browser starts with what is on disk.
LEMMA ColdStartInv ==
    ASSUME ShellInv, cold_start
    PROVE  ShellInv'
<1>1. /\ opens \in Nat /\ Good(disk, opens) /\ Browser \in Process
      /\ shell \in [Process -> RuntimeShellState]
      /\ phase \in [Process -> {"off", "idle", "fetching"}]
      /\ phase[Browser] = "off" /\ opening[Browser] = {}
  BY DEF ShellInv, TypeOK, Process, cold_start
<1>2. Good(Loaded(disk), opens) /\ Loaded(disk) \in RuntimeShellState /\ ShellOK(Loaded(disk))
  BY <1>1, LoadedIsGood DEF Good, ShellOK
<1> DEFINE s == Loaded(disk)
<1>3. /\ disk' = s /\ shell' = [shell EXCEPT ![Browser] = s]
      /\ phase' = [phase EXCEPT ![Browser] = "idle"]
      /\ ui' = ColdSurface /\ names' \in [Domain -> Peer \cup {Nobody}]
      /\ answer' = {}
      /\ UNCHANGED <<opening, opens, commands>>
  BY ProcessAssumption DEF cold_start
<1> HIDE DEF s
<1>4. /\ ui' \in BrowserSurface /\ RefusalHasPrompt'
  BY <1>3 DEF ColdSurface, BrowserSurface, RefusalHasPrompt
<1>5. /\ shell' \in [Process -> RuntimeShellState]
      /\ phase' \in [Process -> {"off", "idle", "fetching"}]
      /\ shell'[Browser] = s /\ phase'[Browser] = "idle"
      /\ \A p \in Process \ {Browser} : shell'[p] = shell[p] /\ phase'[p] = phase[p]
  BY <1>1, <1>2, <1>3 DEF s
<1>6. \A p \in Process : Good(shell'[p], opens) /\ ShellOK(shell'[p]) /\ Waits(p)'
  BY <1>1, <1>2, <1>3, <1>5 DEF ShellInv, TypeOK, Waits, s
<1>7. QED
  BY <1>1, <1>2, <1>3, <1>4, <1>5, <1>6 DEF ShellInv, TypeOK, s

\* A process that ends forgets its copy.
Ends(p) ==
    /\ phase' = [phase EXCEPT ![p] = "off"]
    /\ shell' = [shell EXCEPT ![p] = EmptyShell]
    /\ opening' = [opening EXCEPT ![p] = {}]
    /\ ui' = IF p = Browser THEN ColdSurface ELSE ui
    /\ answer' = {}
    /\ UNCHANGED <<names, opens, commands>>

LEMMA EndsInv ==
    ASSUME ShellInv, NEW p \in Process, Ends(p), Good(disk', opens)
    PROVE  ShellInv'
<1>1. /\ opens \in Nat /\ shell \in [Process -> RuntimeShellState]
      /\ phase \in [Process -> {"off", "idle", "fetching"}]
      /\ opening \in [Process -> SUBSET Opening]
  BY DEF ShellInv, TypeOK
<1>2. Good(EmptyShell, opens) /\ EmptyShell \in RuntimeShellState /\ ShellOK(EmptyShell)
  BY <1>1, EmptyIsGood DEF Good, ShellOK
<1>3. /\ phase' = [phase EXCEPT ![p] = "off"]
      /\ shell' = [shell EXCEPT ![p] = EmptyShell]
      /\ opening' = [opening EXCEPT ![p] = {}]
      /\ ui' = ColdSurface \/ ui' = ui
      /\ answer' = {}
      /\ UNCHANGED <<names, opens, commands>>
      /\ ShellOK(disk')
  BY DEF Ends, Good
<1>4. ui' \in BrowserSurface /\ RefusalHasPrompt'
  <2>1. CASE ui' = ColdSurface
    BY <2>1 DEF ColdSurface, BrowserSurface, RefusalHasPrompt
  <2>2. CASE ui' = ui
    BY <2>2 DEF ShellInv, TypeOK, RefusalHasPrompt
  <2>3. QED
    BY <1>3, <2>1, <2>2
<1>5. /\ shell' \in [Process -> RuntimeShellState]
      /\ phase' \in [Process -> {"off", "idle", "fetching"}]
      /\ opening' \in [Process -> SUBSET Opening]
      /\ shell'[p] = EmptyShell /\ phase'[p] = "off" /\ opening'[p] = {}
      /\ \A q \in Process \ {p} :
             shell'[q] = shell[q] /\ phase'[q] = phase[q] /\ opening'[q] = opening[q]
  BY <1>1, <1>2, <1>3
<1>6. ASSUME NEW q \in Process
      PROVE  /\ Good(shell'[q], opens) /\ ShellOK(shell'[q]) /\ Waits(q)'
             /\ (phase'[q] = "fetching") <=> (opening'[q] # {})
  <2>1. CASE q = p
    BY <1>2, <1>5, <2>1 DEF Waits
  <2>2. CASE q # p
    <3>1. shell'[q] = shell[q] /\ phase'[q] = phase[q] /\ opening'[q] = opening[q]
      BY <1>5, <2>2
    <3>2. opens' = opens
      BY <1>3
    <3>3. Good(shell[q], opens) /\ ShellOK(shell[q]) /\ Waits(q)
      BY DEF ShellInv, TypeOK
    <3>4. (phase[q] = "fetching") <=> (opening[q] # {})
      BY DEF ShellInv, TypeOK
    <3>5. Waits(q)'
      BY <3>1, <3>2, <3>3 DEF Waits
    <3>6. (phase'[q] = "fetching") <=> (opening'[q] # {})
      BY <3>1, <3>4
    <3>7. Good(shell'[q], opens) /\ ShellOK(shell'[q])
      BY <3>1, <3>3
    <3>8. QED
      BY <3>5, <3>6, <3>7
  <2>3. QED
    BY <2>1, <2>2
<1>7. QED
  BY <1>1, <1>3, <1>4, <1>5, <1>6 DEF ShellInv, TypeOK

\* A process ends with the file as it is, or with part of an answer in it.
LEMMA StopsInv ==
    ASSUME ShellInv,
           \/ \E p \in Process : Exit(p)
           \/ \E q \in ui.pending_prompts, allowed \in BOOLEAN : StopInAnswer(q, allowed)
    PROVE  ShellInv' /\ \E p \in Process : Ends(p)
<1>1. /\ Good(disk, opens) /\ Browser \in Process /\ Good(shell[Browser], opens)
      /\ opening \in [Process -> SUBSET Opening]
      /\ \A p \in Process : (phase[p] = "fetching") <=> (opening[p] # {})
      /\ ui.pending_prompts \in SUBSET BrowserPermissionPrompt
  BY DEF ShellInv, TypeOK, Process, BrowserSurface
<1>2. ASSUME NEW p \in Process, Exit(p)
      PROVE  Ends(p) /\ Good(disk', opens)
  BY <1>1, <1>2 DEF Exit, Ends
<1>3. ASSUME NEW q \in ui.pending_prompts, NEW allowed \in BOOLEAN, StopInAnswer(q, allowed)
      PROVE  Ends(Browser) /\ Good(disk', opens)
  <2>1. opening[Browser] = {} /\ opening' = opening
    BY <1>1, <1>3 DEF StopInAnswer
  <2>2. opening' = [opening EXCEPT ![Browser] = {}]
    BY <1>1, <2>1
  <2>3. Good(disk', opens)
    BY <1>1, <1>3, GrantedIsGood, AnsweredIsGood DEF StopInAnswer
  <2>4. QED
    BY <1>3, <2>2, <2>3 DEF StopInAnswer, Ends
<1>4. QED
  BY <1>1, <1>2, <1>3, EndsInv

\* Every step keeps the invariant.
LEMMA ShellStep == ShellInv /\ [Next]_vars => ShellInv'
<1> SUFFICES ASSUME ShellInv, [Next]_vars PROVE ShellInv'
  OBVIOUS
<1>1. CASE Opens
  <2>1. PICK p \in Process, s \in RuntimeShellState : Worked(p, s)
    BY <1>1, OpensWork
  <2>2. commands' \in Nat /\ answer' \in SUBSET Answer
    BY <2>1 DEF Worked, ShellInv, TypeOK
  <2>3. QED
    BY <2>1, <2>2, LeavesInv DEF Worked
<1>2. CASE WritesFile
  BY <1>2, WritesFileInv
<1>3. ASSUME NEW d \in Domain, Expire(d) PROVE ShellInv'
  BY <1>3 DEF Expire, ShellInv, TypeOK, Waits, RefusalHasPrompt
<1>4. CASE UNCHANGED vars
  BY <1>4 DEF vars, ShellInv, TypeOK, Waits, RefusalHasPrompt
<1>5. QED
  BY <1>1, <1>2, <1>3, <1>4, ColdStartInv, StopsInv DEF Next, Opens, WritesFile

\* What a step does to the copies, whatever it does to the file.
LEMMA ShellChanges ==
    ASSUME ShellInv, [Next]_vars
    PROVE  \/ \E p \in Process, s \in RuntimeShellState : Worked(p, s)
           \/ UNCHANGED <<shell, phase>>
           \/ cold_start
           \/ \E p \in Process : Ends(p)
<1>1. CASE Opens
  BY <1>1, OpensWork
<1>2. CASE WritesFile
  BY <1>2, WritesFileInv
<1>3. ASSUME NEW d \in Domain, Expire(d) PROVE UNCHANGED <<shell, phase>>
  BY <1>3 DEF Expire
<1>4. CASE UNCHANGED vars
  BY <1>4 DEF vars
<1>5. QED
  BY <1>1, <1>2, <1>3, <1>4, StopsInv DEF Next, Opens, WritesFile

-----------------------------------------------------------------------------
(* Mounts. *)

\* What MountsAreApproved says of a step.
ApprovesMounts ==
    \A p \in Process : \A d \in Domain :
         \A m \in shell'[p].mounts[d] \ (shell[p].mounts[d] \cup disk.mounts[d]) :
            m.state = "Mounted" =>
               /\ \A c \in Requested[d] :
                    shell'[p].permissions[SurfaceOf(d)][m.owner][c] = {TRUE}
               /\ d \in Gateway => \A t \in shell'[p].gateway_trust[d] :
                    t.state # "Denied" /\ t.level # "Untrusted"

LEMMA MountsStep == ShellInv /\ [Next]_vars => ApprovesMounts
<1> SUFFICES ASSUME ShellInv, [Next]_vars,
                    NEW q \in Process, NEW d \in Domain,
                    NEW m \in shell'[q].mounts[d],
                    m \notin shell[q].mounts[d], m \notin disk.mounts[d],
                    m.state = "Mounted"
             PROVE  Approved(shell'[q], d, m.owner)
  BY DEF ApprovesMounts, Approved, validate_gateway_trust
<1>1. shell \in [Process -> RuntimeShellState]
  BY DEF ShellInv
<1>2. EmptyShell.mounts[d] = {}
  BY DEF EmptyShell
<1>3. ASSUME NEW p \in Process, NEW s \in RuntimeShellState, Worked(p, s)
      PROVE  Approved(shell'[q], d, m.owner)
  <2>1. PICK f \in RuntimeShellState :
          /\ \A e \in Domain : \A k \in f.mounts[e] :
                 k \in s.mounts[e] \/ k.state = "Failed" \/ Approved(f, e, k.owner)
          /\ \/ shell' = [shell EXCEPT ![p] = EmptyShell]
             \/ shell' = [shell EXCEPT ![p] = f]
    BY <1>3 DEF Worked, Leaves
  <2>2. s.mounts[d] = shell[p].mounts[d] \/ s.mounts[d] = disk.mounts[d]
    BY <1>3 DEF Worked, SameMounts
  <2>3. q = p
    BY <1>1, <2>1
  <2>4. shell'[q] = f
    BY <1>1, <1>2, <2>1, <2>3
  <2>5. QED
    BY <2>1, <2>2, <2>3, <2>4
<1>4. CASE cold_start
  <2>1. shell' = [shell EXCEPT ![Browser] = Loaded(disk)]
    BY <1>4 DEF cold_start
  <2>2. Loaded(disk).mounts = disk.mounts
    BY LoadedIsGood DEF ShellInv, TypeOK, SameMounts
  <2>3. QED
    BY <1>1, <2>1, <2>2
<1>5. ASSUME NEW p \in Process, Ends(p) PROVE Approved(shell'[q], d, m.owner)
  BY <1>1, <1>2, <1>5 DEF Ends
<1>6. QED
  BY <1>3, <1>4, <1>5, ShellChanges

-----------------------------------------------------------------------------
(* Decisions. *)

\* What DecisionsStick says of a step.
SticksToDecisions ==
    phase[Browser] # "off" /\ phase'[Browser] # "off" =>
         /\ \A u \in Surface, o \in Peer, c \in Cap :
              LET old == shell[Browser].permissions[u][o][c]
                  new == shell'[Browser].permissions[u][o][c]
              IN old # {} /\ new # old => PermissionAnswered(answer', u, o, c, new)
         /\ \A g \in Gateway :
              LET old == shell[Browser].gateway_trust[g]
                  new == shell'[Browser].gateway_trust[g]
              IN old # {} /\ new # old => TrustAnswered(answer', g, new)

LEMMA DecisionsStep == ShellInv /\ [Next]_vars => SticksToDecisions
<1> SUFFICES ASSUME ShellInv, [Next]_vars, phase[Browser] # "off", phase'[Browser] # "off"
             PROVE  SticksToDecisions
  BY DEF SticksToDecisions
<1>1. /\ shell \in [Process -> RuntimeShellState]
      /\ phase \in [Process -> {"off", "idle", "fetching"}]
      /\ Browser \in Process /\ Terminal # Browser
  BY DEF ShellInv, TypeOK, Process, Browser, Terminal
<1>2. ASSUME shell'[Browser] = shell[Browser] PROVE SticksToDecisions
  BY <1>2 DEF SticksToDecisions
<1>3. ASSUME NEW p \in Process, NEW s \in RuntimeShellState, Worked(p, s)
      PROVE  SticksToDecisions
  <2>1. PICK f \in RuntimeShellState :
          /\ Keeps(s, f)
          /\ \/ p = Terminal
             \/ shell' = [shell EXCEPT ![p] = f]
          /\ \/ shell' = [shell EXCEPT ![p] = EmptyShell]
             \/ shell' = [shell EXCEPT ![p] = f]
    BY <1>3 DEF Worked, Leaves
  <2>2. CASE p # Browser
    BY <1>1, <1>2, <2>1, <2>2
  <2>3. CASE p = Browser
    <3>1. shell'[Browser] = f /\ DecidedByAnswer(s, answer')
      BY <1>1, <1>3, <2>1, <2>3 DEF Worked
    <3>2. ASSUME NEW u \in Surface, NEW o \in Peer, NEW c \in Cap,
                 shell[Browser].permissions[u][o][c] # {},
                 f.permissions[u][o][c] # shell[Browser].permissions[u][o][c]
          PROVE  PermissionAnswered(answer', u, o, c, f.permissions[u][o][c])
      <4>1. s.permissions[u][o][c] # shell[Browser].permissions[u][o][c]
        BY <2>1, <3>2 DEF Keeps
      <4>2. PermissionAnswered(answer', u, o, c, s.permissions[u][o][c])
        BY <3>1, <4>1 DEF DecidedByAnswer
      <4>3. s.permissions[u][o][c] # {}
        BY <4>2 DEF PermissionAnswered
      <4>4. f.permissions[u][o][c] = s.permissions[u][o][c]
        BY <2>1, <4>3 DEF Keeps
      <4>5. QED
        BY <4>2, <4>4
    <3>3. ASSUME NEW g \in Gateway,
                 shell[Browser].gateway_trust[g] # {},
                 f.gateway_trust[g] # shell[Browser].gateway_trust[g]
          PROVE  TrustAnswered(answer', g, f.gateway_trust[g])
      <4>1. s.gateway_trust[g] # shell[Browser].gateway_trust[g]
        BY <2>1, <3>3 DEF Keeps
      <4>2. TrustAnswered(answer', g, s.gateway_trust[g])
        BY <3>1, <4>1 DEF DecidedByAnswer
      <4>3. s.gateway_trust[g] # {}
        BY <4>2 DEF TrustAnswered
      <4>4. f.gateway_trust[g] = s.gateway_trust[g]
        BY <2>1, <4>3 DEF Keeps
      <4>5. QED
        BY <4>2, <4>4
    <3>4. QED
      BY <3>1, <3>2, <3>3 DEF SticksToDecisions
  <2>4. QED
    BY <2>2, <2>3
<1>4. ~cold_start
  BY DEF cold_start
<1>5. ASSUME NEW p \in Process, Ends(p) PROVE SticksToDecisions
  <2>1. shell' = [shell EXCEPT ![p] = EmptyShell] /\ phase' = [phase EXCEPT ![p] = "off"]
    BY <1>5 DEF Ends
  <2>2. p # Browser
    BY <1>1, <2>1
  <2>3. QED
    BY <1>1, <1>2, <2>1, <2>2
<1>6. QED
  BY <1>2, <1>3, <1>4, <1>5, ShellChanges

-----------------------------------------------------------------------------
(* Refusals that can be answered. *)

\* Every prompt asks on behalf of the owner the copy s registers for its route.
Owned(prompts, s) == \A q \in prompts : q.owner \in s.registry[q.route]

\* push_prompt never looks at the owner of a pending prompt; it need not, since
\* the browser's copy never registers a route under a second owner.
AnswerInv == Owned(ui.pending_prompts, shell[Browser]) /\ RefusalIsAnswerable

\* No registration of s is lost or changed in t.
Registers(s, t) == \A e \in Domain : s.registry[e] \subseteq t.registry[e]

\* What the browser shows and works on stays as it is.
LEMMA NothingAsked ==
    ASSUME AnswerInv, ui' = ui, shell'[Browser] = shell[Browser],
           \A d \in Domain : names'[d] = names[d] \/ names'[d] = Nobody,
           shell[Browser] \in RuntimeShellState, ui \in BrowserSurface
    PROVE  AnswerInv'
<1>1. \A d \in Domain : Nobody \notin shell[Browser].registry[d]
  BY ProcessAssumption DEF RuntimeShellState
<1>2. ui.current_uri \subseteq Domain
  BY DEF BrowserSurface
<1>3. QED
  BY <1>1, <1>2
  DEF AnswerInv, Owned, RefusalIsAnswerable, AsksForTrust, AsksForMissing

\* Before it decides, open_uri registers the route and stores what it negotiates.
LEMMA OpenRegisters ==
    ASSUME NEW s, NEW k, Good(s, k), NEW d \in Domain, NEW o \in Peer
    PROVE  /\ Registers(s, Considered(s, d, o))
           /\ Negotiated(s, d, o).registry = Considered(s, d, o).registry
           /\ \A c \in Requested[d] :
                Negotiated(s, d, o).permissions[SurfaceOf(d)][o][c] =
                    {capability_allowed(Considered(s, d, o), d, o, c)}
<1> DEFINE r == Registered(s, d, o)
           t == Considered(s, d, o)
<1>1. Good(r, k) /\ Good(t, k)
  BY OpenPrepares DEF Prepared
<1>2. Registers(s, r)
  <2>1. CASE s.registry[d] = {}
    <3>1. r = upsert_registration(s, d, o)
      BY <2>1 DEF Registered, ensure_route_registration
    <3>2. s \in RuntimeShellState
      BY DEF Good, ShellOK
    <3>3. r.registry = [s.registry EXCEPT ![d] = {o}] /\ s.registry \in [Domain -> SUBSET Peer]
      BY <3>1, <3>2 DEF upsert_registration, RuntimeShellState
    <3>4. QED
      BY <2>1, <3>3 DEF Registers
  <2>2. CASE s.registry[d] # {}
    BY <2>2 DEF Registered, ensure_route_registration, Registers
  <2>3. QED
    BY <2>1, <2>2
<1>3. t.registry = r.registry
  BY <1>1, PendingIsGood DEF Considered
<1>4. QED
  BY <1>1, <1>2, <1>3, NegotiateIsGood DEF Registers, Negotiated

\* A refusal asks for everything that is missing, by its own prompts or by
\* those already pending.
LEMMA PushAsks ==
    ASSUME NEW f, ShellOK(f), NEW d \in Domain, NEW o \in f.registry[d],
           NEW missing \in SUBSET Requested[d],
           NEW pending \in SUBSET BrowserPermissionPrompt, Owned(pending, f)
    PROVE  \A c \in missing : [route |-> d, owner |-> o, cap |-> {c}]
                                \in push_prompt(pending, capture_permission_prompts(f, d, missing))
<1> SUFFICES ASSUME NEW c \in missing
             PROVE  [route |-> d, owner |-> o, cap |-> {c}]
                      \in push_prompt(pending, capture_permission_prompts(f, d, missing))
  OBVIOUS
<1> DEFINE new == [route |-> d, owner |-> o, cap |-> {c}]
           asked == capture_permission_prompts(f, d, missing)
<1>1. new \in asked /\ new.route = d /\ new.cap = {c}
  BY DEF capture_permission_prompts
<1>2. ASSUME NEW q \in pending, q.route = d, q.cap = {c} PROVE q = new
  <2>1. q \in BrowserPermissionPrompt /\ q.owner \in f.registry[d]
    BY <1>2 DEF Owned
  <2>2. q.owner = o
    BY <2>1 DEF ShellOK
  <2>3. QED
    BY <1>2, <2>1, <2>2 DEF BrowserPermissionPrompt
<1> HIDE DEF new, asked
<1>3. QED
  BY <1>1, <1>2 DEF push_prompt, new, asked

\* New prompts are the registered owner's, and those pending stay.
LEMMA PushOwned ==
    ASSUME NEW f, NEW d, NEW missing, NEW pending, Owned(pending, f)
    PROVE  /\ Owned(push_prompt(pending, capture_permission_prompts(f, d, missing)), f)
           /\ Owned(push_prompt(pending, trust_prompt(f, d)), f)
<1>1. \A q \in capture_permission_prompts(f, d, missing) : q.owner \in f.registry[q.route]
  BY DEF capture_permission_prompts
<1>2. \A q \in trust_prompt(f, d) : q.owner \in f.registry[q.route]
  BY DEF trust_prompt
<1>3. QED
  BY <1>1, <1>2 DEF Owned, push_prompt

\* A failed navigation of the browser.
LEMMA FailsAnswers ==
    ASSUME ui \in BrowserSurface, shell \in [Process -> RuntimeShellState],
           NEW d \in Domain, NEW o, names'[d] = o, NEW f, NEW saved, NEW refused \in BOOLEAN,
           NEW pending, NEW asked, Fails(Browser, d, f, saved, refused, pending, asked),
           Owned(push_prompt(pending, asked), f),
           refused =>
             \/ /\ d \in Gateway /\ ~validate_gateway_trust(f, d)
                /\ \E q \in push_prompt(pending, asked) : q.route = d /\ q.cap = {}
             \/ o \in f.registry[d] =>
                  /\ rejected_capabilities(f, d, o) # {}
                  /\ \A c \in rejected_capabilities(f, d, o) :
                       [route |-> d, owner |-> o, cap |-> {c}] \in push_prompt(pending, asked)
    PROVE  AnswerInv'
<1> DEFINE prompts == push_prompt(pending, asked)
<1>1. /\ shell' = [shell EXCEPT ![Browser] = f]
      /\ ui' = [ui EXCEPT !.current_uri = {d}, !.refused = refused, !.pending_prompts = prompts]
  BY DEF Fails, Browser, Terminal
<1> HIDE DEF prompts
<1>2. shell'[Browser] = f
  BY <1>1 DEF Process
<1>3. ui'.current_uri = {d} /\ ui'.refused = refused /\ ui'.pending_prompts = prompts
  BY <1>1 DEF BrowserSurface
<1>4. Owned(ui'.pending_prompts, shell'[Browser])
  BY <1>2, <1>3 DEF prompts
<1>5. RefusalIsAnswerable'
  <2> SUFFICES ASSUME refused
               PROVE  AsksForTrust(shell[Browser], d)'
                      \/ (o \in f.registry[d] => AsksForMissing(shell[Browser], d, names[d])')
    BY <1>2, <1>3 DEF RefusalIsAnswerable
  <2>1. CASE /\ d \in Gateway /\ ~validate_gateway_trust(f, d)
             /\ \E q \in prompts : q.route = d /\ q.cap = {}
    BY <1>2, <1>3, <2>1 DEF AsksForTrust
  <2>2. CASE o \in f.registry[d] =>
               /\ rejected_capabilities(f, d, o) # {}
               /\ \A c \in rejected_capabilities(f, d, o) :
                    [route |-> d, owner |-> o, cap |-> {c}] \in prompts
    BY <1>2, <1>3, <2>2 DEF AsksForMissing
  <2>3. QED
    BY <2>1, <2>2 DEF prompts
<1>6. QED
  BY <1>4, <1>5 DEF AnswerInv, Owned

\* A navigation of the browser that ends without a refusal.
LEMMA EndsQuietly ==
    ASSUME ui \in BrowserSurface, shell \in [Process -> RuntimeShellState],
           NEW d, NEW f, NEW saved, NEW pending,
           Fails(Browser, d, f, saved, FALSE, pending, {}), Owned(pending, f)
    PROVE  AnswerInv'
<1>1. /\ shell' = [shell EXCEPT ![Browser] = f]
      /\ ui' = [ui EXCEPT !.current_uri = {d}, !.refused = FALSE, !.pending_prompts = pending]
  <2>1. push_prompt(pending, {}) = pending
    BY DEF push_prompt
  <2>2. QED
    BY <2>1 DEF Fails, Browser, Terminal
<1>2. shell'[Browser] = f /\ ui'.refused = FALSE /\ ui'.pending_prompts = pending
  BY <1>1 DEF Process, BrowserSurface
<1>3. QED
  BY <1>2 DEF AnswerInv, Owned, RefusalIsAnswerable

\* Every way open_uri goes for the browser.
LEMMA OpenAnswers ==
    ASSUME ui \in BrowserSurface, shell \in [Process -> RuntimeShellState], opens \in Nat,
           NEW d \in Domain, NEW o \in Peer \cup {Nobody}, names'[d] = o,
           NEW s, NEW saved, Good(s, opens),
           NEW pending \in SUBSET BrowserPermissionPrompt, Owned(pending, s),
           open_uri(Browser, d, o, s, saved, pending)
    PROVE  AnswerInv'
<1> DEFINE t == Considered(s, d, o)
           n == Negotiated(s, d, o)
           rejected == rejected_capabilities(t, d, o)
           kept == IF Registered(s, d, o) = s THEN saved ELSE Registered(s, d, o)
<1>1. opens' \in Nat /\ opens < opens' /\ Browser # Terminal
  BY DEF open_uri, Browser, Terminal
<1>2. \/ /\ o = Nobody
         /\ Fails(Browser, d, s, saved, FALSE, pending, {})
      \/ /\ o # Nobody
         /\ d \in Gateway /\ ~validate_gateway_trust(t, d)
         /\ Fails(Browser, d, record_gateway_failure(t, d, o, opens'),
                  record_gateway_failure(t, d, o, opens'), TRUE, pending,
                  trust_prompt(record_gateway_failure(t, d, o, opens'), d))
      \/ /\ o # Nobody
         /\ rejected # {}
         /\ Fails(Browser, d, record_failed_mount(n, d, o, opens'),
                  record_failed_mount(n, d, o, opens'), TRUE, pending,
                  capture_permission_prompts(record_failed_mount(n, d, o, opens'), d, rejected))
      \/ o # Nobody /\ Mounts(Browser, d, record_mount(n, d, o, opens'))
      \/ o # Nobody /\ Fetches(Browser, d, o, n, kept, pending)
  BY DEF open_uri, Registered, Considered, Negotiated
<1>3. ASSUME o # Nobody
      PROVE  /\ o \in Peer /\ Good(t, opens) /\ Good(n, opens) /\ t.registry[d] # {}
             /\ Registers(s, t) /\ n.registry = t.registry
             /\ \A c \in Requested[d] :
                  n.permissions[SurfaceOf(d)][o][c] = {capability_allowed(t, d, o, c)}
  <2>1. o \in Peer
    BY <1>3
  <2>2. Prepared(s, opens, d, o, t, n)
    BY <2>1, OpenPrepares
  <2>3. /\ Registers(s, t) /\ n.registry = t.registry
        /\ \A c \in Requested[d] :
             n.permissions[SurfaceOf(d)][o][c] = {capability_allowed(t, d, o, c)}
    BY <2>1, OpenRegisters
  <2> HIDE DEF t, n
  <2>4. QED
    BY <2>1, <2>2, <2>3 DEF Prepared
<1>4. rejected \in SUBSET Requested[d]
  BY DEF rejected_capabilities
<1>5. ASSUME NEW f, f.registry = t.registry, o # Nobody PROVE Owned(pending, f)
  <2>1. \A q \in pending : q.route \in Domain
    BY DEF BrowserPermissionPrompt
  <2> HIDE DEF t
  <2>2. QED
    BY <1>3, <1>5, <2>1 DEF Owned, Registers
<1>6. ASSUME NEW c \in Requested[d], NEW f, f.permissions = n.permissions, o # Nobody
      PROVE  capability_allowed(f, d, o, c) <=> capability_allowed(t, d, o, c)
  <2>1. f.permissions[SurfaceOf(d)][o][c] = {capability_allowed(t, d, o, c)}
    BY <1>3, <1>6
  <2>2. capability_allowed(t, d, o, c) \in BOOLEAN
    BY DEF capability_allowed, gateway_capability_is_trusted
  <2>3. capability_allowed(f, d, o, c) <=> f.permissions[SurfaceOf(d)][o][c] = {TRUE}
    BY <2>1 DEF capability_allowed
  <2> HIDE DEF t
  <2>4. QED
    BY <2>1, <2>2, <2>3
<1> HIDE DEF t, n, rejected, kept
<1>7. CASE o = Nobody /\ Fails(Browser, d, s, saved, FALSE, pending, {})
  BY <1>7, EndsQuietly
<1>8. CASE /\ o # Nobody /\ d \in Gateway /\ ~validate_gateway_trust(t, d)
           /\ Fails(Browser, d, record_gateway_failure(t, d, o, opens'),
                    record_gateway_failure(t, d, o, opens'), TRUE, pending,
                    trust_prompt(record_gateway_failure(t, d, o, opens'), d))
  <2> DEFINE f == record_gateway_failure(t, d, o, opens')
  <2>1. SameDecisions(t, f)
    BY <1>1, <1>3, <1>8, GatewayFailureIsGood
  <2>2. Fails(Browser, d, f, f, TRUE, pending, trust_prompt(f, d))
    BY <1>8
  <2> HIDE DEF f
  <2>3. ~validate_gateway_trust(f, d) /\ f.registry = t.registry /\ f.registry[d] # {}
    BY <1>3, <1>8, <2>1 DEF SameDecisions, validate_gateway_trust
  <2>4. \E q \in push_prompt(pending, trust_prompt(f, d)) : q.route = d /\ q.cap = {}
    <3>0. PICK r \in f.registry[d] : TRUE
      BY <2>3
    <3> DEFINE q == [route |-> d, owner |-> r, cap |-> {}]
    <3>1. q \in trust_prompt(f, d) /\ q.route = d /\ q.cap = {}
      BY <3>0 DEF trust_prompt
    <3> HIDE DEF q
    <3> DEFINE asked == trust_prompt(f, d)
    <3> HIDE DEF asked
    <3>2. CASE \E k \in pending : k.route = q.route /\ k.cap = q.cap
      <4>1. PICK k \in pending : k.route = q.route /\ k.cap = q.cap
        BY <3>2
      <4>2. k \in push_prompt(pending, asked)
        BY <4>1 DEF push_prompt
      <4>3. k.route = d /\ k.cap = {}
        BY <3>1, <4>1
      <4>4. QED
        BY <4>2, <4>3 DEF asked
    <3>3. CASE ~\E k \in pending : k.route = q.route /\ k.cap = q.cap
      <4>1. q \in asked
        BY <3>1 DEF asked
      <4>2. q \in push_prompt(pending, asked)
        BY <3>3, <4>1 DEF push_prompt
      <4>3. QED
        BY <3>1, <4>2 DEF asked
    <3>4. QED
      BY <3>2, <3>3
  <2>5. Owned(push_prompt(pending, trust_prompt(f, d)), f)
    BY <1>5, <1>8, <2>3, PushOwned
  <2>6. QED
    BY <1>8, <2>2, <2>3, <2>4, <2>5, FailsAnswers
<1>9. CASE /\ o # Nobody /\ rejected # {}
           /\ Fails(Browser, d, record_failed_mount(n, d, o, opens'),
                    record_failed_mount(n, d, o, opens'), TRUE, pending,
                    capture_permission_prompts(record_failed_mount(n, d, o, opens'), d,
                                               rejected))
  <2> DEFINE f == record_failed_mount(n, d, o, opens')
  <2>1. Good(f, opens') /\ SameDecisions(n, f)
    BY <1>1, <1>3, <1>9, FailedMountIsGood
  <2>2. Fails(Browser, d, f, f, TRUE, pending, capture_permission_prompts(f, d, rejected))
    BY <1>9
  <2> HIDE DEF f
  <2>3. f.registry = t.registry /\ f.permissions = n.permissions /\ ShellOK(f)
    BY <1>3, <1>9, <2>1 DEF SameDecisions, Good
  <2>4. rejected_capabilities(f, d, o) = rejected
    <3>1. \A c \in Requested[d] :
            capability_allowed(f, d, o, c) <=> capability_allowed(t, d, o, c)
      BY <1>6, <1>9, <2>3
    <3>2. QED
      BY <3>1 DEF rejected_capabilities, rejected
  <2>5. Owned(pending, f)
    BY <1>5, <1>9, <2>3
  <2>6. o \in f.registry[d] =>
          \A c \in rejected : [route |-> d, owner |-> o, cap |-> {c}]
            \in push_prompt(pending, capture_permission_prompts(f, d, rejected))
    BY <1>4, <2>3, <2>5, PushAsks
  <2>7. Owned(push_prompt(pending, capture_permission_prompts(f, d, rejected)), f)
    BY <2>5, PushOwned
  <2>8. QED
    BY <1>9, <2>2, <2>4, <2>6, <2>7, FailsAnswers
<1>10. CASE o # Nobody /\ Mounts(Browser, d, record_mount(n, d, o, opens'))
  <2>1. ui' = [ui EXCEPT !.current_uri = {d}, !.mounted_route = {d},
                         !.refused = FALSE, !.pending_prompts = {}]
    BY <1>1, <1>10 DEF Mounts
  <2>2. ui'.refused = FALSE /\ ui'.pending_prompts = {}
    BY <2>1 DEF BrowserSurface
  <2>3. QED
    BY <2>2 DEF AnswerInv, Owned, RefusalIsAnswerable
<1>11. CASE o # Nobody /\ Fetches(Browser, d, o, n, kept, pending)
  <2>1. /\ ui' = [ui EXCEPT !.current_uri = {d}, !.refused = FALSE, !.pending_prompts = pending]
        /\ shell' = [shell EXCEPT ![Browser] = n]
    BY <1>1, <1>11 DEF Fetches
  <2>2. ui'.refused = FALSE /\ ui'.pending_prompts = pending /\ shell'[Browser] = n
    BY <2>1 DEF BrowserSurface, Process
  <2>3. Owned(pending, n)
    BY <1>3, <1>5, <1>11
  <2>4. QED
    BY <2>2, <2>3 DEF AnswerInv, Owned, RefusalIsAnswerable
<1>12. QED
  BY <1>2, <1>7, <1>8, <1>9, <1>10, <1>11

\* The end of the browser's fetch.
LEMMA FetchAnswers ==
    ASSUME ShellInv, AnswerInv, NEW ok \in BOOLEAN, execute_gateway_fetch(Browser, ok)
    PROVE  AnswerInv'
<1>1. /\ ui \in BrowserSurface /\ shell \in [Process -> RuntimeShellState] /\ opens \in Nat
      /\ Browser \in Process /\ Browser # Terminal /\ opening \in [Process -> SUBSET Opening]
  BY DEF ShellInv, TypeOK, Process, Browser, Terminal
<1>2. PICK w \in opening[Browser] :
        \/ Mounts(Browser, w.domain,
                  record_gateway_mount(shell[Browser], w.domain, w.target, w.session))
        \/ Fails(Browser, w.domain,
                 record_gateway_failure(shell[Browser], w.domain, w.target, w.session),
                 record_gateway_failure(shell[Browser], w.domain, w.target, w.session),
                 FALSE, ui.pending_prompts, {})
  BY DEF execute_gateway_fetch
<1>3. /\ w.domain \in Gateway /\ w.domain \in Domain /\ w.target \in Peer /\ w.session \in Nat
      /\ w.session - 1 \in Nat /\ w.session - 1 < w.session
      /\ Good(shell[Browser], w.session - 1)
  BY <1>1 DEF ShellInv, Waits, Opening
<1>4. CASE Mounts(Browser, w.domain,
                  record_gateway_mount(shell[Browser], w.domain, w.target, w.session))
  <2>1. ui' = [ui EXCEPT !.current_uri = {w.domain}, !.mounted_route = {w.domain},
                         !.refused = FALSE, !.pending_prompts = {}]
    BY <1>1, <1>4 DEF Mounts
  <2>2. ui'.refused = FALSE /\ ui'.pending_prompts = {}
    BY <1>1, <2>1 DEF BrowserSurface
  <2>3. QED
    BY <2>2 DEF AnswerInv, Owned, RefusalIsAnswerable
<1>5. CASE Fails(Browser, w.domain,
                 record_gateway_failure(shell[Browser], w.domain, w.target, w.session),
                 record_gateway_failure(shell[Browser], w.domain, w.target, w.session),
                 FALSE, ui.pending_prompts, {})
  <2> DEFINE f == record_gateway_failure(shell[Browser], w.domain, w.target, w.session)
  <2>1. SameDecisions(shell[Browser], f)
    BY <1>3, GatewayFailureIsGood
  <2>2. Fails(Browser, w.domain, f, f, FALSE, ui.pending_prompts, {})
    BY <1>5
  <2> HIDE DEF f
  <2>3. Owned(ui.pending_prompts, f)
    BY <2>1 DEF AnswerInv, Owned, SameDecisions
  <2>4. QED
    BY <1>1, <2>2, <2>3, EndsQuietly
<1>6. QED
  BY <1>2, <1>4, <1>5

\* What the terminal's opens and fetches leave alone.
LEMMA TerminalAsksNothing ==
    ASSUME ShellInv,
           \/ \E d \in Domain : OpenCommand(d)
           \/ \E ok \in BOOLEAN : execute_gateway_fetch(Terminal, ok)
    PROVE  ui' = ui /\ names' = names /\ shell'[Browser] = shell[Browser]
<1>1. /\ shell \in [Process -> RuntimeShellState] /\ Browser \in Process /\ Browser # Terminal
  BY DEF ShellInv, Process, Browser, Terminal
<1>2. ASSUME NEW d, NEW s, NEW saved, NEW refused, NEW pending, NEW asked,
             Fails(Terminal, d, s, saved, refused, pending, asked)
      PROVE  ui' = ui /\ shell'[Browser] = shell[Browser]
  BY <1>1, <1>2 DEF Fails
<1>3. ASSUME NEW d, NEW s, Mounts(Terminal, d, s)
      PROVE  ui' = ui /\ shell'[Browser] = shell[Browser]
  BY <1>1, <1>3 DEF Mounts
<1>4. ASSUME NEW d, NEW o, NEW s, NEW saved, NEW pending, Fetches(Terminal, d, o, s, saved, pending)
      PROVE  ui' = ui /\ shell'[Browser] = shell[Browser]
  BY <1>1, <1>4 DEF Fetches
<1>5. ASSUME NEW d, NEW o, NEW s, NEW saved, NEW pending,
             open_uri(Terminal, d, o, s, saved, pending)
      PROVE  ui' = ui /\ shell'[Browser] = shell[Browser]
  BY <1>2, <1>3, <1>4, <1>5 DEF open_uri
<1>6. ASSUME NEW d \in Domain, OpenCommand(d)
      PROVE  ui' = ui /\ names' = names /\ shell'[Browser] = shell[Browser]
  BY <1>5, <1>6 DEF OpenCommand
<1>7. ASSUME NEW ok \in BOOLEAN, execute_gateway_fetch(Terminal, ok)
      PROVE  ui' = ui /\ names' = names /\ shell'[Browser] = shell[Browser]
  BY <1>2, <1>3, <1>7 DEF execute_gateway_fetch
<1>8. QED
  BY <1>6, <1>7

\* Every step keeps refusals answerable.
LEMMA AnswerStep ==
    ASSUME ShellInv, AnswerInv, [Next]_vars
    PROVE  AnswerInv'
<1>1. /\ ui \in BrowserSurface /\ shell \in [Process -> RuntimeShellState] /\ opens \in Nat
      /\ Browser \in Process /\ Browser # Terminal /\ Process = {Terminal, Browser}
      /\ Good(shell[Browser], opens) /\ ShellOK(shell[Browser])
      /\ names \in [Domain -> Peer \cup {Nobody}]
      /\ shell[Browser] \in RuntimeShellState
      /\ Owned(ui.pending_prompts, shell[Browser])
      /\ ui.pending_prompts \in SUBSET BrowserPermissionPrompt
  BY DEF ShellInv, TypeOK, AnswerInv, Process, Browser, Terminal, BrowserSurface
<1>2. ASSUME ui' = ui, shell'[Browser] = shell[Browser], names' = names PROVE AnswerInv'
  BY <1>1, <1>2, NothingAsked
<1>3. ASSUME NEW d \in Domain, navigate(d) PROVE AnswerInv'
  <2>1. names'[d] \in Peer \cup {Nobody}
    BY <1>1, <1>3, SynchronizeTypes DEF navigate
  <2>2. open_uri(Browser, d, names'[d], shell[Browser], disk, ui.pending_prompts)
    BY <1>3 DEF navigate
  <2>3. QED
    BY <1>1, <2>1, <2>2, OpenAnswers
<1>4. ASSUME NEW q \in ui.pending_prompts, NEW allowed \in BOOLEAN, resolve_prompt(q, allowed)
      PROVE  AnswerInv'
  <2> DEFINE s == answered(shell[Browser], q, allowed)
             rest == ui.pending_prompts \ {q}
  <2>1. PICK d \in ui.current_uri : open_uri(Browser, d, names'[d], s, s, rest)
    BY <1>4 DEF resolve_prompt
  <2>2. d \in Domain /\ q \in BrowserPermissionPrompt /\ rest \in SUBSET BrowserPermissionPrompt
    BY <1>1 DEF BrowserSurface
  <2>3. names'[d] \in Peer \cup {Nobody}
    BY <1>1, <1>4, <2>2, SynchronizeTypes DEF resolve_prompt
  <2>4. Good(s, opens) /\ s.registry = shell[Browser].registry
    BY <1>1, <2>2, AnsweredIsGood
  <2>5. Owned(rest, s)
    BY <1>1, <2>4 DEF Owned
  <2> HIDE DEF s, rest
  <2>6. QED
    BY <1>1, <2>1, <2>2, <2>3, <2>4, <2>5, OpenAnswers
<1>5. ASSUME NEW p \in Process, NEW ok \in BOOLEAN, execute_gateway_fetch(p, ok)
      PROVE  AnswerInv'
  BY <1>1, <1>2, <1>5, FetchAnswers, TerminalAsksNothing
<1>6. ASSUME NEW d \in Domain, OpenCommand(d) PROVE AnswerInv'
  BY <1>2, <1>6, TerminalAsksNothing
<1>7. CASE WritesFile
  <2>1. ui' = ui /\ shell' = shell /\ names' = names
    BY <1>7 DEF WritesFile, RuntimePermission, GatewayRegister, GatewayDecision, Command,
                synchronize_surface
  <2>2. QED
    BY <1>2, <2>1
<1>8. CASE cold_start
  BY <1>8 DEF cold_start, ColdSurface, AnswerInv, Owned, RefusalIsAnswerable
<1>9. ASSUME NEW p \in Process, Exit(p) PROVE AnswerInv'
  <2>1. CASE p = Browser
    BY <1>9, <2>1 DEF Exit, ColdSurface, AnswerInv, Owned, RefusalIsAnswerable
  <2>2. CASE p # Browser
    <3>1. ui' = ui /\ names' = names /\ shell'[Browser] = shell[Browser]
      BY <1>1, <1>9, <2>2 DEF Exit
    <3>2. QED
      BY <1>2, <3>1
  <2>3. QED
    BY <2>1, <2>2
<1>10. ASSUME NEW d \in Domain, Expire(d) PROVE AnswerInv'
  <2>1. ui' = ui /\ shell' = shell /\ names' = [names EXCEPT ![d] = Nobody]
    BY <1>10 DEF Expire
  <2>2. \A e \in Domain : names'[e] = names[e] \/ names'[e] = Nobody
    BY <1>1, <2>1
  <2>3. QED
    BY <1>1, <2>1, <2>2, NothingAsked
<1>11. CASE UNCHANGED vars
  BY <1>2, <1>11 DEF vars
<1>12. ASSUME NEW q \in ui.pending_prompts, NEW allowed \in BOOLEAN, StopInAnswer(q, allowed)
       PROVE  AnswerInv'
  BY <1>12 DEF StopInAnswer, ColdSurface, AnswerInv, Owned, RefusalIsAnswerable
<1>13. QED
  BY <1>3, <1>4, <1>5, <1>6, <1>7, <1>8, <1>9, <1>10, <1>11, <1>12 DEF Next, WritesFile

-----------------------------------------------------------------------------
(* Theorems. *)

LEMMA ShellInvariant == Spec => []ShellInv
<1>1. Init => ShellInv
  BY ShellInit
<1>2. ShellInv /\ [Next]_vars => ShellInv'
  BY ShellStep
<1>3. QED
  BY <1>1, <1>2, PTL DEF Spec

\* Types are kept, each list of the shell has one entry a key, and a process
\* waits in an open exactly while it fetches (the upsert_* methods, open_uri).
THEOREM TypeCorrect == Spec => []TypeOK
<1>1. ShellInv => TypeOK
  BY DEF ShellInv
<1>2. QED
  BY <1>1, ShellInvariant, PTL

\* In the file and in every copy a mount has its session, and a mounted gateway
\* its active route and completed fetch, however copies overwrite each other.
THEOREM MountsBacked == Spec => []MountsAreBacked
<1>1. ShellInv => MountsAreBacked
  BY DEF ShellInv, Good, Backed, MountsAreBacked
<1>2. QED
  BY <1>1, ShellInvariant, PTL

\* A refused navigation leaves a prompt for the route it was about.
THEOREM RefusalsPrompted == Spec => []RefusalHasPrompt
<1>1. ShellInv => RefusalHasPrompt
  BY DEF ShellInv
<1>2. QED
  BY <1>1, ShellInvariant, PTL

\* A refused navigation of the browser asks for the trust of the gateway, or for
\* all that is missing of a route its registered owner serves (push_prompt,
\* capture_permission_prompts_from_route).
THEOREM RefusalsAnswerable == Spec => []RefusalIsAnswerable
<1>1. Init => AnswerInv
  BY DEF Init, ColdSurface, AnswerInv, Owned, RefusalIsAnswerable
<1>2. ShellInv /\ AnswerInv /\ [Next]_vars => AnswerInv'
  BY AnswerStep
<1>3. AnswerInv => RefusalIsAnswerable
  BY DEF AnswerInv
<1>4. QED
  BY <1>1, <1>2, <1>3, ShellInvariant, PTL DEF Spec

\* No open and no late end of a fetch mounts a surface without every grant it
\* requested, or a gateway whose trust is denied.
THEOREM MountsApproved == Spec => MountsAreApproved
<1>1. Spec => [][ApprovesMounts]_vars
  <2>1. ShellInv /\ [Next]_vars => [ApprovesMounts]_vars
    BY MountsStep
  <2>2. QED
    BY <2>1, ShellInvariant, PTL DEF Spec
<1>2. QED
  BY <1>1 DEF MountsAreApproved, ApprovesMounts

\* While the browser runs a stored decision changes only in the step that carries
\* out the user's answer to a prompt about it, and becomes that answer: no
\* navigation, failure or fetch decides again, with or without a pending prompt.
THEOREM DecisionsSticky == Spec => DecisionsStick
<1>1. Spec => [][SticksToDecisions]_vars
  <2>1. ShellInv /\ [Next]_vars => [SticksToDecisions]_vars
    BY DecisionsStep
  <2>2. QED
    BY <2>1, ShellInvariant, PTL DEF Spec
<1>2. QED
  BY <1>1 DEF DecisionsStick, SticksToDecisions, PermissionAnswered, TrustAnswered

=============================================================================
