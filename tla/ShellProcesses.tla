--------------------------- MODULE ShellProcesses ---------------------------
(***************************************************************************)
(* The processes that share data_dir/runtime/shell.json: void-cli commands *)
(* an operator runs, a void-cli `open` whose surface stays on the          *)
(* terminal, and VOIDBrowser.  Each loads the file once and writes back    *)
(* the whole copy it holds with every change; nobody re-reads or locks it. *)
(*                                                                         *)
(* The two long-lived processes wait in the middle of an open for a        *)
(* gateway's HTTP answer.  A void-cli command that does not wait is one    *)
(* step.  What VOIDDNS answers is an input: a process starts with any      *)
(* resolution of the names, and a record it does not own may expire.       *)
(***************************************************************************)
EXTENDS RuntimeShell

CONSTANTS
    Nobody,       \* a name that does not resolve
    Resolution,   \* the resolutions a process may start with
    Level,        \* the trust levels operators register gateways with
    Commands,     \* the kinds of command operators run
    MaxCommands,  \* bound: operators' commands
    MaxOpens,     \* bound: opens, and the ids they take
    MaxBoth       \* bound: commands and opens together

ASSUME ProcessAssumption ==
    /\ Nobody \notin Peer
    /\ Resolution \subseteq [Domain -> Peer \cup {Nobody}]
    /\ Level \subseteq {"Trusted", "Restricted", "Untrusted"}
    /\ Commands \subseteq {"Permission", "Register", "Gateway"}
    /\ MaxCommands \in Nat
    /\ MaxOpens \in Nat
    /\ MaxBoth \in Nat

Terminal == "terminal"

Browser == "browser"

Process == {Terminal, Browser}

VARIABLES
    disk,      \* shell.json
    shell,     \* the copy a running process holds
    phase,     \* whether a process runs, and whether it waits for a gateway
    opening,   \* the open a process waits in
    names,     \* what VOIDDNS answers the browser
    ui,        \* VOIDBrowser's BrowserSurface
    opens,     \* opens so far
    commands,  \* operators' commands so far
    answer     \* auxiliary: the answer to a prompt the last step carried out, if any

vars == <<disk, shell, phase, opening, names, ui, opens, commands, answer>>

Opening == [domain : Domain, target : Peer, session : Nat]

\* cap is empty for a GatewayTrust prompt; owner only counts for the others.
BrowserPermissionPrompt ==
    [route : Domain, owner : Peer, cap : {{}} \cup {{c} : c \in Cap}]

Answer == [prompt : BrowserPermissionPrompt, allowed : BOOLEAN]

BrowserSurface ==
    [current_uri : SUBSET Domain,
     mounted_route : SUBSET Domain,
     refused : BOOLEAN,            \* the last navigation ended in a refusal
     pending_prompts : SUBSET BrowserPermissionPrompt]

ColdSurface ==
    [current_uri |-> {}, mounted_route |-> {}, refused |-> FALSE, pending_prompts |-> {}]

-----------------------------------------------------------------------------
(* VOIDBrowser's side of a navigation.                                     *)

\* push_prompt compares route, surface, capability and kind, never the owner.
push_prompt(pending, asked) ==
    pending \cup {q \in asked :
        ~\E k \in pending : k.route = q.route /\ k.cap = q.cap}

\* Fault: a prompt grants to this node whoever the registration names.
PromptsForSelf(s, d, missing) == [route : {d}, owner : {Self}, cap : {{c} : c \in missing}]

\* One prompt per missing capability, for the owner the registry names.
capture_permission_prompts(s, d, missing) ==
    [route : {d}, owner : s.registry[d], cap : {{c} : c \in missing}]

\* Fault: a trust refusal raises no prompt.
NoTrustPrompt(s, d) == {}

trust_prompt(s, d) == {[route |-> d, owner |-> o, cap |-> {}] : o \in s.registry[d]}

-----------------------------------------------------------------------------
(* open_uri, up to its only wait and after it.                             *)

\* An open that failed ends the void-cli command; the browser stays.
Fails(p, d, s, saved, refused, pending, asked) ==
    /\ disk' = saved
    /\ opening' = [opening EXCEPT ![p] = {}]
    /\ \/ /\ p = Terminal
          /\ phase' = [phase EXCEPT ![p] = "off"]
          /\ shell' = [shell EXCEPT ![p] = EmptyShell]
          /\ UNCHANGED ui
       \/ /\ p = Browser
          /\ phase' = [phase EXCEPT ![p] = "idle"]
          /\ shell' = [shell EXCEPT ![p] = s]
          /\ ui' = [ui EXCEPT !.current_uri = {d},
                              !.refused = refused,
                              !.pending_prompts = push_prompt(pending, asked)]

Mounts(p, d, s) ==
    /\ disk' = s
    /\ shell' = [shell EXCEPT ![p] = s]
    /\ phase' = [phase EXCEPT ![p] = "idle"]
    /\ opening' = [opening EXCEPT ![p] = {}]
    /\ \/ p = Terminal /\ UNCHANGED ui
       \/ /\ p = Browser
          /\ ui' = [ui EXCEPT !.current_uri = {d}, !.mounted_route = {d},
                              !.refused = FALSE, !.pending_prompts = {}]

\* Of a gateway that passes every check only a new registration is on disk
\* while the fetch runs.
Fetches(p, d, target, s, saved, pending) ==
    /\ disk' = saved
    /\ shell' = [shell EXCEPT ![p] = s]
    /\ phase' = [phase EXCEPT ![p] = "fetching"]
    /\ opening' = [opening EXCEPT ![p] = {[domain |-> d, target |-> target, session |-> opens']}]
    /\ \/ p = Terminal /\ UNCHANGED ui
       \/ /\ p = Browser
          /\ ui' = [ui EXCEPT !.current_uri = {d}, !.refused = FALSE,
                              !.pending_prompts = pending]

\* open_uri on the copy s of process p, for which d resolves to target; saved is
\* what the file holds if open_uri writes nothing.
open_uri(p, d, target, s, saved, pending) ==
    LET r == ensure_route_registration(s, d, target)
        t == IF d \in Gateway THEN pending_trust(r, d) ELSE r
        n == negotiate_capabilities(t, d, target)
        rejected == rejected_capabilities(t, d, target)
        kept == IF r = s THEN saved ELSE r
    IN /\ opens < MaxOpens /\ opens + commands < MaxBoth
       /\ opens' = opens + 1
       /\ \/ /\ target = Nobody
             /\ Fails(p, d, s, saved, FALSE, pending, {})
          \/ /\ target # Nobody
             /\ d \in Gateway /\ ~validate_gateway_trust(t, d)
             /\ LET f == record_gateway_failure(t, d, target, opens')
                IN Fails(p, d, f, f, TRUE, pending, trust_prompt(f, d))
          \/ /\ target # Nobody
             /\ d \in Gateway => validate_gateway_trust(t, d)
             /\ rejected # {}
             /\ LET f == record_failed_mount(n, d, target, opens')
                IN Fails(p, d, f, f, TRUE, pending,
                         capture_permission_prompts(f, d, rejected))
          \/ /\ target # Nobody
             /\ d \notin Gateway /\ rejected = {}
             /\ Mounts(p, d, record_mount(n, d, target, opens'))
          \/ /\ target # Nobody
             /\ d \in Gateway /\ validate_gateway_trust(t, d) /\ rejected = {}
             /\ Fetches(p, d, target, n, kept, pending)

execute_gateway_fetch(p, ok) ==
    /\ phase[p] = "fetching"
    /\ \E o \in opening[p] :
         \/ /\ ok
            /\ Mounts(p, o.domain,
                      record_gateway_mount(shell[p], o.domain, o.target, o.session))
         \/ /\ ~ok
            /\ LET f == record_gateway_failure(shell[p], o.domain, o.target, o.session)
               IN Fails(p, o.domain, f, f, FALSE, ui.pending_prompts, {})
    /\ answer' = {}
    /\ UNCHANGED <<names, opens, commands>>

\* synchronize_registry_dns claims every registered name that no record serves.
synchronize_registry_dns(s, n) ==
    [d \in Domain |->
        IF n[d] = Nobody /\ s.registry[d] # {} THEN CHOOSE o \in s.registry[d] : TRUE
                                              ELSE n[d]]

-----------------------------------------------------------------------------
(* void-cli.                                                               *)

OpenCommand(d) ==
    /\ phase[Terminal] = "off"
    /\ \E n \in Resolution :
         LET s == Loaded(disk)
         IN open_uri(Terminal, d, synchronize_registry_dns(s, n)[d], s, s, {})
    /\ answer' = {}
    /\ UNCHANGED <<names, commands>>

Command(kind) ==
    /\ kind \in Commands
    /\ commands < MaxCommands /\ opens + commands < MaxBoth
    /\ commands' = commands + 1
    /\ answer' = {}
    /\ UNCHANGED <<shell, phase, opening, names, ui, opens>>

RuntimePermission(surface, owner, cap, allowed) ==
    /\ Command("Permission")
    /\ disk' = grant_permission(Loaded(disk), surface, owner, cap, allowed)

GatewayRegister(g, level) ==
    /\ Command("Register")
    /\ disk' = register_gateway(Loaded(disk), g, level)

\* The grant is written before the trust; the command fails in between when the
\* gateway has no trust policy yet, and may be stopped there.
GatewayDecision(g, cap, allowed) ==
    /\ Command("Gateway")
    /\ LET s == Loaded(disk)
           decided == grant_permission(s, g, Self, cap, allowed)
       IN /\ s.registry[g] # {}
          /\ \/ disk' = decided
             \/ /\ s.gateway_trust[g] # {}
                /\ disk' = set_gateway_trust(decided, g,
                               IF allowed THEN "Trusted" ELSE "Denied",
                               IF allowed THEN "Trusted" ELSE "Untrusted")

-----------------------------------------------------------------------------
(* VOIDBrowser.                                                            *)

cold_start ==
    /\ phase[Browser] = "off"
    /\ phase' = [phase EXCEPT ![Browser] = "idle"]
    /\ disk' = Loaded(disk)
    /\ shell' = [shell EXCEPT ![Browser] = Loaded(disk)]
    /\ ui' = ColdSurface
    /\ names' \in Resolution
    /\ answer' = {}
    /\ UNCHANGED <<opening, opens, commands>>

navigate(d) ==
    /\ phase[Browser] = "idle"
    /\ names' = synchronize_registry_dns(shell[Browser], names)
    /\ open_uri(Browser, d, names'[d], shell[Browser], disk, ui.pending_prompts)
    /\ answer' = {}
    /\ UNCHANGED commands

\* What the answer to a prompt stores first; a trust prompt's answer is no grant.
granted(s, q, allowed) ==
    IF q.cap = {} THEN s
    ELSE grant_permission(s, SurfaceOf(q.route), q.owner, CHOOSE c \in q.cap : TRUE, allowed)

\* What the trust of a gateway becomes by an answer about it.
Verdict(allowed) == [state |-> IF allowed THEN "Trusted" ELSE "Denied",
                     level |-> IF allowed THEN "Trusted" ELSE "Untrusted"]

\* What it has stored in the end.
answered(s, q, allowed) ==
    LET g == granted(s, q, allowed)
    IN IF q.route \in Gateway
       THEN set_gateway_trust(g, q.route, Verdict(allowed).state, Verdict(allowed).level)
       ELSE g

\* The answer is stored, then the current URI is opened again, whichever route
\* the prompt was about.
resolve_prompt(q, allowed) ==
    /\ phase[Browser] = "idle"
    /\ q \in ui.pending_prompts
    /\ names' = synchronize_registry_dns(shell[Browser], names)
    /\ \E d \in ui.current_uri :
         LET s == answered(shell[Browser], q, allowed)
         IN open_uri(Browser, d, names'[d], s, s, ui.pending_prompts \ {q})
    /\ answer' = {[prompt |-> q, allowed |-> allowed]}
    /\ UNCHANGED commands

\* The browser is stopped after one of the writes of an answer.
StopInAnswer(q, allowed) ==
    /\ phase[Browser] = "idle"
    /\ q \in ui.pending_prompts
    /\ disk' \in {granted(shell[Browser], q, allowed), answered(shell[Browser], q, allowed)}
    /\ phase' = [phase EXCEPT ![Browser] = "off"]
    /\ shell' = [shell EXCEPT ![Browser] = EmptyShell]
    /\ ui' = ColdSurface
    /\ answer' = {}
    /\ UNCHANGED <<opening, names, opens, commands>>

-----------------------------------------------------------------------------
(* Both long-lived processes.                                              *)

\* Rendering a mounted surface again, on input or on a tick, writes the copy.
synchronize_surface(p) ==
    /\ phase[p] = "idle"
    /\ p = Browser => ui.mounted_route # {}
    /\ disk' = shell[p]
    /\ answer' = {}
    /\ UNCHANGED <<shell, phase, opening, names, ui, opens, commands>>

\* The process ends, also in the middle of a fetch.
Exit(p) ==
    /\ phase[p] # "off"
    /\ phase' = [phase EXCEPT ![p] = "off"]
    /\ shell' = [shell EXCEPT ![p] = EmptyShell]
    /\ opening' = [opening EXCEPT ![p] = {}]
    /\ ui' = IF p = Browser THEN ColdSurface ELSE ui
    /\ answer' = {}
    /\ UNCHANGED <<disk, names, opens, commands>>

\* A record expires in the browser's cache; synchronize_registry_dns claims the
\* names of registrations again.
Expire(d) ==
    /\ phase[Browser] = "idle"
    /\ names[d] # Nobody
    /\ names' = [names EXCEPT ![d] = Nobody]
    /\ answer' = {}
    /\ UNCHANGED <<disk, shell, phase, opening, ui, opens, commands>>

-----------------------------------------------------------------------------

Init ==
    /\ disk = EmptyShell
    /\ shell = [p \in Process |-> EmptyShell]
    /\ phase = [p \in Process |-> "off"]
    /\ opening = [p \in Process |-> {}]
    /\ names = [d \in Domain |-> Nobody]
    /\ ui = ColdSurface
    /\ opens = 0
    /\ commands = 0
    /\ answer = {}

Next ==
    \/ \E d \in Domain : OpenCommand(d) \/ navigate(d) \/ Expire(d)
    \/ \E u \in Surface, o \in Peer, c \in Cap, allowed \in BOOLEAN :
         RuntimePermission(u, o, c, allowed)
    \/ \E g \in Gateway, level \in Level : GatewayRegister(g, level)
    \/ \E g \in Gateway, c \in Cap, allowed \in BOOLEAN : GatewayDecision(g, c, allowed)
    \/ cold_start
    \/ \E q \in ui.pending_prompts, allowed \in BOOLEAN : resolve_prompt(q, allowed)
    \/ \E q \in ui.pending_prompts, allowed \in BOOLEAN : StopInAnswer(q, allowed)
    \/ \E p \in Process, ok \in BOOLEAN : execute_gateway_fetch(p, ok)
    \/ \E p \in Process : synchronize_surface(p) \/ Exit(p)

Spec == Init /\ [][Next]_vars

-----------------------------------------------------------------------------
(* Properties. *)

ShellOK(s) ==
    /\ s \in RuntimeShellState
    /\ \A u \in Surface, o \in Peer, c \in Cap : s.permissions[u][o][c] # BOOLEAN
    /\ \A d \in Domain : \A o1, o2 \in s.registry[d] : o1 = o2
    /\ \A d \in Domain : \A m1, m2 \in s.mounts[d] : m1 = m2
    /\ \A g \in Gateway : \A r1, r2 \in s.gateway_routes[g] : r1 = r2
    /\ \A g \in Gateway : \A t1, t2 \in s.gateway_trust[g] : t1 = t2

\* Every variable keeps its type, every key of the shell's lists has one entry,
\* and a process waits in an open exactly while it fetches.
TypeOK ==
    /\ ShellOK(disk)
    /\ \A p \in Process : ShellOK(shell[p])
    /\ phase \in [Process -> {"off", "idle", "fetching"}]
    /\ opening \in [Process -> SUBSET Opening]
    /\ \A p \in Process : (phase[p] = "fetching") <=> (opening[p] # {})
    /\ names \in [Domain -> Peer \cup {Nobody}]
    /\ ui \in BrowserSurface
    /\ opens \in Nat
    /\ commands \in Nat
    /\ answer \in SUBSET Answer

MountBacked(s, d, m) ==
    /\ [session |-> m.session, surface |-> SurfaceOf(d), owner |-> m.owner,
        caps |-> m.caps] \in s.sessions
    /\ d \in Gateway =>
         /\ s.gateway_routes[d] = {[session |-> m.session, active |-> TRUE]}
         /\ [session |-> m.session, gateway |-> d, fetch |-> "completed"]
                \in s.bridge_sessions

\* In the file and in every copy, what is shown as mounted has the runtime
\* session it names, and a mounted gateway the active route and the completed
\* fetch of that session, although mounts, routes, bridge sessions and sessions
\* are written apart, by failures and by successes, and copies overwrite copies.
MountsAreBacked ==
    \A s \in {disk} \cup {shell[p] : p \in Process} :
        \A d \in Domain : \A m \in s.mounts[d] :
            m.state = "Mounted" => MountBacked(s, d, m)

\* A surface is mounted only with every requested capability granted to the peer
\* the route resolved to, and a gateway only while its trust is not denied, also
\* when the mount ends a fetch that began before.
MountsAreApproved ==
    [][\A p \in Process : \A d \in Domain :
         \A m \in shell'[p].mounts[d] \ (shell[p].mounts[d] \cup disk.mounts[d]) :
            m.state = "Mounted" =>
               /\ \A c \in Requested[d] :
                    shell'[p].permissions[SurfaceOf(d)][m.owner][c] = {TRUE}
               /\ d \in Gateway => \A t \in shell'[p].gateway_trust[d] :
                    t.state # "Denied" /\ t.level # "Untrusted"]_vars

\* While the browser runs, a stored grant or denial, and the trust of a gateway
\* it knows, change only in the step that carries out the user's answer to a prompt
\* about that capability or that gateway, and become what the user answered: no
\* navigation, failure or fetch decides again, also while a prompt is pending, and
\* the navigation that follows an answer does not undo it.
DecisionsStick ==
    [][phase[Browser] # "off" /\ phase'[Browser] # "off" =>
         /\ \A u \in Surface, o \in Peer, c \in Cap :
              LET old == shell[Browser].permissions[u][o][c]
                  new == shell'[Browser].permissions[u][o][c]
              IN old # {} /\ new # old =>
                   \E a \in answer' :
                      /\ SurfaceOf(a.prompt.route) = u /\ a.prompt.owner = o
                      /\ a.prompt.cap = {c}
                      /\ new = {a.allowed}
         /\ \A g \in Gateway :
              LET old == shell[Browser].gateway_trust[g]
                  new == shell'[Browser].gateway_trust[g]
              IN old # {} /\ new # old =>
                   \E a \in answer' : a.prompt.route = g /\ new = {Verdict(a.allowed)}]_vars

\* A navigation that was refused leaves a prompt for that route, whatever
\* prompts of other routes are pending or are answered in between.
RefusalHasPrompt ==
    ui.refused => \E q \in ui.pending_prompts : q.route \in ui.current_uri

AsksForTrust(s, d) ==
    /\ d \in Gateway /\ ~validate_gateway_trust(s, d)
    /\ \E q \in ui.pending_prompts : q.route = d /\ q.cap = {}

AsksForMissing(s, d, target) ==
    LET missing == rejected_capabilities(s, d, target)
    IN  /\ missing # {}
        /\ \A c \in missing :
              [route |-> d, owner |-> target, cap |-> {c}] \in ui.pending_prompts

\* A refused navigation can be answered until it succeeds: the browser asks for
\* the trust of a gateway that is denied, and where the registered owner of a
\* route serves it for every capability still missing, on behalf of the peer it
\* is missing for, however answers, other routes' prompts, commands and expiring
\* names come in between.
RefusalIsAnswerable ==
    ui.refused =>
        \A d \in ui.current_uri :
            \/ AsksForTrust(shell[Browser], d)
            \/ names[d] \in shell[Browser].registry[d] =>
                  AsksForMissing(shell[Browser], d, names[d])

\* "denied trust or permission states surface as actionable prompts"
\* (labs/gateway-browser/README.md): the prompt of a refused navigation does not
\* ask for what its answer has granted already.
PromptsAreActionable ==
    ui.refused =>
        \A q \in ui.pending_prompts : \A c \in q.cap :
            q.route \in ui.current_uri =>
                shell[Browser].permissions[SurfaceOf(q.route)][q.owner][c] # {TRUE}

=============================================================================
