------------------------------- MODULE VoidDns -------------------------------
(***************************************************************************)
(* VOIDDNS: the persistent record cache of core/dns/src/lib.rs on every    *)
(* node, and the handlers of core/transport/src/node.rs that publish local *)
(* records, apply propagated ones and purge expired ones.                  *)
(*                                                                         *)
(* A handler holds the node's select! loop until it is done, so it is one  *)
(* action.  A second process of the same user (void-cli, void-browser)     *)
(* may hold its own copy of the cache file and write it back: the tool.    *)
(* A record's fingerprint is the record; target, surface and capabilities  *)
(* are left out.  An Option is a set of at most one element.               *)
(***************************************************************************)
EXTENDS Naturals

CONSTANTS
    Node,            \* the nodes, which are also the owners of records
    Domain,          \* the .void names
    Ttl,             \* the lifetimes operators ask for
    EventTtl,        \* DNS_EVENT_TTL, in clock ticks
    PublishMayFail,  \* whether gossipsub.publish may return an error
    MaxPublish,      \* bound: publish commands drained by each node
    MaxRestarts,     \* bound: restarts of each node
    MaxToolSteps,    \* bound: steps of the second process of each node
    MaxClock         \* bound: reading of a node's clock

ASSUME VoidDnsAssumption ==
    /\ Ttl \subseteq Nat
    /\ EventTtl \in Nat
    /\ PublishMayFail \in BOOLEAN
    /\ MaxPublish \in [Node -> Nat]
    /\ MaxRestarts \in [Node -> Nat]
    /\ MaxToolSteps \in [Node -> Nat]
    /\ MaxClock \in Nat

VARIABLES
    mem,        \* mem[n]: the DnsCacheSnapshot of n's running node
    disk,       \* disk[n]: n's cache.json
    published,  \* published[n]: n's published_domains
    seen,       \* seen[n]: n's seen_events, each with the time it was seen
    up,         \* up[n]: run_transport_node has not returned
    net,        \* every record gossipsub accepted for propagation
    tool,       \* tool[n]: the snapshot a second process has loaded, if any
    clock,      \* clock[n]: unix_millis() on n's machine
    served,     \* served[n]: auxiliary, every record n's cache ever held
    issued,     \* issued[n]: publish commands n has drained
    restarts,   \* restarts[n]: how often n was started again
    toolSteps   \* toolSteps[n]: steps of n's second process

vars == <<mem, disk, published, seen, up, net, tool, clock, served, issued, restarts, toolSteps>>

-----------------------------------------------------------------------------
(* Values and the operations of PersistentVoidDns on a snapshot.           *)

DnsRecord == [domain : Domain, owner : Node, created : Nat, expires : Nat]

DnsConflict == [active : DnsRecord, incoming : DnsRecord]

DnsCacheSnapshot ==
    [records : [Domain -> SUBSET DnsRecord], conflicts : SUBSET DnsConflict]

EmptySnapshot == [records |-> [d \in Domain |-> {}], conflicts |-> {}]

DnsRecord_sign(n, d, ttl) ==
    [domain |-> d, owner |-> n, created |-> clock[n], expires |-> clock[n] + ttl]

is_expired(r, now) == r.expires <= now

\* Fault: the younger record wins whoever owns the name.
OutcomeYoungerWins(s, r, now) ==
    LET held == s.records[r.domain]
    IN  IF is_expired(r, now) THEN "ExpiredRecord"
        ELSE IF \A e \in held : is_expired(e, now) THEN "Published"
        ELSE IF \E e \in held : e.created >= r.created THEN "Duplicate"
        ELSE "Updated"

\* Fault: a later record of the same owner wins whatever its age.
OutcomeLastWins(s, r, now) ==
    LET held == s.records[r.domain]
    IN  IF is_expired(r, now) THEN "ExpiredRecord"
        ELSE IF \A e \in held : is_expired(e, now) THEN "Published"
        ELSE IF r \in held THEN "Duplicate"
        ELSE IF \E e \in held : e.owner # r.owner THEN "Conflict"
        ELSE "Updated"

\* DnsApplyOutcome, or the error of a record that has expired.
DnsApplyOutcome(s, r, now) ==
    LET held == s.records[r.domain]
    IN  IF is_expired(r, now) THEN "ExpiredRecord"
        ELSE IF \A e \in held : is_expired(e, now) THEN "Published"
        ELSE IF r \in held THEN "Duplicate"
        ELSE IF \E e \in held : e.owner # r.owner THEN "Conflict"
        ELSE IF \E e \in held : e.created >= r.created THEN "Duplicate"
        ELSE "Updated"

Inserts(s, r, now) == DnsApplyOutcome(s, r, now) \in {"Published", "Updated"}

\* Fault: a competing claim is reported but not kept.
ApplyDroppingConflicts(s, r, now) ==
    IF Inserts(s, r, now) THEN [s EXCEPT !.records[r.domain] = {r}] ELSE s

\* Fault: an update is filed beside the record it replaces.
ApplyBeside(s, r, now) ==
    CASE Inserts(s, r, now) -> [s EXCEPT !.records[r.domain] = @ \cup {r}]
      [] DnsApplyOutcome(s, r, now) = "Conflict" ->
           [s EXCEPT !.conflicts = @ \cup {[active |-> e, incoming |-> r] :
                                              e \in s.records[r.domain]}]
      [] OTHER -> s

apply_record(s, r, now) ==
    CASE Inserts(s, r, now) -> [s EXCEPT !.records[r.domain] = {r}]
      [] DnsApplyOutcome(s, r, now) = "Conflict"
             /\ \A c \in s.conflicts : c.incoming # r ->
           [s EXCEPT !.conflicts = @ \cup {[active |-> e, incoming |-> r] :
                                              e \in s.records[r.domain]}]
      [] OTHER -> s

\* apply_record writes cache.json when it inserts and when it finds a conflict.
ApplyPersists(s, r, now) == DnsApplyOutcome(s, r, now) \in {"Published", "Updated", "Conflict"}

ExpiredDomains(s, now) == {d \in Domain : \E r \in s.records[d] : is_expired(r, now)}

purge_expired(s, now) ==
    [s EXCEPT !.records = [d \in Domain |-> {r \in s.records[d] : ~is_expired(r, now)}]]

-----------------------------------------------------------------------------
(* The node.                                                               *)

Retained(n) ==
    {e \in seen[n] : e.at >= (IF clock[n] > EventTtl THEN clock[n] - EventTtl ELSE 0)}

Remembers(n, r) == \E e \in Retained(n) : e.event = r

remember_event(n, r) ==
    seen' = [seen EXCEPT ![n] =
                Retained(n) \cup (IF Remembers(n, r) THEN {}
                                  ELSE {[event |-> r, at |-> clock[n]]})]

Held(s) == UNION {s.records[d] : d \in Domain}

\* Fault: only the first record of a name is written to disk.
StoreFirstOnly(n, s, write) ==
    /\ mem' = [mem EXCEPT ![n] = s]
    /\ served' = [served EXCEPT ![n] = @ \cup Held(s)]
    /\ disk' = IF write /\ \A d \in Domain : mem[n].records[d] = {}
               THEN [disk EXCEPT ![n] = s] ELSE disk

\* The snapshot in memory becomes s, cache.json too when `write` says so.
Store(n, s, write) ==
    /\ mem' = [mem EXCEPT ![n] = s]
    /\ served' = [served EXCEPT ![n] = @ \cup Held(s)]
    /\ disk' = IF write THEN [disk EXCEPT ![n] = s] ELSE disk

\* handle_dns_command_tick for one drained Publish command.  An accepted record
\* is propagated; when gossipsub refuses it the error leaves the select! loop.
\* The resolution probe purges every expired record and drops the list of them.
handle_dns_command_tick(n, d, ttl) ==
    LET r == DnsRecord_sign(n, d, ttl)
        s == apply_record(mem[n], r, clock[n])
    IN  /\ up[n]
        /\ issued[n] < MaxPublish[n]
        /\ issued' = [issued EXCEPT ![n] = @ + 1]
        /\ published' = IF DnsApplyOutcome(mem[n], r, clock[n]) = "ExpiredRecord" THEN published
                        ELSE [published EXCEPT ![n] = @ \cup {d}]
        /\ \/ /\ ~Inserts(mem[n], r, clock[n])
              /\ Store(n, s, ApplyPersists(mem[n], r, clock[n]))
              /\ UNCHANGED <<seen, net, up>>
           \/ /\ Inserts(mem[n], r, clock[n])
              /\ remember_event(n, r)
              /\ net' = net \cup {r}
              /\ Store(n, purge_expired(s, clock[n]), TRUE)
              /\ UNCHANGED up
           \/ /\ PublishMayFail
              /\ Inserts(mem[n], r, clock[n])
              /\ remember_event(n, r)
              /\ Store(n, s, TRUE)
              /\ up' = [up EXCEPT ![n] = FALSE]
              /\ UNCHANGED net
        /\ UNCHANGED <<tool, clock, restarts, toolSteps>>

\* handle_dns_wire_message: own and remembered events are dropped first.
handle_dns_wire_message(n, r) ==
    LET s == apply_record(mem[n], r, clock[n])
    IN  /\ up[n]
        /\ r.owner # n
        /\ remember_event(n, r)
        /\ \/ /\ Remembers(n, r)
              /\ UNCHANGED <<mem, disk, served>>
           \/ /\ ~Remembers(n, r)
              /\ IF Inserts(mem[n], r, clock[n])
                 THEN Store(n, purge_expired(s, clock[n]), TRUE)
                 ELSE Store(n, s, ApplyPersists(mem[n], r, clock[n]))
        /\ UNCHANGED <<published, up, net, tool, clock, issued, restarts, toolSteps>>

handle_dns_maintenance_tick(n) ==
    LET gone == ExpiredDomains(mem[n], clock[n])
    IN  /\ up[n]
        /\ gone # {}
        /\ Store(n, purge_expired(mem[n], clock[n]), TRUE)
        /\ published' = [published EXCEPT ![n] = @ \ gone]
        /\ UNCHANGED <<seen, up, net, tool, clock, issued, restarts, toolSteps>>

\* Fault: the names published before the restart are not listed again.
RestartUnlisted(n) ==
    /\ restarts[n] < MaxRestarts[n]
    /\ restarts' = [restarts EXCEPT ![n] = @ + 1]
    /\ up' = [up EXCEPT ![n] = TRUE]
    /\ mem' = [mem EXCEPT ![n] = disk[n]]
    /\ published' = [published EXCEPT ![n] = {}]
    /\ seen' = [seen EXCEPT ![n] = {}]
    /\ UNCHANGED <<disk, net, tool, clock, served, issued, toolSteps>>

\* DnsRuntimeState::new, after a stop at any point between two handlers.
Restart(n) ==
    /\ restarts[n] < MaxRestarts[n]
    /\ restarts' = [restarts EXCEPT ![n] = @ + 1]
    /\ up' = [up EXCEPT ![n] = TRUE]
    /\ mem' = [mem EXCEPT ![n] = disk[n]]
    /\ served' = [served EXCEPT ![n] = @ \cup Held(disk[n])]
    /\ published' = [published EXCEPT ![n] =
                        {d \in Domain : \E r \in disk[n].records[d] : r.owner = n}]
    /\ seen' = [seen EXCEPT ![n] = {}]
    /\ UNCHANGED <<disk, net, tool, clock, issued, toolSteps>>

-----------------------------------------------------------------------------
(* The second process on n's data directory.                               *)

ToolStep(n) ==
    /\ toolSteps[n] < MaxToolSteps[n]
    /\ toolSteps' = [toolSteps EXCEPT ![n] = @ + 1]
    /\ UNCHANGED <<mem, published, seen, up, net, clock, served, issued, restarts>>

\* PersistentVoidDns::load_or_create.
ToolLoad(n) ==
    /\ ToolStep(n)
    /\ tool' = [tool EXCEPT ![n] = {disk[n]}]
    /\ UNCHANGED disk

ToolWrites(n, s) == tool' = [tool EXCEPT ![n] = {s}] /\ disk' = [disk EXCEPT ![n] = s]

\* `dns resolve` and every route the shell opens: purge_expired, then a lookup.
ToolResolve(n) ==
    /\ ToolStep(n)
    /\ \E s \in tool[n] :
        IF ExpiredDomains(s, clock[n]) = {} THEN UNCHANGED <<tool, disk>>
        ELSE ToolWrites(n, purge_expired(s, clock[n]))

\* synchronize_registry_dns for one registry entry: resolve, then publish under
\* the node's identity unless the name already resolves to it.
synchronize_registry_dns(n, d, ttl) ==
    /\ ToolStep(n)
    /\ \E s \in tool[n] :
        LET p == purge_expired(s, clock[n])
            r == DnsRecord_sign(n, d, ttl)
        IN  /\ \A e \in p.records[d] : e.owner # n
            /\ ~is_expired(r, clock[n])
            /\ ToolWrites(n, apply_record(p, r, clock[n]))

-----------------------------------------------------------------------------

Tick(n) ==
    /\ clock[n] < MaxClock
    /\ clock' = [clock EXCEPT ![n] = @ + 1]
    /\ UNCHANGED <<mem, disk, published, seen, up, net, tool, served, issued, restarts, toolSteps>>

Init ==
    /\ mem = [n \in Node |-> EmptySnapshot]
    /\ disk = [n \in Node |-> EmptySnapshot]
    /\ published = [n \in Node |-> {}]
    /\ seen = [n \in Node |-> {}]
    /\ up = [n \in Node |-> TRUE]
    /\ net = {}
    /\ tool = [n \in Node |-> {}]
    /\ clock = [n \in Node |-> 0]
    /\ served = [n \in Node |-> {}]
    /\ issued = [n \in Node |-> 0]
    /\ restarts = [n \in Node |-> 0]
    /\ toolSteps = [n \in Node |-> 0]

Next ==
    \E n \in Node :
        \/ \E d \in Domain, ttl \in Ttl : handle_dns_command_tick(n, d, ttl)
        \/ \E r \in net : handle_dns_wire_message(n, r)
        \/ handle_dns_maintenance_tick(n)
        \/ Restart(n)
        \/ ToolLoad(n)
        \/ ToolResolve(n)
        \/ \E d \in Domain, ttl \in Ttl : synchronize_registry_dns(n, d, ttl)
        \/ Tick(n)

Spec == Init /\ [][Next]_vars

\* n has run since before anything was propagated.
RanAllAlong(n) == up[n] /\ restarts[n] = 0

DeliveredFairly(n) == RanAllAlong(n) /\ \E r \in net : handle_dns_wire_message(n, r)

\* Gossipsub delivers what it accepted to the nodes that were there: nobody
\* repeats a record for a node that was down when it was published.
FairSpec == Spec /\ \A n \in Node : WF_vars(DeliveredFairly(n))

-----------------------------------------------------------------------------
(* Properties. *)

SnapshotOK(s) ==
    /\ s \in DnsCacheSnapshot
    /\ \A d \in Domain : \A r, t \in s.records[d] : r.domain = d /\ r = t

\* Every variable keeps its type; a name has at most one record in a snapshot,
\* filed under its own name.
TypeOK ==
    /\ \A n \in Node : SnapshotOK(mem[n]) /\ SnapshotOK(disk[n])
    /\ \A n \in Node : \A s \in tool[n] : SnapshotOK(s)
    /\ published \in [Node -> SUBSET Domain]
    /\ seen \in [Node -> SUBSET [event : DnsRecord, at : Nat]]
    /\ up \in [Node -> BOOLEAN]
    /\ net \subseteq DnsRecord
    /\ clock \in [Node -> Nat]

\* "the first active owner for a live domain remains authoritative"
\* (docs/operations/voiddns-routing.md): no handler of a node replaces an unexpired
\* record by another owner's, nor does a restart unless a second process has been
\* at the cache file.
OwnerReplaced(n) ==
    \E d \in Domain : \E r \in mem[n].records[d], t \in mem'[n].records[d] :
        r.owner # t.owner /\ ~is_expired(r, clock[n])

FirstOwnerAuthoritative ==
    [][\A n \in Node : restarts'[n] = restarts[n] \/ toolSteps[n] = 0 => ~OwnerReplaced(n)]_vars

\* "competing live ownership for the same domain is stored as conflict state"
\* (docs/operations/voiddns-routing.md): while a claim a running node has seen is
\* alive, the node serves it, has served a later one of its owner in its place,
\* or keeps it as a conflict.  No claim disappears silently.
ClaimKept(n, r) ==
    \/ is_expired(r, clock[n])
    \/ r \in mem[n].records[r.domain]
    \/ \E e \in served[n] \ {r} :
           e.domain = r.domain /\ e.owner = r.owner /\ e.created >= r.created
    \/ \E c \in mem[n].conflicts : c.incoming = r

NoClaimVanishes == \A n \in Node : \A e \in seen[n] : ClaimKept(n, e.event)

\* Redelivery, restarts and forgotten events never bring back a record after the
\* node served younger ones of the same owner, unless one of those was to expire
\* first; a cache file only the node itself writes is assumed.
Regressed(n) ==
    \E d \in Domain : \E t \in mem'[n].records[d] \ mem[n].records[d] :
        LET younger == {r \in served[n] : /\ r.domain = d /\ r.owner = t.owner
                                          /\ r.created > t.created}
        IN  younger # {} /\ \A r \in younger : r.expires >= t.expires

NoRegression == [][\A n \in Node : toolSteps[n] = 0 => ~Regressed(n)]_vars

\* "local DNS cache persistence under `data_dir/dns/`"
\* (docs/operations/voiddns-routing.md): what a node would lose by
\* stopping now, or has lost when a refused publish ended it, has expired, as long
\* as no second process has been at the file.
CacheIsPersisted ==
    \A n \in Node : toolSteps[n] = 0 =>
        /\ mem[n].conflicts \subseteq disk[n].conflicts
        /\ \A d \in Domain : \A r \in mem[n].records[d] :
               is_expired(r, clock[n]) \/ r \in disk[n].records[d]

\* The registrations a running node shows include every name whose record it owns.
OwnNamesListed ==
    \A n \in Node : up[n] =>
        \A d \in Domain : (\E r \in mem[n].records[d] : r.owner = n) => d \in published[n]

\* o serves a claim of its own that n, for which it is alive, neither serves nor
\* has on record as a conflict.
Unheard(n, o, d) ==
    /\ RanAllAlong(n) /\ RanAllAlong(o)
    /\ \E r \in mem[o].records[d] :
         /\ r.owner = o /\ ~is_expired(r, clock[n])
         /\ r \notin mem[n].records[d]
         /\ \A c \in mem[n].conflicts : c.incoming # r

\* "competing live ownership for the same domain is stored as conflict state"
\* (docs/operations/voiddns-routing.md), on every node: while an owner goes on
\* serving a claim that has not expired, no other node that has run all along
\* stays without it, though records are gossiped once and come in any order, and
\* both may claim the name.  Clocks are not forced to advance, so expiry does not
\* excuse a claim that is never heard of.
ClaimsSpread ==
    \A n, o \in Node, d \in Domain :
        n # o => (Unheard(n, o, d) ~> ~Unheard(n, o, d))

=============================================================================
