--------------------------- MODULE VoidDnsProofs ---------------------------
(***************************************************************************)
(* Proofs about VOIDDNS for any nodes, names, lifetimes and bounds, with   *)
(* or without second processes on the cache files: type correctness, and   *)
(* the five safety properties the runs check.                              *)
(***************************************************************************)
EXTENDS VoidDns, TLAPS

-----------------------------------------------------------------------------
(* The operations of PersistentVoidDns.                                    *)

\* A node signs records of its own.
LEMMA SignType ==
    ASSUME NEW n \in Node, NEW d \in Domain, NEW ttl \in Ttl, clock[n] \in Nat
    PROVE  /\ DnsRecord_sign(n, d, ttl) \in DnsRecord
           /\ DnsRecord_sign(n, d, ttl).owner = n
           /\ DnsRecord_sign(n, d, ttl).domain = d
  BY VoidDnsAssumption DEF DnsRecord_sign, DnsRecord

\* The three things apply_record may do to a snapshot.
LEMMA ApplyCases ==
    ASSUME NEW s, NEW r, NEW now
    PROVE  \/ /\ Inserts(s, r, now)
              /\ apply_record(s, r, now) = [s EXCEPT !.records[r.domain] = {r}]
           \/ /\ DnsApplyOutcome(s, r, now) = "Conflict"
              /\ apply_record(s, r, now) =
                   [s EXCEPT !.conflicts = @ \cup {[active |-> e, incoming |-> r] :
                                                      e \in s.records[r.domain]}]
           \/ /\ ~Inserts(s, r, now)
              /\ apply_record(s, r, now) = s
              /\ DnsApplyOutcome(s, r, now) = "Conflict" =>
                   \E c \in s.conflicts : c.incoming = r
  BY DEF apply_record, Inserts

\* The outcomes and what they say of the record held so far.
LEMMA OutcomeCases ==
    ASSUME NEW s, NEW r, NEW now
    PROVE  LET held == s.records[r.domain]
               outcome == DnsApplyOutcome(s, r, now)
           IN  /\ outcome \in {"ExpiredRecord", "Published", "Duplicate", "Conflict", "Updated"}
               /\ outcome = "ExpiredRecord" <=> is_expired(r, now)
               /\ outcome = "Published" => \A e \in held : is_expired(e, now)
               /\ outcome = "Conflict" => \E e \in held : e.owner # r.owner
               /\ outcome = "Duplicate" =>
                     \/ r \in held
                     \/ \E e \in held : e.owner = r.owner /\ e.created >= r.created
               /\ outcome = "Updated" =>
                     \A e \in held : e.owner = r.owner /\ ~(e.created >= r.created)
  BY DEF DnsApplyOutcome

\* A record is inserted under its name, or the records stay as they are.
LEMMA ApplyRecords ==
    ASSUME NEW s, SnapshotOK(s), NEW r \in DnsRecord, NEW now \in Nat
    PROVE  /\ SnapshotOK(apply_record(s, r, now))
           /\ s.conflicts \subseteq apply_record(s, r, now).conflicts
           /\ Inserts(s, r, now) =>
                apply_record(s, r, now).records = [s.records EXCEPT ![r.domain] = {r}]
           /\ DnsApplyOutcome(s, r, now) = "Conflict" =>
                \E c \in apply_record(s, r, now).conflicts : c.incoming = r
<1> DEFINE t == apply_record(s, r, now)
<1>1. /\ s \in DnsCacheSnapshot
      /\ r.domain \in Domain
      /\ \A d \in Domain : s.records[d] \subseteq DnsRecord
  BY DEF SnapshotOK, DnsCacheSnapshot, DnsRecord
<1>2. CASE Inserts(s, r, now) /\ t = [s EXCEPT !.records[r.domain] = {r}]
  <2>1. t.records = [s.records EXCEPT ![r.domain] = {r}] /\ t.conflicts = s.conflicts
    BY <1>1, <1>2 DEF DnsCacheSnapshot
  <2>2. SnapshotOK(t)
    BY <1>1, <1>2, <2>1 DEF SnapshotOK, DnsCacheSnapshot
  <2>3. QED
    BY <1>2, <2>1, <2>2 DEF Inserts, ApplyPersists
<1>3. CASE /\ DnsApplyOutcome(s, r, now) = "Conflict"
           /\ t = [s EXCEPT !.conflicts = @ \cup {[active |-> e, incoming |-> r] :
                                                    e \in s.records[r.domain]}]
  <2> DEFINE new == {[active |-> e, incoming |-> r] : e \in s.records[r.domain]}
  <2>1. new \subseteq DnsConflict
    BY <1>1 DEF DnsConflict
  <2>2. t.records = s.records /\ t.conflicts = s.conflicts \cup new
    BY <1>1, <1>3 DEF DnsCacheSnapshot
  <2>3. SnapshotOK(t)
    BY <1>1, <1>3, <2>1, <2>2 DEF SnapshotOK, DnsCacheSnapshot
  <2>4. PICK e \in s.records[r.domain] : e.owner # r.owner
    BY <1>3, OutcomeCases
  <2>5. [active |-> e, incoming |-> r] \in t.conflicts
    BY <2>2
  <2>6. QED
    BY <1>3, <2>2, <2>3, <2>5 DEF Inserts, ApplyPersists
<1>4. CASE /\ ~Inserts(s, r, now)
           /\ t = s
           /\ DnsApplyOutcome(s, r, now) = "Conflict" => \E c \in s.conflicts : c.incoming = r
  BY <1>4
<1>5. QED
  BY <1>2, <1>3, <1>4, ApplyCases

\* A record that is not inserted changes no record.
LEMMA ApplyRefused ==
    ASSUME NEW s, SnapshotOK(s), NEW r, NEW now, ~Inserts(s, r, now)
    PROVE  apply_record(s, r, now).records = s.records
<1>1. s \in DnsCacheSnapshot
  BY DEF SnapshotOK
<1>2. \/ apply_record(s, r, now) = s
      \/ apply_record(s, r, now) =
           [s EXCEPT !.conflicts = @ \cup {[active |-> e, incoming |-> r] :
                                              e \in s.records[r.domain]}]
  BY ApplyCases
<1>3. QED
  BY <1>1, <1>2 DEF DnsCacheSnapshot

\* What is not written to disk did not change the snapshot.
LEMMA ApplySilent ==
    ASSUME NEW s, NEW r, NEW now, ~ApplyPersists(s, r, now)
    PROVE  apply_record(s, r, now) = s
  BY ApplyCases DEF ApplyPersists, Inserts

\* Purging keeps a snapshot well formed and takes expired records only.
LEMMA PurgeRecords ==
    ASSUME NEW s, SnapshotOK(s), NEW now \in Nat
    PROVE  /\ SnapshotOK(purge_expired(s, now))
           /\ purge_expired(s, now).conflicts = s.conflicts
           /\ \A d \in Domain : purge_expired(s, now).records[d] =
                                  {r \in s.records[d] : ~is_expired(r, now)}
  BY DEF SnapshotOK, purge_expired, DnsCacheSnapshot

-----------------------------------------------------------------------------
(* Type correctness.                                                       *)

\* TypeOK with the domains of the functions and the types of what only the
\* properties and the bounds read.
Types ==
    /\ mem \in [Node -> DnsCacheSnapshot]
    /\ disk \in [Node -> DnsCacheSnapshot]
    /\ tool \in [Node -> SUBSET DnsCacheSnapshot]
    /\ served \in [Node -> SUBSET DnsRecord]
    /\ toolSteps \in [Node -> Nat]
    /\ restarts \in [Node -> Nat]
    /\ TypeOK

\* The initial state is well typed.
LEMMA TypesInit == Init => Types
<1> SUFFICES ASSUME Init PROVE Types
  OBVIOUS
<1>1. SnapshotOK(EmptySnapshot)
  BY DEF SnapshotOK, EmptySnapshot, DnsCacheSnapshot
<1>2. QED
  BY <1>1 DEF Init, Types, TypeOK, SnapshotOK

\* Storing a well-formed snapshot keeps what Store writes well typed.
LEMMA StoreTypes ==
    ASSUME Types, NEW n \in Node, NEW s, SnapshotOK(s), NEW write \in BOOLEAN,
           Store(n, s, write)
    PROVE  /\ mem' \in [Node -> DnsCacheSnapshot] /\ disk' \in [Node -> DnsCacheSnapshot]
           /\ served' \in [Node -> SUBSET DnsRecord]
           /\ \A m \in Node : SnapshotOK(mem'[m]) /\ SnapshotOK(disk'[m])
           /\ mem'[n] = s
           /\ served'[n] = served[n] \cup Held(s)
           /\ \A m \in Node \ {n} : mem'[m] = mem[m] /\ served'[m] = served[m]
<1>1. Held(s) \subseteq DnsRecord /\ s \in DnsCacheSnapshot
  BY DEF SnapshotOK, Held, DnsCacheSnapshot
<1>2. QED
  BY <1>1 DEF Types, TypeOK, Store

\* Remembering an event keeps the memory well typed.
LEMMA RememberTypes ==
    ASSUME Types, NEW n \in Node, NEW r \in DnsRecord, remember_event(n, r)
    PROVE  seen' \in [Node -> SUBSET [event : DnsRecord, at : Nat]]
  BY DEF Types, TypeOK, remember_event, Retained

\* The command tick keeps the types.
LEMMA TypesCommand ==
    ASSUME Types, NEW n \in Node, NEW d \in Domain, NEW ttl \in Ttl,
           handle_dns_command_tick(n, d, ttl)
    PROVE  Types'
<1> DEFINE r == DnsRecord_sign(n, d, ttl)
           s == apply_record(mem[n], r, clock[n])
<1>1. r \in DnsRecord /\ clock[n] \in Nat /\ SnapshotOK(mem[n])
  BY SignType DEF Types, TypeOK
<1>2. SnapshotOK(s) /\ SnapshotOK(purge_expired(s, clock[n]))
  BY <1>1, ApplyRecords, PurgeRecords
<1>3. published' \in [Node -> SUBSET Domain]
  BY DEF handle_dns_command_tick, Types, TypeOK
<1>4. UNCHANGED <<tool, clock, restarts, toolSteps>>
  BY DEF handle_dns_command_tick
<1>5. /\ seen' \in [Node -> SUBSET [event : DnsRecord, at : Nat]]
      /\ net' \subseteq DnsRecord
      /\ up' \in [Node -> BOOLEAN]
  <2>1. remember_event(n, r) \/ UNCHANGED seen
    BY DEF handle_dns_command_tick
  <2>2. seen' \in [Node -> SUBSET [event : DnsRecord, at : Nat]]
    BY <1>1, <2>1, RememberTypes DEF Types, TypeOK
  <2>3. net' = net \cup {r} \/ net' = net
    BY DEF handle_dns_command_tick
  <2>4. up' = [up EXCEPT ![n] = FALSE] \/ up' = up
    BY DEF handle_dns_command_tick
  <2>5. QED
    BY <1>1, <2>2, <2>3, <2>4 DEF Types, TypeOK
<1>6. PICK t \in DnsCacheSnapshot, write \in BOOLEAN : SnapshotOK(t) /\ Store(n, t, write)
  <2>1. ApplyPersists(mem[n], r, clock[n]) \in BOOLEAN
    BY DEF ApplyPersists
  <2>2. \/ Store(n, s, ApplyPersists(mem[n], r, clock[n]))
        \/ Store(n, purge_expired(s, clock[n]), TRUE)
        \/ Store(n, s, TRUE)
    BY DEF handle_dns_command_tick
  <2>3. QED
    BY <1>2, <2>1, <2>2 DEF SnapshotOK
<1>7. QED
  BY <1>3, <1>4, <1>5, <1>6, StoreTypes DEF Types, TypeOK

\* The wire message keeps the types.
LEMMA TypesWire ==
    ASSUME Types, NEW n \in Node, NEW r \in net, handle_dns_wire_message(n, r)
    PROVE  Types'
<1> DEFINE s == apply_record(mem[n], r, clock[n])
<1>1. r \in DnsRecord /\ clock[n] \in Nat /\ SnapshotOK(mem[n])
  BY DEF Types, TypeOK
<1>2. SnapshotOK(s) /\ SnapshotOK(purge_expired(s, clock[n]))
  BY <1>1, ApplyRecords, PurgeRecords
<1>3. UNCHANGED <<published, up, net, tool, clock, restarts, toolSteps>>
  BY DEF handle_dns_wire_message
<1>4. seen' \in [Node -> SUBSET [event : DnsRecord, at : Nat]]
  BY <1>1, RememberTypes DEF handle_dns_wire_message
<1>5. CASE UNCHANGED <<mem, disk, served>>
  BY <1>3, <1>4, <1>5 DEF Types, TypeOK
<1>6. ASSUME NEW t, NEW write \in BOOLEAN, SnapshotOK(t), Store(n, t, write) PROVE Types'
  BY <1>3, <1>4, <1>6, StoreTypes DEF Types, TypeOK
<1>7. ApplyPersists(mem[n], r, clock[n]) \in BOOLEAN
  BY DEF ApplyPersists
<1>8. QED
  BY <1>2, <1>5, <1>6, <1>7 DEF handle_dns_wire_message

\* The maintenance tick keeps the types.
LEMMA TypesMaintenance ==
    ASSUME Types, NEW n \in Node, handle_dns_maintenance_tick(n)
    PROVE  Types'
<1>1. SnapshotOK(purge_expired(mem[n], clock[n]))
  BY PurgeRecords DEF Types, TypeOK
<1>2. published' \in [Node -> SUBSET Domain]
  BY DEF handle_dns_maintenance_tick, Types, TypeOK
<1>3. Store(n, purge_expired(mem[n], clock[n]), TRUE)
  BY DEF handle_dns_maintenance_tick
<1>4. UNCHANGED <<seen, up, net, tool, clock, restarts, toolSteps>>
  BY DEF handle_dns_maintenance_tick
<1>5. QED
  BY <1>1, <1>2, <1>3, <1>4, StoreTypes DEF Types, TypeOK

\* A restart keeps the types.
LEMMA TypesRestart ==
    ASSUME Types, NEW n \in Node, Restart(n)
    PROVE  Types'
<1>1. Held(disk[n]) \subseteq DnsRecord
  BY DEF Types, Held, DnsCacheSnapshot
<1>2. /\ mem' = [mem EXCEPT ![n] = disk[n]]
      /\ served' = [served EXCEPT ![n] = @ \cup Held(disk[n])]
      /\ up' = [up EXCEPT ![n] = TRUE]
      /\ seen' = [seen EXCEPT ![n] = {}]
      /\ restarts' = [restarts EXCEPT ![n] = @ + 1]
      /\ UNCHANGED <<disk, net, tool, clock, toolSteps>>
  BY DEF Restart
<1>3. published' \in [Node -> SUBSET Domain]
  BY DEF Restart, Types, TypeOK
<1>4. /\ mem' \in [Node -> DnsCacheSnapshot] /\ served' \in [Node -> SUBSET DnsRecord]
      /\ \A m \in Node : SnapshotOK(mem'[m])
  BY <1>1, <1>2 DEF Types, TypeOK
<1>5. QED
  BY <1>2, <1>3, <1>4 DEF Types, TypeOK

\* What the second process does keeps the types.
LEMMA TypesTool ==
    ASSUME Types, NEW n \in Node,
           \/ ToolLoad(n) \/ ToolResolve(n)
           \/ \E d \in Domain, ttl \in Ttl : synchronize_registry_dns(n, d, ttl)
    PROVE  Types'
<1>1. /\ UNCHANGED <<mem, published, seen, up, net, clock, served, restarts>>
      /\ toolSteps' \in [Node -> Nat]
  BY DEF ToolLoad, ToolResolve, synchronize_registry_dns, ToolStep, Types
<1>2. clock[n] \in Nat /\ \A s \in tool[n] : SnapshotOK(s)
  BY DEF Types, TypeOK
<1>3. ASSUME NEW s, SnapshotOK(s), ToolWrites(n, s) PROVE Types'
  <2>1. s \in DnsCacheSnapshot
    BY <1>3 DEF SnapshotOK
  <2>2. QED
    BY <1>1, <1>3, <2>1 DEF ToolWrites, Types, TypeOK
<1>4. CASE ToolLoad(n)
  <2>1. SnapshotOK(disk[n])
    BY DEF Types, TypeOK
  <2>2. QED
    BY <1>1, <1>4, <2>1 DEF ToolLoad, Types, TypeOK
<1>5. CASE ToolResolve(n)
  <2>1. CASE UNCHANGED <<tool, disk>>
    BY <1>1, <2>1 DEF Types, TypeOK
  <2>2. CASE \E s \in tool[n] : ToolWrites(n, purge_expired(s, clock[n]))
    BY <1>2, <1>3, <2>2, PurgeRecords
  <2>3. QED
    BY <1>5, <2>1, <2>2 DEF ToolResolve
<1>6. ASSUME NEW d \in Domain, NEW ttl \in Ttl, synchronize_registry_dns(n, d, ttl)
      PROVE  Types'
  <2>1. PICK s \in tool[n] :
          ToolWrites(n, apply_record(purge_expired(s, clock[n]), DnsRecord_sign(n, d, ttl),
                                     clock[n]))
    BY <1>6 DEF synchronize_registry_dns
  <2>2. SnapshotOK(apply_record(purge_expired(s, clock[n]), DnsRecord_sign(n, d, ttl), clock[n]))
    BY <1>2, PurgeRecords, ApplyRecords, SignType
  <2>3. QED
    BY <1>3, <2>1, <2>2
<1>7. QED
  BY <1>4, <1>5, <1>6

\* Every step keeps the types.
LEMMA TypesStep == Types /\ [Next]_vars => Types'
<1> SUFFICES ASSUME Types, [Next]_vars PROVE Types'
  OBVIOUS
<1>1. CASE UNCHANGED vars
  BY <1>1 DEF vars, Types, TypeOK
<1>2. ASSUME NEW n \in Node, Tick(n) PROVE Types'
  BY <1>2 DEF Tick, Types, TypeOK
<1>3. QED
  BY <1>1, <1>2, TypesCommand, TypesWire, TypesMaintenance, TypesRestart, TypesTool DEF Next

\* Every reachable state is well typed.
THEOREM TypeCorrect == Spec => []TypeOK
<1>1. Types => TypeOK
  BY DEF Types
<1>2. QED
  BY <1>1, TypesInit, TypesStep, PTL DEF Spec

-----------------------------------------------------------------------------
(* No claim vanishes.                                                      *)

\* What a step from snapshot s to snapshot t may do to the claims s holds.
Carries(s, t, now) ==
    /\ s.conflicts \subseteq t.conflicts
    /\ \A d \in Domain : \A r \in s.records[d] :
           \/ is_expired(r, now)
           \/ r \in t.records[d]
           \/ \E e \in t.records[d] :
                  e # r /\ e.owner = r.owner /\ e.created >= r.created

\* Snapshot t takes note of the record r.
Notes(t, r, now) ==
    \/ is_expired(r, now)
    \/ r \in t.records[r.domain]
    \/ \E e \in t.records[r.domain] : e # r /\ e.owner = r.owner /\ e.created >= r.created
    \/ \E c \in t.conflicts : c.incoming = r

\* Applying a record keeps the claims held so far and takes note of the new one.
LEMMA ApplyCarries ==
    ASSUME NEW s, SnapshotOK(s), NEW r \in DnsRecord, NEW now \in Nat
    PROVE  Carries(s, apply_record(s, r, now), now) /\ Notes(apply_record(s, r, now), r, now)
<1> DEFINE t == apply_record(s, r, now)
<1>1. /\ r.domain \in Domain
      /\ s.records \in [Domain -> SUBSET DnsRecord]
      /\ \A d \in Domain : \A e \in s.records[d] : e.created \in Nat
      /\ r.created \in Nat
  BY DEF SnapshotOK, DnsCacheSnapshot, DnsRecord
<1>2. CASE Inserts(s, r, now)
  <2>1. t.records = [s.records EXCEPT ![r.domain] = {r}] /\ s.conflicts \subseteq t.conflicts
    BY <1>2, ApplyRecords
  <2>2. \A e \in s.records[r.domain] :
          is_expired(e, now) \/ (e.owner = r.owner /\ ~(e.created >= r.created))
    BY <1>2, OutcomeCases DEF Inserts
  <2>3. \A e \in s.records[r.domain] :
          is_expired(e, now) \/ (r # e /\ r.owner = e.owner /\ r.created >= e.created)
    BY <1>1, <2>2
  <2>4. /\ t.records[r.domain] = {r}
        /\ \A d \in Domain \ {r.domain} : t.records[d] = s.records[d]
    BY <1>1, <2>1
  <2>5. ASSUME NEW d \in Domain, NEW e \in s.records[d]
        PROVE  \/ is_expired(e, now)
               \/ e \in t.records[d]
               \/ \E f \in t.records[d] :
                      f # e /\ f.owner = e.owner /\ f.created >= e.created
    BY <2>3, <2>4
  <2>6. QED
    BY <2>1, <2>4, <2>5 DEF Carries, Notes
<1>3. CASE ~Inserts(s, r, now)
  <2>1. t.records = s.records /\ s.conflicts \subseteq t.conflicts
    <3>1. t.records = s.records
      BY <1>3, ApplyRefused
    <3>2. s.conflicts \subseteq t.conflicts
      BY ApplyRecords
    <3>3. QED
      BY <3>1, <3>2
  <2>2. CASE DnsApplyOutcome(s, r, now) = "Duplicate"
    <3>1. \/ r \in t.records[r.domain]
          \/ \E e \in t.records[r.domain] :
                 e # r /\ e.owner = r.owner /\ e.created >= r.created
      <4>1. \/ r \in s.records[r.domain]
            \/ \E e \in s.records[r.domain] : e.owner = r.owner /\ e.created >= r.created
        BY <2>2, OutcomeCases
      <4>2. QED
        BY <2>1, <4>1
    <3>2. QED
      BY <2>1, <3>1 DEF Carries, Notes
  <2>3. CASE DnsApplyOutcome(s, r, now) = "ExpiredRecord"
    BY <2>1, <2>3, OutcomeCases DEF Carries, Notes
  <2>4. CASE DnsApplyOutcome(s, r, now) = "Conflict"
    BY <2>1, <2>4, ApplyRecords DEF Carries, Notes
  <2>5. QED
    BY <1>3, <2>2, <2>3, <2>4, OutcomeCases DEF Inserts
<1>4. QED
  BY <1>2, <1>3

\* Purging afterwards loses nothing that is alive.
LEMMA PurgeCarries ==
    ASSUME NEW s, SnapshotOK(s), NEW t, SnapshotOK(t), NEW now \in Nat, NEW r \in DnsRecord,
           Carries(s, t, now),
           \A d \in Domain : \A e \in t.records[d] \ s.records[d] : ~is_expired(e, now)
    PROVE  /\ Carries(s, purge_expired(t, now), now)
           /\ Notes(t, r, now) /\ r \in t.records[r.domain] => Notes(purge_expired(t, now), r, now)
<1> DEFINE p == purge_expired(t, now)
<1>1. /\ p.conflicts = t.conflicts
      /\ \A d \in Domain : p.records[d] = {e \in t.records[d] : ~is_expired(e, now)}
  BY PurgeRecords
<1>2. \A d \in Domain : \A e, f \in s.records[d] : e = f
  BY DEF SnapshotOK
<1>3. Carries(s, p, now)
  BY <1>1, <1>2 DEF Carries
<1>4. r.domain \in Domain
  BY DEF DnsRecord
<1>5. QED
  BY <1>1, <1>3, <1>4 DEF Notes

\* Inserting a record and purging, the two calls of an accepted record.
LEMMA InsertCarries ==
    ASSUME NEW s, SnapshotOK(s), NEW r \in DnsRecord, NEW now \in Nat, Inserts(s, r, now)
    PROVE  LET p == purge_expired(apply_record(s, r, now), now)
           IN  Carries(s, p, now) /\ Notes(p, r, now)
<1> DEFINE t == apply_record(s, r, now)
<1>1. t.records = [s.records EXCEPT ![r.domain] = {r}] /\ SnapshotOK(t)
  BY ApplyRecords
<1>2. ~is_expired(r, now)
  BY OutcomeCases DEF Inserts
<1>3. r.domain \in Domain /\ s.records \in [Domain -> SUBSET DnsRecord]
  BY DEF DnsRecord, SnapshotOK, DnsCacheSnapshot
<1>4. /\ \A d \in Domain : \A e \in t.records[d] \ s.records[d] : e = r
      /\ r \in t.records[r.domain]
  BY <1>1, <1>3
<1>5. QED
  BY <1>1, <1>2, <1>4, ApplyCarries, PurgeCarries

\* Every claim seen is kept, because every record in memory counts as served.
KeptInv ==
    /\ \A n \in Node : Held(mem[n]) \subseteq served[n]
    /\ NoClaimVanishes

\* A step of node n that stores t keeps KeptInv when t carries the claims of the
\* snapshot before and every event remembered anew is noted in t.
LEMMA KeptStore ==
    ASSUME Types, KeptInv, NEW n \in Node, NEW t, SnapshotOK(t), UNCHANGED clock,
           NEW write \in BOOLEAN, Store(n, t, write), Carries(mem[n], t, clock[n]),
           seen' \in [Node -> SUBSET [event : DnsRecord, at : Nat]],
           \A m \in Node \ {n} : seen'[m] = seen[m],
           \A e \in seen'[n] \ seen[n] : Notes(t, e.event, clock[n])
    PROVE  KeptInv'
<1>1. /\ mem'[n] = t
      /\ served'[n] = served[n] \cup Held(t)
      /\ \A m \in Node \ {n} : mem'[m] = mem[m] /\ served'[m] = served[m]
  BY StoreTypes
<1>2. \A m \in Node : Held(mem'[m]) \subseteq served'[m]
  BY <1>1 DEF KeptInv
<1>3. ASSUME NEW m \in Node \ {n}, NEW e \in seen'[m] PROVE ClaimKept(m, e.event)'
  BY <1>1, <1>3 DEF KeptInv, NoClaimVanishes, ClaimKept
<1>4. \A d \in Domain : \A e \in t.records[d] : e \in Held(t) /\ e.domain = d
  BY DEF Held, SnapshotOK
<1>5. ASSUME NEW e \in seen'[n], Notes(t, e.event, clock[n]) PROVE ClaimKept(n, e.event)'
  <2>1. e.event.domain \in Domain
    BY DEF DnsRecord
  <2>2. QED
    BY <1>1, <1>4, <1>5, <2>1 DEF Notes, ClaimKept
<1>6. ASSUME NEW e \in seen[n], e \in seen'[n] PROVE ClaimKept(n, e.event)'
  <2>1. e.event.domain \in Domain
    BY <1>6 DEF DnsRecord
  <2>2. ClaimKept(n, e.event)
    BY DEF KeptInv, NoClaimVanishes
  <2>3. CASE e.event \in mem[n].records[e.event.domain]
    BY <1>5, <1>6, <2>1, <2>3 DEF Carries, Notes
  <2>4. CASE \E c \in mem[n].conflicts : c.incoming = e.event
    BY <1>5, <1>6, <2>1, <2>4 DEF Carries, Notes
  <2>5. CASE is_expired(e.event, clock[n])
    BY <2>5 DEF ClaimKept
  <2>6. CASE \E f \in served[n] \ {e.event} :
               f.domain = e.event.domain /\ f.owner = e.event.owner
                 /\ f.created >= e.event.created
    BY <1>1, <2>6 DEF ClaimKept
  <2>7. QED
    BY <2>2, <2>3, <2>4, <2>5, <2>6 DEF ClaimKept
<1>7. QED
  BY <1>2, <1>3, <1>5, <1>6 DEF KeptInv, NoClaimVanishes

\* What remember_event adds to and drops from the memory of one node.
LEMMA Remembered ==
    ASSUME Types, NEW n \in Node, NEW r, remember_event(n, r)
    PROVE  /\ \A m \in Node \ {n} : seen'[m] = seen[m]
           /\ \A e \in seen'[n] \ seen[n] : e.event = r
           /\ Remembers(n, r) => seen'[n] \subseteq seen[n]
  BY DEF Types, TypeOK, remember_event, Retained

\* The command tick keeps every claim.
LEMMA KeptCommand ==
    ASSUME Types, KeptInv, NEW n \in Node, NEW d \in Domain, NEW ttl \in Ttl,
           handle_dns_command_tick(n, d, ttl)
    PROVE  KeptInv'
<1> DEFINE r == DnsRecord_sign(n, d, ttl)
           s == apply_record(mem[n], r, clock[n])
           p == purge_expired(s, clock[n])
<1>1. r \in DnsRecord /\ clock[n] \in Nat /\ SnapshotOK(mem[n])
  BY SignType DEF Types, TypeOK
<1>2. Types' /\ UNCHANGED clock
  BY TypesCommand DEF handle_dns_command_tick
<1>3. /\ SnapshotOK(s) /\ SnapshotOK(p)
      /\ Carries(mem[n], s, clock[n]) /\ Notes(s, r, clock[n])
  BY <1>1, ApplyRecords, PurgeRecords, ApplyCarries
<1>4. seen' \in [Node -> SUBSET [event : DnsRecord, at : Nat]]
  BY <1>2 DEF Types, TypeOK
<1>5. ApplyPersists(mem[n], r, clock[n]) \in BOOLEAN
  BY DEF ApplyPersists
<1>6. CASE /\ UNCHANGED seen
           /\ Store(n, s, ApplyPersists(mem[n], r, clock[n]))
  BY <1>2, <1>3, <1>4, <1>5, <1>6, KeptStore
<1>7. CASE /\ remember_event(n, r) /\ Inserts(mem[n], r, clock[n])
           /\ Store(n, p, TRUE)
  BY <1>1, <1>2, <1>3, <1>4, <1>7, InsertCarries, Remembered, KeptStore
<1>8. CASE remember_event(n, r) /\ Store(n, s, TRUE)
  BY <1>2, <1>3, <1>4, <1>8, Remembered, KeptStore
<1>9. QED
  BY <1>6, <1>7, <1>8 DEF handle_dns_command_tick

\* The wire message keeps every claim.
LEMMA KeptWire ==
    ASSUME Types, KeptInv, NEW n \in Node, NEW r \in net, handle_dns_wire_message(n, r)
    PROVE  KeptInv'
<1> DEFINE s == apply_record(mem[n], r, clock[n])
           p == purge_expired(s, clock[n])
<1>1. r \in DnsRecord /\ clock[n] \in Nat /\ SnapshotOK(mem[n])
  BY DEF Types, TypeOK
<1>2. Types' /\ UNCHANGED clock /\ remember_event(n, r)
  BY TypesWire DEF handle_dns_wire_message
<1>3. /\ SnapshotOK(s) /\ SnapshotOK(p)
      /\ Carries(mem[n], s, clock[n]) /\ Notes(s, r, clock[n])
  BY <1>1, ApplyRecords, PurgeRecords, ApplyCarries
<1>4. seen' \in [Node -> SUBSET [event : DnsRecord, at : Nat]]
  BY <1>2 DEF Types, TypeOK
<1>5. ApplyPersists(mem[n], r, clock[n]) \in BOOLEAN
  BY DEF ApplyPersists
<1>6. CASE Remembers(n, r) /\ UNCHANGED <<mem, disk, served>>
  <2>1. \A m \in Node : seen'[m] \subseteq seen[m]
    BY <1>2, <1>6, Remembered
  <2>2. QED
    BY <1>2, <1>6, <2>1 DEF KeptInv, NoClaimVanishes, ClaimKept
<1>7. CASE Store(n, s, ApplyPersists(mem[n], r, clock[n]))
  BY <1>2, <1>3, <1>4, <1>5, <1>7, Remembered, KeptStore
<1>8. CASE Inserts(mem[n], r, clock[n]) /\ Store(n, p, TRUE)
  BY <1>1, <1>2, <1>3, <1>4, <1>8, InsertCarries, Remembered, KeptStore
<1>9. QED
  BY <1>6, <1>7, <1>8 DEF handle_dns_wire_message

\* The maintenance tick keeps every claim.
LEMMA KeptMaintenance ==
    ASSUME Types, KeptInv, NEW n \in Node, handle_dns_maintenance_tick(n)
    PROVE  KeptInv'
<1> DEFINE p == purge_expired(mem[n], clock[n])
<1>1. clock[n] \in Nat /\ SnapshotOK(mem[n])
  BY DEF Types, TypeOK
<1>2. Store(n, p, TRUE) /\ UNCHANGED <<seen, clock>>
  BY DEF handle_dns_maintenance_tick
<1>3. SnapshotOK(p) /\ Carries(mem[n], p, clock[n])
  BY <1>1, PurgeRecords DEF Carries
<1>4. seen' \in [Node -> SUBSET [event : DnsRecord, at : Nat]]
  BY <1>2 DEF Types, TypeOK
<1>5. QED
  BY <1>2, <1>3, <1>4, KeptStore

\* A restart forgets what was seen and serves what the file holds.
LEMMA KeptRestart ==
    ASSUME Types, KeptInv, NEW n \in Node, Restart(n)
    PROVE  KeptInv'
<1>1. /\ mem' = [mem EXCEPT ![n] = disk[n]]
      /\ served' = [served EXCEPT ![n] = @ \cup Held(disk[n])]
      /\ seen' = [seen EXCEPT ![n] = {}]
      /\ UNCHANGED clock
  BY DEF Restart
<1>2. /\ mem'[n] = disk[n] /\ served'[n] = served[n] \cup Held(disk[n]) /\ seen'[n] = {}
      /\ \A m \in Node \ {n} : mem'[m] = mem[m] /\ served'[m] = served[m] /\ seen'[m] = seen[m]
  BY <1>1 DEF Types, TypeOK
<1>3. \A m \in Node : Held(mem'[m]) \subseteq served'[m]
  BY <1>2 DEF KeptInv
<1>4. ASSUME NEW m \in Node, NEW e \in seen'[m] PROVE ClaimKept(m, e.event)'
  BY <1>1, <1>2, <1>4 DEF KeptInv, NoClaimVanishes, ClaimKept
<1>5. QED
  BY <1>3, <1>4 DEF KeptInv, NoClaimVanishes

\* Time only lets claims expire.
LEMMA KeptTick ==
    ASSUME Types, KeptInv, NEW n \in Node, Tick(n)
    PROVE  KeptInv'
<1>1. /\ UNCHANGED <<mem, seen, served>>
      /\ \A m \in Node : clock'[m] \in Nat /\ clock[m] \in Nat /\ clock'[m] >= clock[m]
  BY DEF Tick, Types, TypeOK
<1>2. ASSUME NEW m \in Node, NEW e \in seen'[m] PROVE ClaimKept(m, e.event)'
  <2>1. e.event.expires \in Nat /\ ClaimKept(m, e.event)
    BY <1>1, <1>2 DEF KeptInv, NoClaimVanishes, Types, TypeOK, DnsRecord
  <2>2. CASE is_expired(e.event, clock[m])
    <3>1. is_expired(e.event, clock'[m])
      BY <1>1, <2>1, <2>2 DEF is_expired
    <3>2. QED
      BY <3>1 DEF ClaimKept
  <2>3. QED
    BY <1>1, <2>1, <2>2 DEF ClaimKept
<1>3. QED
  BY <1>1, <1>2 DEF KeptInv, NoClaimVanishes

\* Every step keeps every claim.
LEMMA KeptStep == Types /\ KeptInv /\ [Next]_vars => KeptInv'
<1> SUFFICES ASSUME Types, KeptInv, [Next]_vars PROVE KeptInv'
  OBVIOUS
<1>1. ASSUME UNCHANGED <<mem, seen, served, clock>> PROVE KeptInv'
  BY <1>1 DEF KeptInv, NoClaimVanishes, ClaimKept
<1>2. CASE UNCHANGED vars
  BY <1>1, <1>2 DEF vars
<1>3. ASSUME NEW n \in Node,
             \/ ToolLoad(n) \/ ToolResolve(n)
             \/ \E d \in Domain, ttl \in Ttl : synchronize_registry_dns(n, d, ttl)
      PROVE  KeptInv'
  BY <1>1, <1>3 DEF ToolLoad, ToolResolve, synchronize_registry_dns, ToolStep
<1>4. QED
  BY <1>2, <1>3, KeptCommand, KeptWire, KeptMaintenance, KeptRestart, KeptTick DEF Next

\* "competing live ownership for the same domain is stored as conflict state"
\* (docs/operations/voiddns-routing.md): no live claim a running node has seen
\* disappears silently, whatever a second process writes into its cache file.
THEOREM ClaimsKept == Spec => []NoClaimVanishes
<1>1. Init => KeptInv
  BY DEF Init, KeptInv, NoClaimVanishes, Held, EmptySnapshot
<1>2. KeptInv => NoClaimVanishes
  BY DEF KeptInv
<1>3. QED
  BY <1>1, <1>2, TypesInit, TypesStep, KeptStep, PTL DEF Spec

-----------------------------------------------------------------------------
(* A node lists the names it owns.                                         *)

\* What storing t for node n must respect for OwnNamesListed to survive.
LEMMA ListedStore ==
    ASSUME Types, OwnNamesListed, NEW n \in Node, NEW t, SnapshotOK(t),
           NEW write \in BOOLEAN, Store(n, t, write),
           \A m \in Node : up'[m] => up[m],
           \A m \in Node \ {n} : published'[m] = published[m],
           \A d \in Domain : (\E r \in t.records[d] : r.owner = n) => d \in published'[n]
    PROVE  OwnNamesListed'
  BY StoreTypes DEF OwnNamesListed

\* The command tick lists the name it publishes.
LEMMA ListedCommand ==
    ASSUME Types, OwnNamesListed, NEW n \in Node, NEW d \in Domain, NEW ttl \in Ttl,
           handle_dns_command_tick(n, d, ttl)
    PROVE  OwnNamesListed'
<1> DEFINE r == DnsRecord_sign(n, d, ttl)
           s == apply_record(mem[n], r, clock[n])
           p == purge_expired(s, clock[n])
<1>1. /\ r \in DnsRecord /\ r.domain = d /\ clock[n] \in Nat /\ SnapshotOK(mem[n])
      /\ mem[n].records \in [Domain -> SUBSET DnsRecord]
  BY SignType DEF Types, TypeOK, SnapshotOK, DnsCacheSnapshot
<1>2. SnapshotOK(s) /\ SnapshotOK(p) /\ \A c \in Domain : p.records[c] \subseteq s.records[c]
  <2>1. SnapshotOK(s)
    BY <1>1, ApplyRecords
  <2>2. QED
    BY <1>1, <2>1, PurgeRecords
<1>3. up[n] /\ \A m \in Node : up'[m] => up[m]
  BY DEF handle_dns_command_tick, Types, TypeOK
<1>4. published' = [published EXCEPT ![n] = @ \cup {d}]
        \/ (published' = published /\ DnsApplyOutcome(mem[n], r, clock[n]) = "ExpiredRecord")
  BY DEF handle_dns_command_tick
<1>5. /\ \A m \in Node \ {n} : published'[m] = published[m]
      /\ published[n] \subseteq published'[n]
      /\ Inserts(mem[n], r, clock[n]) => d \in published'[n]
  BY <1>4 DEF Types, TypeOK, Inserts
<1>6. \A c \in Domain : (\E e \in s.records[c] : e.owner = n) => c \in published'[n]
  <2>1. CASE Inserts(mem[n], r, clock[n])
    <3>1. s.records = [mem[n].records EXCEPT ![d] = {r}]
      BY <1>1, <2>1, ApplyRecords
    <3>2. QED
      BY <1>1, <1>3, <1>5, <2>1, <3>1 DEF OwnNamesListed
  <2>2. CASE ~Inserts(mem[n], r, clock[n])
    BY <1>1, <1>3, <1>5, <2>2, ApplyRefused DEF OwnNamesListed
  <2>3. QED
    BY <2>1, <2>2
<1>7. ASSUME NEW t, NEW write \in BOOLEAN, t = s \/ t = p, Store(n, t, write)
      PROVE  OwnNamesListed'
  <2>1. \A c \in Domain : (\E e \in t.records[c] : e.owner = n) => c \in published'[n]
    BY <1>2, <1>6, <1>7
  <2>2. QED
    BY <1>2, <1>3, <1>5, <1>7, <2>1, ListedStore
<1>8. ApplyPersists(mem[n], r, clock[n]) \in BOOLEAN
  BY DEF ApplyPersists
<1>9. QED
  BY <1>7, <1>8 DEF handle_dns_command_tick

\* A record from the network is another node's.
LEMMA ListedWire ==
    ASSUME Types, OwnNamesListed, NEW n \in Node, NEW r \in net, handle_dns_wire_message(n, r)
    PROVE  OwnNamesListed'
<1> DEFINE s == apply_record(mem[n], r, clock[n])
           p == purge_expired(s, clock[n])
<1>1. /\ r \in DnsRecord /\ r.domain \in Domain /\ clock[n] \in Nat /\ SnapshotOK(mem[n])
      /\ mem[n].records \in [Domain -> SUBSET DnsRecord]
  BY DEF Types, TypeOK, SnapshotOK, DnsCacheSnapshot, DnsRecord
<1>2. SnapshotOK(s) /\ SnapshotOK(p) /\ \A c \in Domain : p.records[c] \subseteq s.records[c]
  <2>1. SnapshotOK(s)
    BY <1>1, ApplyRecords
  <2>2. QED
    BY <1>1, <2>1, PurgeRecords
<1>3. up[n] /\ r.owner # n /\ UNCHANGED <<up, published>>
  BY DEF handle_dns_wire_message
<1>4. \A c \in Domain : (\E e \in s.records[c] : e.owner = n) => c \in published[n]
  <2>1. CASE Inserts(mem[n], r, clock[n])
    <3>1. s.records = [mem[n].records EXCEPT ![r.domain] = {r}]
      BY <1>1, <2>1, ApplyRecords
    <3>2. QED
      BY <1>1, <1>3, <3>1 DEF OwnNamesListed
  <2>2. CASE ~Inserts(mem[n], r, clock[n])
    BY <1>1, <1>3, <2>2, ApplyRefused DEF OwnNamesListed
  <2>3. QED
    BY <2>1, <2>2
<1>5. CASE UNCHANGED mem
  BY <1>3, <1>5 DEF OwnNamesListed
<1>6. ASSUME NEW t, NEW write \in BOOLEAN, t = s \/ t = p, Store(n, t, write)
      PROVE  OwnNamesListed'
  <2>1. \A c \in Domain : (\E e \in t.records[c] : e.owner = n) => c \in published[n]
    BY <1>2, <1>4, <1>6
  <2>2. QED
    BY <1>2, <1>3, <1>6, <2>1, ListedStore
<1>7. ApplyPersists(mem[n], r, clock[n]) \in BOOLEAN
  BY DEF ApplyPersists
<1>8. QED
  BY <1>5, <1>6, <1>7 DEF handle_dns_wire_message

\* A name that is no longer listed has no record left.
LEMMA ListedMaintenance ==
    ASSUME Types, OwnNamesListed, NEW n \in Node, handle_dns_maintenance_tick(n)
    PROVE  OwnNamesListed'
<1> DEFINE p == purge_expired(mem[n], clock[n])
           gone == ExpiredDomains(mem[n], clock[n])
<1>1. clock[n] \in Nat /\ SnapshotOK(mem[n])
  BY DEF Types, TypeOK
<1>2. /\ up[n] /\ Store(n, p, TRUE) /\ UNCHANGED up
      /\ published' = [published EXCEPT ![n] = @ \ gone]
  BY DEF handle_dns_maintenance_tick
<1>3. /\ SnapshotOK(p)
      /\ \A d \in Domain : p.records[d] = {r \in mem[n].records[d] : ~is_expired(r, clock[n])}
  BY <1>1, PurgeRecords
<1>4. \A d \in gone : p.records[d] = {}
  BY <1>1, <1>3 DEF ExpiredDomains, SnapshotOK
<1>5. \A d \in Domain : (\E r \in p.records[d] : r.owner = n) => d \in published[n] \ gone
  BY <1>2, <1>3, <1>4 DEF OwnNamesListed
<1>6. /\ \A m \in Node \ {n} : published'[m] = published[m]
      /\ published'[n] = published[n] \ gone
  BY <1>2 DEF Types, TypeOK
<1>7. QED
  BY <1>2, <1>3, <1>5, <1>6, ListedStore

\* A restart lists the names whose records it reads.
LEMMA ListedRestart ==
    ASSUME Types, OwnNamesListed, NEW n \in Node, Restart(n)
    PROVE  OwnNamesListed'
<1>1. /\ mem' = [mem EXCEPT ![n] = disk[n]]
      /\ up' = [up EXCEPT ![n] = TRUE]
      /\ published' = [published EXCEPT ![n] =
                          {d \in Domain : \E r \in disk[n].records[d] : r.owner = n}]
  BY DEF Restart
<1>2. /\ mem'[n] = disk[n]
      /\ published'[n] = {d \in Domain : \E r \in disk[n].records[d] : r.owner = n}
      /\ \A m \in Node \ {n} :
             mem'[m] = mem[m] /\ up'[m] = up[m] /\ published'[m] = published[m]
  BY <1>1 DEF Types, TypeOK
<1>3. QED
  BY <1>2 DEF OwnNamesListed

\* The registrations a running node shows include every name whose record it owns.
THEOREM OwnListed == Spec => []OwnNamesListed
<1>1. Init => OwnNamesListed
  BY DEF Init, OwnNamesListed, EmptySnapshot
<1>2. Types /\ OwnNamesListed /\ [Next]_vars => OwnNamesListed'
  <2> SUFFICES ASSUME Types, OwnNamesListed, [Next]_vars PROVE OwnNamesListed'
    OBVIOUS
  <2>1. ASSUME UNCHANGED <<mem, up, published>> PROVE OwnNamesListed'
    BY <2>1 DEF OwnNamesListed
  <2>2. CASE UNCHANGED vars
    BY <2>1, <2>2 DEF vars
  <2>3. ASSUME NEW n \in Node,
               \/ ToolLoad(n) \/ ToolResolve(n) \/ Tick(n)
               \/ \E d \in Domain, ttl \in Ttl : synchronize_registry_dns(n, d, ttl)
        PROVE  OwnNamesListed'
    BY <2>1, <2>3 DEF ToolLoad, ToolResolve, synchronize_registry_dns, ToolStep, Tick
  <2>4. QED
    BY <2>2, <2>3, ListedCommand, ListedWire, ListedMaintenance, ListedRestart DEF Next
<1>3. QED
  BY <1>1, <1>2, TypesInit, TypesStep, PTL DEF Spec

-----------------------------------------------------------------------------
(* What one step does to a node.                                           *)

\* What the node holds is what its file holds, until a second process comes.
Persisted == \A n \in Node : toolSteps[n] = 0 => mem[n] = disk[n]

\* What may happen to the records of a name when snapshot t follows s.
Succeeds(s, t, now) ==
    /\ Carries(s, t, now)
    /\ \A d \in Domain : \A f \in t.records[d] \ s.records[d] :
           /\ ~is_expired(f, now)
           /\ \A e \in s.records[d] :
                  is_expired(e, now) \/ (e.owner = f.owner /\ ~(e.created >= f.created))

\* A step that does not start n again, or finds the file as n wrote it, makes
\* n's snapshot succeed itself.
NodeStep(n) ==
    /\ clock'[n] >= clock[n]
    /\ served[n] \subseteq served'[n]
    /\ served'[n] \subseteq served[n] \cup Held(mem'[n])
    /\ restarts'[n] = restarts[n] \/ toolSteps[n] = 0 => Succeeds(mem[n], mem'[n], clock[n])
    /\ toolSteps'[n] = 0 => toolSteps[n] = 0 /\ mem'[n] = disk'[n]

\* Applying a record.
LEMMA ApplySucceeds ==
    ASSUME NEW s, SnapshotOK(s), NEW r \in DnsRecord, NEW now \in Nat
    PROVE  Succeeds(s, apply_record(s, r, now), now)
<1> DEFINE t == apply_record(s, r, now)
<1>1. Carries(s, t, now)
  BY ApplyCarries
<1>2. CASE Inserts(s, r, now)
  <2>1. t.records = [s.records EXCEPT ![r.domain] = {r}]
    BY <1>2, ApplyRecords
  <2>2. r.domain \in Domain /\ s.records \in [Domain -> SUBSET DnsRecord]
    BY DEF DnsRecord, SnapshotOK, DnsCacheSnapshot
  <2>3. \A d \in Domain : \A f \in t.records[d] \ s.records[d] : f = r /\ d = r.domain
    BY <2>1, <2>2
  <2>4. /\ ~is_expired(r, now)
        /\ \A e \in s.records[r.domain] :
               is_expired(e, now) \/ (e.owner = r.owner /\ ~(e.created >= r.created))
    BY <1>2, OutcomeCases DEF Inserts
  <2>5. QED
    BY <1>1, <2>3, <2>4 DEF Succeeds
<1>3. CASE ~Inserts(s, r, now)
  BY <1>1, <1>3, ApplyRefused DEF Succeeds
<1>4. QED
  BY <1>2, <1>3

\* Inserting a record and purging, the two calls of an accepted record.
LEMMA InsertSucceeds ==
    ASSUME NEW s, SnapshotOK(s), NEW r \in DnsRecord, NEW now \in Nat, Inserts(s, r, now)
    PROVE  Succeeds(s, purge_expired(apply_record(s, r, now), now), now)
<1> DEFINE t == apply_record(s, r, now)
           p == purge_expired(t, now)
<1>1. SnapshotOK(t) /\ Succeeds(s, t, now)
  BY ApplyRecords, ApplySucceeds
<1>2. \A d \in Domain : p.records[d] \subseteq t.records[d]
  BY <1>1, PurgeRecords
<1>3. Carries(s, p, now)
  BY InsertCarries
<1>4. QED
  BY <1>1, <1>2, <1>3 DEF Succeeds

\* Purging, and doing nothing.
LEMMA PurgeSucceeds ==
    ASSUME NEW s, SnapshotOK(s), NEW now \in Nat
    PROVE  Succeeds(s, purge_expired(s, now), now) /\ Succeeds(s, s, now)
<1>1. Carries(s, purge_expired(s, now), now)
  BY PurgeRecords DEF Carries
<1>2. \A d \in Domain : purge_expired(s, now).records[d] \subseteq s.records[d]
  BY PurgeRecords
<1>3. QED
  BY <1>1, <1>2 DEF Succeeds, Carries

\* A step that leaves a node's memory and history alone, and writes its file
\* only as a step of the second process.
LEMMA IdleStep ==
    ASSUME Types, Persisted, NEW m \in Node,
           mem'[m] = mem[m], served'[m] = served[m], clock'[m] >= clock[m],
           toolSteps'[m] = 0 => toolSteps[m] = 0 /\ disk'[m] = disk[m]
    PROVE  NodeStep(m)
<1>1. Succeeds(mem[m], mem[m], clock[m])
  BY PurgeSucceeds DEF Types, TypeOK
<1>2. QED
  BY <1>1 DEF NodeStep, Persisted

\* Storing a snapshot that is written, or is the one held already.
LEMMA StoreSteps ==
    ASSUME Types, Persisted, NEW n \in Node, NEW t, SnapshotOK(t),
           UNCHANGED <<clock, toolSteps>>,
           NEW write \in BOOLEAN, Store(n, t, write), write \/ t = mem[n],
           Succeeds(mem[n], t, clock[n])
    PROVE  \A m \in Node : NodeStep(m)
<1>1. /\ mem'[n] = t /\ served'[n] = served[n] \cup Held(t)
      /\ \A m \in Node \ {n} : mem'[m] = mem[m] /\ served'[m] = served[m]
  BY StoreTypes
<1>2. /\ toolSteps[n] = 0 => disk'[n] = t
      /\ \A m \in Node \ {n} : disk'[m] = disk[m]
  BY DEF Store, Types, Persisted
<1>3. \A m \in Node : clock'[m] >= clock[m]
  BY DEF Types, TypeOK
<1>4. NodeStep(n)
  BY <1>1, <1>2, <1>3 DEF NodeStep
<1>5. ASSUME NEW m \in Node \ {n} PROVE NodeStep(m)
  BY <1>1, <1>2, <1>3, IdleStep
<1>6. QED
  BY <1>4, <1>5

\* Every step is such a step of every node.
LEMMA StepSucceeds ==
    ASSUME Types, Persisted, [Next]_vars
    PROVE  \A m \in Node : NodeStep(m)
<1>1. \A n \in Node : clock[n] \in Nat /\ SnapshotOK(mem[n]) /\ clock[n] >= clock[n]
  BY DEF Types, TypeOK
<1>2. CASE UNCHANGED vars
  BY <1>1, <1>2, IdleStep DEF vars
<1>3. ASSUME NEW n \in Node, NEW r \in DnsRecord, UNCHANGED <<clock, toolSteps>>,
             \/ Store(n, apply_record(mem[n], r, clock[n]), ApplyPersists(mem[n], r, clock[n]))
             \/ Store(n, apply_record(mem[n], r, clock[n]), TRUE)
             \/ /\ Inserts(mem[n], r, clock[n])
                /\ Store(n, purge_expired(apply_record(mem[n], r, clock[n]), clock[n]), TRUE)
      PROVE  \A m \in Node : NodeStep(m)
  <2> DEFINE s == apply_record(mem[n], r, clock[n])
  <2>1. /\ SnapshotOK(s) /\ Succeeds(mem[n], s, clock[n])
        /\ ApplyPersists(mem[n], r, clock[n]) \/ s = mem[n]
    <3>1. SnapshotOK(s) /\ (ApplyPersists(mem[n], r, clock[n]) \/ s = mem[n])
      BY <1>1, ApplyRecords, ApplySilent
    <3>2. Succeeds(mem[n], s, clock[n])
      BY <1>1, ApplySucceeds
    <3>3. QED
      BY <3>1, <3>2
  <2>2. ApplyPersists(mem[n], r, clock[n]) \in BOOLEAN
    BY DEF ApplyPersists
  <2>3. CASE Store(n, s, ApplyPersists(mem[n], r, clock[n]))
    BY <1>3, <2>1, <2>2, <2>3, StoreSteps
  <2>4. CASE Store(n, s, TRUE)
    BY <1>3, <2>1, <2>4, StoreSteps
  <2>5. CASE Inserts(mem[n], r, clock[n]) /\ Store(n, purge_expired(s, clock[n]), TRUE)
    <3>1. SnapshotOK(purge_expired(s, clock[n]))
      BY <1>1, <2>1, PurgeRecords
    <3>2. Succeeds(mem[n], purge_expired(s, clock[n]), clock[n])
      BY <1>1, <2>5, InsertSucceeds
    <3>3. QED
      BY <1>3, <2>5, <3>1, <3>2, StoreSteps
  <2>6. QED
    BY <1>3, <2>3, <2>4, <2>5
<1>4. ASSUME NEW n \in Node, NEW d \in Domain, NEW ttl \in Ttl,
             handle_dns_command_tick(n, d, ttl)
      PROVE  \A m \in Node : NodeStep(m)
  <2> DEFINE r == DnsRecord_sign(n, d, ttl)
  <2>1. r \in DnsRecord
    BY <1>1, SignType
  <2>2. QED
    BY <1>3, <1>4, <2>1 DEF handle_dns_command_tick
<1>5. ASSUME NEW n \in Node, NEW r \in net, handle_dns_wire_message(n, r)
      PROVE  \A m \in Node : NodeStep(m)
  <2>1. r \in DnsRecord /\ UNCHANGED <<clock, toolSteps>>
    BY <1>5 DEF Types, TypeOK, handle_dns_wire_message
  <2>2. CASE UNCHANGED <<mem, disk, served>>
    BY <1>1, <2>1, <2>2, IdleStep
  <2>3. QED
    BY <1>3, <1>5, <2>1, <2>2 DEF handle_dns_wire_message
<1>6. ASSUME NEW n \in Node, handle_dns_maintenance_tick(n)
      PROVE  \A m \in Node : NodeStep(m)
  <2>1. Store(n, purge_expired(mem[n], clock[n]), TRUE) /\ UNCHANGED <<clock, toolSteps>>
    BY <1>6 DEF handle_dns_maintenance_tick
  <2>2. SnapshotOK(purge_expired(mem[n], clock[n]))
    BY <1>1, PurgeRecords
  <2>3. QED
    BY <1>1, <2>1, <2>2, PurgeSucceeds, StoreSteps
<1>7. ASSUME NEW n \in Node, Restart(n)
      PROVE  \A m \in Node : NodeStep(m)
  <2>1. /\ UNCHANGED <<disk, clock, toolSteps>>
        /\ mem' = [mem EXCEPT ![n] = disk[n]]
        /\ served' = [served EXCEPT ![n] = @ \cup Held(disk[n])]
        /\ restarts' = [restarts EXCEPT ![n] = @ + 1]
    BY <1>7 DEF Restart
  <2>2. /\ mem'[n] = disk[n]
        /\ served'[n] = served[n] \cup Held(disk[n])
        /\ restarts'[n] # restarts[n]
    BY <2>1 DEF Types
  <2>3. toolSteps[n] = 0 => Succeeds(mem[n], mem'[n], clock[n])
    BY <1>1, <2>2, PurgeSucceeds DEF Persisted
  <2>4. NodeStep(n)
    BY <1>1, <2>1, <2>2, <2>3 DEF NodeStep
  <2>5. ASSUME NEW m \in Node \ {n} PROVE NodeStep(m)
    <3>1. mem'[m] = mem[m] /\ served'[m] = served[m]
      BY <2>1 DEF Types
    <3>2. QED
      BY <1>1, <2>1, <3>1, IdleStep
  <2>6. QED
    BY <2>4, <2>5
<1>8. ASSUME NEW n \in Node, Tick(n)
      PROVE  \A m \in Node : NodeStep(m)
  <2>1. UNCHANGED <<mem, disk, served, toolSteps>> /\ \A m \in Node : clock'[m] >= clock[m]
    BY <1>1, <1>8 DEF Tick, Types, TypeOK
  <2>2. QED
    BY <2>1, IdleStep
<1>9. ASSUME NEW n \in Node, ToolStep(n), disk' = disk \/ \E s : ToolWrites(n, s)
      PROVE  \A m \in Node : NodeStep(m)
  <2>1. UNCHANGED <<mem, clock, served>> /\ toolSteps' = [toolSteps EXCEPT ![n] = @ + 1]
    BY <1>9 DEF ToolStep
  <2>2. toolSteps'[n] # 0
    BY <2>1 DEF Types
  <2>3. ASSUME NEW m \in Node \ {n} PROVE toolSteps'[m] = toolSteps[m] /\ disk'[m] = disk[m]
    BY <1>9, <2>1 DEF ToolWrites, Types
  <2>4. QED
    BY <1>1, <2>1, <2>2, <2>3, IdleStep
<1>10. ASSUME NEW n \in Node,
              \/ ToolLoad(n) \/ ToolResolve(n)
              \/ \E d \in Domain, ttl \in Ttl : synchronize_registry_dns(n, d, ttl)
       PROVE  \A m \in Node : NodeStep(m)
  BY <1>9, <1>10 DEF ToolLoad, ToolResolve, synchronize_registry_dns
<1>11. QED
  BY <1>2, <1>4, <1>5, <1>6, <1>7, <1>8, <1>10 DEF Next

\* Until a second process comes, memory and file agree at every step.
LEMMA AlwaysPersisted == Spec => [](Types /\ Persisted)
<1>1. Init => Persisted
  BY DEF Init, Persisted
<1>2. Types /\ Persisted /\ [Next]_vars => Persisted'
  BY StepSucceeds DEF Persisted, NodeStep
<1>3. QED
  BY <1>1, <1>2, TypesInit, TypesStep, PTL DEF Spec

\* "local DNS cache persistence under `data_dir/dns/`"
\* (docs/operations/voiddns-routing.md): as long as only the node has written its
\* cache file, neither stopping it nor a refused publish that ends it loses anything
\* that is alive.
THEOREM CacheKept == Spec => []CacheIsPersisted
<1>1. Types /\ Persisted => CacheIsPersisted
  BY DEF Persisted, CacheIsPersisted
<1>2. QED
  BY <1>1, AlwaysPersisted, PTL

\* "the first active owner for a live domain remains authoritative"
\* (docs/operations/voiddns-routing.md): no message, command or timer of a node
\* hands a live name to another owner, whatever a second process does, and no
\* restart does as long as only the node has written its cache file.
THEOREM OwnerAuthoritative == Spec => FirstOwnerAuthoritative
<1>1. Types /\ Persisted /\ [Next]_vars =>
        \A n \in Node : restarts'[n] = restarts[n] \/ toolSteps[n] = 0 => ~OwnerReplaced(n)
  <2> SUFFICES ASSUME Types, Persisted, [Next]_vars, NEW n \in Node,
                      restarts'[n] = restarts[n] \/ toolSteps[n] = 0
               PROVE  ~OwnerReplaced(n)
    OBVIOUS
  <2>1. Succeeds(mem[n], mem'[n], clock[n])
    BY StepSucceeds DEF NodeStep
  <2>2. SnapshotOK(mem[n])
    BY DEF Types, TypeOK
  <2>3. QED
    BY <2>1, <2>2 DEF Succeeds, SnapshotOK, OwnerReplaced
<1>2. QED
  BY <1>1, AlwaysPersisted, PTL DEF Spec, FirstOwnerAuthoritative

-----------------------------------------------------------------------------
(* No record comes back after younger ones of its owner that outlive it.   *)

\* A record at least as young as r, of its name and owner, that n has served and
\* still holds unless it has expired.
Leads(n, e, r) ==
    /\ e.domain = r.domain /\ e.owner = r.owner /\ e.created >= r.created
    /\ e \in mem[n].records[r.domain] \/ is_expired(e, clock[n])

\* What a node without a second process served is expired, or is led by a
\* record it served.  A younger record may expire before an older one, so the
\* leader need not be held any more.
Led(n) == \A r \in served[n] : is_expired(r, clock[n]) \/ \E e \in served[n] : Leads(n, e, r)

FreshInv == \A n \in Node : toolSteps[n] = 0 => Led(n)

\* A step of a node without a second process keeps what it served led.
LEMMA LedStep ==
    ASSUME Types, Types', KeptInv, KeptInv', NEW n \in Node, NodeStep(n),
           toolSteps'[n] = 0, Led(n)
    PROVE  Led(n)'
<1>1. /\ Succeeds(mem[n], mem'[n], clock[n])
      /\ clock[n] \in Nat /\ clock'[n] \in Nat /\ clock'[n] >= clock[n]
  BY DEF NodeStep, Types, TypeOK
<1>2. /\ served[n] \subseteq served'[n] /\ served'[n] \subseteq served[n] \cup Held(mem'[n])
      /\ Held(mem'[n]) \subseteq served'[n] /\ served'[n] \subseteq DnsRecord
  BY DEF NodeStep, KeptInv, Types
<1>3. ASSUME NEW r \in DnsRecord
      PROVE  /\ r.domain \in Domain /\ r.created \in Nat /\ r.expires \in Nat
             /\ is_expired(r, clock[n]) => is_expired(r, clock'[n])
  BY <1>1 DEF DnsRecord, is_expired
<1>4. SnapshotOK(mem'[n])
  BY DEF Types, TypeOK
<1>5. ASSUME NEW r \in Held(mem'[n]) PROVE Leads(n, r, r)'
  <2>1. PICK d \in Domain : r \in mem'[n].records[d]
    BY DEF Held
  <2>2. r.domain = d /\ r.created \in Nat
    BY <1>2, <1>3, <1>4, <2>1 DEF SnapshotOK
  <2>3. QED
    BY <2>1, <2>2 DEF Leads
<1>6. ASSUME NEW r \in served[n], ~is_expired(r, clock'[n])
      PROVE  \E e \in served'[n] : Leads(n, e, r)'
  <2>1. r \in DnsRecord /\ ~is_expired(r, clock[n])
    BY <1>2, <1>3, <1>6
  <2>2. PICK e \in served[n] : Leads(n, e, r)
    BY <2>1 DEF Led
  <2>3. e \in DnsRecord /\ e \in served'[n]
    BY <1>2
  <2>4. e.domain = r.domain /\ e.owner = r.owner /\ e.created >= r.created
    BY <2>2 DEF Leads
  <2>5. CASE is_expired(e, clock[n])
    BY <1>3, <2>3, <2>4, <2>5 DEF Leads
  <2>6. CASE e \in mem[n].records[r.domain] /\ ~is_expired(e, clock[n])
    <3>1. \/ e \in mem'[n].records[r.domain]
          \/ \E f \in mem'[n].records[r.domain] :
                 f # e /\ f.owner = e.owner /\ f.created >= e.created
      BY <1>1, <1>3, <2>1, <2>6 DEF Succeeds, Carries
    <3>2. ASSUME NEW f \in mem'[n].records[r.domain]
          PROVE  f \in served'[n] /\ f.domain = r.domain /\ f.created \in Nat
      BY <1>2, <1>3, <1>4, <2>1 DEF Held, SnapshotOK
    <3>3. QED
      BY <1>3, <2>1, <2>3, <2>4, <3>1, <3>2 DEF Leads
  <2>7. QED
    BY <2>2, <2>5, <2>6 DEF Leads
<1>7. QED
  BY <1>2, <1>5, <1>6 DEF Led

\* Redelivery, forgotten events and restarts never bring back a record after the
\* node served younger ones of its owner, unless one of those was to expire first,
\* as long as only the node has written its cache file.
THEOREM NothingRegresses == Spec => NoRegression
<1>1. Types /\ Persisted /\ FreshInv /\ [Next]_vars =>
        \A n \in Node : toolSteps[n] = 0 => ~Regressed(n)
  <2> SUFFICES ASSUME Types, Persisted, FreshInv, [Next]_vars,
                      NEW n \in Node, toolSteps[n] = 0, NEW d \in Domain,
                      NEW t \in mem'[n].records[d] \ mem[n].records[d],
                      NEW r \in served[n],
                      r.domain = d, r.owner = t.owner, r.created > t.created,
                      \A e \in served[n] :
                          e.domain = d /\ e.owner = t.owner /\ e.created > t.created
                              => e.expires >= t.expires
               PROVE  FALSE
    BY DEF Regressed
  <2>1. Succeeds(mem[n], mem'[n], clock[n])
    BY StepSucceeds DEF NodeStep
  <2>2. Types'
    BY TypesStep
  <2>3. t \in DnsRecord /\ clock[n] \in Nat /\ served[n] \subseteq DnsRecord
    BY <2>2 DEF Types, TypeOK, SnapshotOK, DnsCacheSnapshot
  <2>4. \A e \in DnsRecord : e.created \in Nat /\ e.expires \in Nat
    BY DEF DnsRecord
  <2>5. ~is_expired(t, clock[n])
    BY <2>1 DEF Succeeds
  <2>6. ASSUME NEW e \in served[n], e.domain = d, e.owner = t.owner, e.created > t.created
        PROVE  ~is_expired(e, clock[n])
    BY <2>3, <2>4, <2>5, <2>6 DEF is_expired
  <2>7. PICK e \in served[n] : Leads(n, e, r)
    BY <2>6 DEF FreshInv, Led
  <2>8. e.created > t.created /\ e.domain = d /\ e.owner = t.owner
    BY <2>3, <2>4, <2>7 DEF Leads
  <2>9. e \in mem[n].records[d] /\ ~is_expired(e, clock[n]) /\ e.created >= t.created
    BY <2>3, <2>4, <2>6, <2>7, <2>8 DEF Leads
  <2>10. QED
    BY <2>1, <2>9 DEF Succeeds
<1>2. Init => KeptInv /\ FreshInv
  BY DEF Init, KeptInv, NoClaimVanishes, Held, EmptySnapshot, FreshInv, Led
<1>3. Types /\ Persisted /\ KeptInv /\ FreshInv /\ [Next]_vars => FreshInv'
  <2> SUFFICES ASSUME Types, Persisted, KeptInv, FreshInv, [Next]_vars,
                      NEW n \in Node, toolSteps'[n] = 0
               PROVE  Led(n)'
    BY DEF FreshInv
  <2>1. Types' /\ KeptInv' /\ NodeStep(n)
    BY TypesStep, KeptStep, StepSucceeds
  <2>2. Led(n)
    BY <2>1 DEF FreshInv, NodeStep
  <2>3. QED
    BY <2>1, <2>2, LedStep
<1>4. Spec => [](Types /\ Persisted /\ KeptInv /\ FreshInv)
  BY <1>2, <1>3, AlwaysPersisted, KeptStep, PTL DEF Spec
<1>5. QED
  BY <1>1, <1>4, PTL DEF Spec, NoRegression

=============================================================================
