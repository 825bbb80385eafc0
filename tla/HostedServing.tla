--------------------------- MODULE HostedServing ---------------------------
(***************************************************************************)
(* The hosted DNS provider: one controller renders each ZoneUnit into a    *)
(* HostedZone snapshot, a fleet of servers watches the snapshots, serves   *)
(* them and acknowledges the revision it serves, and the controller turns  *)
(* fresh acknowledgements into record receipts.  All keys are ZoneUnits of *)
(* one apex, so the servers also have to arbitrate between them.           *)
(*                                                                         *)
(*   controllers/zoneunit/{controller,status,model,watches}.go, render/,   *)
(*   server/{watch,zone,server}.go                                         *)
(*                                                                         *)
(* A snapshot's content is the function from record to the generation it   *)
(* publishes (0: omitted).  Content digests are taken to be injective, so  *)
(* the content stands for its digest.                                      *)
(***************************************************************************)
EXTENDS Naturals, Sequences, FiniteSets

CONSTANTS
    Keys,        \* ZoneUnit (and HostedZone) names with one common apex
    Servers,     \* hosted server identities
    Items,       \* RecordSets of a unit
    FreshFor,    \* ServerFreshness, in ticks
    MaxUint32,   \* the largest serial
    MaxTime,     \* bound: clock ticks
    MaxEdits,    \* bound: edits of records by core
    MaxFaults,   \* bound: lost watches, restarts, class changes, unit deletions
    MaxUnits,    \* bound: ZoneUnits ever created
    MaxFlips,    \* bound: policy decisions that deny a record or allow it again
    Lagging      \* the keys for which the controller's caches may lag

ASSUME HostedAssumption ==
    /\ {FreshFor, MaxUint32, MaxTime, MaxEdits, MaxFaults, MaxUnits, MaxFlips}
          \subseteq Nat
    /\ MaxUint32 > 0
    /\ MaxTime <= MaxUint32      \* the clock, in Unix seconds, fits a serial until 2106
    /\ IsFiniteSet(Keys)
    /\ Lagging \subseteq Keys

VARIABLES
    unit,      \* per key: the ZoneUnit in the API server
    zone,      \* per key: the HostedZone in the API server
    seen,      \* per key: the controller's cached unit and zone
    accepted,  \* whether the ZoneClass accepts the units
    pass,      \* per key: the status patch a reconcile has yet to send
    server,    \* per server: informer store, event queue, serving index
    now,       \* clock ticks
    budget     \* edits, faults and snapshot identities used so far

vars == <<unit, zone, seen, accepted, pass, server, now, budget>>

Versions == 0..MaxEdits
Serials == 0..MaxUint32

\* A record as the composition presents it: its incarnation and generation
\* as one number, and whether it is allowed, denied or to be deleted.
Item == [on : {"absent", "allowed", "denied", "deleting"}, version : Versions]
NoItem == [on |-> "absent", version |-> 0]

Content == [Items -> Versions]
Empty == [i \in Items |-> 0]

\* What one server says it serves.
Ack == [serial : Serials, content : Content, at : 0..MaxTime]
NoAck == [serial |-> 0, content |-> Empty, at |-> 0]
Acks == [Servers -> Ack]
NoAcks == [s \in Servers |-> NoAck]

Receipt == [of : Item, first : Serials, content : Content,
            programmed : BOOLEAN, completed : BOOLEAN]
NoReceipt == [of |-> NoItem, first |-> 0, content |-> Empty,
              programmed |-> FALSE, completed |-> FALSE]

Status == [programmed : BOOLEAN, serial : Serials, content : Content,
           servers : Acks, receipts : [Items -> Receipt]]
NoStatus == [programmed |-> FALSE, serial |-> 0, content |-> Empty,
             servers |-> NoAcks, receipts |-> [i \in Items |-> NoReceipt]]

Unit == [uid : 0..MaxUnits, deleting : BOOLEAN, items : [Items -> Item], status : Status]
NoUnit == [uid |-> 0, deleting |-> FALSE, items |-> [i \in Items |-> NoItem],
           status |-> NoStatus]

Zone == [uid : Nat, owner : 0..MaxUnits, serial : Serials, content : Content,
         acks : Acks]
NoZone == [uid |-> 0, owner |-> 0, serial |-> 0, content |-> Empty, acks |-> NoAcks]

\* The part of a snapshot a server loads.
Loaded == [uid : Nat, serial : Serials, content : Content]
NotLoaded == [uid |-> 0, serial |-> 0, content |-> Empty]
Loadable(z) == [uid |-> z.uid, serial |-> z.serial, content |-> z.content]

\* An informer event: the key, the identity of the object it was about, and
\* whether that object is gone.
Event == [key : Keys, uid : Nat, gone : BOOLEAN]

Idle == [status |-> NoStatus, current |-> FALSE, class |-> FALSE]

-----------------------------------------------------------------------------
(* Writes.  An object write outdates the cached copies and every patch     *)
(* that was computed from an earlier resource version.                     *)

\* The cache update that goes with writing u as unit[k].
SeenUnit(k, c, u) ==
    IF k \in Lagging THEN [c EXCEPT !.unitCurrent = FALSE] ELSE [c EXCEPT !.unit = u]

WriteUnit(k, u) ==
    /\ unit' = [unit EXCEPT ![k] = u]
    /\ pass' = [pass EXCEPT ![k].current = FALSE]
    /\ seen' = [seen EXCEPT ![k] = SeenUnit(k, @, u)]

\* The cache update that goes with writing z as zone[k].
SeenZone(k, c, z) ==
    IF k \in Lagging THEN [c EXCEPT !.zoneCurrent = FALSE] ELSE [c EXCEPT !.zone = z]

WriteZone(k, z) ==
    /\ zone' = [zone EXCEPT ![k] = z]
    /\ seen' = [seen EXCEPT ![k] = SeenZone(k, @, z)]

-----------------------------------------------------------------------------
(* Core and the cluster, as the hosted provider sees them.                 *)

CreateUnit(k) ==
    /\ unit[k].uid = 0
    /\ Cardinality({p \in Keys \X (1..MaxUnits) : p[2] <= budget.units[p[1]]}) < MaxUnits
    /\ WriteUnit(k, [NoUnit EXCEPT !.uid = budget.units[k] + 1])
    /\ budget' = [budget EXCEPT !.units[k] = @ + 1]
    /\ UNCHANGED <<zone, accepted, server, now>>

DeleteUnit(k) ==
    /\ unit[k].uid # 0
    /\ IF unit[k].deleting
       THEN /\ WriteUnit(k, NoUnit)
            /\ UNCHANGED budget
       ELSE /\ budget.faults < MaxFaults
            /\ budget' = [budget EXCEPT !.faults = @ + 1]
            /\ WriteUnit(k, [unit[k] EXCEPT !.deleting = TRUE])
    /\ UNCHANGED <<zone, accepted, server, now>>

\* Core publishes a new record or a new generation of one.
EditItem(k, i) ==
    /\ unit[k].uid # 0
    /\ unit[k].items[i].on \in {"absent", "allowed"}
    /\ budget.edits < MaxEdits
    /\ budget' = [budget EXCEPT !.edits = @ + 1]
    /\ WriteUnit(k, [unit[k] EXCEPT !.items[i] =
                        [on |-> "allowed", version |-> budget.edits + 1]])
    /\ UNCHANGED <<zone, accepted, server, now>>

\* Policy denies a published record, or allows it again, at its generation.
ChangePolicy(k, i) ==
    /\ unit[k].items[i].on \in {"allowed", "denied"}
    /\ budget.flips < MaxFlips
    /\ budget' = [budget EXCEPT !.flips = @ + 1]
    /\ WriteUnit(k, [unit[k] EXCEPT !.items[i].on = IF @ = "denied" THEN "allowed" ELSE "denied"])
    /\ UNCHANGED <<zone, accepted, server, now>>

RequestDeletion(k, i) ==
    /\ unit[k].items[i].on \in {"allowed", "denied"}
    /\ WriteUnit(k, [unit[k] EXCEPT !.items[i].on = "deleting"])
    /\ UNCHANGED <<zone, accepted, server, now, budget>>

\* Whether the status reports item i of u as completely deleted.
Completed(u, i) ==
    /\ u.items[i].on = "deleting"
    /\ u.status.receipts[i].of = u.items[i]
    /\ u.status.receipts[i].completed

DropItem(k, i) ==
    /\ Completed(unit[k], i)
    /\ WriteUnit(k, [unit[k] EXCEPT !.items[i] = NoItem])
    /\ UNCHANGED <<zone, accepted, server, now, budget>>

\* The ZoneClass stops or resumes accepting the Zone.
ChangeClass ==
    /\ budget.faults < MaxFaults
    /\ budget' = [budget EXCEPT !.faults = @ + 1]
    /\ accepted' = ~accepted
    /\ UNCHANGED <<unit, zone, seen, pass, server, now>>

\* The controller's informers catch up with key k.
Sync(k) ==
    /\ k \in Lagging
    /\ ~(seen[k].unitCurrent /\ seen[k].zoneCurrent)
    /\ \/ seen' = [seen EXCEPT ![k].unit = unit[k], ![k].unitCurrent = TRUE]
       \/ seen' = [seen EXCEPT ![k].zone = zone[k], ![k].zoneCurrent = TRUE]
    /\ UNCHANGED <<unit, zone, accepted, pass, server, now, budget>>

Tick ==
    /\ now < MaxTime
    /\ now' = now + 1
    /\ UNCHANGED <<unit, zone, seen, accepted, pass, server, budget>>

-----------------------------------------------------------------------------
(* render.go: the content of a unit and the serial it is published under.  *)

Rendered(items) ==
    [i \in Items |-> IF items[i].on = "allowed" THEN items[i].version ELSE 0]

\* The content is unchanged: so is the serial.  Otherwise the serial
\* advances past its predecessor, and to the clock.
MutantSerial(previous, old, content) ==
    IF previous = 0 THEN IF now = 0 THEN 1 ELSE now ELSE previous

Serial(previous, old, content) ==
    IF previous # 0 /\ old = content THEN previous
    ELSE IF previous + 1 > now THEN previous + 1 ELSE now

\* The serial space is used up and the content has to change.
Exhausted(previous, old, content) == old # content /\ previous = MaxUint32

-----------------------------------------------------------------------------
(* status.go: what acknowledgements attest.                                *)

\* Acknowledgements inside the freshness window.
Fresh(acks) ==
    {s \in Servers : acks[s].serial # 0 /\ acks[s].at + FreshFor >= now /\ acks[s].at <= now}

FreshOnly(acks) == [s \in Servers |-> IF s \in Fresh(acks) THEN acks[s] ELSE NoAck]

\* Every fresh server serves exactly this snapshot.
SnapshotServed(serial, content, acks) ==
    /\ Fresh(acks) # {}
    /\ \A s \in Fresh(acks) : acks[s].serial = serial /\ acks[s].content = content

MutantRevisionServed(first, content, serial, now_content, acks) ==
    \E s \in Fresh(acks) : acks[s].serial >= first /\ acks[s].serial <= serial

\* Every fresh server serves a revision from the first one that carries the
\* item to the current one; the digests have to agree at both ends.
RevisionServed(first, content, serial, now_content, acks) ==
    /\ first # 0
    /\ Fresh(acks) # {}
    /\ \A s \in Fresh(acks) :
          /\ acks[s].serial \in first..serial
          /\ acks[s].serial = first => acks[s].content = content
          /\ acks[s].serial = serial => acks[s].content = now_content

\* prepareRecordReceipts: a receipt of another incarnation or generation is
\* forgotten.
Prepared(u, i) ==
    IF u.status.receipts[i].of.version = u.items[i].version
    THEN u.status.receipts[i]
    ELSE NoReceipt

\* The receipt of one item once the content is published under serial.
MutantReceiptOf(u, i, serial, content, acks) ==
    LET kept == Prepared(u, i)
        first == IF kept.first # 0 THEN kept.first ELSE serial
        digest == IF kept.first # 0 THEN kept.content ELSE content
        ok == RevisionServed(first, digest, serial, content, acks)
    IN  [of |-> u.items[i], first |-> first, content |-> digest,
         programmed |-> ok /\ u.items[i].on # "denied",
         completed |-> ok /\ u.items[i].on = "deleting"]

ReceiptOf(u, i, serial, content, acks) ==
    LET kept == Prepared(u, i)
        same == kept.of = u.items[i] /\ kept.first # 0
        first == IF same THEN kept.first ELSE serial
        digest == IF same THEN kept.content ELSE content
        ok == RevisionServed(first, digest, serial, content, acks)
    IN  [of |-> u.items[i], first |-> first, content |-> digest,
         programmed |-> ok /\ u.items[i].on # "denied",
         completed |-> ok /\ u.items[i].on = "deleting"]

\* setResults
Results(u, serial, content, acks) ==
    [programmed |-> ~u.deleting /\ SnapshotServed(serial, content, acks),
     serial |-> serial, content |-> content, servers |-> FreshOnly(acks),
     receipts |-> [i \in Items |->
        IF u.items[i].on = "absent" THEN NoReceipt
        ELSE ReceiptOf(u, i, serial, content, acks)]]

\* No success is reported for a rejected snapshot, yet the receipts stay.
Withheld(u) ==
    [i \in Items |-> [Prepared(u, i) EXCEPT !.programmed = FALSE, !.completed = FALSE]]

SnapshotRejected(u) == [u.status EXCEPT !.programmed = FALSE, !.receipts = Withheld(u)]

Rejected(u) == [NoStatus EXCEPT !.receipts = Withheld(u)]

-----------------------------------------------------------------------------
(* The controller's reconcile: reads, the snapshot write, then the status. *)

\* Delete with the UID and resource version of the cached snapshot.
DeleteSnapshot(k) ==
    IF zone[k].uid = 0 THEN UNCHANGED <<zone, seen>>      \* NotFound is ignored
    ELSE /\ seen[k].zoneCurrent
         /\ WriteZone(k, NoZone)

\* Results that change nothing are not sent.
SendStatus(k, u, status) ==
    pass' = [pass EXCEPT ![k] =
        IF status = u.status THEN Idle
        ELSE [status |-> status, current |-> seen[k].unitCurrent, class |-> accepted]]

\* The unit is gone: so goes its snapshot.
ReconcileAbsent(k) ==
    /\ seen[k].unit.uid = 0
    /\ seen[k].zone.uid # 0
    /\ DeleteSnapshot(k)
    /\ UNCHANGED <<unit, accepted, pass, server, now, budget>>

Owned(z, u) == z.owner = u.uid

\* A snapshot of an earlier unit shadows this one.
ReconcileShadowed(k) ==
    LET u == seen[k].unit IN
    /\ u.uid # 0 /\ pass[k] = Idle
    /\ seen[k].zone.uid # 0 /\ ~Owned(seen[k].zone, u)
    /\ DeleteSnapshot(k)
    /\ SendStatus(k, u, SnapshotRejected(u))
    /\ UNCHANGED <<unit, accepted, server, now, budget>>

\* A deleting unit: the snapshot goes, nothing is served any more.
ReconcileDeleting(k) ==
    LET u == seen[k].unit IN
    /\ u.uid # 0 /\ u.deleting /\ pass[k] = Idle
    /\ seen[k].zone.uid # 0 => Owned(seen[k].zone, u)
    /\ IF seen[k].zone.uid # 0 THEN DeleteSnapshot(k) ELSE UNCHANGED <<zone, seen>>
    /\ SendStatus(k, u,
          LET content == Rendered(u.items) IN
          IF ~accepted THEN Rejected(u)
          ELSE IF Exhausted(u.status.serial, u.status.content, content)
          THEN SnapshotRejected(u)
          ELSE Results(u, Serial(u.status.serial, u.status.content, content), content, NoAcks))
    /\ UNCHANGED <<unit, accepted, server, now, budget>>

\* The binding is rejected; what is published stays published.
ReconcileRejected(k) ==
    LET u == seen[k].unit IN
    /\ u.uid # 0 /\ ~u.deleting /\ pass[k] = Idle
    /\ seen[k].zone.uid # 0 => Owned(seen[k].zone, u)
    /\ ~accepted
    /\ SendStatus(k, u, Rejected(u))
    /\ UNCHANGED <<unit, zone, seen, accepted, server, now, budget>>

\* A server-side apply of the snapshot: with the cached resource version when
\* there is a cached snapshot; otherwise it creates one, or takes over the spec
\* of one the cache has not seen, which a second controller reference refuses.
Appliable(k, u) ==
    IF seen[k].zone.uid # 0
    THEN zone[k].uid # 0 /\ seen[k].zoneCurrent
    ELSE zone[k].uid = 0 \/ Owned(zone[k], u)

\* Render the unit, apply the snapshot when it changed and compute results
\* from the acknowledgements read before the apply.
ReconcileZone(k) ==
    LET u == seen[k].unit
        z == seen[k].zone
        previous == IF z.uid # 0 THEN z.serial ELSE u.status.serial
        old == IF z.uid # 0 THEN z.content ELSE u.status.content
        content == Rendered(u.items)
        serial == Serial(previous, old, content)
        apply == z.uid = 0 \/ z.content # content
    IN
    /\ u.uid # 0 /\ ~u.deleting /\ accepted /\ pass[k] = Idle
    /\ z.uid # 0 => Owned(z, u)
    /\ IF Exhausted(previous, old, content) \/ (apply /\ ~Appliable(k, u))
       THEN /\ SendStatus(k, u, SnapshotRejected(u))
            /\ UNCHANGED <<zone, seen, budget>>
       ELSE /\ SendStatus(k, u, Results(u, serial, content, z.acks))
            /\ IF apply
               THEN /\ WriteZone(k, [uid |-> IF zone[k].uid # 0 THEN zone[k].uid
                                             ELSE budget.snapshots + 1,
                                     owner |-> u.uid, serial |-> serial,
                                     content |-> content, acks |-> zone[k].acks])
                    /\ budget' = [budget EXCEPT !.snapshots =
                                     IF zone[k].uid # 0 THEN @ ELSE @ + 1]
               ELSE UNCHANGED <<zone, seen, budget>>
    /\ UNCHANGED <<unit, accepted, server, now>>

\* The status patch, under the optimistic lock.
PatchStatus(k) ==
    /\ pass[k] # Idle
    /\ pass[k].current
    /\ unit' = [unit EXCEPT ![k].status = pass[k].status]
    /\ pass' = [pass EXCEPT ![k] = Idle]
    /\ seen' = [seen EXCEPT ![k] = SeenUnit(k, @, [unit[k] EXCEPT !.status = pass[k].status])]
    /\ UNCHANGED <<zone, accepted, server, now, budget>>

\* A conflicting patch, or a probing pass whose live re-read differs from
\* what it started from: its results are dropped.
DropStatus(k) ==
    /\ pass[k] # Idle
    /\ ~pass[k].current \/ pass[k].class # accepted
    /\ pass' = [pass EXCEPT ![k] = Idle]
    /\ UNCHANGED <<unit, zone, seen, accepted, server, now, budget>>

-----------------------------------------------------------------------------
(* server/zone.go: the serving index of one apex.                          *)

NotServing == [key |-> "none", loaded |-> NotLoaded]
IsServing(x) == x.loaded.uid # 0

\* Snapshots of the apex in the informer's secondary index.
Contenders(store) == {k \in Keys : store[k].uid # 0}

\* replace: an apex served for another key is a conflict.
Replace(x, k, store) ==
    IF IsServing(x) /\ x.key # k THEN NotServing
    ELSE [key |-> k, loaded |-> store[k]]

MutantReconcileApex(x, store) ==
    LET c == Contenders(store)
    IN  IF c = {} THEN NotServing
        ELSE IF Cardinality(c) > 1 THEN x
        ELSE Replace(x, CHOOSE k \in c : TRUE, store)

ReconcileApex(x, store) ==
    LET c == Contenders(store)
    IN  IF Cardinality(c) # 1 THEN NotServing
        ELSE Replace(x, CHOOSE k \in c : TRUE, store)

\* remove: only the incarnation the event was about.
Remove(x, e) == IF x.key = e.key /\ x.loaded.uid = e.uid THEN NotServing ELSE x

-----------------------------------------------------------------------------
(* server/watch.go and server.go                                           *)

Connect(s) ==
    /\ ~server[s].connected
    /\ server' = [server EXCEPT ![s].connected = TRUE]
    /\ UNCHANGED <<unit, zone, seen, accepted, pass, now, budget>>

\* The watch ends: no acknowledgement leaves, the index keeps serving.
Disconnect(s) ==
    /\ server[s].connected
    /\ budget.faults < MaxFaults
    /\ budget' = [budget EXCEPT !.faults = @ + 1]
    /\ server' = [server EXCEPT ![s].connected = FALSE]
    /\ UNCHANGED <<unit, zone, seen, accepted, pass, now>>

\* The informer takes in the current snapshot of k and queues an event.
Observe(s, k) ==
    /\ server[s].connected
    /\ server[s].store[k] # Loadable(zone[k])
    /\ server' = [server EXCEPT
          ![s].store[k] = Loadable(zone[k]),
          ![s].queue = Append(@, [key |-> k, gone |-> zone[k].uid = 0,
                                  uid |-> server[s].store[k].uid])]
    /\ UNCHANGED <<unit, zone, seen, accepted, pass, now, budget>>

\* The handler of the oldest event; it reads the store of the moment.
HandleEvent(s) ==
    /\ server[s].queue # <<>>
    /\ LET e == Head(server[s].queue)
           x == IF e.gone THEN Remove(server[s].serving, e) ELSE server[s].serving
       IN  server' = [server EXCEPT ![s].queue = Tail(@),
                                    ![s].serving = ReconcileApex(x, server[s].store)]
    /\ UNCHANGED <<unit, zone, seen, accepted, pass, now, budget>>

AckOf(x) == [serial |-> x.loaded.serial, content |-> x.loaded.content, at |-> now]

MutantAcknowledge(s) ==
    LET x == server[s].serving IN
    /\ server[s].connected /\ IsServing(x)
    /\ zone[x.key].uid = x.loaded.uid
    /\ server[s].acknowledged[x.key] # x.loaded.uid
    /\ WriteZone(x.key, [zone[x.key] EXCEPT !.acks[s] = AckOf(x)])
    /\ server' = [server EXCEPT ![s].acknowledged[x.key] = x.loaded.uid]
    /\ UNCHANGED <<unit, accepted, pass, now, budget>>

\* reportDue: acknowledge the served snapshot, by UID, once a tick.
Acknowledge(s) ==
    LET x == server[s].serving IN
    /\ server[s].connected /\ IsServing(x)
    /\ zone[x.key].uid = x.loaded.uid
    /\ zone[x.key].acks[s] # AckOf(x)
    /\ WriteZone(x.key, [zone[x.key] EXCEPT !.acks[s] = AckOf(x)])
    /\ server' = [server EXCEPT ![s].acknowledged[x.key] = x.loaded.uid]
    /\ UNCHANGED <<unit, accepted, pass, now, budget>>

\* applyStatus with no entry: remove the acknowledgement of incarnation uid.
Relinquished(s, k) ==
    IF zone[k].uid = server[s].acknowledged[k]
    THEN [zone[k] EXCEPT !.acks[s] = NoAck] ELSE zone[k]

MutantRelinquish(s, k) ==
    /\ server[s].connected
    /\ server[s].acknowledged[k] # 0
    /\ ~(server[s].serving.key = k /\ server[s].serving.loaded.uid = server[s].acknowledged[k])
    /\ zone[k].uid = 0
    /\ server' = [server EXCEPT ![s].acknowledged[k] = 0]
    /\ WriteZone(k, Relinquished(s, k))
    /\ UNCHANGED <<unit, accepted, pass, now, budget>>

\* reportDue: a snapshot that is not served any more is given up.
Relinquish(s, k) ==
    /\ server[s].connected
    /\ server[s].acknowledged[k] # 0
    /\ ~(server[s].serving.key = k /\ server[s].serving.loaded.uid = server[s].acknowledged[k])
    /\ zone[k].uid \in {0, server[s].acknowledged[k]}
    /\ server' = [server EXCEPT ![s].acknowledged[k] = 0]
    /\ WriteZone(k, Relinquished(s, k))
    /\ UNCHANGED <<unit, accepted, pass, now, budget>>

NewServer ==
    [connected |-> TRUE, store |-> [k \in Keys |-> NotLoaded], queue |-> <<>>,
     serving |-> NotServing, acknowledged |-> [k \in Keys |-> 0]]

\* A pod ends and starts over: gracefully it removes its acknowledgements,
\* after a crash they are left to go stale.
Restart(s, graceful) ==
    /\ budget.faults < MaxFaults
    /\ budget' = [budget EXCEPT !.faults = @ + 1]
    /\ server' = [server EXCEPT ![s] = NewServer]
    /\ IF graceful
       THEN /\ zone' = [k \in Keys |-> Relinquished(s, k)]
            /\ seen' = [k \in Keys |-> IF zone'[k] = zone[k] THEN seen[k]
                                       ELSE SeenZone(k, seen[k], zone'[k])]
       ELSE UNCHANGED <<zone, seen>>
    /\ UNCHANGED <<unit, accepted, pass, now>>

-----------------------------------------------------------------------------
Init ==
    /\ unit = [k \in Keys |-> NoUnit]
    /\ zone = [k \in Keys |-> NoZone]
    /\ seen = [k \in Keys |-> [unit |-> NoUnit, zone |-> NoZone,
                               unitCurrent |-> TRUE, zoneCurrent |-> TRUE]]
    /\ accepted = TRUE
    /\ pass = [k \in Keys |-> Idle]
    /\ server = [s \in Servers |-> NewServer]
    /\ now = 0
    /\ budget = [edits |-> 0, flips |-> 0, faults |-> 0, snapshots |-> 0,
                 units |-> [k \in Keys |-> 0]]

Core(k) ==
    \/ CreateUnit(k)
    \/ DeleteUnit(k)
    \/ \E i \in Items :
          \/ EditItem(k, i)
          \/ ChangePolicy(k, i)
          \/ RequestDeletion(k, i)
          \/ DropItem(k, i)

Reconcile(k) ==
    \/ ReconcileAbsent(k)
    \/ ReconcileShadowed(k)
    \/ ReconcileDeleting(k)
    \/ ReconcileRejected(k)
    \/ ReconcileZone(k)

ServerStep(s) ==
    \/ HandleEvent(s)
    \/ Acknowledge(s)
    \/ \E k \in Keys : Observe(s, k) \/ Relinquish(s, k)

Next ==
    \/ \E k \in Keys : Core(k) \/ Reconcile(k) \/ PatchStatus(k) \/ DropStatus(k) \/ Sync(k)
    \/ \E s \in Servers : ServerStep(s) \/ Connect(s) \/ Disconnect(s)
    \/ \E s \in Servers, graceful \in BOOLEAN : Restart(s, graceful)
    \/ ChangeClass
    \/ Tick

Spec == Init /\ [][Next]_vars

\* Watches, requeues and tickers retry every controller and server step, and
\* the reflector re-establishes a lost watch.
FairSpec ==
    /\ Spec
    /\ \A k \in Keys :
          /\ WF_vars(Reconcile(k))
          /\ WF_vars(PatchStatus(k) \/ DropStatus(k))
          /\ WF_vars(Sync(k))
          /\ \A i \in Items : WF_vars(DropItem(k, i))
    /\ \A s \in Servers :
          /\ WF_vars(Connect(s))
          /\ WF_vars(HandleEvent(s))
          /\ WF_vars(Acknowledge(s))
          /\ \A k \in Keys : WF_vars(Observe(s, k)) /\ WF_vars(Relinquish(s, k))

-----------------------------------------------------------------------------
(* Properties *)

Serving ==
    {NotServing} \cup [key : Keys, loaded : Loaded]

Server == [connected : BOOLEAN, store : [Keys -> Loaded], queue : Seq(Event),
           serving : Serving, acknowledged : [Keys -> Nat]]

\* Types of the API objects, caches, in-flight patches and servers.
TypeOK ==
    /\ unit \in [Keys -> Unit]
    /\ zone \in [Keys -> Zone]
    /\ seen \in [Keys -> [unit : Unit, zone : Zone,
                          unitCurrent : BOOLEAN, zoneCurrent : BOOLEAN]]
    /\ accepted \in BOOLEAN
    /\ pass \in [Keys -> [status : Status, current : BOOLEAN, class : BOOLEAN]]
    /\ server \in [Servers -> Server]
    /\ now \in 0..MaxTime
    /\ budget \in [edits : 0..MaxEdits, flips : 0..MaxFlips, faults : 0..MaxFaults,
                   snapshots : Nat, units : [Keys -> 0..MaxUnits]]

\* What server s answers for the records of key k.
Answers(s, k) ==
    IF server[s].serving.key = k THEN server[s].serving.loaded.content ELSE Empty

\* The servers whose acknowledgements the status of k rests on.
Counted(k) == {s \in Servers : unit[k].status.servers[s].serial # 0}

\* A deletion is reported complete only when every server the report counted
\* has stopped answering with the record, whatever restarts, lost watches,
\* late acknowledgements and serial reuse came in between (status.go: a
\* record is gone once "every fresh server" reached a revision omitting it).
DeletionHonoured ==
    \A k \in Keys, i \in Items :
        Completed(unit[k], i) =>
            \A s \in Counted(k) : Answers(s, k)[i] \notin 1..unit[k].items[i].version

\* Item i of k is published at its generation and reported as programmed.
Programmed(k, i) ==
    /\ unit[k].items[i].on = "allowed"
    /\ unit[k].status.receipts[i].of = unit[k].items[i]
    /\ unit[k].status.receipts[i].programmed

\* A record reported as programmed is not answered with an older generation
\* by any server the report counted.
NoOlderAnswer ==
    \A k \in Keys, i \in Items :
        Programmed(k, i) =>
            \A s \in Counted(k) : Answers(s, k)[i] \notin 1..(unit[k].items[i].version - 1)

\* NoOlderAnswer in well-typed states; serials stay within their 32 bits.
AnswerInvariant == TypeOK /\ NoOlderAnswer

\* Once a server has handled its events it serves the apex only from the sole
\* snapshot that claims it, at its newest revision; contested
\* apexes are quarantined, in whatever order creations and deletions of the
\* contenders arrive (watch.go, reconcileApex).
SoleContenderServed ==
    \A s \in Servers :
        LET x == server[s].serving
            c == Contenders(server[s].store)
        IN  server[s].queue = <<>> =>
              /\ IsServing(x) => c = {x.key}
              /\ \A k \in c : c = {k} => x.loaded = server[s].store[k]

\* A published snapshot never changes its content under the same or an older
\* serial (render.go, Render).
SerialAdvances ==
    [][\A k \in Keys :
          zone[k].uid # 0 /\ zone'[k].uid = zone[k].uid /\ zone'[k].content # zone[k].content
             => zone'[k].serial > zone[k].serial]_vars

\* A unit in good standing that no other unit contests.
Undisturbed(k) ==
    /\ accepted
    /\ unit[k].uid # 0 /\ ~unit[k].deleting
    /\ \A j \in Keys \ {k} : unit[j].uid = 0
    /\ unit[k].status.serial < MaxUint32

\* An undisturbed unit ends up with every allowed record programmed and every
\* deletion carried out, after conflicts, lost watches and restarts.
UnitConverges ==
    \A k \in Keys, i \in Items :
        <>[]Undisturbed(k) =>
            <>[](/\ unit[k].status.programmed
                 /\ unit[k].items[i].on = "allowed" => Programmed(k, i)
                 /\ unit[k].items[i].on # "deleting")

\* Server s holds an acknowledgement of k, knows it, and serves nothing.
Outlived(s, k) ==
    /\ ~IsServing(server[s].serving)
    /\ zone[k].acks[s].serial # 0
    /\ zone[k].uid = server[s].acknowledged[k]

\* A server gives up the acknowledgement of a snapshot it stopped serving, so
\* that a quarantined apex does not count as served until its acknowledgements
\* expire (watch.go, reportDue).
AcknowledgementGivenUp ==
    \A s \in Servers, k \in Keys : Outlived(s, k) ~> ~Outlived(s, k)
=============================================================================
