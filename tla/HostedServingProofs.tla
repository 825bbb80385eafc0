------------------------- MODULE HostedServingProofs -------------------------
(* Proofs about the hosted provider: its objects stay well typed, a server   *)
(* serves only the sole claimant of an apex and, for units that the          *)
(* controller reads from caches that do not lag, serials advance with the    *)
(* content and neither a reported deletion nor a reported publication is     *)
(* contradicted by what the counted servers answer.                          *)
EXTENDS HostedServing, FiniteSetTheorems, TLAPS

SeenType == [unit : Unit, zone : Zone, unitCurrent : BOOLEAN, zoneCurrent : BOOLEAN]
PassType == [status : Status, current : BOOLEAN, class : BOOLEAN]
BudgetType == [edits : 0..MaxEdits, flips : 0..MaxFlips, faults : 0..MaxFaults,
               snapshots : Nat, units : [Keys -> 0..MaxUnits]]

\* The parts of TypeOK that a write of one of the objects touches.
UnitTypes ==
    /\ unit \in [Keys -> Unit]
    /\ seen \in [Keys -> SeenType]
    /\ pass \in [Keys -> PassType]
ZoneTypes ==
    /\ zone \in [Keys -> Zone]
    /\ seen \in [Keys -> SeenType]

LEMMA TypeParts == TypeOK <=> /\ UnitTypes /\ ZoneTypes
                              /\ accepted \in BOOLEAN
                              /\ server \in [Servers -> Server]
                              /\ now \in 0..MaxTime
                              /\ budget \in BudgetType
BY DEF TypeOK, UnitTypes, ZoneTypes, SeenType, PassType, BudgetType

LEMMA Blanks ==
    /\ NoItem \in Item /\ Empty \in Content /\ NoAck \in Ack /\ NoAcks \in Acks
    /\ NoReceipt \in Receipt /\ NoStatus \in Status /\ NoUnit \in Unit
    /\ NoZone \in Zone /\ NotLoaded \in Loaded /\ Idle \in PassType
    /\ NotServing \in Serving /\ NewServer \in Server
<1> USE HostedAssumption
<1>0. 0 \in Versions /\ 0 \in Serials /\ 0 \in 0..MaxTime /\ 0 \in 0..MaxUnits /\ 0 \in Nat
  BY DEF Versions, Serials
<1>1. NoItem \in Item
  BY <1>0 DEF NoItem, Item
<1>2. Empty \in Content
  BY <1>0 DEF Empty, Content
<1>3. NoAck \in Ack
  BY <1>0, <1>2 DEF NoAck, Ack
<1>4. NoAcks \in Acks
  BY <1>3 DEF NoAcks, Acks
<1>5. NoReceipt \in Receipt
  BY <1>0, <1>1, <1>2 DEF NoReceipt, Receipt
<1>6. NoStatus \in Status
  <2>1. [i \in Items |-> NoReceipt] \in [Items -> Receipt]
    BY <1>5
  <2> QED BY <2>1, <1>0, <1>2, <1>4 DEF NoStatus, Status
<1>7. NoUnit \in Unit
  <2>1. [i \in Items |-> NoItem] \in [Items -> Item]
    BY <1>1
  <2> QED BY <2>1, <1>0, <1>6 DEF NoUnit, Unit
<1>8. NoZone \in Zone
  BY <1>0, <1>2, <1>4 DEF NoZone, Zone
<1>9. NotLoaded \in Loaded
  BY <1>0, <1>2 DEF NotLoaded, Loaded
<1>10. Idle \in PassType
  BY <1>6 DEF Idle, PassType
<1>11. NotServing \in Serving
  BY DEF Serving
<1>12. NewServer \in Server
  <2>1. [k \in Keys |-> NotLoaded] \in [Keys -> Loaded] /\ [k \in Keys |-> 0] \in [Keys -> Nat]
    BY <1>9, <1>0
  <2>2. <<>> \in Seq(Event)
    OBVIOUS
  <2> QED BY <2>1, <2>2, <1>11 DEF NewServer, Server
<1> QED BY <1>1, <1>2, <1>3, <1>4, <1>5, <1>6, <1>7, <1>8, <1>9, <1>10, <1>11, <1>12

LEMMA LoadableType == ASSUME NEW z \in Zone PROVE Loadable(z) \in Loaded
BY DEF Loadable, Zone, Loaded

LEMMA WriteUnitTypes ==
    ASSUME NEW k \in Keys, NEW u \in Unit, UnitTypes, WriteUnit(k, u)
    PROVE  UnitTypes'
<1>1. unit' \in [Keys -> Unit]
  BY DEF UnitTypes, WriteUnit
<1>2. pass' \in [Keys -> PassType]
  BY DEF UnitTypes, WriteUnit, PassType
<1>3. seen' \in [Keys -> SeenType]
  <2>1. SeenUnit(k, seen[k], u) \in SeenType
    BY DEF UnitTypes, SeenUnit, SeenType
  <2> QED BY <2>1 DEF UnitTypes, WriteUnit
<1> QED BY <1>1, <1>2, <1>3 DEF UnitTypes

LEMMA WriteZoneTypes ==
    ASSUME NEW k \in Keys, NEW z \in Zone, ZoneTypes, WriteZone(k, z)
    PROVE  ZoneTypes'
<1>1. zone' \in [Keys -> Zone]
  BY DEF ZoneTypes, WriteZone
<1>3. seen' \in [Keys -> SeenType]
  <2>1. SeenZone(k, seen[k], z) \in SeenType
    BY DEF ZoneTypes, SeenZone, SeenType
  <2> QED BY <2>1 DEF ZoneTypes, WriteZone
<1> QED BY <1>1, <1>3 DEF ZoneTypes

\* What core writes into a unit.
LEMMA UnitEdits ==
    ASSUME NEW u \in Unit
    PROVE  /\ \A uid \in 0..MaxUnits : [NoUnit EXCEPT !.uid = uid] \in Unit
           /\ [u EXCEPT !.deleting = TRUE] \in Unit
           /\ \A st \in Status : [u EXCEPT !.status = st] \in Unit
           /\ \A i \in Items, it \in Item : [u EXCEPT !.items[i] = it] \in Unit
<1>1. \A uid \in 0..MaxUnits : [NoUnit EXCEPT !.uid = uid] \in Unit
  BY Blanks DEF Unit
<1>2. [u EXCEPT !.deleting = TRUE] \in Unit
  BY DEF Unit
<1>3. \A st \in Status : [u EXCEPT !.status = st] \in Unit
  BY DEF Unit
<1>4. \A i \in Items, it \in Item : [u EXCEPT !.items[i] = it] \in Unit
  BY DEF Unit
<1> QED BY <1>1, <1>2, <1>3, <1>4

\* A change of content advances the serial; without one it stays, unless it is 0.
LEMMA SerialFacts ==
    ASSUME NEW previous \in Serials, NEW old, NEW content, now \in 0..MaxTime,
           ~Exhausted(previous, old, content)
    PROVE  LET serial == Serial(previous, old, content) IN
           /\ serial \in Serials
           /\ serial # 0
           /\ old # content => serial > previous
           /\ old = content /\ previous # 0 => serial = previous
BY HostedAssumption DEF Serial, Serials, Exhausted

LEMMA RenderedType ==
    ASSUME NEW items \in [Items -> Item]
    PROVE  Rendered(items) \in Content
BY HostedAssumption DEF Rendered, Content, Item, Versions

LEMMA FreshType == ASSUME NEW acks \in Acks PROVE FreshOnly(acks) \in Acks
BY Blanks DEF FreshOnly, Acks

LEMMA ReceiptType ==
    ASSUME NEW u \in Unit, NEW i \in Items, NEW serial \in Serials, NEW content \in Content,
           NEW acks
    PROVE  ReceiptOf(u, i, serial, content, acks) \in Receipt
<1> DEFINE r == ReceiptOf(u, i, serial, content, acks)
<1>1. Prepared(u, i) \in Receipt
  BY Blanks DEF Prepared, Unit, Status
<1>2. u.items[i] \in Item
  BY DEF Unit
<1>3. /\ r = [of |-> r.of, first |-> r.first, content |-> r.content,
              programmed |-> r.programmed, completed |-> r.completed]
      /\ r.of = u.items[i]
      /\ r.first \in {Prepared(u, i).first, serial}
      /\ r.content \in {Prepared(u, i).content, content}
      /\ r.programmed \in BOOLEAN /\ r.completed \in BOOLEAN
  BY DEF ReceiptOf
<1> HIDE DEF r
<1>4. r.first \in Serials /\ r.content \in Content
  BY <1>1, <1>3 DEF Receipt
<1>5. r \in Receipt
  BY <1>2, <1>3, <1>4 DEF Receipt
<1> QED
  BY <1>5 DEF r

\* What a reconcile reports.
LEMMA Reported ==
    ASSUME NEW u \in Unit
    PROVE  /\ Withheld(u) \in [Items -> Receipt]
           /\ SnapshotRejected(u) \in Status
           /\ Rejected(u) \in Status
           /\ \A serial \in Serials, content \in Content, acks \in Acks :
                 Results(u, serial, content, acks) \in Status
<1>1. Withheld(u) \in [Items -> Receipt]
  <2>1. \A i \in Items : Prepared(u, i) \in Receipt
    BY Blanks DEF Prepared, Unit, Status
  <2>2. \A i \in Items : [Prepared(u, i) EXCEPT !.programmed = FALSE, !.completed = FALSE] \in Receipt
    BY <2>1 DEF Receipt
  <2> QED BY <2>2 DEF Withheld
<1>2. SnapshotRejected(u) \in Status
  BY <1>1 DEF SnapshotRejected, Status, Unit
<1>3. Rejected(u) \in Status
  BY <1>1, Blanks DEF Rejected, Status
<1>4. ASSUME NEW serial \in Serials, NEW content \in Content, NEW acks \in Acks
      PROVE  Results(u, serial, content, acks) \in Status
  <2> DEFINE receipts == [i \in Items |->
                IF u.items[i].on = "absent" THEN NoReceipt
                ELSE ReceiptOf(u, i, serial, content, acks)]
             ok == ~u.deleting /\ SnapshotServed(serial, content, acks)
  <2>1. receipts \in [Items -> Receipt]
    <3>1. \A i \in Items : receipts[i] \in Receipt
      BY ReceiptType, Blanks
    <3> QED BY <3>1
  <2>2. ok \in BOOLEAN
    BY DEF SnapshotServed
  <2>3. FreshOnly(acks) \in Acks
    BY FreshType
  <2>4. Results(u, serial, content, acks)
           = [programmed |-> ok, serial |-> serial, content |-> content,
              servers |-> FreshOnly(acks), receipts |-> receipts]
    BY DEF Results
  <2> HIDE DEF receipts, ok
  <2> QED BY <2>1, <2>2, <2>3, <2>4 DEF Status
<1> QED BY <1>1, <1>2, <1>3, <1>4

LEMMA SendStatusTypes ==
    ASSUME NEW k \in Keys, NEW u, NEW st \in Status, TypeOK, SendStatus(k, u, st)
    PROVE  pass' \in [Keys -> PassType]
<1>1. [status |-> st, current |-> seen[k].unitCurrent, class |-> accepted] \in PassType
  BY DEF TypeOK, PassType
<1> QED
  BY <1>1, Blanks DEF SendStatus, TypeOK, PassType

LEMMA DeleteSnapshotTypes ==
    ASSUME NEW k \in Keys, ZoneTypes, DeleteSnapshot(k)
    PROVE  ZoneTypes'
<1>1. CASE zone[k].uid = 0
  BY <1>1 DEF DeleteSnapshot, ZoneTypes
<1>2. CASE zone[k].uid # 0
  BY <1>2, WriteZoneTypes, Blanks DEF DeleteSnapshot
<1> QED BY <1>1, <1>2

\* MaxUnits bounds every key's units.
LEMMA UnitsLeft ==
    ASSUME NEW k \in Keys, TypeOK, CreateUnit(k)
    PROVE  budget.units[k] + 1 \in 0..MaxUnits
<1> DEFINE P == {p \in Keys \X (1..MaxUnits) : p[2] <= budget.units[p[1]]}
           Q == {k} \X (1..MaxUnits)
<1>0. MaxUnits \in Nat /\ budget.units \in [Keys -> 0..MaxUnits]
  BY HostedAssumption DEF TypeOK
<1>1. SUFFICES ASSUME budget.units[k] = MaxUnits
               PROVE  FALSE
  BY <1>0
<1>2. IsFiniteSet(1..MaxUnits) /\ Cardinality(1..MaxUnits) = MaxUnits
  BY <1>0, FS_Interval
<1>3. Cardinality(Q) = 1 * MaxUnits
  <2>1. IsFiniteSet({k}) /\ Cardinality({k}) = 1
    BY FS_Singleton
  <2>2. Cardinality(Q) = Cardinality({k}) * Cardinality(1..MaxUnits)
    BY <1>2, <2>1, FS_Product
  <2> QED BY <1>2, <2>1, <2>2
<1>4. IsFiniteSet(P)
  <2>1. IsFiniteSet(Keys \X (1..MaxUnits))
    BY <1>2, FS_Product, HostedAssumption
  <2> QED BY <2>1, FS_Subset
<1>5. Q \subseteq P
  BY <1>1, <1>0
<1>6. Cardinality(Q) <= Cardinality(P)
  BY <1>4, <1>5, FS_Subset
<1>7. Cardinality(P) < MaxUnits
  BY DEF CreateUnit
<1>8. Cardinality(P) \in Nat
  BY <1>4, FS_CardinalityType
<1> QED BY <1>0, <1>3, <1>6, <1>7, <1>8

LEMMA ServerTypes ==
    ASSUME NEW s \in Servers, TypeOK, ServerStep(s)
    PROVE  server' \in [Servers -> Server]
<1> DEFINE v == server[s]
<1>0. /\ v \in Server /\ server \in [Servers -> Server]
      /\ v.store \in [Keys -> Loaded] /\ v.queue \in Seq(Event)
      /\ v.serving \in Serving /\ v.acknowledged \in [Keys -> Nat]
  BY DEF TypeOK, Server
<1>1. CASE HandleEvent(s)
  <2>1. PICK x : server' = [server EXCEPT ![s].queue = Tail(@), ![s].serving = ReconcileApex(x, v.store)]
                 /\ v.queue # <<>>
    BY <1>1 DEF HandleEvent
  <2>2. ReconcileApex(x, v.store) \in Serving
    <3> DEFINE c == Contenders(v.store)
    <3>1. CASE Cardinality(c) # 1
      BY <3>1, Blanks DEF ReconcileApex
    <3>2. CASE Cardinality(c) = 1
      <4> DEFINE j == CHOOSE j \in c : TRUE
      <4>1. PICK m : c = {m}
        <5>1. IsFiniteSet(c)
          BY HostedAssumption, FS_Subset DEF Contenders
        <5> QED BY <3>2, <5>1, FS_Singleton
      <4>2. j \in c
        BY <4>1
      <4>3. j \in Keys
        BY <4>2 DEF Contenders
      <4>4. ReconcileApex(x, v.store) = Replace(x, j, v.store)
        BY <3>2 DEF ReconcileApex
      <4> HIDE DEF j
      <4> QED BY <4>3, <4>4, <1>0, Blanks DEF Replace, Serving
    <3> QED BY <3>1, <3>2
  <2>3. Tail(v.queue) \in Seq(Event)
    BY <2>1, <1>0
  <2> HIDE DEF v
  <2>4. [v EXCEPT !.queue = Tail(@), !.serving = ReconcileApex(x, v.store)] \in Server
    BY <2>2, <2>3, <1>0 DEF Server
  <2> QED BY <2>1, <2>4, <1>0 DEF v
<1>2. ASSUME NEW k \in Keys, Observe(s, k) PROVE server' \in [Servers -> Server]
  <2> DEFINE e == [key |-> k, gone |-> zone[k].uid = 0, uid |-> v.store[k].uid]
  <2>1. server' = [server EXCEPT ![s].store[k] = Loadable(zone[k]), ![s].queue = Append(@, e)]
    BY <1>2 DEF Observe
  <2>2. e \in Event
    BY <1>0 DEF Event, Loaded
  <2>6. zone[k] \in Zone
    BY DEF TypeOK
  <2>3. Append(v.queue, e) \in Seq(Event)
    BY <2>2, <1>0
  <2>4. Loadable(zone[k]) \in Loaded
    BY <2>6, LoadableType
  <2> HIDE DEF v, e
  <2>5. [v EXCEPT !.store[k] = Loadable(zone[k]), !.queue = Append(@, e)] \in Server
    BY <2>3, <2>4, <1>0 DEF Server
  <2> QED BY <2>1, <2>5, <1>0 DEF v
<1>3. CASE Acknowledge(s)
  <2> DEFINE j == v.serving.key
  <2>1. server' = [server EXCEPT ![s].acknowledged[j] = v.serving.loaded.uid] /\ IsServing(v.serving)
    BY <1>3 DEF Acknowledge
  <2>2. j \in Keys /\ v.serving.loaded.uid \in Nat
    BY <2>1, <1>0 DEF IsServing, Serving, NotServing, NotLoaded, Loaded
  <2> HIDE DEF v, j
  <2>3. [v EXCEPT !.acknowledged[j] = v.serving.loaded.uid] \in Server
    BY <2>2, <1>0 DEF Server
  <2> QED BY <2>1, <2>3, <1>0 DEF v
<1>4. ASSUME NEW k \in Keys, Relinquish(s, k) PROVE server' \in [Servers -> Server]
  <2>1. server' = [server EXCEPT ![s].acknowledged[k] = 0]
    BY <1>4 DEF Relinquish
  <2> HIDE DEF v
  <2>2. [v EXCEPT !.acknowledged[k] = 0] \in Server
    BY <1>0 DEF Server
  <2> QED BY <2>1, <2>2, <1>0 DEF v
<1> QED BY <1>1, <1>2, <1>3, <1>4 DEF ServerStep

LEMMA AckTypes ==
    ASSUME NEW s \in Servers, TypeOK
    PROVE  /\ \A k \in Keys : Relinquished(s, k) \in Zone
           /\ Acknowledge(s) => ZoneTypes'
           /\ \A k \in Keys : Relinquish(s, k) => ZoneTypes'
<1>0. ZoneTypes
  BY TypeParts
<1>1. ASSUME NEW k \in Keys PROVE Relinquished(s, k) \in Zone
  BY Blanks DEF Relinquished, TypeOK, Zone, Acks
<1>2. ASSUME Acknowledge(s) PROVE ZoneTypes'
  <2> DEFINE x == server[s].serving
             z == [zone[x.key] EXCEPT !.acks[s] = AckOf(x)]
  <2>1. x.key \in Keys /\ x.loaded \in Loaded
    BY <1>2, Blanks DEF Acknowledge, TypeOK, Server, IsServing, Serving, NotServing, NotLoaded, Loaded
  <2>2. AckOf(x) \in Ack
    BY <2>1 DEF AckOf, Ack, Loaded, TypeOK
  <2>3. z \in Zone
    <3>1. \A w \in Zone, a \in Ack : [w EXCEPT !.acks[s] = a] \in Zone
      BY DEF Zone, Acks
    <3>2. zone[x.key] \in Zone
      BY <2>1 DEF TypeOK
    <3> QED BY <2>2, <3>1, <3>2
  <2>4. WriteZone(x.key, z)
    BY <1>2 DEF Acknowledge
  <2> QED BY <1>0, <2>1, <2>3, <2>4, WriteZoneTypes
<1>3. ASSUME NEW k \in Keys, Relinquish(s, k) PROVE ZoneTypes'
  BY <1>0, <1>1, <1>3, WriteZoneTypes DEF Relinquish
<1> QED BY <1>1, <1>2, <1>3

LEMMA RestartTypes ==
    ASSUME NEW s \in Servers, NEW graceful \in BOOLEAN, TypeOK, Restart(s, graceful)
    PROVE  server' \in [Servers -> Server] /\ ZoneTypes'
<1>1. server' \in [Servers -> Server]
  BY Blanks DEF TypeOK, Restart
<1>2. CASE graceful
  <2>1. zone' = [k \in Keys |-> Relinquished(s, k)]
    BY <1>2 DEF Restart
  <2>2. zone' \in [Keys -> Zone]
    BY <2>1, AckTypes
  <2>3. \A k \in Keys : SeenZone(k, seen[k], zone'[k]) \in SeenType
    BY <2>2 DEF TypeOK, SeenZone, SeenType
  <2>4. seen' = [k \in Keys |-> IF zone'[k] = zone[k] THEN seen[k]
                                ELSE SeenZone(k, seen[k], zone'[k])]
    BY <1>2 DEF Restart
  <2>5. seen' \in [Keys -> SeenType]
    BY <2>3, <2>4 DEF TypeOK, SeenType
  <2> QED BY <1>1, <2>2, <2>5 DEF ZoneTypes
<1>3. CASE ~graceful
  BY <1>1, <1>3, TypeParts DEF Restart, ZoneTypes
<1> QED BY <1>2, <1>3

LEMMA CoreTypes ==
    ASSUME NEW k \in Keys, TypeOK, Core(k)
    PROVE  UnitTypes' /\ budget' \in BudgetType
<1>0. UnitTypes /\ unit[k] \in Unit /\ budget \in BudgetType
  BY TypeParts DEF TypeOK
<1>1. CASE CreateUnit(k)
  <2>1. budget.units[k] + 1 \in 0..MaxUnits
    BY <1>1, UnitsLeft
  <2>2. [NoUnit EXCEPT !.uid = budget.units[k] + 1] \in Unit
    BY <2>1, UnitEdits, Blanks
  <2> QED BY <1>0, <1>1, <2>1, <2>2, WriteUnitTypes DEF CreateUnit, BudgetType
<1>2. CASE DeleteUnit(k)
  <2>1. NoUnit \in Unit /\ [unit[k] EXCEPT !.deleting = TRUE] \in Unit
    BY <1>0, UnitEdits, Blanks
  <2>2. UnitTypes'
    BY <1>0, <1>2, <2>1, WriteUnitTypes DEF DeleteUnit
  <2>3. \/ budget' = budget
        \/ budget.faults < MaxFaults /\ budget' = [budget EXCEPT !.faults = @ + 1]
    BY <1>2 DEF DeleteUnit
  <2>4. budget' \in BudgetType
    BY <1>0, <2>3, HostedAssumption DEF BudgetType
  <2> QED BY <2>2, <2>4
<1>3. ASSUME NEW i \in Items, EditItem(k, i) PROVE UnitTypes' /\ budget' \in BudgetType
  <2> DEFINE it == [on |-> "allowed", version |-> budget.edits + 1]
  <2>1. it \in Item
    BY <1>0, <1>3, HostedAssumption DEF EditItem, BudgetType, Item, Versions
  <2>2. [unit[k] EXCEPT !.items[i] = it] \in Unit
    BY <1>0, <2>1, UnitEdits
  <2>3. UnitTypes'
    BY <1>0, <1>3, <2>2, WriteUnitTypes DEF EditItem
  <2>4. budget' \in BudgetType
    BY <1>0, <1>3, HostedAssumption DEF EditItem, BudgetType
  <2> QED BY <2>3, <2>4
<1>4. ASSUME NEW i \in Items, ChangePolicy(k, i) PROVE UnitTypes' /\ budget' \in BudgetType
  <2>1. [unit[k] EXCEPT !.items[i].on = IF @ = "denied" THEN "allowed" ELSE "denied"] \in Unit
    BY <1>0 DEF Unit, Item
  <2>2. UnitTypes'
    BY <1>0, <1>4, <2>1, WriteUnitTypes DEF ChangePolicy
  <2>3. budget' \in BudgetType
    BY <1>0, <1>4, HostedAssumption DEF ChangePolicy, BudgetType
  <2> QED BY <2>2, <2>3
<1>5. ASSUME NEW i \in Items, RequestDeletion(k, i) PROVE UnitTypes' /\ budget' \in BudgetType
  <2>1. [unit[k] EXCEPT !.items[i].on = "deleting"] \in Unit
    BY <1>0 DEF Unit, Item
  <2> QED BY <1>0, <1>5, <2>1, WriteUnitTypes DEF RequestDeletion
<1>6. ASSUME NEW i \in Items, DropItem(k, i) PROVE UnitTypes' /\ budget' \in BudgetType
  <2>1. [unit[k] EXCEPT !.items[i] = NoItem] \in Unit
    BY <1>0, UnitEdits, Blanks
  <2> QED BY <1>0, <1>6, <2>1, WriteUnitTypes DEF DropItem
<1> QED BY <1>1, <1>2, <1>3, <1>4, <1>5, <1>6 DEF Core

\* The serial and content that a snapshot of u is rendered from.
Previous(z, u) == IF z.uid # 0 THEN z.serial ELSE u.status.serial
Old(z, u) == IF z.uid # 0 THEN z.content ELSE u.status.content

LEMMA ReconcileTypes ==
    ASSUME NEW k \in Keys, TypeOK, Reconcile(k)
    PROVE  /\ ZoneTypes' /\ pass' \in [Keys -> PassType] /\ budget' \in BudgetType
<1> DEFINE u == seen[k].unit
           z == seen[k].zone
           content == Rendered(u.items)
<1>0. /\ ZoneTypes /\ u \in Unit /\ z \in Zone /\ zone[k] \in Zone /\ budget \in BudgetType
      /\ pass \in [Keys -> PassType] /\ now \in 0..MaxTime
      /\ content \in Content
  <2>1. u \in Unit /\ z \in Zone
    BY TypeParts DEF ZoneTypes, SeenType
  <2>2. content \in Content
    BY <2>1, RenderedType DEF Unit
  <2> QED BY <2>1, <2>2, TypeParts DEF TypeOK, UnitTypes
<1>r. SnapshotRejected(u) \in Status /\ Rejected(u) \in Status
  BY <1>0, Reported
<1>1. CASE ReconcileAbsent(k)
  BY <1>0, <1>1, DeleteSnapshotTypes DEF ReconcileAbsent
<1>2. CASE ReconcileShadowed(k)
  <2>1. SendStatus(k, u, SnapshotRejected(u)) /\ DeleteSnapshot(k) /\ budget' = budget
    BY <1>2 DEF ReconcileShadowed
  <2> QED BY <1>0, <1>r, <2>1, DeleteSnapshotTypes, SendStatusTypes
<1>3. CASE ReconcileDeleting(k)
  <2> DEFINE previous == u.status.serial
             old == u.status.content
             st == IF ~accepted THEN Rejected(u)
                   ELSE IF Exhausted(previous, old, content) THEN SnapshotRejected(u)
                   ELSE Results(u, Serial(previous, old, content), content, NoAcks)
  <2>1. ZoneTypes' /\ budget' = budget
    BY <1>0, <1>3, DeleteSnapshotTypes DEF ReconcileDeleting, ZoneTypes
  <2>2. SendStatus(k, u, st)
    BY <1>3 DEF ReconcileDeleting
  <2>3. st \in Status
    <3>1. previous \in Serials
      BY <1>0 DEF Unit, Status
    <3>2. ~Exhausted(previous, old, content) => Serial(previous, old, content) \in Serials
      BY <1>0, <3>1, SerialFacts
    <3> QED BY <1>0, <1>r, <3>2, Reported, Blanks
  <2> HIDE DEF st
  <2> QED BY <1>0, <2>1, <2>2, <2>3, SendStatusTypes
<1>4. CASE ReconcileRejected(k)
  <2>1. SendStatus(k, u, Rejected(u)) /\ UNCHANGED <<zone, seen, budget>>
    BY <1>4 DEF ReconcileRejected
  <2> QED BY <1>0, <1>r, <2>1, SendStatusTypes DEF ZoneTypes
<1>5. CASE ReconcileZone(k)
  <2> DEFINE previous == Previous(z, u)
             old == Old(z, u)
             serial == Serial(previous, old, content)
             new == [uid |-> IF zone[k].uid # 0 THEN zone[k].uid ELSE budget.snapshots + 1,
                     owner |-> u.uid, serial |-> serial, content |-> content,
                     acks |-> zone[k].acks]
  <2>1. previous \in Serials
    BY <1>0 DEF Previous, Zone, Unit, Status
  <2>2. \/ SendStatus(k, u, SnapshotRejected(u)) /\ UNCHANGED <<zone, seen, budget>>
        \/ /\ ~Exhausted(previous, old, content)
           /\ SendStatus(k, u, Results(u, serial, content, z.acks))
           /\ \/ UNCHANGED <<zone, seen, budget>>
              \/ /\ WriteZone(k, new)
                 /\ budget' = [budget EXCEPT !.snapshots = IF zone[k].uid # 0 THEN @ ELSE @ + 1]
    BY <1>5 DEF ReconcileZone, Previous, Old
  <2> HIDE DEF previous, old
  <2>3. CASE SendStatus(k, u, SnapshotRejected(u)) /\ UNCHANGED <<zone, seen, budget>>
    BY <1>0, <1>r, <2>3, SendStatusTypes DEF ZoneTypes
  <2>4. ASSUME ~Exhausted(previous, old, content),
               SendStatus(k, u, Results(u, serial, content, z.acks))
        PROVE  pass' \in [Keys -> PassType] /\ serial \in Serials
    <3>1. serial \in Serials
      BY <1>0, <2>1, <2>4, SerialFacts
    <3>2. z.acks \in Acks
      BY <1>0 DEF Zone
    <3>3. Results(u, serial, content, z.acks) \in Status
      BY <1>0, <3>1, <3>2, Reported
    <3> QED BY <2>4, <3>1, <3>3, SendStatusTypes
  <2>5. ASSUME serial \in Serials, WriteZone(k, new) PROVE ZoneTypes'
    <3>1. new \in Zone
      BY <1>0, <2>5 DEF Zone, Unit, BudgetType
    <3> QED BY <1>0, <2>5, <3>1, WriteZoneTypes
  <2>6. ASSUME budget' = [budget EXCEPT !.snapshots = IF zone[k].uid # 0 THEN @ ELSE @ + 1]
        PROVE  budget' \in BudgetType
    BY <1>0, <2>6 DEF BudgetType
  <2> QED BY <1>0, <2>2, <2>3, <2>4, <2>5, <2>6 DEF ZoneTypes
<1> QED BY <1>1, <1>2, <1>3, <1>4, <1>5 DEF Reconcile

LEMMA StatusTypes ==
    ASSUME NEW k \in Keys, TypeOK, PatchStatus(k) \/ DropStatus(k) \/ Sync(k)
    PROVE  UnitTypes' /\ ZoneTypes'
<1>0. UnitTypes /\ ZoneTypes /\ unit[k] \in Unit /\ pass[k].status \in Status
  BY TypeParts DEF TypeOK
<1>1. CASE PatchStatus(k)
  <2> DEFINE u == [unit[k] EXCEPT !.status = pass[k].status]
  <2>1. u \in Unit
    BY <1>0, UnitEdits
  <2>2. unit' = [unit EXCEPT ![k] = u]
    BY <1>0, <1>1 DEF PatchStatus, UnitTypes
  <2>3. SeenUnit(k, seen[k], u) \in SeenType
    BY <1>0, <2>1 DEF UnitTypes, SeenUnit, SeenType
  <2>4. seen' \in [Keys -> SeenType]
    BY <1>0, <1>1, <2>3 DEF PatchStatus, UnitTypes
  <2>5. pass' \in [Keys -> PassType]
    BY <1>0, <1>1, Blanks DEF PatchStatus, UnitTypes
  <2> QED BY <1>0, <1>1, <2>1, <2>2, <2>4, <2>5 DEF PatchStatus, UnitTypes, ZoneTypes
<1>2. CASE DropStatus(k)
  BY <1>0, <1>2, Blanks DEF DropStatus, UnitTypes, ZoneTypes
<1>3. CASE Sync(k)
  <2>1. /\ [seen[k] EXCEPT !.unit = unit[k], !.unitCurrent = TRUE] \in SeenType
        /\ [seen[k] EXCEPT !.zone = zone[k], !.zoneCurrent = TRUE] \in SeenType
    BY <1>0 DEF UnitTypes, ZoneTypes, SeenType
  <2>2. \/ seen' = [seen EXCEPT ![k] = [seen[k] EXCEPT !.unit = unit[k], !.unitCurrent = TRUE]]
        \/ seen' = [seen EXCEPT ![k] = [seen[k] EXCEPT !.zone = zone[k], !.zoneCurrent = TRUE]]
    BY <1>0, <1>3 DEF Sync, UnitTypes, SeenType
  <2>3. seen' \in [Keys -> SeenType]
    BY <1>0, <2>1, <2>2 DEF UnitTypes
  <2> QED BY <1>0, <1>3, <2>3 DEF Sync, UnitTypes, ZoneTypes
<1> QED BY <1>1, <1>2, <1>3

LEMMA TypeInit == Init => TypeOK
<1> SUFFICES ASSUME Init PROVE TypeOK
  OBVIOUS
<1> USE HostedAssumption, Blanks
<1>1. unit \in [Keys -> Unit] /\ zone \in [Keys -> Zone] /\ pass \in [Keys -> PassType]
  BY DEF Init
<1>2. seen \in [Keys -> SeenType]
  BY DEF Init, SeenType
<1>3. server \in [Servers -> Server] /\ accepted \in BOOLEAN
  BY DEF Init
<1>4. now \in 0..MaxTime
  BY DEF Init
<1>5. budget \in BudgetType
  BY DEF Init, BudgetType
<1> QED BY <1>1, <1>2, <1>3, <1>4, <1>5, TypeParts DEF UnitTypes, ZoneTypes

LEMMA TypeNext == TypeOK /\ [Next]_vars => TypeOK'
<1> SUFFICES ASSUME TypeOK, [Next]_vars PROVE TypeOK'
  OBVIOUS
<1> DEFINE Typed == /\ UnitTypes' /\ ZoneTypes' /\ accepted' \in BOOLEAN
                    /\ server' \in [Servers -> Server]
                    /\ now' \in 0..MaxTime /\ budget' \in BudgetType
<1>0. /\ UnitTypes /\ ZoneTypes /\ accepted \in BOOLEAN /\ server \in [Servers -> Server]
      /\ now \in 0..MaxTime /\ budget \in BudgetType
  BY TypeParts
<1>1. SUFFICES Typed
  BY DEF TypeOK, UnitTypes, ZoneTypes, SeenType, PassType, BudgetType
<1>2. ASSUME NEW k \in Keys, Core(k) PROVE Typed
  <2>1. UNCHANGED <<zone, accepted, server, now>>
    BY <1>2 DEF Core, CreateUnit, DeleteUnit, EditItem, ChangePolicy, RequestDeletion, DropItem
  <2>2. UnitTypes' /\ budget' \in BudgetType
    BY <1>2, CoreTypes
  <2> QED BY <1>0, <2>1, <2>2 DEF UnitTypes, ZoneTypes
<1>3. ASSUME NEW k \in Keys, Reconcile(k) PROVE Typed
  <2>1. UNCHANGED <<unit, accepted, server, now>>
    BY <1>3 DEF Reconcile, ReconcileAbsent, ReconcileShadowed, ReconcileDeleting,
                ReconcileRejected, ReconcileZone
  <2>2. ZoneTypes' /\ pass' \in [Keys -> PassType] /\ budget' \in BudgetType
    BY <1>3, ReconcileTypes
  <2> QED BY <1>0, <2>1, <2>2 DEF UnitTypes, ZoneTypes
<1>4. ASSUME NEW k \in Keys, PatchStatus(k) \/ DropStatus(k) \/ Sync(k) PROVE Typed
  <2>1. UNCHANGED <<accepted, server, now, budget>>
    BY <1>4 DEF PatchStatus, DropStatus, Sync
  <2> QED BY <1>0, <1>4, <2>1, StatusTypes
<1>5. ASSUME NEW s \in Servers, ServerStep(s) PROVE Typed
  <2>1. UNCHANGED <<unit, accepted, pass, now, budget>>
    BY <1>5 DEF ServerStep, HandleEvent, Observe, Acknowledge, Relinquish
  <2>2. server' \in [Servers -> Server]
    BY <1>5, ServerTypes
  <2>3. ZoneTypes'
    <3>1. CASE HandleEvent(s) \/ \E k \in Keys : Observe(s, k)
      BY <1>0, <3>1 DEF HandleEvent, Observe, ZoneTypes
    <3>2. CASE Acknowledge(s) \/ \E k \in Keys : Relinquish(s, k)
      BY <3>2, AckTypes
    <3> QED BY <1>5, <3>1, <3>2 DEF ServerStep
  <2> QED BY <1>0, <2>1, <2>2, <2>3 DEF UnitTypes, ZoneTypes
<1>6. ASSUME NEW s \in Servers, Connect(s) \/ Disconnect(s) PROVE Typed
  <2>1. UNCHANGED <<unit, zone, seen, accepted, pass, now>>
    BY <1>6 DEF Connect, Disconnect
  <2>2. server' \in [Servers -> Server]
    BY <1>0, <1>6 DEF Connect, Disconnect, Server
  <2>3. budget' \in BudgetType
    <3>1. \/ budget' = budget
          \/ budget.faults < MaxFaults /\ budget' = [budget EXCEPT !.faults = @ + 1]
      BY <1>6 DEF Connect, Disconnect
    <3> QED BY <1>0, <3>1, HostedAssumption DEF BudgetType
  <2> QED BY <1>0, <2>1, <2>2, <2>3 DEF UnitTypes, ZoneTypes
<1>7. ASSUME NEW s \in Servers, NEW graceful \in BOOLEAN, Restart(s, graceful) PROVE Typed
  <2>1. UNCHANGED <<unit, accepted, pass, now>>
    BY <1>7 DEF Restart
  <2>2. server' \in [Servers -> Server] /\ ZoneTypes'
    BY <1>7, RestartTypes
  <2>3. budget' \in BudgetType
    <3>1. budget.faults < MaxFaults /\ budget' = [budget EXCEPT !.faults = @ + 1]
      BY <1>7 DEF Restart
    <3> QED BY <1>0, <3>1, HostedAssumption DEF BudgetType
  <2> QED BY <1>0, <2>1, <2>2, <2>3 DEF UnitTypes, ZoneTypes
<1>8. CASE ChangeClass
  <2>1. budget' \in BudgetType
    <3>1. budget.faults < MaxFaults /\ budget' = [budget EXCEPT !.faults = @ + 1]
      BY <1>8 DEF ChangeClass
    <3> QED BY <1>0, <3>1, HostedAssumption DEF BudgetType
  <2> QED BY <1>0, <1>8, <2>1 DEF ChangeClass, UnitTypes, ZoneTypes
<1>9. CASE Tick
  <2>1. now' \in 0..MaxTime
    BY <1>0, <1>9, HostedAssumption DEF Tick
  <2> QED BY <1>0, <1>9, <2>1 DEF Tick, UnitTypes, ZoneTypes
<1>10. CASE UNCHANGED vars
  BY <1>0, <1>10 DEF vars, UnitTypes, ZoneTypes
<1> QED
  <2> HIDE DEF Typed
  <2> QED BY <1>2, <1>3, <1>4, <1>5, <1>6, <1>7, <1>8, <1>9, <1>10 DEF Next

\* Every object, cache, patch in flight and server keeps its type, whatever
\* fails, restarts or lags; serials stay within their 32 bits (render.go).
THEOREM TypeCorrect == Spec => []TypeOK
<1>1. Init => TypeOK
  BY TypeInit
<1>2. TypeOK /\ [Next]_vars => TypeOK'
  BY TypeNext
<1> QED BY <1>1, <1>2, PTL DEF Spec

-----------------------------------------------------------------------------
(* A server that has handled its events serves the sole contender.         *)

\* An event about key m waits in the queue of server s.
Pending(s, m) == \E n \in DOMAIN server[s].queue : server[s].queue[n].key = m

\* What s serves agrees with its store but for the keys with pending events:
\* their events will have s look again.
AgreesButForPending(s) ==
    LET x == server[s].serving IN
    IsServing(x) =>
        \A m \in Keys : ~Pending(s, m) =>
            IF m = x.key THEN server[s].store[m] = x.loaded ELSE server[s].store[m].uid = 0

\* SoleContenderServed for one server.
ServesSole(s) ==
    LET x == server[s].serving
        c == Contenders(server[s].store)
    IN  server[s].queue = <<>> =>
          /\ IsServing(x) => c = {x.key}
          /\ \A k \in c : c = {k} => x.loaded = server[s].store[k]

ServedInv == \A s \in Servers : AgreesButForPending(s) /\ ServesSole(s)

\* reconcileApex serves the sole contender, unless another key is being served.
LEMMA ApexFacts ==
    ASSUME NEW store \in [Keys -> Loaded], NEW x
    PROVE  LET y == ReconcileApex(x, store)
               c == Contenders(store)
           IN  /\ IsServing(y) => c = {y.key} /\ y.key \in Keys /\ y.loaded = store[y.key]
               /\ \A k \in Keys : c = {k} /\ (~IsServing(x) \/ x.key = k)
                                     => y = [key |-> k, loaded |-> store[k]]
<1> DEFINE y == ReconcileApex(x, store)
           c == Contenders(store)
           j == CHOOSE j \in c : TRUE
<1>1. ~IsServing(NotServing)
  BY DEF IsServing, NotServing, NotLoaded
<1>2. ASSUME NEW k \in Keys, c = {k}
      PROVE  j = k /\ y = Replace(x, k, store)
  <2>1. Cardinality(c) = 1
    BY <1>2, FS_Singleton
  <2>2. j = k
    BY <1>2
  <2>3. y = Replace(x, j, store)
    BY <2>1 DEF ReconcileApex
  <2> QED BY <2>2, <2>3
<1>3. ASSUME IsServing(y) PROVE \E k \in Keys : c = {k}
  <2>1. Cardinality(c) = 1
    BY <1>1, <1>3 DEF ReconcileApex
  <2>2. IsFiniteSet(c) /\ c \subseteq Keys
    BY HostedAssumption, FS_Subset DEF Contenders
  <2>3. PICK k : c = {k}
    BY <2>1, <2>2, FS_Singleton
  <2> QED BY <2>2, <2>3
<1>4. ASSUME IsServing(y)
      PROVE  c = {y.key} /\ y.key \in Keys /\ y.loaded = store[y.key]
  <2>1. PICK k \in Keys : c = {k}
    BY <1>3, <1>4
  <2>2. y = Replace(x, k, store)
    BY <1>2, <2>1
  <2>3. y = [key |-> k, loaded |-> store[k]]
    BY <1>1, <1>4, <2>2 DEF Replace
  <2> HIDE DEF y, c
  <2> QED BY <2>1, <2>3
<1>5. ASSUME NEW k \in Keys, c = {k}, ~IsServing(x) \/ x.key = k
      PROVE  y = [key |-> k, loaded |-> store[k]]
  BY <1>2, <1>5 DEF Replace
<1> QED BY <1>4, <1>5

LEMMA HandledServes ==
    ASSUME NEW s \in Servers, TypeOK, ServedInv, HandleEvent(s)
    PROVE  (AgreesButForPending(s) /\ ServesSole(s))'
<1> DEFINE v == server[s]
           q == v.queue
           c == Contenders(v.store)
<1>0. /\ v \in Server /\ v.store \in [Keys -> Loaded] /\ q \in Seq(Event)
      /\ v.serving \in Serving /\ server \in [Servers -> Server]
  BY DEF TypeOK, Server
<1>1. PICK x : /\ x \in {v.serving, NotServing}
               /\ server' = [server EXCEPT ![s].queue = Tail(@), ![s].serving = ReconcileApex(x, v.store)]
               /\ q # <<>>
  BY DEF HandleEvent, Remove
<1> DEFINE y == ReconcileApex(x, v.store)
<1>2. /\ server'[s].queue = Tail(q) /\ server'[s].serving = y /\ server'[s].store = v.store
  BY <1>0, <1>1 DEF Server
<1>3. IsServing(y) => c = {y.key} /\ y.key \in Keys /\ y.loaded = v.store[y.key]
  BY <1>0, ApexFacts
<1>4. \A k \in Keys : c = {k} /\ (~IsServing(x) \/ x.key = k)
                          => y = [key |-> k, loaded |-> v.store[k]]
  BY <1>0, ApexFacts
<1>5. AgreesButForPending(s)'
  <2>1. SUFFICES ASSUME IsServing(y), NEW m \in Keys
                 PROVE  IF m = y.key THEN v.store[m] = y.loaded ELSE v.store[m].uid = 0
    BY <1>2 DEF AgreesButForPending
  <2> QED BY <1>3, <2>1 DEF Contenders
<1>6. ServesSole(s)'
  <2>1. SUFFICES ASSUME Tail(q) = <<>>, NEW k \in c, c = {k}
                 PROVE  y.loaded = v.store[k]
    BY <1>2, <1>3 DEF ServesSole
  <2>2. k \in Keys /\ v.store[k].uid # 0
    BY <2>1 DEF Contenders
  <2>3. ~IsServing(x) \/ x.key = k => y = [key |-> k, loaded |-> v.store[k]]
    BY <1>4, <2>1, <2>2
  <2>4. SUFFICES ASSUME IsServing(x), x.key # k PROVE FALSE
    <3> HIDE DEF y
    <3> QED BY <2>3
  <2>5. x = v.serving /\ x.key \in Keys
    BY <1>0, <1>1, <2>4 DEF IsServing, NotServing, NotLoaded, Serving
  <2>6. v.store[x.key].uid = 0 /\ x.loaded.uid # 0
    BY <2>1, <2>4, <2>5 DEF Contenders, IsServing
  <2>7. Pending(s, x.key) /\ Pending(s, k)
    BY <2>2, <2>4, <2>5, <2>6 DEF ServedInv, AgreesButForPending
  <2>8. PICK n1 \in DOMAIN q, n2 \in DOMAIN q : q[n1].key = x.key /\ q[n2].key = k
    BY <2>7 DEF Pending
  <2>9. n1 # n2 /\ Len(q) = 1
    <3>1. Len(Tail(q)) = Len(q) - 1
      BY <1>0, <1>1
    <3>2. Len(q) \in Nat
      BY <1>0
    <3>3. Len(<<>>) = 0
      OBVIOUS
    <3>4. Len(Tail(q)) = 0
      BY <2>1, <3>3
    <3> QED BY <2>4, <2>8, <3>1, <3>2, <3>4
  <2> QED BY <1>0, <2>8, <2>9
<1> QED BY <1>5, <1>6

LEMMA ObservedServes ==
    ASSUME NEW s \in Servers, NEW k \in Keys, TypeOK, ServedInv, Observe(s, k)
    PROVE  (AgreesButForPending(s) /\ ServesSole(s))'
<1> DEFINE v == server[s]
           q == v.queue
           e == [key |-> k, gone |-> zone[k].uid = 0, uid |-> v.store[k].uid]
<1>0. /\ v \in Server /\ v.store \in [Keys -> Loaded] /\ q \in Seq(Event)
      /\ v.serving \in Serving /\ server \in [Servers -> Server]
  BY DEF TypeOK, Server
<1>1. server' = [server EXCEPT ![s].store[k] = Loadable(zone[k]), ![s].queue = Append(@, e)]
  BY DEF Observe
<1>2. /\ server'[s].queue = Append(q, e) /\ server'[s].serving = v.serving
      /\ \A m \in Keys \ {k} : server'[s].store[m] = v.store[m]
  BY <1>0, <1>1 DEF Server
<1>3. e \in Event
  BY <1>0 DEF Event, Loaded
<1> HIDE DEF e
<1>4. Append(q, e) # <<>>
  BY <1>0, <1>3
<1>5. \A m \in Keys : Pending(s, m) \/ m = k => Pending(s, m)'
  <2>1. /\ DOMAIN Append(q, e) = 1..(Len(q) + 1) /\ DOMAIN q = 1..Len(q)
        /\ \A n \in 1..Len(q) : Append(q, e)[n] = q[n]
        /\ Append(q, e)[Len(q) + 1] = e /\ Len(q) \in Nat
    BY <1>0, <1>3
  <2>2. e.key = k
    BY DEF e
  <2> QED BY <1>2, <2>1, <2>2 DEF Pending
<1>6. AgreesButForPending(s)'
  <2>1. AgreesButForPending(s)
    BY DEF ServedInv
  <2>2. SUFFICES ASSUME IsServing(v.serving), NEW m \in Keys, ~Pending(s, m)'
                 PROVE  IF m = v.serving.key THEN server'[s].store[m] = v.serving.loaded
                        ELSE server'[s].store[m].uid = 0
    BY <1>2 DEF AgreesButForPending
  <2>3. ~Pending(s, m) /\ server'[s].store[m] = v.store[m]
    BY <1>2, <1>5, <2>2
  <2> QED BY <2>1, <2>2, <2>3 DEF AgreesButForPending
<1>7. ServesSole(s)'
  BY <1>2, <1>4 DEF ServesSole
<1> QED BY <1>6, <1>7

\* What matters to ServedInv about server s stays as it is.
LEMMA ServedKept ==
    ASSUME NEW s \in Servers, ServedInv, server'[s].queue = server[s].queue,
           server'[s].serving = server[s].serving, server'[s].store = server[s].store
    PROVE  (AgreesButForPending(s) /\ ServesSole(s))'
BY DEF ServedInv, AgreesButForPending, ServesSole, Pending, Contenders, IsServing

LEMMA NewServes ==
    ASSUME NEW s \in Servers, server'[s] = NewServer
    PROVE  (AgreesButForPending(s) /\ ServesSole(s))'
BY DEF NewServer, NotServing, NotLoaded, AgreesButForPending, ServesSole, Contenders, IsServing

LEMMA ServedNext == TypeOK /\ ServedInv /\ [Next]_vars => ServedInv'
<1> SUFFICES ASSUME TypeOK, ServedInv, [Next]_vars, NEW t \in Servers
             PROVE  (AgreesButForPending(t) /\ ServesSole(t))'
  BY DEF ServedInv
<1>0. server \in [Servers -> Server]
  BY DEF TypeOK
<1>1. CASE UNCHANGED server
  BY <1>1, ServedKept
<1>2. ASSUME NEW s \in Servers, ServerStep(s) \/ Connect(s) \/ Disconnect(s)
      PROVE  (AgreesButForPending(t) /\ ServesSole(t))'
  <2>1. CASE t # s
    <3>1. server'[t] = server[t]
      BY <1>0, <1>2, <2>1 DEF ServerStep, HandleEvent, Observe, Acknowledge, Relinquish, Connect, Disconnect
    <3> QED BY <3>1, ServedKept
  <2>2. CASE t = s
    <3>1. CASE HandleEvent(s)
      BY <2>2, <3>1, HandledServes
    <3>2. CASE \E k \in Keys : Observe(s, k)
      BY <2>2, <3>2, ObservedServes
    <3>3. CASE Acknowledge(s) \/ (\E k \in Keys : Relinquish(s, k)) \/ Connect(s) \/ Disconnect(s)
      <4>1. /\ server'[s].queue = server[s].queue /\ server'[s].serving = server[s].serving
            /\ server'[s].store = server[s].store
        BY <1>0, <3>3 DEF Acknowledge, Relinquish, Connect, Disconnect, Server
      <4> QED BY <2>2, <4>1, ServedKept
    <3> QED BY <1>2, <3>1, <3>2, <3>3 DEF ServerStep
  <2> QED BY <2>1, <2>2
<1>3. ASSUME NEW s \in Servers, NEW graceful \in BOOLEAN, Restart(s, graceful)
      PROVE  (AgreesButForPending(t) /\ ServesSole(t))'
  <2>1. server' = [server EXCEPT ![s] = NewServer]
    BY <1>3 DEF Restart
  <2>2. server'[t] = server[t] \/ server'[t] = NewServer
    BY <1>0, <2>1
  <2> QED BY <2>2, ServedKept, NewServes
<1>4. CASE \E k \in Keys : Core(k) \/ Reconcile(k) \/ PatchStatus(k) \/ DropStatus(k) \/ Sync(k)
  <2>1. UNCHANGED server
    BY <1>4 DEF Core, CreateUnit, DeleteUnit, EditItem, ChangePolicy, RequestDeletion, DropItem,
                Reconcile, ReconcileAbsent, ReconcileShadowed, ReconcileDeleting,
                ReconcileRejected, ReconcileZone, PatchStatus, DropStatus, Sync
  <2> QED BY <1>1, <2>1
<1>5. CASE ChangeClass \/ Tick \/ UNCHANGED vars
  BY <1>1, <1>5 DEF ChangeClass, Tick, vars
<1> QED BY <1>2, <1>3, <1>4, <1>5 DEF Next

\* Once a server has handled its events it serves the apex from its sole
\* claimant at the newest revision, or not at all, in whatever order the
\* contenders come and go and whatever restarts (watch.go, reconcileApex).
THEOREM SoleIsServed == Spec => []SoleContenderServed
<1>1. Init => ServedInv
  BY NewServes DEF Init, ServedInv, NewServer, NotServing, NotLoaded, AgreesButForPending,
                   ServesSole, Contenders, IsServing
<1>2. TypeOK /\ ServedInv /\ [Next]_vars => ServedInv'
  BY ServedNext
<1>3. ServedInv => SoleContenderServed
  BY DEF ServedInv, ServesSole, SoleContenderServed
<1> QED BY <1>1, <1>2, <1>3, TypeCorrect, PTL DEF Spec

-----------------------------------------------------------------------------
(* The controller's caches of the keys that do not lag.                    *)

Current == Keys \ Lagging

CacheInv ==
    \A k \in Current : /\ seen[k].unit = unit[k] /\ seen[k].unitCurrent
                       /\ seen[k].zone = zone[k] /\ seen[k].zoneCurrent

\* CacheInv for key k once the unit is u and the zone is z.
Caches(k, c, u, z) == k \in Current => /\ c.unit = u /\ c.unitCurrent
                                       /\ c.zone = z /\ c.zoneCurrent

LEMMA CacheWrites ==
    ASSUME NEW k \in Keys, NEW c \in SeenType, NEW u, NEW z, Caches(k, c, u, z)
    PROVE  /\ \A v : Caches(k, SeenUnit(k, c, v), v, z)
           /\ \A v : Caches(k, SeenZone(k, c, v), u, v)
BY DEF Caches, Current, SeenUnit, SeenZone, SeenType

LEMMA CacheWriteUnit ==
    ASSUME TypeOK, CacheInv, NEW k \in Keys, NEW u, WriteUnit(k, u), zone' = zone
    PROVE  CacheInv'
<1>1. \A j \in Keys : Caches(j, seen[j], unit[j], zone[j]) /\ seen[j] \in SeenType
  BY TypeParts DEF CacheInv, Caches, UnitTypes
<1>2. /\ unit' = [unit EXCEPT ![k] = u]
      /\ seen' = [seen EXCEPT ![k] = SeenUnit(k, seen[k], u)]
  BY DEF WriteUnit
<1>3. \A j \in Keys : Caches(j, seen'[j], unit'[j], zone'[j])
  BY <1>1, <1>2, CacheWrites DEF TypeOK
<1> QED BY <1>3 DEF CacheInv, Caches, Current

LEMMA CacheWriteZone ==
    ASSUME TypeOK, CacheInv, NEW k \in Keys, NEW z, WriteZone(k, z), unit' = unit
    PROVE  CacheInv'
<1>1. \A j \in Keys : Caches(j, seen[j], unit[j], zone[j]) /\ seen[j] \in SeenType
  BY TypeParts DEF CacheInv, Caches, UnitTypes
<1>2. /\ zone' = [zone EXCEPT ![k] = z]
      /\ seen' = [seen EXCEPT ![k] = SeenZone(k, seen[k], z)]
  BY DEF WriteZone
<1>3. \A j \in Keys : Caches(j, seen'[j], unit'[j], zone'[j])
  BY <1>1, <1>2, CacheWrites DEF TypeOK
<1> QED BY <1>3 DEF CacheInv, Caches, Current

LEMMA CacheSame ==
    ASSUME CacheInv, UNCHANGED <<unit, zone, seen>>
    PROVE  CacheInv'
BY DEF CacheInv, Current

LEMMA CacheDelete ==
    ASSUME TypeOK, CacheInv, NEW k \in Keys, DeleteSnapshot(k), unit' = unit
    PROVE  CacheInv'
BY CacheSame, CacheWriteZone DEF DeleteSnapshot

LEMMA CacheNext == TypeOK /\ CacheInv /\ [Next]_vars => CacheInv'
<1> SUFFICES ASSUME TypeOK, CacheInv, [Next]_vars PROVE CacheInv'
  OBVIOUS
<1>0. unit \in [Keys -> Unit] /\ zone \in [Keys -> Zone] /\ seen \in [Keys -> SeenType]
  BY TypeParts DEF UnitTypes, ZoneTypes
<1>1. ASSUME NEW k \in Keys, Core(k) PROVE CacheInv'
  <2>1. zone' = zone /\ \E u : WriteUnit(k, u)
    BY <1>1 DEF Core, CreateUnit, DeleteUnit, EditItem, ChangePolicy, RequestDeletion, DropItem
  <2> QED BY <2>1, CacheWriteUnit
<1>2. ASSUME NEW k \in Keys, Reconcile(k) PROVE CacheInv'
  <2>1. unit' = unit
    BY <1>2 DEF Reconcile, ReconcileAbsent, ReconcileShadowed, ReconcileDeleting,
                ReconcileRejected, ReconcileZone
  <2>2. UNCHANGED <<zone, seen>> \/ DeleteSnapshot(k) \/ \E z : WriteZone(k, z)
    BY <1>2 DEF Reconcile, ReconcileAbsent, ReconcileShadowed, ReconcileDeleting,
                ReconcileRejected, ReconcileZone
  <2> QED BY <2>1, <2>2, CacheSame, CacheDelete, CacheWriteZone
<1>3. ASSUME NEW k \in Keys, PatchStatus(k) PROVE CacheInv'
  <2> DEFINE u == [unit[k] EXCEPT !.status = pass[k].status]
  <2>1. /\ unit' = [unit EXCEPT ![k] = u] /\ zone' = zone
        /\ seen' = [seen EXCEPT ![k] = SeenUnit(k, seen[k], u)]
    BY <1>0, <1>3 DEF PatchStatus
  <2>2. \A j \in Keys : Caches(j, seen[j], unit[j], zone[j])
    BY DEF CacheInv, Caches
  <2>3. \A j \in Keys : Caches(j, seen'[j], unit'[j], zone'[j])
    BY <1>0, <2>1, <2>2, CacheWrites
  <2> QED BY <2>3 DEF CacheInv, Caches, Current
<1>4. ASSUME NEW k \in Keys, DropStatus(k) \/ Sync(k) PROVE CacheInv'
  <2>1. CASE DropStatus(k)
    BY <2>1, CacheSame DEF DropStatus
  <2>2. CASE Sync(k)
    <3>1. \A j \in Current : seen'[j] = seen[j]
      BY <1>0, <2>2 DEF Sync, Current
    <3> QED BY <2>2, <3>1 DEF Sync, CacheInv, Current
  <2> QED BY <1>4, <2>1, <2>2
<1>5. ASSUME NEW s \in Servers, ServerStep(s) PROVE CacheInv'
  <2>1. unit' = unit
    BY <1>5 DEF ServerStep, HandleEvent, Observe, Acknowledge, Relinquish
  <2>2. CASE HandleEvent(s) \/ \E k \in Keys : Observe(s, k)
    BY <2>2, CacheSame DEF HandleEvent, Observe
  <2>3. CASE Acknowledge(s)
    <3>1. server[s].serving.key \in Keys
      BY <2>3, Blanks DEF Acknowledge, TypeOK, Server, IsServing, Serving, NotServing, NotLoaded
    <3> QED BY <2>1, <2>3, <3>1, CacheWriteZone DEF Acknowledge
  <2>4. CASE \E k \in Keys : Relinquish(s, k)
    BY <2>1, <2>4, CacheWriteZone DEF Relinquish
  <2> QED BY <1>5, <2>2, <2>3, <2>4 DEF ServerStep
<1>6. ASSUME NEW s \in Servers, NEW graceful \in BOOLEAN, Restart(s, graceful) PROVE CacheInv'
  <2>1. CASE graceful
    <3>1. /\ unit' = unit
          /\ seen' = [k \in Keys |-> IF zone'[k] = zone[k] THEN seen[k]
                                     ELSE SeenZone(k, seen[k], zone'[k])]
      BY <1>6, <2>1 DEF Restart
    <3>2. \A j \in Keys : Caches(j, seen[j], unit[j], zone[j])
      BY DEF CacheInv, Caches
    <3>3. \A j \in Keys : Caches(j, seen'[j], unit'[j], zone'[j])
      BY <1>0, <3>1, <3>2, CacheWrites
    <3> QED BY <3>3 DEF CacheInv, Caches, Current
  <2>2. CASE ~graceful
    BY <1>6, <2>2, CacheSame DEF Restart
  <2> QED BY <2>1, <2>2
<1>7. ASSUME NEW s \in Servers, Connect(s) \/ Disconnect(s) PROVE CacheInv'
  BY <1>7, CacheSame DEF Connect, Disconnect
<1>8. CASE ChangeClass \/ Tick \/ UNCHANGED vars
  BY <1>8, CacheSame DEF ChangeClass, Tick, vars
<1> QED BY <1>1, <1>2, <1>3, <1>4, <1>5, <1>6, <1>7, <1>8 DEF Next

LEMMA CacheInit == Init => CacheInv
BY DEF Init, CacheInv, Current

-----------------------------------------------------------------------------
(* Snapshots, and the copies of them that servers hold.                    *)

\* What a step does to the copies that server s holds.
ServerMove(s) ==
    \/ server'[s].store = server[s].store /\ server'[s].serving = server[s].serving
    \/ \E m \in Keys : /\ server'[s].store = [server[s].store EXCEPT ![m] = Loadable(zone[m])]
                       /\ server'[s].serving = server[s].serving
    \/ /\ server'[s].store = server[s].store
       /\ \/ server'[s].serving = NotServing
          \/ \E m \in Keys : server'[s].serving = [key |-> m, loaded |-> server[s].store[m]]
    \/ server'[s] = NewServer

LEMMA ServerMoves ==
    ASSUME TypeOK, [Next]_vars, NEW s \in Servers
    PROVE  ServerMove(s)
<1>0. server \in [Servers -> Server] /\ server[s] \in Server /\ server[s].store \in [Keys -> Loaded]
  BY DEF TypeOK, Server
<1>1. CASE UNCHANGED server
  BY <1>1 DEF ServerMove
<1>2. ASSUME NEW t \in Servers, ServerStep(t) \/ Connect(t) \/ Disconnect(t)
      PROVE  ServerMove(s)
  <2>1. CASE t # s
    <3>1. server'[s] = server[s]
      BY <1>0, <1>2, <2>1 DEF ServerStep, HandleEvent, Observe, Acknowledge, Relinquish, Connect, Disconnect
    <3> QED BY <3>1 DEF ServerMove
  <2>2. CASE t = s
    <3>1. CASE HandleEvent(s)
      <4>1. PICK x : server' = [server EXCEPT ![s].queue = Tail(@), ![s].serving = ReconcileApex(x, server[s].store)]
        BY <3>1 DEF HandleEvent
      <4>2. server'[s].store = server[s].store /\ server'[s].serving = ReconcileApex(x, server[s].store)
        BY <1>0, <4>1 DEF Server
      <4>3. \/ ReconcileApex(x, server[s].store) = NotServing
            \/ \E m \in Keys : ReconcileApex(x, server[s].store) = [key |-> m, loaded |-> server[s].store[m]]
        <5> DEFINE y == ReconcileApex(x, server[s].store)
                   j == CHOOSE k \in Contenders(server[s].store) : TRUE
        <5>1. y = NotServing \/ y = [key |-> j, loaded |-> server[s].store[j]]
          BY DEF ReconcileApex, Replace
        <5>2. CASE IsServing(y)
          <6>1. y.key \in Keys
            BY <1>0, <5>2, ApexFacts
          <6>2. y # NotServing
            BY <5>2 DEF IsServing, NotServing, NotLoaded
          <6>3. y.key = j
            BY <5>1, <6>2
          <6> QED BY <5>1, <6>1, <6>3
        <5>3. CASE ~IsServing(y)
          <6>1. CASE Cardinality(Contenders(server[s].store)) # 1
            BY <6>1 DEF ReconcileApex
          <6>2. CASE Cardinality(Contenders(server[s].store)) = 1
            <7>1. IsFiniteSet(Contenders(server[s].store)) /\ Contenders(server[s].store) \subseteq Keys
              BY HostedAssumption, FS_Subset DEF Contenders
            <7>2. PICK k : Contenders(server[s].store) = {k}
              BY <6>2, <7>1, FS_Singleton
            <7>3. j = k /\ k \in Keys
              BY <7>1, <7>2
            <7> HIDE DEF j
            <7> QED BY <5>1, <7>3
          <6> QED BY <6>1, <6>2
        <5> QED BY <5>2, <5>3
      <4> QED BY <4>2, <4>3 DEF ServerMove
    <3>2. ASSUME NEW k \in Keys, Observe(s, k) PROVE ServerMove(s)
      <4>1. /\ server'[s].store = [server[s].store EXCEPT ![k] = Loadable(zone[k])]
            /\ server'[s].serving = server[s].serving
        BY <1>0, <3>2 DEF Observe, Server
      <4> QED BY <4>1 DEF ServerMove
    <3>3. CASE Acknowledge(s) \/ (\E k \in Keys : Relinquish(s, k)) \/ Connect(s) \/ Disconnect(s)
      <4>1. server'[s].store = server[s].store /\ server'[s].serving = server[s].serving
        BY <1>0, <3>3 DEF Acknowledge, Relinquish, Connect, Disconnect, Server
      <4> QED BY <4>1 DEF ServerMove
    <3> QED BY <1>2, <2>2, <3>1, <3>2, <3>3 DEF ServerStep
  <2> QED BY <2>1, <2>2
<1>3. ASSUME NEW t \in Servers, NEW graceful \in BOOLEAN, Restart(t, graceful)
      PROVE  ServerMove(s)
  <2>1. server'[s] = server[s] \/ server'[s] = NewServer
    BY <1>0, <1>3 DEF Restart
  <2> QED BY <2>1 DEF ServerMove
<1>4. CASE \E k \in Keys : Core(k) \/ Reconcile(k) \/ PatchStatus(k) \/ DropStatus(k) \/ Sync(k)
  <2>1. UNCHANGED server
    BY <1>4 DEF Core, CreateUnit, DeleteUnit, EditItem, ChangePolicy, RequestDeletion, DropItem,
                Reconcile, ReconcileAbsent, ReconcileShadowed, ReconcileDeleting,
                ReconcileRejected, ReconcileZone, PatchStatus, DropStatus, Sync
  <2> QED BY <1>1, <2>1
<1>5. CASE ChangeClass \/ Tick \/ UNCHANGED vars
  BY <1>1, <1>5 DEF ChangeClass, Tick, vars
<1> QED BY <1>2, <1>3, <1>4, <1>5 DEF Next

\* What a step does to the snapshot of k: only its acknowledgements change, ...
Acked(k) ==
    /\ zone'[k].uid = zone[k].uid /\ zone'[k].owner = zone[k].owner
    /\ zone'[k].serial = zone[k].serial /\ zone'[k].content = zone[k].content
    /\ budget'.snapshots = budget.snapshots
    /\ zone[k] = NoZone => zone'[k] = NoZone
    /\ \A s \in Servers :
          \/ zone'[k].acks[s] = zone[k].acks[s]
          \/ zone'[k].acks[s] = NoAck
          \/ /\ server[s].serving.key = k /\ server[s].serving.loaded.uid = zone[k].uid
             /\ zone'[k].acks[s].serial = server[s].serving.loaded.serial
             /\ server'[s].store = server[s].store /\ server'[s].serving = server[s].serving

\* ... it is deleted, ...
Removed(k) == zone'[k] = NoZone /\ budget' = budget /\ server' = server

\* ... or it is written, with what is rendered from the unit.
Published(k) ==
    /\ zone'[k].uid = IF zone[k].uid # 0 THEN zone[k].uid ELSE budget.snapshots + 1
    /\ budget'.snapshots = IF zone[k].uid # 0 THEN budget.snapshots ELSE budget.snapshots + 1
    /\ zone[k].uid # 0 => zone'[k].serial > zone[k].serial
    /\ zone'[k].serial # 0
    /\ zone'[k].owner = unit[k].uid
    /\ zone'[k].content = Rendered(unit[k].items)
    /\ zone'[k].acks = zone[k].acks
    /\ server' = server

Untouched(k) == zone'[k] = zone[k] /\ budget'.snapshots \in {budget.snapshots, budget.snapshots + 1}

\* The reconcile of a key whose caches are current.
LEMMA ReconcileMoves ==
    ASSUME TypeOK, CacheInv, NEW k \in Keys, Reconcile(k), NEW j \in Current
    PROVE  \/ Untouched(j)
           \/ j = k /\ Removed(k) /\ seen[k].zone.uid # 0
              /\ (ReconcileAbsent(k) \/ ReconcileShadowed(k) \/ ReconcileDeleting(k))
           \/ j = k /\ Published(k) /\ ReconcileZone(k)
<1>0. /\ zone \in [Keys -> Zone] /\ zone[j] \in Zone /\ budget \in BudgetType /\ j \in Keys
      /\ unit[j] \in Unit /\ budget.snapshots \in Nat
  BY TypeParts DEF TypeOK, Current
<1>1. CASE UNCHANGED <<zone, budget>>
  BY <1>1 DEF Untouched
<1>2. CASE ReconcileAbsent(k) \/ ReconcileShadowed(k) \/ ReconcileDeleting(k)
  <2>0. UNCHANGED <<server, budget>>
    BY <1>2 DEF ReconcileAbsent, ReconcileShadowed, ReconcileDeleting
  <2>1. \/ UNCHANGED zone
        \/ seen[k].zone.uid # 0 /\ zone' = [zone EXCEPT ![k] = NoZone]
    BY <1>2 DEF ReconcileAbsent, ReconcileShadowed, ReconcileDeleting, DeleteSnapshot, WriteZone
  <2> QED BY <1>0, <1>2, <2>0, <2>1 DEF Untouched, Removed
<1>3. CASE ReconcileRejected(k)
  BY <1>1, <1>3 DEF ReconcileRejected
<1>4. CASE ReconcileZone(k)
  <2> DEFINE u == seen[k].unit
             z == seen[k].zone
             previous == Previous(z, u)
             old == Old(z, u)
             content == Rendered(u.items)
             serial == Serial(previous, old, content)
             new == [uid |-> IF zone[k].uid # 0 THEN zone[k].uid ELSE budget.snapshots + 1,
                     owner |-> u.uid, serial |-> serial, content |-> content,
                     acks |-> zone[k].acks]
  <2>1. \/ UNCHANGED <<zone, budget>>
        \/ /\ ~Exhausted(previous, old, content)
           /\ z.uid = 0 \/ z.content # content
           /\ zone' = [zone EXCEPT ![k] = new]
           /\ budget' = [budget EXCEPT !.snapshots = IF zone[k].uid # 0 THEN @ ELSE @ + 1]
    BY <1>4 DEF ReconcileZone, WriteZone, Previous, Old
  <2>2. server' = server
    BY <1>4 DEF ReconcileZone
  <2>3. SUFFICES ASSUME ~Exhausted(previous, old, content),
                        z.uid = 0 \/ z.content # content,
                        zone' = [zone EXCEPT ![k] = new],
                        budget' = [budget EXCEPT !.snapshots = IF zone[k].uid # 0 THEN @ ELSE @ + 1]
                 PROVE  Untouched(j) \/ (j = k /\ Published(k))
    BY <1>1, <1>4, <2>1
  <2>4. budget'.snapshots = IF zone[k].uid # 0 THEN budget.snapshots ELSE budget.snapshots + 1
    BY <1>0, <2>3 DEF BudgetType
  <2>5. CASE j # k
    BY <1>0, <2>3, <2>4, <2>5 DEF Untouched
  <2>6. CASE j = k
    <3>1. u = unit[k] /\ z = zone[k]
      BY <2>6 DEF CacheInv
    <3>2. previous \in Serials /\ now \in 0..MaxTime
      BY <1>0, <2>6, <3>1 DEF Previous, Unit, Status, Zone, TypeOK
    <3>3. serial # 0 /\ (old # content => serial > previous)
      BY <2>3, <3>2, SerialFacts
    <3>4. zone[k].uid # 0 => serial > zone[k].serial
      BY <2>3, <3>1, <3>3 DEF Previous, Old
    <3>5. zone'[k] = new
      BY <1>0, <2>3
    <3> HIDE DEF previous, old, serial
    <3> QED BY <2>2, <2>4, <2>6, <3>1, <3>3, <3>4, <3>5 DEF Published
  <2> QED BY <2>5, <2>6
<1> QED BY <1>2, <1>3, <1>4 DEF Reconcile

LEMMA AckMoves ==
    ASSUME TypeOK, NEW s \in Servers, NEW j \in Keys,
           ServerStep(s) \/ \E graceful \in BOOLEAN : Restart(s, graceful)
    PROVE  Acked(j)
<1>0. /\ zone \in [Keys -> Zone] /\ zone[j] \in Zone /\ zone[j].acks \in [Servers -> Ack]
      /\ server \in [Servers -> Server] /\ budget \in BudgetType
  BY TypeParts DEF TypeOK, Zone, Acks
<1>1. ASSUME budget'.snapshots = budget.snapshots, zone'[j] = zone[j] PROVE Acked(j)
  BY <1>1 DEF Acked
<1>2. ASSUME UNCHANGED budget.snapshots, zone'[j] \in {zone[j], Relinquished(s, j)}
      PROVE  Acked(j)
  <2>1. CASE zone'[j] = [zone[j] EXCEPT !.acks[s] = NoAck]
    <3>1. /\ zone'[j].uid = zone[j].uid /\ zone'[j].owner = zone[j].owner
          /\ zone'[j].serial = zone[j].serial /\ zone'[j].content = zone[j].content
          /\ \A t \in Servers : zone'[j].acks[t] \in {zone[j].acks[t], NoAck}
      BY <1>0, <2>1 DEF Zone
    <3>2. zone[j] = NoZone => zone'[j] = NoZone
      <4>1. NoZone.acks = NoAcks /\ [NoAcks EXCEPT ![s] = NoAck] = NoAcks
        BY DEF NoZone, NoAcks
      <4>2. [NoZone EXCEPT !.acks = NoAcks] = NoZone
        BY DEF NoZone
      <4> QED BY <2>1, <4>1, <4>2 DEF NoZone
    <3> QED BY <1>2, <3>1, <3>2 DEF Acked
  <2> QED BY <1>1, <1>2, <2>1 DEF Relinquished
<1>3. CASE HandleEvent(s) \/ \E k \in Keys : Observe(s, k)
  BY <1>1, <1>3 DEF HandleEvent, Observe
<1>4. CASE Acknowledge(s)
  <2> DEFINE x == server[s].serving
  <2>1. /\ zone' = [zone EXCEPT ![x.key] = [zone[x.key] EXCEPT !.acks[s] = AckOf(x)]]
        /\ IsServing(x) /\ zone[x.key].uid = x.loaded.uid /\ UNCHANGED budget
        /\ server' = [server EXCEPT ![s].acknowledged[x.key] = x.loaded.uid]
    BY <1>4 DEF Acknowledge, WriteZone
  <2>2. CASE j = x.key
    <3>1. /\ zone'[j].uid = zone[j].uid /\ zone'[j].owner = zone[j].owner
          /\ zone'[j].serial = zone[j].serial /\ zone'[j].content = zone[j].content
          /\ zone'[j].acks[s] = AckOf(x)
          /\ \A t \in Servers \ {s} : zone'[j].acks[t] = zone[j].acks[t]
      BY <1>0, <2>1, <2>2 DEF Zone
    <3>2. server'[s].store = server[s].store /\ server'[s].serving = x
      BY <1>0, <2>1
    <3>3. AckOf(x).serial = x.loaded.serial
      BY DEF AckOf
    <3>4. zone[j] # NoZone
      BY <2>1, <2>2 DEF NoZone, IsServing
    <3> HIDE DEF x
    <3> QED BY <2>1, <2>2, <3>1, <3>2, <3>3, <3>4 DEF Acked, x
  <2>3. CASE j # x.key
    BY <1>0, <1>1, <2>1, <2>3
  <2> QED BY <2>2, <2>3
<1>5. ASSUME NEW k \in Keys, Relinquish(s, k) PROVE Acked(j)
  <2>1. zone' = [zone EXCEPT ![k] = Relinquished(s, k)] /\ UNCHANGED budget
    BY <1>5 DEF Relinquish, WriteZone
  <2> QED BY <1>0, <1>2, <2>1
<1>6. ASSUME NEW graceful \in BOOLEAN, Restart(s, graceful) PROVE Acked(j)
  <2>1. zone' = zone \/ zone' = [k \in Keys |-> Relinquished(s, k)]
    BY <1>6 DEF Restart
  <2>2. budget' = [budget EXCEPT !.faults = @ + 1]
    BY <1>6 DEF Restart
  <2>3. budget'.snapshots = budget.snapshots
    BY <1>0, <2>2 DEF BudgetType
  <2> QED BY <1>2, <2>1, <2>3
<1> QED BY <1>3, <1>4, <1>5, <1>6 DEF ServerStep

ZoneMove(k) == Untouched(k) \/ Acked(k) \/ Removed(k) \/ Published(k)

LEMMA ZoneMoves ==
    ASSUME TypeOK, CacheInv, [Next]_vars, NEW k \in Current
    PROVE  ZoneMove(k)
<1>0. budget \in BudgetType /\ k \in Keys
  BY TypeParts DEF Current
<1>1. CASE \E j \in Keys : Reconcile(j)
  BY <1>1, ReconcileMoves DEF ZoneMove
<1>2. CASE \E s \in Servers : ServerStep(s) \/ \E graceful \in BOOLEAN : Restart(s, graceful)
  BY <1>0, <1>2, AckMoves DEF ZoneMove
<1>3. CASE \E j \in Keys : Core(j) \/ PatchStatus(j) \/ DropStatus(j) \/ Sync(j)
  <2>1. zone' = zone /\ budget'.snapshots = budget.snapshots
    BY <1>0, <1>3 DEF Core, CreateUnit, DeleteUnit, EditItem, ChangePolicy, RequestDeletion, DropItem,
                      PatchStatus, DropStatus, Sync, BudgetType
  <2> QED BY <2>1 DEF ZoneMove, Untouched
<1>4. CASE (\E s \in Servers : Connect(s) \/ Disconnect(s)) \/ ChangeClass \/ Tick \/ UNCHANGED vars
  <2>1. zone' = zone /\ budget'.snapshots = budget.snapshots
    BY <1>0, <1>4 DEF Connect, Disconnect, ChangeClass, Tick, vars, BudgetType
  <2> QED BY <2>1 DEF ZoneMove, Untouched
<1> QED BY <1>1, <1>2, <1>3, <1>4 DEF Next

LEMMA SerialSteps ==
    ASSUME TypeOK, CacheInv, [Next]_vars, NEW k \in Current,
           zone[k].uid # 0, zone'[k].uid = zone[k].uid, zone'[k].content # zone[k].content
    PROVE  zone'[k].serial > zone[k].serial
BY ZoneMoves DEF ZoneMove, Untouched, Acked, Removed, Published, NoZone

\* Without lagging caches a published snapshot never gets other content under
\* the same or an older serial, whatever faults, races and edits there are
\* (render.go, Render; the resource version in controller.go).
THEOREM SerialsAdvance == Lagging = {} => (Spec => SerialAdvances)
<1> SUFFICES ASSUME Lagging = {} PROVE Spec => SerialAdvances
  OBVIOUS
<1>1. TypeOK /\ CacheInv /\ [Next]_vars =>
        [\A k \in Keys :
          zone[k].uid # 0 /\ zone'[k].uid = zone[k].uid /\ zone'[k].content # zone[k].content
             => zone'[k].serial > zone[k].serial]_vars
  BY SerialSteps DEF Current
<1>2. Init => CacheInv
  BY CacheInit
<1>3. TypeOK /\ CacheInv /\ [Next]_vars => CacheInv'
  BY CacheNext
<1> QED BY <1>1, <1>2, <1>3, TypeCorrect, PTL DEF Spec, SerialAdvances

-----------------------------------------------------------------------------
\* Snapshot l is no newer than z, and the same at the same serial.
Before(l, z) == l.serial <= z.serial /\ (l.serial = z.serial => l.content = z.content)

\* A server's copies of a key, its store's l and, if it serves the key (mine),
\* x, against the snapshot z, the identities used so far n, and the serial a
\* that the server has acknowledged (0: none).  Copies of another incarnation
\* are older ones; the store is not behind what is served, and neither is
\* behind what was acknowledged.
Order(z, n, l, mine, x, a) ==
    /\ l.uid = 0 => l = NotLoaded
    /\ mine /\ x.uid = 0 => x = NotLoaded
    /\ l.uid <= n
    /\ mine => x.uid <= n
    /\ z.uid # 0 /\ l.uid = z.uid => Before(l, z)
    /\ z.uid # 0 /\ mine /\ x.uid = z.uid =>
          l.uid = z.uid /\ Before(x, z) /\ x.serial <= l.serial
    /\ a # 0 => /\ a <= z.serial
                /\ l.uid # 0 => l.uid = z.uid /\ l.serial >= a
                /\ mine /\ x.uid # 0 => x.uid = z.uid /\ x.serial >= a

InOrder(k, s) ==
    Order(zone[k], budget.snapshots, server[s].store[k],
          server[s].serving.key = k, server[s].serving.loaded, zone[k].acks[s].serial)

SnapshotInv ==
    \A k \in Current :
        /\ zone[k].uid = 0 => zone[k] = NoZone
        /\ zone[k].uid # 0 => zone[k].serial # 0
        /\ zone[k].uid <= budget.snapshots
        /\ \A s \in Servers : InOrder(k, s)

LEMMA OrderFacts ==
    ASSUME NEW z \in Zone, NEW n \in Nat, NEW l \in Loaded, NEW mine \in BOOLEAN, NEW x \in Loaded,
           NEW a \in Serials, Order(z, n, l, mine, x, a)
    PROVE  /\ Order(z, n, NotLoaded, mine, NotLoaded, a)
           /\ \A any : Order(z, n, l, FALSE, any, a)
           /\ Order(z, n, l, TRUE, l, a)
           /\ \A was : Order(z, n, l, was, NotLoaded, a)
           /\ Order(z, n, l, mine, x, 0)
           /\ mine /\ z.uid # 0 /\ x.uid = z.uid => Order(z, n, l, mine, x, x.serial)
           /\ Order(z, n + 1, l, mine, x, a)
           /\ z.uid <= n /\ (z.uid = 0 => z = NoZone) => Order(z, n, Loadable(z), mine, x, a)
<1> USE DEF Order, Before, Zone, Loaded
<1>0. /\ z.uid \in Nat /\ l.uid \in Nat /\ x.uid \in Nat /\ z.serial \in Nat /\ l.serial \in Nat
      /\ x.serial \in Nat /\ a \in Nat
  BY HostedAssumption DEF Serials
<1>n. NotLoaded.uid = 0 /\ NotLoaded.serial = 0
  BY DEF NotLoaded
<1>1. Order(z, n, NotLoaded, mine, NotLoaded, a)
  BY <1>0, <1>n
<1>2. \A any : Order(z, n, l, FALSE, any, a)
  BY <1>0
<1>3. Order(z, n, l, TRUE, l, a)
  BY <1>0
<1>4. \A was : Order(z, n, l, was, NotLoaded, a)
  BY <1>0, <1>n
<1>5. Order(z, n, l, mine, x, 0)
  BY <1>0
<1>6. mine /\ z.uid # 0 /\ x.uid = z.uid => Order(z, n, l, mine, x, x.serial)
  BY <1>0
<1>7. Order(z, n + 1, l, mine, x, a)
  BY <1>0
<1>8. ASSUME z.uid <= n, z.uid = 0 => z = NoZone
      PROVE  Order(z, n, Loadable(z), mine, x, a)
  <2> DEFINE y == Loadable(z)
  <2>1. y.uid = z.uid /\ y.serial = z.serial /\ y.content = z.content
    BY DEF Loadable
  <2>2. z.uid = 0 => y = NotLoaded
    BY <1>8 DEF Loadable, NotLoaded, NoZone
  <2> HIDE DEF y
  <2>3. Order(z, n, y, mine, x, a)
    BY <1>0, <1>8, <2>1, <2>2
  <2> QED BY <2>3 DEF y
<1> QED BY <1>1, <1>2, <1>3, <1>4, <1>5, <1>6, <1>7, <1>8

\* Order looks at nothing else of the snapshot.
LEMMA OrderSame ==
    ASSUME NEW z, NEW w, z.uid = w.uid, z.serial = w.serial, z.content = w.content,
           NEW n, NEW l, NEW mine, NEW x, NEW a, Order(z, n, l, mine, x, a)
    PROVE  Order(w, n, l, mine, x, a)
BY DEF Order, Before

\* A new snapshot, or a new revision of one.
LEMMA OrderWrites ==
    ASSUME NEW z \in Zone, NEW n \in Nat, NEW l \in Loaded, NEW mine \in BOOLEAN, NEW x \in Loaded,
           NEW a \in Serials, Order(z, n, l, mine, x, a), z.uid <= n
    PROVE  /\ Order(NoZone, n, l, mine, x, 0)
           /\ \A w \in Zone :
                /\ z.uid # 0 /\ w.uid = z.uid /\ w.serial > z.serial => Order(w, n, l, mine, x, a)
                /\ w.uid = n + 1 => Order(w, n + 1, l, mine, x, 0)
<1> USE DEF Order, Before, Zone, Loaded
<1>0. /\ z.uid \in Nat /\ l.uid \in Nat /\ x.uid \in Nat /\ z.serial \in Nat /\ l.serial \in Nat
      /\ x.serial \in Nat /\ a \in Nat
  BY HostedAssumption DEF Serials
<1>1. Order(NoZone, n, l, mine, x, 0)
  BY <1>0 DEF NoZone
<1>2. ASSUME NEW w \in Zone, z.uid # 0, w.uid = z.uid, w.serial > z.serial
      PROVE  Order(w, n, l, mine, x, a)
  <2>1. w.serial \in Nat
    BY HostedAssumption DEF Serials
  <2> QED BY <1>0, <1>2, <2>1
<1>3. ASSUME NEW w \in Zone, w.uid = n + 1
      PROVE  Order(w, n + 1, l, mine, x, 0)
  BY <1>0, <1>3
<1> QED BY <1>1, <1>2, <1>3

\* A copy of one key's snapshot is of the snapshot's type.
LEMMA Copies ==
    ASSUME NEW v \in Server, NEW k \in Keys
    PROVE  v.store[k] \in Loaded /\ v.serving.loaded \in Loaded
<1>1. v.store[k] \in Loaded /\ v.serving \in Serving
  BY DEF Server
<1> QED BY <1>1, Blanks DEF Serving, NotServing

LEMMA AckSerials ==
    ASSUME NEW z \in Zone, NEW s \in Servers
    PROVE  z.acks[s].serial \in Serials
BY DEF Zone, Acks, Ack

\* A server's own step keeps its copies in order with the snapshot as it was.
LEMMA ServerOrder ==
    ASSUME TypeOK, SnapshotInv, NEW s \in Servers, NEW k \in Current, ServerMove(s)
    PROVE  Order(zone[k], budget.snapshots, server'[s].store[k],
                 server'[s].serving.key = k, server'[s].serving.loaded, zone[k].acks[s].serial)
<1> DEFINE z == zone[k]
           n == budget.snapshots
           l == server[s].store[k]
           mine == server[s].serving.key = k
           x == server[s].serving.loaded
           a == zone[k].acks[s].serial
           Goal == Order(z, n, server'[s].store[k], server'[s].serving.key = k,
                         server'[s].serving.loaded, a)
<1>0. k \in Keys /\ server[s].store \in [Keys -> Loaded]
  BY DEF Current, TypeOK, Server
<1>1. /\ l \in Loaded /\ x \in Loaded /\ z \in Zone /\ a \in Serials /\ n \in Nat
      /\ mine \in BOOLEAN
  BY <1>0, Copies, AckSerials DEF TypeOK
<1>2. Order(z, n, l, mine, x, a) /\ z.uid <= n /\ (z.uid = 0 => z = NoZone)
  BY DEF SnapshotInv, InOrder
<1>3. CASE server'[s].store = server[s].store /\ server'[s].serving = server[s].serving
  BY <1>2, <1>3
<1>4. ASSUME NEW m \in Keys,
             server'[s].store = [server[s].store EXCEPT ![m] = Loadable(zone[m])],
             server'[s].serving = server[s].serving
      PROVE  Goal
  <2>1. Order(z, n, Loadable(z), mine, x, a)
    BY <1>1, <1>2, OrderFacts
  <2>2. server'[s].store[k] \in {l, Loadable(z)}
    BY <1>0, <1>4
  <2> QED BY <1>2, <1>4, <2>1, <2>2
<1>5. CASE server'[s].store = server[s].store /\ server'[s].serving = NotServing
  <2>1. \A was : Order(z, n, l, was, NotLoaded, a)
    BY <1>1, <1>2, OrderFacts
  <2>2. server'[s].serving.loaded = NotLoaded
    BY <1>5 DEF NotServing
  <2> QED BY <1>5, <2>1, <2>2
<1>6. ASSUME NEW m \in Keys, server'[s].store = server[s].store,
             server'[s].serving = [key |-> m, loaded |-> server[s].store[m]]
      PROVE  Goal
  <2>1. CASE m = k
    <3>1. Order(z, n, l, TRUE, l, a)
      BY <1>1, <1>2, OrderFacts
    <3>2. server'[s].serving.loaded = l /\ (server'[s].serving.key = k) = TRUE
      BY <1>6, <2>1
    <3> QED BY <1>6, <3>1, <3>2
  <2>2. CASE m # k
    <3>1. \A any : Order(z, n, l, FALSE, any, a)
      BY <1>1, <1>2, OrderFacts
    <3>2. (server'[s].serving.key = k) = FALSE
      BY <1>6, <2>2
    <3> QED BY <1>6, <3>1, <3>2
  <2> QED BY <2>1, <2>2
<1>7. CASE server'[s] = NewServer
  <2>1. Order(z, n, NotLoaded, mine, NotLoaded, a)
    BY <1>1, <1>2, OrderFacts
  <2>2. \A was : Order(z, n, NotLoaded, was, NotLoaded, a)
    BY <1>1, <2>1, OrderFacts, Blanks
  <2>3. server'[s].store[k] = NotLoaded /\ server'[s].serving.loaded = NotLoaded
    BY <1>0, <1>7 DEF NewServer, NotServing
  <2> QED BY <2>2, <2>3
<1> QED BY <1>3, <1>4, <1>5, <1>6, <1>7 DEF ServerMove

LEMMA SnapshotNext == TypeOK /\ CacheInv /\ SnapshotInv /\ [Next]_vars => SnapshotInv'
<1> SUFFICES ASSUME TypeOK, CacheInv, SnapshotInv, [Next]_vars, NEW k \in Current
             PROVE  /\ zone'[k].uid = 0 => zone'[k] = NoZone
                    /\ zone'[k].uid # 0 => zone'[k].serial # 0
                    /\ zone'[k].uid <= budget'.snapshots
                    /\ \A s \in Servers : InOrder(k, s)'
  BY DEF SnapshotInv, Current
<1> DEFINE z == zone[k]
           n == budget.snapshots
<1>0. /\ k \in Keys /\ z \in Zone /\ z.uid \in Nat /\ n \in Nat /\ TypeOK'
      /\ zone'[k] \in Zone /\ zone'[k].uid \in Nat
  BY TypeNext DEF Current, TypeOK, Zone
<1>s. \A s \in Servers : server[s] \in Server /\ server'[s] \in Server
  BY <1>0 DEF TypeOK
<1>1. /\ z.uid = 0 => z = NoZone
      /\ z.uid # 0 => z.serial # 0
      /\ z.uid <= n
      /\ \A s \in Servers : InOrder(k, s)
  BY DEF SnapshotInv
<1>2. ZoneMove(k) /\ \A s \in Servers : ServerMove(s)
  BY ZoneMoves, ServerMoves
<1>3. CASE Untouched(k)
  <2>1. zone'[k] = z /\ budget'.snapshots \in {n, n + 1}
    BY <1>3 DEF Untouched
  <2>2. ASSUME NEW s \in Servers PROVE InOrder(k, s)'
    <3>1. Order(z, n, server'[s].store[k], server'[s].serving.key = k,
                server'[s].serving.loaded, z.acks[s].serial)
      BY <1>2, ServerOrder
    <3>2. /\ server'[s].store[k] \in Loaded /\ server'[s].serving.loaded \in Loaded
          /\ z.acks[s].serial \in Serials
      BY <1>0, <1>s, Copies, AckSerials
    <3>3. Order(z, n + 1, server'[s].store[k], server'[s].serving.key = k,
                server'[s].serving.loaded, z.acks[s].serial)
      BY <1>0, <3>1, <3>2, OrderFacts
    <3> QED BY <2>1, <3>1, <3>3 DEF InOrder
  <2> QED BY <1>0, <1>1, <2>1, <2>2
<1>4. CASE Acked(k)
  <2>1. ASSUME NEW s \in Servers PROVE InOrder(k, s)'
    <3> DEFINE l == server'[s].store[k]
               mine == server'[s].serving.key = k
               x == server'[s].serving.loaded
               a == z.acks[s].serial
               b == zone'[k].acks[s].serial
    <3>1. Order(z, n, l, mine, x, a)
      BY <1>2, ServerOrder
    <3>2. /\ l \in Loaded /\ x \in Loaded /\ a \in Serials /\ b \in Serials /\ mine \in BOOLEAN
      BY <1>0, <1>s, Copies, AckSerials
    <3>3. Order(z, n, l, mine, x, b)
      <4>1. CASE b = a
        BY <3>1, <4>1
      <4>2. CASE b = 0
        BY <1>0, <3>1, <3>2, <4>2, OrderFacts
      <4>3. CASE b # 0 /\ mine /\ x.uid = z.uid /\ b = x.serial
        <5>1. z.uid # 0
          <6>1. SUFFICES ASSUME z.uid = 0 PROVE FALSE
            OBVIOUS
          <6>2. zone'[k] = NoZone
            BY <1>1, <1>4, <6>1 DEF Acked
          <6> QED BY <4>3, <6>2 DEF NoZone, NoAcks, NoAck
        <5> QED BY <1>0, <3>1, <3>2, <4>3, <5>1, OrderFacts
      <4>4. b = a \/ b = 0 \/ (b # 0 /\ mine /\ x.uid = z.uid /\ b = x.serial)
        BY <1>4 DEF Acked, NoAck
      <4> QED BY <4>1, <4>2, <4>3, <4>4
    <3>4. Order(zone'[k], n, l, mine, x, b)
      BY <1>4, <3>3, OrderSame DEF Acked
    <3>5. budget'.snapshots = n
      BY <1>4 DEF Acked
    <3> QED BY <3>4, <3>5 DEF InOrder
  <2>2. /\ zone'[k].uid = z.uid /\ zone'[k].serial = z.serial /\ budget'.snapshots = n
        /\ z = NoZone => zone'[k] = NoZone
    BY <1>4 DEF Acked
  <2> QED BY <1>1, <2>1, <2>2
<1>5. CASE Removed(k)
  <2>1. zone'[k] = NoZone /\ budget'.snapshots = n /\ server' = server
    BY <1>5 DEF Removed
  <2>2. ASSUME NEW s \in Servers PROVE InOrder(k, s)'
    <3>1. Order(NoZone, n, server[s].store[k], server[s].serving.key = k, server[s].serving.loaded, 0)
      <4>1. Order(z, n, server[s].store[k], server[s].serving.key = k,
                  server[s].serving.loaded, z.acks[s].serial)
        BY <1>1 DEF InOrder
      <4>2. (server[s].serving.key = k) \in BOOLEAN
        OBVIOUS
      <4> QED BY <1>0, <1>1, <1>s, <4>1, <4>2, Copies, AckSerials, OrderWrites
    <3>2. NoZone.acks[s].serial = 0
      BY DEF NoZone, NoAcks, NoAck
    <3> QED BY <2>1, <3>1, <3>2 DEF InOrder
  <2>3. NoZone.uid = 0
    BY DEF NoZone
  <2> QED BY <1>0, <2>1, <2>2, <2>3
<1>6. CASE Published(k)
  <2>1. /\ zone'[k].serial # 0 /\ zone'[k].acks = z.acks /\ server' = server
        /\ z.uid # 0 => zone'[k].uid = z.uid /\ budget'.snapshots = n /\ zone'[k].serial > z.serial
        /\ z.uid = 0 => zone'[k].uid = n + 1 /\ budget'.snapshots = n + 1
    BY <1>6 DEF Published
  <2>2. ASSUME NEW s \in Servers PROVE InOrder(k, s)'
    <3> DEFINE l == server[s].store[k]
               mine == server[s].serving.key = k
               x == server[s].serving.loaded
               a == z.acks[s].serial
    <3>1. Order(z, n, l, mine, x, a)
      BY <1>1 DEF InOrder
    <3>2. l \in Loaded /\ x \in Loaded /\ a \in Serials /\ mine \in BOOLEAN
      BY <1>0, <1>s, Copies, AckSerials
    <3>3. CASE z.uid # 0
      <4>1. Order(zone'[k], n, l, mine, x, a)
        BY <1>0, <1>1, <2>1, <3>1, <3>2, <3>3, OrderWrites
      <4> QED BY <2>1, <3>3, <4>1 DEF InOrder
    <3>4. CASE z.uid = 0
      <4>0. \A w \in Zone : w.uid = n + 1 => Order(w, n + 1, l, mine, x, 0)
        BY <1>0, <1>1, <3>1, <3>2, OrderWrites
      <4>1. Order(zone'[k], n + 1, l, mine, x, 0)
        BY <1>0, <2>1, <3>4, <4>0
      <4>2. a = 0
        BY <1>1, <3>4 DEF NoZone, NoAcks, NoAck
      <4> QED BY <2>1, <3>4, <4>1, <4>2 DEF InOrder
    <3> QED BY <3>3, <3>4
  <2>3. zone'[k].uid # 0 /\ zone'[k].uid <= budget'.snapshots
    BY <1>0, <1>1, <2>1
  <2> QED BY <2>1, <2>2, <2>3
<1> QED BY <1>2, <1>3, <1>4, <1>5, <1>6 DEF ZoneMove

LEMMA SnapshotInit == Init => SnapshotInv
<1> SUFFICES ASSUME Init, NEW k \in Current, NEW s \in Servers
             PROVE  zone[k] = NoZone /\ NoZone.uid = 0 /\ NoZone.uid <= budget.snapshots /\ InOrder(k, s)
  BY DEF SnapshotInv, Init, NoZone, Current
<1>1. /\ zone[k] = NoZone /\ NoZone.uid = 0 /\ budget.snapshots = 0
      /\ server[s].store[k] = NotLoaded /\ server[s].serving = NotServing
  BY DEF Init, Current, NoZone, NewServer
<1>2. /\ NoZone.acks[s].serial = 0 /\ NotLoaded.uid = 0 /\ NotServing.loaded = NotLoaded
  BY DEF NoZone, NoAcks, NoAck, NotLoaded, NotServing
<1> QED BY <1>1, <1>2 DEF InOrder, Order

-----------------------------------------------------------------------------
(* Reports: what a status says of the answers that servers give.           *)

\* The copies of key k that a server holds.
HeldBy(v, k) == {v.store[k]} \cup IF v.serving.key = k THEN {v.serving.loaded} ELSE {}

Held(k) == [s \in Servers |-> HeldBy(server[s], k)]

\* Order for all servers' copies held of the snapshot z.
Ordered(z, n, held) ==
    \A s \in Servers : \A l \in held[s] :
        /\ l \in Loaded /\ l.uid <= n
        /\ l.uid = 0 => l = NotLoaded
        /\ z.uid # 0 /\ l.uid = z.uid => Before(l, z)
        /\ z.acks[s].serial # 0 /\ l.uid # 0 => l.uid = z.uid /\ l.serial >= z.acks[s].serial

\* A snapshot l does not answer for item i with what receipt r rules out: the
\* deleted generation or an older one, an older generation than the published.
Limit(it) == IF it.on = "deleting" THEN it.version ELSE it.version - 1
Safe(l, i, r) == l.content[i] \notin 1..Limit(r.of)

\* Receipt r is about a generation of the item that has existed, and about a
\* deletion only if the item is, and remains, to be deleted.
WellMade(r, it, e) ==
    /\ r.programmed \/ r.completed => r.first # 0
    /\ r.first # 0 => /\ r.of.version \in 1..e
                      /\ r.of.on = "deleting" /\ r.of.version = it.version => it.on = "deleting"

\* From the first serial of a receipt of the present generation on, no copy of
\* the unit's snapshot contradicts the receipt; such a snapshot is there unless
\* the unit is deleting.
FirstHolds(u, z, held, i, r) ==
    r.first # 0 =>
        /\ ~u.deleting => z.uid # 0 /\ z.owner = u.uid
        /\ r.of.version = u.items[i].version /\ z.uid # 0 /\ z.owner = u.uid =>
              /\ z.serial >= r.first => Safe(z, i, r)
              /\ \A s \in Servers : \A l \in held[s] :
                    l.uid = z.uid /\ l.serial >= r.first => Safe(l, i, r)

\* Success is reported of item i only if neither the snapshot nor any copy of
\* a server that was counted contradicts it.
DoneHolds(u, z, held, i, r, counted) ==
    (r.programmed \/ r.completed) /\ r.of.version = u.items[i].version =>
        /\ Safe(z, i, r)
        /\ \A s \in counted : \A l \in held[s] : Safe(l, i, r)

Report(u, z, e, held, st) ==
    \A i \in Items :
        LET r == st.receipts[i] IN
        /\ WellMade(r, u.items[i], e)
        /\ FirstHolds(u, z, held, i, r)
        /\ DoneHolds(u, z, held, i, r, {s \in Servers : st.servers[s].serial # 0})

\* The items of a unit, in a state where e edits were made.
ItemsMade(u, e) ==
    \A i \in Items : /\ u.items[i].version <= e
                     /\ u.items[i].on = "absent" <=> u.items[i].version = 0

\* Nothing is claimed.
LEMMA ReportNothing ==
    ASSUME NEW u, NEW z, NEW e, NEW held, NEW st,
           \A i \in Items : LET r == st.receipts[i] IN
               r.first = 0 /\ ~r.programmed /\ ~r.completed
    PROVE  Report(u, z, e, held, st)
BY DEF Report, WellMade, FirstHolds, DoneHolds

LEMMA BlankReport ==
    \A i \in Items : LET r == NoStatus.receipts[i] IN r.first = 0 /\ ~r.programmed /\ ~r.completed
BY DEF NoStatus, NoReceipt

LEMMA BlankIsSafe ==
    ASSUME NEW i \in Items, NEW r
    PROVE  Safe(NotLoaded, i, r) /\ Safe(NoZone, i, r)
BY DEF Safe, NotLoaded, NoZone, Empty

LEMMA RenderedIsSafe ==
    ASSUME NEW u \in Unit, NEW i \in Items, NEW r, NEW e \in Nat,
           r.of.version = u.items[i].version, r.of.version \in 1..e,
           r.of.on = "deleting" => u.items[i].on = "deleting",
           NEW l, l.content = Rendered(u.items)
    PROVE  Safe(l, i, r)
<1>1. r.of.version \in Nat /\ l.content[i] \in {0, r.of.version}
  BY DEF Rendered
<1>2. r.of.on = "deleting" => l.content[i] = 0
  BY DEF Rendered
<1>3. CASE l.content[i] = 0
  BY <1>3 DEF Safe
<1>4. CASE l.content[i] = r.of.version /\ r.of.on # "deleting"
  BY <1>1, <1>4 DEF Safe, Limit
<1> QED BY <1>1, <1>2, <1>3, <1>4

\* Servers copy the snapshot as it is, or forget their copies.
LEMMA ReportCopied ==
    ASSUME NEW u \in Unit, NEW z \in Zone, NEW e, NEW held, NEW st, Report(u, z, e, held, st),
           NEW h, \A s \in Servers : \A l \in h[s] :
                     l \in held[s] \/ l = Loadable(z) \/ l = NotLoaded
    PROVE  Report(u, z, e, h, st)
<1> SUFFICES ASSUME NEW i \in Items
             PROVE  LET r == st.receipts[i] IN
                    /\ WellMade(r, u.items[i], e)
                    /\ FirstHolds(u, z, h, i, r)
                    /\ DoneHolds(u, z, h, i, r, {s \in Servers : st.servers[s].serial # 0})
  BY DEF Report
<1> DEFINE r == st.receipts[i]
           counted == {s \in Servers : st.servers[s].serial # 0}
<1>1. WellMade(r, u.items[i], e) /\ FirstHolds(u, z, held, i, r) /\ DoneHolds(u, z, held, i, r, counted)
  BY DEF Report
<1>2. /\ Loadable(z).uid = z.uid /\ Loadable(z).serial = z.serial
      /\ Safe(z, i, r) => Safe(Loadable(z), i, r)
      /\ NotLoaded.uid = 0 /\ Safe(NotLoaded, i, r)
  BY BlankIsSafe DEF Loadable, Safe, NotLoaded
<1>3. FirstHolds(u, z, h, i, r)
  BY <1>1, <1>2 DEF FirstHolds
<1>4. DoneHolds(u, z, h, i, r, counted)
  BY <1>1, <1>2 DEF DoneHolds
<1> QED BY <1>1, <1>3, <1>4

\* Only acknowledgements change.
LEMMA ReportAcked ==
    ASSUME NEW u, NEW z, NEW w, NEW e, NEW held, NEW st, Report(u, z, e, held, st),
           w.uid = z.uid, w.owner = z.owner, w.serial = z.serial, w.content = z.content
    PROVE  Report(u, w, e, held, st)
BY DEF Report, FirstHolds, DoneHolds, Safe

\* The snapshot is deleted, as it may be of a deleting unit or if it is
\* another unit's.
LEMMA ReportRemoved ==
    ASSUME NEW u, NEW z, NEW e, NEW held, NEW st, Report(u, z, e, held, st),
           u.deleting \/ z.owner # u.uid
    PROVE  Report(u, NoZone, e, held, st)
<1> SUFFICES ASSUME NEW i \in Items
             PROVE  LET r == st.receipts[i] IN
                    /\ WellMade(r, u.items[i], e)
                    /\ FirstHolds(u, NoZone, held, i, r)
                    /\ DoneHolds(u, NoZone, held, i, r, {s \in Servers : st.servers[s].serial # 0})
  BY DEF Report
<1> DEFINE r == st.receipts[i]
           counted == {s \in Servers : st.servers[s].serial # 0}
<1>1. WellMade(r, u.items[i], e) /\ FirstHolds(u, z, held, i, r) /\ DoneHolds(u, z, held, i, r, counted)
  BY DEF Report
<1>2. FirstHolds(u, NoZone, held, i, r)
  BY <1>1 DEF FirstHolds, NoZone
<1>3. DoneHolds(u, NoZone, held, i, r, counted)
  BY <1>1, BlankIsSafe DEF DoneHolds
<1> QED BY <1>1, <1>2, <1>3

\* The snapshot w is written, rendered from the unit.
LEMMA ReportPublished ==
    ASSUME NEW u \in Unit, NEW z \in Zone, NEW w \in Zone, NEW e \in Nat, NEW n \in Nat,
           NEW held, NEW st \in Status,
           Report(u, z, e, held, st), Ordered(z, n, held),
           z.uid # 0 => z.owner = u.uid /\ w.uid = z.uid,
           z.uid = 0 => w.uid = n + 1,
           w.uid # 0, w.owner = u.uid, w.content = Rendered(u.items)
    PROVE  Report(u, w, e, held, st)
<1> SUFFICES ASSUME NEW i \in Items
             PROVE  LET r == st.receipts[i] IN
                    /\ WellMade(r, u.items[i], e)
                    /\ FirstHolds(u, w, held, i, r)
                    /\ DoneHolds(u, w, held, i, r, {s \in Servers : st.servers[s].serial # 0})
  BY DEF Report
<1> DEFINE r == st.receipts[i]
           counted == {s \in Servers : st.servers[s].serial # 0}
<1>0. r \in Receipt
  BY DEF Status
<1>1. WellMade(r, u.items[i], e) /\ FirstHolds(u, z, held, i, r) /\ DoneHolds(u, z, held, i, r, counted)
  BY DEF Report
<1> HIDE DEF r, counted
<1>2. r.first # 0 /\ r.of.version = u.items[i].version => Safe(w, i, r)
  BY <1>0, <1>1, RenderedIsSafe DEF WellMade
<1>3. \A s \in Servers : \A l \in held[s] : z.uid = 0 => l.uid # w.uid
  BY DEF Ordered, Loaded
<1>4. FirstHolds(u, w, held, i, r)
  BY <1>1, <1>2, <1>3 DEF FirstHolds
<1>5. DoneHolds(u, w, held, i, r, counted)
  BY <1>1, <1>2 DEF DoneHolds, WellMade
<1> QED BY <1>1, <1>4, <1>5 DEF r, counted

\* The unit is edited: an item keeps its generation, and its deletion, or gets
\* one that no receipt is about.
LEMMA ReportEdited ==
    ASSUME NEW u, NEW v, NEW z, NEW e \in Nat, NEW f \in Nat, NEW held, NEW st,
           Report(u, z, e, held, st),
           v.uid = u.uid, u.deleting => v.deleting, e <= f,
           \A i \in Items :
              \/ /\ v.items[i].version = u.items[i].version
                 /\ u.items[i].on = "deleting" => v.items[i].on = "deleting"
              \/ v.items[i].version \notin 1..e
    PROVE  Report(v, z, f, held, st)
<1> SUFFICES ASSUME NEW i \in Items
             PROVE  LET r == st.receipts[i] IN
                    /\ WellMade(r, v.items[i], f)
                    /\ FirstHolds(v, z, held, i, r)
                    /\ DoneHolds(v, z, held, i, r, {s \in Servers : st.servers[s].serial # 0})
  BY DEF Report
<1> DEFINE r == st.receipts[i]
           counted == {s \in Servers : st.servers[s].serial # 0}
<1>1. WellMade(r, u.items[i], e) /\ FirstHolds(u, z, held, i, r) /\ DoneHolds(u, z, held, i, r, counted)
  BY DEF Report
<1> HIDE DEF r, counted
<1>2. r.first # 0 /\ r.of.version = v.items[i].version => r.of.version = u.items[i].version
  BY <1>1 DEF WellMade
<1>3. WellMade(r, v.items[i], f)
  BY <1>1 DEF WellMade
<1>4. FirstHolds(v, z, held, i, r)
  BY <1>1, <1>2 DEF FirstHolds
<1>5. DoneHolds(v, z, held, i, r, counted)
  BY <1>1, <1>2 DEF DoneHolds, WellMade
<1> QED BY <1>3, <1>4, <1>5 DEF r, counted

\* A rejected snapshot reports no success and keeps what receipts it may.
LEMMA ReportWithheld ==
    ASSUME NEW u \in Unit, NEW z, NEW e, NEW held, Report(u, z, e, held, u.status),
           NEW st, st.receipts = Withheld(u)
    PROVE  Report(u, z, e, held, st)
<1> SUFFICES ASSUME NEW i \in Items
             PROVE  LET r == st.receipts[i] IN
                    /\ WellMade(r, u.items[i], e)
                    /\ FirstHolds(u, z, held, i, r)
                    /\ DoneHolds(u, z, held, i, r, {s \in Servers : st.servers[s].serial # 0})
  BY DEF Report
<1> DEFINE r == st.receipts[i]
           old == u.status.receipts[i]
<1>1. WellMade(old, u.items[i], e) /\ FirstHolds(u, z, held, i, old)
  BY DEF Report
<1>2. r = [Prepared(u, i) EXCEPT !.programmed = FALSE, !.completed = FALSE]
  BY DEF Withheld
<1>3. Prepared(u, i) \in {old, NoReceipt} /\ old \in Receipt /\ NoReceipt \in Receipt
  BY Blanks DEF Prepared, Unit, Status
<1>4. /\ r.of = Prepared(u, i).of /\ r.first = Prepared(u, i).first
      /\ r.programmed = FALSE /\ r.completed = FALSE
  BY <1>2, <1>3 DEF Receipt
<1> HIDE DEF r, old
<1>5. r.first # 0 => r.first = old.first /\ r.of = old.of
  BY <1>3, <1>4 DEF NoReceipt
<1>6. WellMade(r, u.items[i], e)
  BY <1>1, <1>4, <1>5 DEF WellMade
<1>7. FirstHolds(u, z, held, i, r)
  BY <1>1, <1>5 DEF FirstHolds, Safe
<1>8. DoneHolds(u, z, held, i, r, {s \in Servers : st.servers[s].serial # 0})
  BY <1>4 DEF DoneHolds
<1> QED BY <1>6, <1>7, <1>8 DEF r

\* What prepareRecordReceipts and ReceiptOf make of a receipt.
LEMMA ReceiptFacts ==
    ASSUME NEW u \in Unit, NEW i \in Items, NEW serial, NEW content, NEW acks
    PROVE  LET r == ReceiptOf(u, i, serial, content, acks)
               old == u.status.receipts[i]
           IN  /\ r.of = u.items[i]
               /\ \/ old.of = r.of /\ old.first # 0 /\ r.first = old.first
                  \/ r.first = serial
               /\ r.programmed \/ r.completed =>
                     /\ r.first # 0
                     /\ \A s \in Fresh(acks) : acks[s].serial \in r.first..serial
<1> DEFINE r == ReceiptOf(u, i, serial, content, acks)
           old == u.status.receipts[i]
           kept == Prepared(u, i)
<1>1. r.of = u.items[i]
  BY DEF ReceiptOf
<1>2. /\ r.first = IF kept.of = u.items[i] /\ kept.first # 0 THEN kept.first ELSE serial
      /\ r.programmed \/ r.completed =>
            \E digest : RevisionServed(r.first, digest, serial, content, acks)
  BY DEF ReceiptOf
<1>3. kept = old \/ kept = NoReceipt
  BY DEF Prepared
<1> HIDE DEF r, kept
<1>4. \/ old.of = r.of /\ old.first # 0 /\ r.first = old.first
      \/ r.first = serial
  BY <1>1, <1>2, <1>3 DEF NoReceipt
<1>5. r.programmed \/ r.completed =>
         r.first # 0 /\ \A s \in Fresh(acks) : acks[s].serial \in r.first..serial
  BY <1>2 DEF RevisionServed
<1> QED BY <1>1, <1>4, <1>5 DEF r

LEMMA NothingFresh == Fresh(NoAcks) = {}
BY DEF Fresh, NoAcks, NoAck

\* Results for a unit whose snapshot is w, under its serial, or for a deleting
\* unit without one.
LEMMA ReportResults ==
    ASSUME NEW u \in Unit, NEW w \in Zone, NEW e \in Nat, NEW n, NEW held,
           Report(u, w, e, held, u.status), ItemsMade(u, e), Ordered(w, n, held),
           NEW serial \in Serials, serial # 0, NEW content, NEW acks \in Acks,
           \/ /\ w.uid # 0 /\ w.owner = u.uid /\ serial = w.serial
              /\ w.content = Rendered(u.items) /\ acks = w.acks
           \/ u.deleting /\ w = NoZone /\ acks = NoAcks
    PROVE  Report(u, w, e, held, Results(u, serial, content, acks))
<1> DEFINE st == Results(u, serial, content, acks)
<1> SUFFICES ASSUME NEW i \in Items
             PROVE  LET r == st.receipts[i] IN
                    /\ WellMade(r, u.items[i], e)
                    /\ FirstHolds(u, w, held, i, r)
                    /\ DoneHolds(u, w, held, i, r, {s \in Servers : st.servers[s].serial # 0})
  BY DEF Report
<1> DEFINE r == st.receipts[i]
           old == u.status.receipts[i]
           it == u.items[i]
           counted == {s \in Servers : st.servers[s].serial # 0}
<1>1. r = IF it.on = "absent" THEN NoReceipt ELSE ReceiptOf(u, i, serial, content, acks)
  BY DEF Results
<1>2. counted \subseteq Fresh(acks)
  <2>1. st.servers = FreshOnly(acks)
    BY DEF Results
  <2> QED BY <2>1 DEF FreshOnly, NoAck
<1>3. CASE it.on = "absent"
  <2>1. r.first = 0 /\ ~r.programmed /\ ~r.completed
    BY <1>1, <1>3 DEF NoReceipt
  <2> HIDE DEF r, counted
  <2>2. WellMade(r, it, e) /\ FirstHolds(u, w, held, i, r) /\ DoneHolds(u, w, held, i, r, counted)
    BY <2>1 DEF WellMade, FirstHolds, DoneHolds
  <2> QED BY <2>2 DEF r, counted
<1>4. CASE it.on # "absent"
  <2>1. r = ReceiptOf(u, i, serial, content, acks)
    BY <1>1, <1>4
  <2> HIDE DEF r, counted, st
  <2>2. WellMade(old, it, e) /\ FirstHolds(u, w, held, i, old)
    BY DEF Report
  <2>3. /\ r.of = it
        /\ (old.of = r.of /\ old.first # 0 /\ r.first = old.first) \/ r.first = serial
        /\ r.programmed \/ r.completed =>
              r.first # 0 /\ \A s \in Fresh(acks) : acks[s].serial \in r.first..serial
    BY <2>1, ReceiptFacts
  <2>4. it \in Item /\ it.version \in 1..e
    BY <1>4 DEF ItemsMade, Unit, Item, Versions
  <2>5. WellMade(r, it, e)
    BY <2>3, <2>4 DEF WellMade
  <2>6. CASE u.deleting /\ w = NoZone /\ acks = NoAcks
    <3>1. FirstHolds(u, w, held, i, r)
      BY <2>6 DEF FirstHolds, NoZone
    <3>2. DoneHolds(u, w, held, i, r, counted)
      BY <1>2, <2>6, NothingFresh, BlankIsSafe DEF DoneHolds
    <3> QED BY <2>5, <3>1, <3>2 DEF r, counted, st
  <2>7. CASE /\ w.uid # 0 /\ w.owner = u.uid /\ serial = w.serial
             /\ w.content = Rendered(u.items) /\ acks = w.acks
    <3>1. Safe(w, i, r)
      BY <2>3, <2>4, <2>7, RenderedIsSafe
    <3>2. ASSUME NEW s \in Servers, NEW l \in held[s], l.uid = w.uid, l.serial >= r.first
          PROVE  Safe(l, i, r)
      <4>1. CASE old.of = r.of /\ old.first # 0 /\ r.first = old.first
        <5>1. Safe(l, i, old)
          BY <2>2, <2>3, <2>7, <3>2, <4>1 DEF FirstHolds
        <5> QED BY <4>1, <5>1 DEF Safe
      <4>2. CASE r.first = serial
        <5>1. l \in Loaded /\ Before(l, w)
          BY <2>7, <3>2 DEF Ordered
        <5>2. l.serial \in Nat /\ w.serial \in Nat
          BY <5>1, HostedAssumption DEF Loaded, Zone, Serials
        <5>3. l.content = w.content
          BY <2>7, <3>2, <4>2, <5>1, <5>2 DEF Before
        <5> QED BY <3>1, <5>3 DEF Safe
      <4> QED BY <2>3, <4>1, <4>2
    <3>3. FirstHolds(u, w, held, i, r)
      BY <2>7, <3>1, <3>2 DEF FirstHolds
    <3>4. ASSUME r.programmed \/ r.completed, NEW s \in counted, NEW l \in held[s]
          PROVE  Safe(l, i, r)
      <4>1. s \in Servers /\ s \in Fresh(acks) /\ acks[s].serial # 0
        BY <1>2 DEF Fresh
      <4>2. acks[s].serial \in r.first..serial
        BY <2>3, <3>4, <4>1
      <4>3. CASE l.uid = 0
        BY <3>4, <4>1, <4>3, BlankIsSafe DEF Ordered
      <4>4. CASE l.uid # 0
        <5>1. l \in Loaded /\ l.uid = w.uid /\ l.serial >= acks[s].serial
          BY <2>7, <3>4, <4>1, <4>4 DEF Ordered
        <5>2. l.serial \in Nat /\ r.first \in Nat /\ acks[s].serial \in Nat
          <6>1. acks[s].serial \in Serials
            BY <4>1 DEF Acks, Ack
          <6>2. old.first \in Serials
            BY DEF Unit, Status, Receipt
          <6> QED BY <2>3, <5>1, <6>1, <6>2, HostedAssumption DEF Loaded, Serials
        <5>3. l.serial >= r.first
          BY <4>2, <5>1, <5>2
        <5> QED BY <3>2, <3>4, <4>1, <5>1, <5>3
      <4> QED BY <4>3, <4>4
    <3>5. counted \subseteq Servers
      BY <1>2 DEF Fresh
    <3>6. DoneHolds(u, w, held, i, r, counted)
      BY <3>1, <3>4, <3>5 DEF DoneHolds
    <3> QED BY <2>5, <3>3, <3>6 DEF r, counted, st
  <2> QED BY <2>6, <2>7
<1> QED BY <1>3, <1>4

\* What a unit says, and what the patch p in flight would make it say, holds of
\* the snapshot z and the copies held.
Truthful(u, p, z, e, held) ==
    /\ u.uid = 0 => u = NoUnit
    /\ ItemsMade(u, e)
    /\ Report(u, z, e, held, u.status)
    /\ p.current => u.uid # 0 /\ Report(u, z, e, held, p.status)

ReportInv ==
    \A k \in Current : Truthful(unit[k], pass[k], zone[k], budget.edits, Held(k))

\* The copies of k that a step leaves with a server were there, or are of the
\* snapshot as it was.
LEMMA HeldMoves ==
    ASSUME TypeOK, NEW s \in Servers, NEW k \in Keys, ServerMove(s),
           NEW l \in HeldBy(server'[s], k)
    PROVE  l \in HeldBy(server[s], k) \/ l = Loadable(zone[k]) \/ l = NotLoaded
<1>0. server[s].store \in [Keys -> Loaded]
  BY DEF TypeOK, Server
<1>1. CASE server'[s].store = server[s].store /\ server'[s].serving = server[s].serving
  BY <1>1 DEF HeldBy
<1>2. CASE \E m \in Keys : /\ server'[s].store = [server[s].store EXCEPT ![m] = Loadable(zone[m])]
                           /\ server'[s].serving = server[s].serving
  BY <1>0, <1>2 DEF HeldBy
<1>3. CASE server'[s].store = server[s].store /\ server'[s].serving = NotServing
  BY <1>3 DEF HeldBy, NotServing
<1>4. CASE /\ server'[s].store = server[s].store
           /\ \E m \in Keys : server'[s].serving = [key |-> m, loaded |-> server[s].store[m]]
  BY <1>4 DEF HeldBy
<1>5. CASE server'[s] = NewServer
  BY <1>5 DEF HeldBy, NewServer, NotServing
<1> QED BY <1>1, <1>2, <1>3, <1>4, <1>5 DEF ServerMove

LEMMA HeldOrdered ==
    ASSUME NEW k \in Keys, NEW z, NEW n, NEW sv \in [Servers -> Server],
           \A s \in Servers : Order(z, n, sv[s].store[k], sv[s].serving.key = k,
                                    sv[s].serving.loaded, z.acks[s].serial)
    PROVE  Ordered(z, n, [s \in Servers |-> HeldBy(sv[s], k)])
<1> SUFFICES ASSUME NEW s \in Servers, NEW l \in HeldBy(sv[s], k)
             PROVE  /\ l \in Loaded /\ l.uid <= n
                    /\ l.uid = 0 => l = NotLoaded
                    /\ z.uid # 0 /\ l.uid = z.uid => Before(l, z)
                    /\ z.acks[s].serial # 0 /\ l.uid # 0 => l.uid = z.uid /\ l.serial >= z.acks[s].serial
  BY DEF Ordered
<1>1. sv[s].store[k] \in Loaded /\ sv[s].serving.loaded \in Loaded
  BY Copies
<1>2. l = sv[s].store[k] \/ (sv[s].serving.key = k /\ l = sv[s].serving.loaded)
  BY DEF HeldBy
<1> QED BY <1>1, <1>2 DEF Order

\* A step of others: copies and acknowledgements may change, the patch may be
\* outdated, other units may be edited.
LEMMA TruthElsewhere ==
    ASSUME NEW u \in Unit, NEW p, NEW q, NEW z \in Zone, NEW w, NEW e \in Nat, NEW f \in Nat,
           NEW held, NEW h,
           Truthful(u, p, z, e, held), q = p \/ ~q.current, e <= f,
           w.uid = z.uid, w.owner = z.owner, w.serial = z.serial, w.content = z.content,
           \A s \in Servers : \A l \in h[s] :
               l \in held[s] \/ l = Loadable(z) \/ l = NotLoaded
    PROVE  Truthful(u, q, w, f, h)
<1>1. ASSUME NEW st, Report(u, z, e, held, st)
      PROVE  Report(u, w, f, h, st)
  <2>1. Report(u, z, e, h, st)
    BY <1>1, ReportCopied
  <2>2. Report(u, w, e, h, st)
    BY <2>1, ReportAcked
  <2> QED BY <2>2, ReportEdited
<1>2. ItemsMade(u, f)
  <2>1. \A i \in Items : u.items[i].version \in Nat
    BY HostedAssumption DEF Unit, Item, Versions
  <2> QED BY <2>1 DEF Truthful, ItemsMade
<1> QED BY <1>1, <1>2 DEF Truthful

\* What an edit by core makes of unit u: an item gets another policy, is to be
\* deleted, gets a new generation or goes.
Edited(u, v, e, f) ==
    /\ e <= f
    /\ u.uid # 0 /\ v.uid = u.uid
    /\ u.deleting => v.deleting
    /\ v.status = u.status
    /\ \A i \in Items :
          \/ v.items[i] = u.items[i]
          \/ /\ v.items[i].version = u.items[i].version
             /\ u.items[i].on # "deleting" /\ u.items[i].on # "absent" /\ v.items[i].on # "absent"
          \/ v.items[i].on = "allowed" /\ v.items[i].version = e + 1 /\ f = e + 1
          \/ v.items[i] = NoItem

LEMMA TruthEdited ==
    ASSUME NEW u \in Unit, NEW v \in Unit, NEW p, NEW q, NEW z, NEW e \in Nat, NEW f \in Nat, NEW held,
           Truthful(u, p, z, e, held), ~q.current, Edited(u, v, e, f)
    PROVE  Truthful(v, q, z, f, held)
<1> USE DEF Edited
<1>1. \A i \in Items : u.items[i].version \in Nat /\ v.items[i].version \in Nat
  BY HostedAssumption DEF Unit, Item, Versions
<1>2. ItemsMade(v, f)
  BY <1>1 DEF Truthful, ItemsMade, NoItem
<1>3. \A i \in Items :
              \/ /\ v.items[i].version = u.items[i].version
                 /\ u.items[i].on = "deleting" => v.items[i].on = "deleting"
              \/ v.items[i].version \notin 1..e
  BY <1>1 DEF NoItem
<1>4. Report(v, z, f, held, u.status)
  BY <1>3, ReportEdited DEF Truthful
<1> QED BY <1>2, <1>4 DEF Truthful

LEMMA TruthBlank ==
    ASSUME NEW uid, NEW q, NEW z, NEW e \in Nat, NEW held, ~q.current
    PROVE  /\ Truthful(NoUnit, q, z, e, held)
           /\ uid # 0 => Truthful([NoUnit EXCEPT !.uid = uid], q, z, e, held)
<1>1. ASSUME NEW v, v.items = NoUnit.items, v.status = NoStatus PROVE
        ItemsMade(v, e) /\ Report(v, z, e, held, v.status)
  <2>1. ItemsMade(v, e)
    BY <1>1 DEF ItemsMade, NoUnit, NoItem
  <2>2. Report(v, z, e, held, NoStatus)
    BY BlankReport, ReportNothing
  <2> QED BY <1>1, <2>1, <2>2
<1>2. Truthful(NoUnit, q, z, e, held)
  <2>1. NoUnit.status = NoStatus
    BY DEF NoUnit
  <2> QED BY <1>1, <2>1 DEF Truthful
<1>3. ASSUME uid # 0 PROVE Truthful([NoUnit EXCEPT !.uid = uid], q, z, e, held)
  <2> DEFINE v == [NoUnit EXCEPT !.uid = uid]
  <2>1. v.status = NoStatus /\ v.items = NoUnit.items /\ v.uid = uid
    BY DEF NoUnit
  <2> HIDE DEF v
  <2>2. Truthful(v, q, z, e, held)
    BY <1>1, <1>3, <2>1 DEF Truthful
  <2> QED BY <2>2 DEF v
<1> QED BY <1>2, <1>3

\* The truth about k once the state is the next one.
TruthfulNext(k) ==
    Truthful(unit'[k], pass'[k], zone'[k], budget'.edits, [s \in Servers |-> HeldBy(server'[s], k)])

LEMMA ElsewhereSteps ==
    ASSUME TypeOK, SnapshotInv, ReportInv, NEW k \in Current,
           \A s \in Servers : ServerMove(s), unit'[k] = unit[k],
           pass'[k] = pass[k] \/ ~pass'[k].current,
           budget'.edits \in Nat, budget.edits <= budget'.edits,
           zone'[k] = zone[k] \/ Acked(k)
    PROVE  TruthfulNext(k)
<1> DEFINE held == Held(k)
           h == [s \in Servers |-> HeldBy(server'[s], k)]
<1>1. k \in Keys /\ unit[k] \in Unit /\ zone[k] \in Zone /\ budget.edits \in Nat
  BY HostedAssumption DEF Current, TypeOK
<1>2. \A s \in Servers : \A l \in h[s] : l \in held[s] \/ l = Loadable(zone[k]) \/ l = NotLoaded
  BY <1>1, HeldMoves DEF Held
<1>3. /\ zone'[k].uid = zone[k].uid /\ zone'[k].owner = zone[k].owner
      /\ zone'[k].serial = zone[k].serial /\ zone'[k].content = zone[k].content
  BY DEF Acked
<1>4. Truthful(unit[k], pass[k], zone[k], budget.edits, held)
  BY DEF ReportInv
<1> HIDE DEF held, h
<1>5. Truthful(unit[k], pass'[k], zone'[k], budget'.edits, h)
  BY <1>1, <1>2, <1>3, <1>4, TruthElsewhere
<1> QED BY <1>5 DEF TruthfulNext, h

LEMMA CoreSteps ==
    ASSUME TypeOK, TypeOK', SnapshotInv, ReportInv, NEW k \in Current, Core(k)
    PROVE  TruthfulNext(k)
<1> DEFINE held == Held(k)
           u == unit[k]
           z == zone[k]
           e == budget.edits
<1>0. /\ k \in Keys /\ u \in Unit /\ unit'[k] \in Unit /\ z \in Zone /\ e \in Nat
      /\ budget \in BudgetType /\ budget' \in BudgetType /\ budget'.edits \in Nat
      /\ unit \in [Keys -> Unit] /\ pass \in [Keys -> PassType]
  <2>1. k \in Keys /\ MaxEdits \in Nat
    BY HostedAssumption DEF Current
  <2>2. budget' \in BudgetType /\ unit'[k] \in Unit
    BY <2>1 DEF TypeOK, BudgetType
  <2>3. budget \in BudgetType /\ pass \in [Keys -> PassType]
    BY TypeParts DEF UnitTypes
  <2> QED BY <2>1, <2>2, <2>3 DEF TypeOK, BudgetType
<1>1. Truthful(u, pass[k], z, e, held)
  BY DEF ReportInv
<1>2. /\ zone' = zone /\ server' = server /\ ~pass'[k].current
      /\ \E v : WriteUnit(k, v)
  BY <1>0 DEF Core, CreateUnit, DeleteUnit, EditItem, ChangePolicy, RequestDeletion, DropItem,
              WriteUnit, PassType
<1>3. SUFFICES Truthful(unit'[k], pass'[k], z, budget'.edits, held)
  BY <1>2 DEF TruthfulNext, Held
<1> HIDE DEF held
<1>4. CASE CreateUnit(k)
  <2>1. unit'[k] = [NoUnit EXCEPT !.uid = budget.units[k] + 1] /\ budget.units[k] + 1 # 0
    BY <1>0, <1>4 DEF CreateUnit, WriteUnit, BudgetType
  <2> QED BY <1>0, <1>2, <2>1, TruthBlank
<1>5. CASE DeleteUnit(k)
  <2>1. CASE u.deleting
    <3>1. unit'[k] = NoUnit
      BY <1>0, <1>5, <2>1 DEF DeleteUnit, WriteUnit
    <3> QED BY <1>0, <1>2, <3>1, TruthBlank
  <2>2. CASE ~u.deleting
    <3>1. unit'[k] = [u EXCEPT !.deleting = TRUE] /\ budget'.edits = e /\ u.uid # 0
      BY <1>0, <1>5, <2>2 DEF DeleteUnit, WriteUnit, BudgetType
    <3>2. /\ unit'[k].uid = u.uid /\ unit'[k].items = u.items /\ unit'[k].status = u.status
      BY <1>0, <3>1 DEF Unit
    <3>9. Edited(u, unit'[k], e, budget'.edits)
      BY <1>0, <1>1, <1>2, <2>2, <3>1, <3>2 DEF Edited
    <3> QED BY <1>0, <1>1, <1>2, <3>9, TruthEdited
  <2> QED BY <2>1, <2>2
<1>6. ASSUME NEW i \in Items, EditItem(k, i) PROVE Truthful(unit'[k], pass'[k], z, budget'.edits, held)
  <2>1. /\ unit'[k] = [u EXCEPT !.items[i] = [on |-> "allowed", version |-> e + 1]]
        /\ budget'.edits = e + 1 /\ u.uid # 0
    BY <1>0, <1>6 DEF EditItem, WriteUnit, BudgetType
  <2>2. /\ unit'[k].uid = u.uid /\ unit'[k].deleting = u.deleting /\ unit'[k].status = u.status
        /\ unit'[k].items[i].on = "allowed" /\ unit'[k].items[i].version = e + 1
        /\ \A j \in Items \ {i} : unit'[k].items[j] = u.items[j]
    BY <1>0, <2>1 DEF Unit
  <2>9. Edited(u, unit'[k], e, budget'.edits)
    BY <1>0, <1>1, <1>2, <2>1, <2>2 DEF Edited
  <2> QED BY <1>0, <1>1, <1>2, <2>9, TruthEdited
<1>7. u.uid = 0 => u = NoUnit
  BY <1>1 DEF Truthful
<1>8. ASSUME NEW i \in Items, ChangePolicy(k, i) PROVE Truthful(unit'[k], pass'[k], z, budget'.edits, held)
  <2>1. /\ unit'[k] = [u EXCEPT !.items[i].on = IF @ = "denied" THEN "allowed" ELSE "denied"]
        /\ budget'.edits = e /\ u.items[i].on \in {"allowed", "denied"}
    BY <1>0, <1>8 DEF ChangePolicy, WriteUnit, BudgetType
  <2>2. u.uid # 0
    BY <1>7, <2>1 DEF NoUnit, NoItem
  <2>3. /\ unit'[k].uid = u.uid /\ unit'[k].deleting = u.deleting /\ unit'[k].status = u.status
        /\ unit'[k].items[i].on \in {"allowed", "denied"}
        /\ unit'[k].items[i].version = u.items[i].version
        /\ \A j \in Items \ {i} : unit'[k].items[j] = u.items[j]
    BY <1>0, <2>1 DEF Unit, Item
  <2>9. Edited(u, unit'[k], e, budget'.edits)
    BY <1>0, <1>1, <1>2, <2>1, <2>2, <2>3 DEF Edited
  <2> QED BY <1>0, <1>1, <1>2, <2>9, TruthEdited
<1>9. ASSUME NEW i \in Items, RequestDeletion(k, i) PROVE Truthful(unit'[k], pass'[k], z, budget'.edits, held)
  <2>1. /\ unit'[k] = [u EXCEPT !.items[i].on = "deleting"]
        /\ budget' = budget /\ u.items[i].on \in {"allowed", "denied"}
    BY <1>0, <1>9 DEF RequestDeletion, WriteUnit
  <2>2. u.uid # 0
    BY <1>7, <2>1 DEF NoUnit, NoItem
  <2>3. /\ unit'[k].uid = u.uid /\ unit'[k].deleting = u.deleting /\ unit'[k].status = u.status
        /\ unit'[k].items[i].on = "deleting" /\ unit'[k].items[i].version = u.items[i].version
        /\ \A j \in Items \ {i} : unit'[k].items[j] = u.items[j]
    BY <1>0, <2>1 DEF Unit, Item
  <2>9. Edited(u, unit'[k], e, budget'.edits)
    BY <1>0, <1>1, <1>2, <2>1, <2>2, <2>3 DEF Edited
  <2> QED BY <1>0, <1>1, <1>2, <2>9, TruthEdited
<1>10. ASSUME NEW i \in Items, DropItem(k, i) PROVE Truthful(unit'[k], pass'[k], z, budget'.edits, held)
  <2>1. /\ unit'[k] = [u EXCEPT !.items[i] = NoItem]
        /\ budget' = budget /\ u.items[i].on = "deleting"
    BY <1>0, <1>10 DEF DropItem, WriteUnit, Completed
  <2>2. u.uid # 0
    BY <1>7, <2>1 DEF NoUnit, NoItem
  <2>3. /\ unit'[k].uid = u.uid /\ unit'[k].deleting = u.deleting /\ unit'[k].status = u.status
        /\ unit'[k].items[i] = NoItem
        /\ \A j \in Items \ {i} : unit'[k].items[j] = u.items[j]
    BY <1>0, <2>1 DEF Unit
  <2>9. Edited(u, unit'[k], e, budget'.edits)
    BY <1>0, <1>1, <1>2, <2>1, <2>2, <2>3 DEF Edited
  <2> QED BY <1>0, <1>1, <1>2, <2>9, TruthEdited
<1> QED BY <1>4, <1>5, <1>6, <1>8, <1>9, <1>10 DEF Core

LEMMA StatusSteps ==
    ASSUME TypeOK, ReportInv, NEW k \in Current, PatchStatus(k) \/ DropStatus(k)
    PROVE  TruthfulNext(k)
<1> DEFINE held == Held(k)
           u == unit[k]
           z == zone[k]
           e == budget.edits
<1>0. /\ k \in Keys /\ u \in Unit /\ z \in Zone /\ e \in Nat
      /\ unit \in [Keys -> Unit] /\ pass \in [Keys -> PassType] /\ pass[k].status \in Status
  <2>1. k \in Keys /\ MaxEdits \in Nat
    BY HostedAssumption DEF Current
  <2> QED BY <2>1, TypeParts DEF TypeOK, UnitTypes
<1>1. Truthful(u, pass[k], z, e, held)
  BY DEF ReportInv
<1>2. /\ zone' = zone /\ server' = server /\ budget' = budget /\ pass'[k] = Idle /\ ~Idle.current
  BY <1>0 DEF PatchStatus, DropStatus, Idle
<1>3. SUFFICES Truthful(unit'[k], Idle, z, e, held)
  BY <1>2 DEF TruthfulNext, Held
<1> HIDE DEF held
<1>4. CASE DropStatus(k)
  BY <1>1, <1>2, <1>4 DEF DropStatus, Truthful
<1>5. CASE PatchStatus(k)
  <2>1. unit'[k] = [u EXCEPT !.status = pass[k].status] /\ pass[k].current
    BY <1>0, <1>5 DEF PatchStatus
  <2>2. /\ unit'[k].uid = u.uid /\ unit'[k].deleting = u.deleting /\ unit'[k].items = u.items
        /\ unit'[k].status = pass[k].status
    BY <1>0, <2>1 DEF Unit
  <2>3. u.uid # 0 /\ ItemsMade(u, e) /\ Report(u, z, e, held, pass[k].status)
    BY <1>1, <2>1 DEF Truthful
  <2>4. Report(unit'[k], z, e, held, pass[k].status)
    BY <1>0, <2>2, <2>3, ReportEdited
  <2> QED BY <1>2, <2>2, <2>3, <2>4 DEF Truthful, ItemsMade
<1> QED BY <1>4, <1>5

\* A reconcile of a unit in accord with the snapshot sends nothing, or a
\* status that is in accord as well.
LEMMA TruthSent ==
    ASSUME NEW u, NEW z, NEW e, NEW held, NEW st, NEW q,
           u.uid # 0, ItemsMade(u, e), Report(u, z, e, held, u.status),
           Report(u, z, e, held, st), q = Idle \/ q.status = st
    PROVE  Truthful(u, q, z, e, held)
BY DEF Truthful, Idle

LEMMA SentStatus ==
    ASSUME TypeOK, NEW k \in Keys, NEW u, NEW st, SendStatus(k, u, st)
    PROVE  pass'[k] = Idle \/ pass'[k].status = st
<1>1. pass \in [Keys -> PassType]
  BY TypeParts DEF UnitTypes
<1> QED BY <1>1 DEF SendStatus

\* The reconcile of a key whose caches are current: what it reads is what is,
\* and it writes nothing but the snapshot and the patch.
LEMMA ReconcileReads ==
    ASSUME TypeOK, CacheInv, SnapshotInv, NEW k \in Current, Reconcile(k)
    PROVE  /\ seen[k].unit = unit[k] /\ seen[k].zone = zone[k]
           /\ unit' = unit /\ server' = server /\ budget'.edits = budget.edits
           /\ unit[k].uid # 0 =>
                 \/ Untouched(k)
                 \/ Removed(k) /\ (unit[k].deleting \/ zone[k].owner # unit[k].uid)
                 \/ Published(k) /\ (zone[k].uid # 0 => zone[k].owner = unit[k].uid)
<1>0. k \in Keys /\ budget \in BudgetType
  BY TypeParts DEF Current
<1>1. seen[k].unit = unit[k] /\ seen[k].zone = zone[k]
  BY DEF CacheInv
<1>2. unit' = unit /\ server' = server
  BY DEF Reconcile, ReconcileAbsent, ReconcileShadowed, ReconcileDeleting,
         ReconcileRejected, ReconcileZone
<1>3. budget'.edits = budget.edits
  <2>1. \/ budget' = budget
        \/ \E n : budget' = [budget EXCEPT !.snapshots = n]
    BY DEF Reconcile, ReconcileAbsent, ReconcileShadowed, ReconcileDeleting,
           ReconcileRejected, ReconcileZone
  <2> QED BY <1>0, <2>1 DEF BudgetType
<1>4. ASSUME unit[k].uid # 0
      PROVE  \/ Untouched(k)
             \/ Removed(k) /\ (unit[k].deleting \/ zone[k].owner # unit[k].uid)
             \/ Published(k) /\ (zone[k].uid # 0 => zone[k].owner = unit[k].uid)
  <2>1. \/ Untouched(k)
        \/ Removed(k) /\ seen[k].zone.uid # 0
           /\ (ReconcileAbsent(k) \/ ReconcileShadowed(k) \/ ReconcileDeleting(k))
        \/ Published(k) /\ ReconcileZone(k)
    BY <1>0, ReconcileMoves
  <2>2. ~ReconcileAbsent(k)
    BY <1>1, <1>4 DEF ReconcileAbsent
  <2>3. ReconcileShadowed(k) => zone[k].owner # unit[k].uid
    BY <1>1 DEF ReconcileShadowed, Owned
  <2>4. ReconcileDeleting(k) => unit[k].deleting
    BY <1>1 DEF ReconcileDeleting
  <2>5. ReconcileZone(k) => (zone[k].uid # 0 => zone[k].owner = unit[k].uid)
    BY <1>1 DEF ReconcileZone, Owned
  <2> QED BY <2>1, <2>2, <2>3, <2>4, <2>5
<1> QED BY <1>1, <1>2, <1>3, <1>4

\* The snapshot that a reconcile leaves is in accord with the status there is.
LEMMA ReconciledAccords ==
    ASSUME TypeOK, TypeOK', CacheInv, SnapshotInv, ReportInv, NEW k \in Current, Reconcile(k),
           unit[k].uid # 0
    PROVE  Report(unit[k], zone'[k], budget.edits, Held(k), unit[k].status)
<1> DEFINE u == unit[k]
           z == zone[k]
           w == zone'[k]
           e == budget.edits
           n == budget.snapshots
           held == Held(k)
<1>0. /\ k \in Keys /\ u \in Unit /\ z \in Zone /\ w \in Zone /\ e \in Nat /\ n \in Nat
      /\ u.status \in Status /\ server \in [Servers -> Server]
  BY HostedAssumption DEF Current, TypeOK, Unit
<1>1. Report(u, z, e, held, u.status)
  BY DEF ReportInv, Truthful
<1>2. Ordered(z, n, held)
  BY <1>0, HeldOrdered DEF SnapshotInv, InOrder, Held
<1>3. \/ Untouched(k)
      \/ Removed(k) /\ (u.deleting \/ z.owner # u.uid)
      \/ Published(k) /\ (z.uid # 0 => z.owner = u.uid)
  BY ReconcileReads
<1> SUFFICES Report(u, w, e, held, u.status)
  OBVIOUS
<1> HIDE DEF held
<1>4. CASE Untouched(k)
  BY <1>1, <1>4 DEF Untouched
<1>5. CASE Removed(k) /\ (u.deleting \/ z.owner # u.uid)
  BY <1>1, <1>5, ReportRemoved DEF Removed
<1>6. CASE Published(k) /\ (z.uid # 0 => z.owner = u.uid)
  <2>1. /\ z.uid # 0 => w.uid = z.uid
        /\ z.uid = 0 => w.uid = n + 1
        /\ w.uid # 0 /\ w.owner = u.uid /\ w.content = Rendered(u.items)
    BY <1>0, <1>6 DEF Published
  <2> HIDE DEF u, z, w, e, n
  <2>2. Report(u, w, e, held, u.status)
    BY <1>0, <1>1, <1>2, <1>6, <2>1, ReportPublished
  <2> QED BY <2>2 DEF u, z, w, e, n
<1> QED BY <1>3, <1>4, <1>5, <1>6

\* The status that a reconcile sends is in accord with the snapshot it leaves.
LEMMA ReconcileSteps ==
    ASSUME TypeOK, TypeOK', CacheInv, SnapshotInv, SnapshotInv', ReportInv,
           NEW k \in Current, Reconcile(k)
    PROVE  TruthfulNext(k)
<1> DEFINE u == unit[k]
           z == zone[k]
           w == zone'[k]
           e == budget.edits
           held == Held(k)
<1>0. /\ k \in Keys /\ u \in Unit /\ z \in Zone /\ w \in Zone /\ e \in Nat
      /\ u.status \in Status /\ server' \in [Servers -> Server] /\ now \in 0..MaxTime
      /\ u.status.serial \in Serials /\ z.serial \in Serials /\ z.acks \in Acks
  <2>1. MaxEdits \in Nat
    BY HostedAssumption
  <2> QED BY <2>1 DEF Current, TypeOK, Unit, Status, Zone
<1>1. /\ seen[k].unit = u /\ seen[k].zone = z /\ unit' = unit /\ server' = server
      /\ budget'.edits = e
  BY ReconcileReads
<1>2. SUFFICES Truthful(u, pass'[k], w, e, held)
  BY <1>1 DEF TruthfulNext, Held
<1>3. Truthful(u, pass[k], z, e, held)
  BY DEF ReportInv
<1>4. CASE u.uid = 0
  <2>1. u = NoUnit /\ ~pass[k].current
    BY <1>3, <1>4 DEF Truthful
  <2>2. pass' = pass
    BY <1>1, <1>4 DEF Reconcile, ReconcileAbsent, ReconcileShadowed, ReconcileDeleting,
                      ReconcileRejected, ReconcileZone
  <2> QED BY <1>0, <2>1, <2>2, TruthBlank
<1>5. CASE u.uid # 0
  <2>1. Report(u, w, e, held, u.status)
    BY <1>5, ReconciledAccords
  <2>2. Ordered(w, budget'.snapshots, held)
    <3>1. \A s \in Servers : Order(w, budget'.snapshots, server'[s].store[k],
                server'[s].serving.key = k, server'[s].serving.loaded, w.acks[s].serial)
      BY DEF SnapshotInv, InOrder, Current
    <3>2. Ordered(w, budget'.snapshots, [s \in Servers |-> HeldBy(server'[s], k)])
      BY <1>0, <3>1, HeldOrdered
    <3> QED BY <1>1, <3>2 DEF Held
  <2>3. ItemsMade(u, e)
    BY <1>3 DEF Truthful
  <2>4. ASSUME NEW st, SendStatus(k, u, st), Report(u, w, e, held, st)
        PROVE  Truthful(u, pass'[k], w, e, held)
    BY <1>0, <1>5, <2>1, <2>3, <2>4, SentStatus, TruthSent
  <2>5. /\ Report(u, w, e, held, SnapshotRejected(u))
        /\ Report(u, w, e, held, Rejected(u))
    <3>1. SnapshotRejected(u).receipts = Withheld(u) /\ Rejected(u).receipts = Withheld(u)
      BY <1>0 DEF SnapshotRejected, Rejected, Status, NoStatus
    <3> HIDE DEF held, u, w, e
    <3> QED BY <1>0, <2>1, <3>1, ReportWithheld
  <2>6. ASSUME NEW serial \in Serials, serial # 0, NEW content, NEW acks \in Acks,
           \/ /\ w.uid # 0 /\ w.owner = u.uid /\ serial = w.serial
              /\ w.content = Rendered(u.items) /\ acks = w.acks
           \/ u.deleting /\ w = NoZone /\ acks = NoAcks
        PROVE Report(u, w, e, held, Results(u, serial, content, acks))
    <3> HIDE DEF held, u, w, e
    <3> QED BY <1>0, <2>1, <2>2, <2>3, <2>6, ReportResults
  <2>7. CASE ReconcileAbsent(k)
    BY <1>1, <1>5, <2>7 DEF ReconcileAbsent
  <2>8. CASE ReconcileShadowed(k)
    <3>1. SendStatus(k, u, SnapshotRejected(u))
      BY <1>1, <2>8 DEF ReconcileShadowed
    <3> QED BY <2>4, <2>5, <3>1
  <2>9. CASE ReconcileRejected(k)
    <3>1. SendStatus(k, u, Rejected(u))
      BY <1>1, <2>9 DEF ReconcileRejected
    <3> QED BY <2>4, <2>5, <3>1
  <2>10. CASE ReconcileDeleting(k)
    <3> DEFINE content == Rendered(u.items)
               serial == Serial(u.status.serial, u.status.content, content)
    <3>1. w = NoZone /\ u.deleting
      <4>1. z.uid = 0 => z = NoZone
        BY DEF SnapshotInv
      <4>2. zone \in [Keys -> Zone]
        BY DEF TypeOK
      <4> QED BY <1>0, <1>1, <2>10, <4>1, <4>2 DEF ReconcileDeleting, DeleteSnapshot, WriteZone
    <3>2. \/ SendStatus(k, u, Rejected(u))
          \/ SendStatus(k, u, SnapshotRejected(u))
          \/ /\ ~Exhausted(u.status.serial, u.status.content, content)
             /\ SendStatus(k, u, Results(u, serial, content, NoAcks))
      BY <1>1, <2>10 DEF ReconcileDeleting
    <3>3. CASE /\ ~Exhausted(u.status.serial, u.status.content, content)
               /\ SendStatus(k, u, Results(u, serial, content, NoAcks))
      <4>1. serial \in Serials /\ serial # 0
        BY <1>0, <3>3, SerialFacts
      <4> HIDE DEF serial, content, w, held, u, e
      <4>2. Report(u, w, e, held, Results(u, serial, content, NoAcks))
        BY <2>6, <3>1, <4>1, Blanks
      <4> QED BY <2>4, <3>3, <4>2
    <3> HIDE DEF serial, content, w, held, u, e
    <3> QED BY <2>4, <2>5, <3>2, <3>3
  <2>11. CASE ReconcileZone(k)
    <3> DEFINE content == Rendered(u.items)
               previous == Previous(z, u)
               old == Old(z, u)
               serial == Serial(previous, old, content)
               new == [uid |-> IF z.uid # 0 THEN z.uid ELSE budget.snapshots + 1,
                       owner |-> u.uid, serial |-> serial, content |-> content,
                       acks |-> z.acks]
    <3>1. /\ z.uid # 0 => z.owner = u.uid
          /\ \/ SendStatus(k, u, SnapshotRejected(u))
             \/ /\ ~Exhausted(previous, old, content)
                /\ SendStatus(k, u, Results(u, serial, content, z.acks))
                /\ \/ w = z /\ z.uid # 0 /\ z.content = content
                   \/ w = new
      <4>1. zone \in [Keys -> Zone]
        BY DEF TypeOK
      <4> QED BY <1>0, <1>1, <2>11, <4>1 DEF ReconcileZone, WriteZone, Previous, Old, Owned
    <3>2. CASE SendStatus(k, u, SnapshotRejected(u))
      BY <2>4, <2>5, <3>2
    <3>3. CASE /\ ~Exhausted(previous, old, content)
               /\ SendStatus(k, u, Results(u, serial, content, z.acks))
               /\ \/ w = z /\ z.uid # 0 /\ z.content = content
                  \/ w = new
      <4>1. /\ serial \in Serials /\ serial # 0
            /\ old = content /\ previous # 0 => serial = previous
        <5>1. previous \in Serials
          BY <1>0 DEF Previous
        <5> QED BY <1>0, <3>3, <5>1, SerialFacts
      <4>2. z.uid # 0 => z.serial # 0
        BY DEF SnapshotInv
      <4>3. budget.snapshots + 1 # 0
        BY TypeParts DEF BudgetType
      <4>4. /\ w.uid # 0 /\ w.owner = u.uid /\ serial = w.serial
            /\ w.content = content /\ w.acks = z.acks
        <5>1. CASE w = z /\ z.uid # 0 /\ z.content = content
          BY <3>1, <4>1, <4>2, <5>1 DEF Previous, Old
        <5>2. CASE w = new
          <6>1. new.uid # 0 /\ new.owner = u.uid /\ new.serial = serial
                /\ new.content = content /\ new.acks = z.acks
            BY <4>3
          <6> HIDE DEF new, w, serial, content
          <6> QED BY <5>2, <6>1
        <5> QED BY <3>3, <5>1, <5>2
      <4>5. content = Rendered(u.items)
        OBVIOUS
      <4> HIDE DEF serial, content, new, w, held, u, e, z
      <4>6. Report(u, w, e, held, Results(u, serial, content, z.acks))
        BY <1>0, <2>6, <4>1, <4>4, <4>5
      <4> QED BY <2>4, <3>3, <4>6
    <3> QED BY <3>1, <3>2, <3>3
  <2> QED BY <2>7, <2>8, <2>9, <2>10, <2>11 DEF Reconcile
<1> QED BY <1>4, <1>5

\* Every step, seen from a unit whose caches are current.
LEMMA ReportNext ==
    TypeOK /\ TypeOK' /\ CacheInv /\ SnapshotInv /\ SnapshotInv' /\ ReportInv /\ [Next]_vars
        => ReportInv'
<1> SUFFICES ASSUME TypeOK, TypeOK', CacheInv, SnapshotInv, SnapshotInv', ReportInv, [Next]_vars,
                    NEW k \in Current
             PROVE  TruthfulNext(k)
  BY DEF ReportInv, TruthfulNext, Held, Current
<1>0. /\ k \in Keys /\ unit \in [Keys -> Unit] /\ pass \in [Keys -> PassType]
      /\ zone \in [Keys -> Zone] /\ budget \in BudgetType /\ budget' \in BudgetType
      /\ budget.edits \in Nat /\ budget'.edits \in Nat
  <2>1. budget \in BudgetType /\ budget' \in BudgetType /\ pass \in [Keys -> PassType]
    BY TypeParts DEF TypeOK, BudgetType, UnitTypes
  <2> QED BY <2>1, HostedAssumption DEF Current, TypeOK, BudgetType
<1>1. \A s \in Servers : ServerMove(s)
  BY ServerMoves
<1>2. ASSUME unit'[k] = unit[k], pass'[k] = pass[k] \/ ~pass'[k].current,
             budget.edits <= budget'.edits, zone'[k] = zone[k] \/ Acked(k)
      PROVE  TruthfulNext(k)
  BY <1>0, <1>1, <1>2, ElsewhereSteps
<1>3. ASSUME NEW j \in Keys, Core(j) PROVE TruthfulNext(k)
  <2>1. CASE j = k
    BY <1>3, <2>1, CoreSteps
  <2>2. CASE j # k
    <3>1. zone' = zone /\ \E v : WriteUnit(j, v)
      BY <1>3 DEF Core, CreateUnit, DeleteUnit, EditItem, ChangePolicy, RequestDeletion, DropItem
    <3>2. unit'[k] = unit[k] /\ pass'[k] = pass[k]
      BY <1>0, <2>2, <3>1 DEF WriteUnit
    <3>3. budget'.edits = budget.edits \/ budget'.edits = budget.edits + 1
      BY <1>0, <1>3 DEF Core, CreateUnit, DeleteUnit, EditItem, ChangePolicy, RequestDeletion,
                        DropItem, BudgetType
    <3> QED BY <1>0, <1>2, <3>1, <3>2, <3>3
  <2> QED BY <2>1, <2>2
<1>4. ASSUME NEW j \in Keys, Reconcile(j) PROVE TruthfulNext(k)
  <2>1. CASE j = k
    BY <1>4, <2>1, ReconcileSteps
  <2>2. CASE j # k
    <3>1. zone'[k] = zone[k]
      BY <1>4, <2>2, ReconcileMoves DEF Untouched
    <3>2. unit'[k] = unit[k] /\ pass'[k] = pass[k]
      BY <1>0, <1>4, <2>2 DEF Reconcile, ReconcileAbsent, ReconcileShadowed, ReconcileDeleting,
                              ReconcileRejected, ReconcileZone, SendStatus
    <3>3. budget'.edits = budget.edits
      <4>1. budget' = budget \/ \E n : budget' = [budget EXCEPT !.snapshots = n]
        BY <1>4 DEF Reconcile, ReconcileAbsent, ReconcileShadowed, ReconcileDeleting,
                    ReconcileRejected, ReconcileZone
      <4> QED BY <1>0, <4>1 DEF BudgetType
    <3> QED BY <1>0, <1>2, <3>1, <3>2, <3>3
  <2> QED BY <2>1, <2>2
<1>5. ASSUME NEW j \in Keys, PatchStatus(j) \/ DropStatus(j) PROVE TruthfulNext(k)
  <2>1. CASE j = k
    BY <1>5, <2>1, StatusSteps
  <2>2. CASE j # k
    <3>1. /\ unit'[k] = unit[k] /\ pass'[k] = pass[k] /\ zone'[k] = zone[k]
          /\ budget'.edits = budget.edits
      BY <1>0, <1>5, <2>2 DEF PatchStatus, DropStatus
    <3> QED BY <1>0, <1>2, <3>1
  <2> QED BY <2>1, <2>2
<1>6. ASSUME NEW s \in Servers, ServerStep(s) \/ \E graceful \in BOOLEAN : Restart(s, graceful)
      PROVE  TruthfulNext(k)
  <2>1. Acked(k)
    BY <1>0, <1>6, AckMoves
  <2>2. /\ unit' = unit /\ pass' = pass /\ budget'.edits = budget.edits
    BY <1>0, <1>6 DEF ServerStep, HandleEvent, Observe, Acknowledge, Relinquish, Restart, BudgetType
  <2> QED BY <1>0, <1>2, <2>1, <2>2
<1>7. CASE \/ \E j \in Keys : Sync(j)
           \/ \E s \in Servers : Connect(s) \/ Disconnect(s)
           \/ ChangeClass \/ Tick \/ UNCHANGED vars
  <2>1. /\ unit' = unit /\ pass' = pass /\ zone' = zone /\ budget'.edits = budget.edits
    BY <1>0, <1>7 DEF Sync, Connect, Disconnect, ChangeClass, Tick, vars, BudgetType
  <2> QED BY <1>0, <1>2, <2>1
<1> QED BY <1>3, <1>4, <1>5, <1>6, <1>7 DEF Next

LEMMA ReportInit == Init => ReportInv
<1> SUFFICES ASSUME Init, NEW k \in Current
             PROVE  Truthful(unit[k], pass[k], zone[k], budget.edits, Held(k))
  BY DEF ReportInv
<1>1. unit[k] = NoUnit /\ pass[k] = Idle /\ budget.edits = 0
  BY DEF Init, Current
<1>2. ~Idle.current
  BY DEF Idle
<1> DEFINE held == Held(k)
<1> HIDE DEF held
<1>3. Truthful(NoUnit, Idle, zone[k], 0, held)
  BY <1>2, TruthBlank
<1> QED BY <1>1, <1>3 DEF held

\* What a server answers is among the copies it holds.
LEMMA AnswersAreHeld ==
    ASSUME NEW s \in Servers, NEW k \in Keys
    PROVE  Answers(s, k) = Empty \/ \E l \in Held(k)[s] : Answers(s, k) = l.content
BY DEF Answers, Held, HeldBy

LEMMA ReportedAnswers ==
    ASSUME TypeOK, ReportInv, NEW k \in Current, NEW i \in Items, NEW s \in Counted(k),
           LET r == unit[k].status.receipts[i] IN
              (r.programmed \/ r.completed) /\ r.of = unit[k].items[i]
    PROVE  Answers(s, k)[i] \notin 1..Limit(unit[k].items[i])
<1> DEFINE r == unit[k].status.receipts[i]
           held == Held(k)
<1>1. DoneHolds(unit[k], zone[k], held, i, r, Counted(k))
  BY DEF ReportInv, Truthful, Report, Counted
<1>2. \A l \in held[s] : Safe(l, i, r)
  <2> HIDE DEF r, held
  <2> QED BY <1>1 DEF DoneHolds, r
<1>3. Answers(s, k) = Empty \/ \E l \in held[s] : Answers(s, k) = l.content
  BY AnswersAreHeld DEF Current, Counted
<1>4. Empty[i] = 0
  BY DEF Empty
<1> HIDE DEF held
<1> QED BY <1>2, <1>3, <1>4 DEF Safe

LEMMA ReportHolds == Spec => [](TypeOK /\ CacheInv /\ SnapshotInv /\ ReportInv)
<1>1. Init => CacheInv /\ SnapshotInv /\ ReportInv
  BY CacheInit, SnapshotInit, ReportInit
<1>2. TypeOK /\ TypeOK' /\ CacheInv /\ SnapshotInv /\ ReportInv /\ [Next]_vars
        => (CacheInv /\ SnapshotInv /\ ReportInv)'
  BY CacheNext, SnapshotNext, ReportNext
<1> QED BY <1>1, <1>2, TypeCorrect, PTL DEF Spec

\* Without lagging caches a deletion is reported complete only once no server
\* that the report counted can answer with the record: not from what it serves,
\* nor from what it has stored, whatever restarts, lost watches, late
\* acknowledgements and republications there are (status.go).
THEOREM DeletionsHonoured == Lagging = {} => (Spec => []DeletionHonoured)
<1> SUFFICES ASSUME Lagging = {} PROVE Spec => []DeletionHonoured
  OBVIOUS
<1>1. TypeOK /\ ReportInv => DeletionHonoured
  <2> SUFFICES ASSUME TypeOK, ReportInv, NEW k \in Keys, NEW i \in Items, Completed(unit[k], i),
                      NEW s \in Counted(k)
               PROVE  Answers(s, k)[i] \notin 1..unit[k].items[i].version
    BY DEF DeletionHonoured
  <2>1. Answers(s, k)[i] \notin 1..Limit(unit[k].items[i])
    BY ReportedAnswers DEF Completed, Current
  <2> QED BY <2>1 DEF Completed, Limit
<1> QED BY <1>1, ReportHolds, PTL

\* Without lagging caches no server that a report counted answers a programmed
\* record with an older generation of it, and the objects stay well typed
\* (status.go, setResults).
THEOREM AnswersTrue == Lagging = {} => (Spec => []AnswerInvariant)
<1> SUFFICES ASSUME Lagging = {} PROVE Spec => []AnswerInvariant
  OBVIOUS
<1>1. TypeOK /\ ReportInv => AnswerInvariant
  <2> SUFFICES ASSUME TypeOK, ReportInv, NEW k \in Keys, NEW i \in Items, Programmed(k, i),
                      NEW s \in Counted(k)
               PROVE  Answers(s, k)[i] \notin 1..(unit[k].items[i].version - 1)
    BY DEF AnswerInvariant, NoOlderAnswer
  <2>1. Answers(s, k)[i] \notin 1..Limit(unit[k].items[i])
    BY ReportedAnswers DEF Programmed, Current
  <2> QED BY <2>1 DEF Programmed, Limit
<1> QED BY <1>1, ReportHolds, PTL
=============================================================================
