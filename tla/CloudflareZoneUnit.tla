------------------------- MODULE CloudflareZoneUnit -------------------------
(***************************************************************************)
(* The Cloudflare provider's ZoneUnit controller: it creates or recovers   *)
(* the Cloudflare zone of a unit and programs the unit's record sets.  In  *)
(* Cloudflare every value is a record with an ID of its own, so the status *)
(* of the unit keeps a ledger of the IDs each claim incarnation owns, and  *)
(* a fence on the unit guards every write to Cloudflare.                   *)
(*                                                                         *)
(*   providers/cloudflare/controllers/zoneunit/{zone,recordset,            *)
(*   recordset_records,recordset_ledger,recordset_status,                  *)
(*   provider_factory}.go                                                  *)
(*                                                                         *)
(* All claims are for one owner name; a claim's type is TypeOf[c].  Reads  *)
(* of the unit go through an informer cache that may lag; one worker       *)
(* reconciles the unit, one call at a time.                                *)
(***************************************************************************)
EXTENDS Naturals, FiniteSets, FiniteSetsExt

CONSTANTS
    Claims,      \* RecordSet claim keys, in the order of the unit's list
    TypeOf,      \* the record type of each claim
    Contents,    \* what a RecordSet may ask for: sets of [value, ttl]
    Adopting,    \* whether RecordSets may name existing records to adopt
    Legacy,      \* whether the unit may stem from before receipts had UIDs
    MaxLags,     \* bound: times the informer cache falls behind
    MaxRecords,  \* bound: records ever made
    MaxZones,    \* bound: zones ever made
    MaxUids,     \* bound: incarnations of claims
    MaxEdits,    \* bound: changes of the composition by core
    MaxFaults    \* bound: failed calls, crashes, changes of class or identity,
                 \* and changes made in Cloudflare by others

ASSUME CloudflareAssumption ==
    /\ Claims \subseteq Nat \ {0} /\ IsFiniteSet(Claims)
    /\ \A c \in Claims : TypeOf[c] # "gone"
    /\ {MaxLags, MaxRecords, MaxZones, MaxUids, MaxEdits, MaxFaults} \subseteq Nat
    /\ {Adopting, Legacy} \subseteq BOOLEAN
    \* There is room for the zone and the records of a pre-upgrade unit.
    /\ Legacy => Cardinality(Claims) <= MaxRecords /\ MaxZones > 0

VARIABLES
    unit,     \* the ZoneUnit in the API server
    seen,     \* the controller's cached copy, and whether it is the latest
    cloud,    \* the zones and records in Cloudflare
    class,    \* whether ZoneClass and identity are usable, and its deletion policy
    pass,     \* the reconcile in progress
    budget    \* incarnations, generations and bounds used so far

vars == <<unit, seen, cloud, class, pass, budget>>

RecordIds == 1..MaxRecords
ZoneIds == 1..MaxZones
Types == {TypeOf[c] : c \in Claims}
Values == UNION Contents
Generations == 0..(MaxEdits + 2)
\* Types that allow no other type at their owner name.
Exclusive == {"CNAME", "NS"}

\* Who made a record: a claim incarnation (uid 0: before the UID cutover).
Makers == (Claims \X (0..MaxUids)) \cup {<<0, 0>>}
Foreign == <<0, 0>>

Record == [type : Types, value : Values, maker : Makers]
Gone == [type |-> "gone", value |-> [value |-> "none", ttl |-> 0], maker |-> Foreign]

Item == [uid : 1..MaxUids, gen : Generations, want : Contents,
         adopt : SUBSET RecordIds, allowed : BOOLEAN, deleting : BOOLEAN]
NoItem == [uid |-> 0, gen |-> 0, want |-> {}, adopt |-> {}, allowed |-> FALSE,
           deleting |-> FALSE]

Reasons == {"Unknown", "Programmed", "Pending", "Unready", "Conflict", "NotFound",
            "Mismatch", "Unowned", "Error"}

\* One entry of status.recordSets; uid 0 with IDs is a pre-upgrade receipt.
Entry == [uid : 0..MaxUids, gen : Generations, accepted : BOOLEAN, why : Reasons,
          whyGen : Generations, ids : SUBSET RecordIds, completed : BOOLEAN]
NoEntry == [uid |-> 0, gen |-> 0, accepted |-> FALSE, why |-> "Unknown", whyGen |-> 0,
            ids |-> {}, completed |-> FALSE]

\* status.zone: 0 is no zone ID.
ZoneStatus == [id : 0..MaxZones, intent : BOOLEAN, accepted : BOOLEAN, programmed : BOOLEAN]
NoZoneStatus == [id |-> 0, intent |-> FALSE, accepted |-> FALSE, programmed |-> FALSE]

Unit == [live : BOOLEAN, deleting : BOOLEAN, finalizer : BOOLEAN, zone : ZoneStatus,
         item : [Claims -> Item \cup {NoItem}], entry : [Claims -> Entry]]
NoUnit == [live |-> FALSE, deleting |-> FALSE, finalizer |-> FALSE, zone |-> NoZoneStatus,
           item |-> [c \in Claims |-> NoItem], entry |-> [c \in Claims |-> NoEntry]]

\* The ZoneClass and its identity: refused, accepted but not Ready, or usable
\* with zoneDeletionPolicy Delete or Retain.
Classes == {"refused", "unready", "delete", "retain"}
Ready == class \in {"delete", "retain"}
Retain == class = "retain"

\* A batch of record writes; patches gives the new value per record ID.
NoBatch == [posts |-> {}, patches |-> <<>>, deletes |-> {}]

Idle == [at |-> "idle", unit |-> NoUnit, zone |-> NoZoneStatus, c |-> 0, rest |-> {},
         ids |-> {}, batch |-> NoBatch, add |-> {}, drop |-> {}]

-----------------------------------------------------------------------------
(* Writes to the unit.                                                     *)

\* A write reaches the cache at once, or leaves it behind until Deliver.
WriteUnit(u) ==
    /\ unit' = u
    /\ \/ seen.current /\ seen' = [seen EXCEPT !.unit = u]
       \/ /\ seen.current /\ seen.lags < MaxLags
          /\ seen' = [seen EXCEPT !.current = FALSE, !.lags = @ + 1]
       \/ ~seen.current /\ UNCHANGED seen

\* patchZoneUnitZoneStatus: a merge patch without a resource version, of the
\* fields in which z differs from the cached status.
WriteZone(z, next) ==
    LET old == seen.unit.zone
        merged == [f \in DOMAIN z |-> IF z[f] = old[f] THEN unit.zone[f] ELSE z[f]]
    IN  IF ~seen.unit.live \/ z = old
        THEN pass' = next /\ UNCHANGED <<unit, seen>>
        ELSE IF unit.live
        THEN pass' = next /\ WriteUnit([unit EXCEPT !.zone = merged])
        ELSE pass' = Idle /\ UNCHANGED <<unit, seen>>

\* The item the pass works on, as it was when the pass began.
Source(p) == p.unit.item[p.c]

\* Whether item i of the unit still is the source of the pass.
SourceMatches(i, source) == [i EXCEPT !.allowed = source.allowed] = source

StatusMatchesItem(e, i) == e.uid # 0 /\ e.uid = i.uid

\* The ledger entry of claim c that a status patch starts from.
Rebased(c, i) ==
    LET e == seen.unit.entry[c]
    IN  IF StatusMatchesItem(e, i) THEN e ELSE [NoEntry EXCEPT !.uid = i.uid]

\* patchStatus: an optimistically locked patch of one ledger entry, read and
\* checked through the cache; a lost race or a changed source ends the pass.
PatchEntry(c, i, e, next) ==
    LET same == e = seen.unit.entry[c]
    IN  IF SourceMatches(seen.unit.item[c], i) /\ (same \/ seen.current)
        THEN /\ pass' = next
             /\ IF same THEN UNCHANGED <<unit, seen>>
                ELSE WriteUnit([unit EXCEPT !.entry[c] = e])
        ELSE pass' = Idle /\ UNCHANGED <<unit, seen>>

Current(c, i) == [Rebased(c, i) EXCEPT !.gen = i.gen]

\* The pass goes on with the next item of the unit.
Continue == IF pass.rest = {} THEN Idle
            ELSE [Idle EXCEPT !.at = "items", !.unit = pass.unit, !.rest = pass.rest]

\* setProgrammed for the current item, and on to the next one.
Report(why) ==
    LET i == Source(pass)
    IN  PatchEntry(pass.c, i, [Current(pass.c, i) EXCEPT !.why = why, !.whyGen = i.gen], Continue)

-----------------------------------------------------------------------------
(* Core, the cluster and other users of the Cloudflare account.            *)

Edits == budget.edits < MaxEdits
Spend(what) == budget' = [budget EXCEPT ![what] = @ + 1]

LiveOf(type) == {r \in RecordIds : cloud.records[r].type = type}
Live == {r \in RecordIds : cloud.records[r] # Gone}
ValuesOf(ids) == {cloud.records[r].value : r \in ids}
\* cloudflareDNSRecordSetEqual.
Shows(ids, want) == ValuesOf(ids) = want /\ Cardinality(ids) = Cardinality(want)

WriteItem(c, i) == WriteUnit([unit EXCEPT !.item[c] = i])

\* Core owns (name, type) to one claim at a time; a claim that was left out
\* for a while comes back with its UID and a later generation.
AddItem(c) ==
    /\ unit.live /\ ~unit.deleting /\ unit.item[c] = NoItem
    /\ \A d \in Claims \ {c} : TypeOf[d] = TypeOf[c] => unit.item[d] = NoItem
    /\ \E uid \in {budget.claim[c].uid, budget.uids + 1} \cap 1..MaxUids, want \in Contents,
          ids \in {{}} \cup (IF Adopting THEN {LiveOf(TypeOf[c])} ELSE {}) :
          LET new == uid # budget.claim[c].uid
              i == [uid |-> uid, gen |-> IF new THEN 1 ELSE budget.claim[c].gen + 1,
                    want |-> want, adopt |-> IF new THEN ids ELSE budget.claim[c].adopt,
                    allowed |-> TRUE, deleting |-> FALSE]
          IN  /\ new \/ (ids = {} /\ ~budget.claim[c].deleting)
              /\ WriteItem(c, i)
              /\ budget' = [budget EXCEPT !.claim[c] = i, !.uids = Max({@, uid})]
    /\ UNCHANGED <<cloud, class, pass>>

EditItem(c) ==
    /\ unit.live /\ unit.item[c] # NoItem /\ ~unit.item[c].deleting /\ Edits
    /\ \E want \in Contents \ {unit.item[c].want} :
          LET i == [unit.item[c] EXCEPT !.want = want, !.gen = @ + 1]
          IN  /\ WriteItem(c, i)
              /\ budget' = [budget EXCEPT !.edits = @ + 1, !.claim[c] = i]
    /\ UNCHANGED <<cloud, class, pass>>

\* The claim is disallowed or allowed again, dropped or deleted.
DecideItem(c) ==
    /\ unit.live /\ unit.item[c] # NoItem /\ ~unit.item[c].deleting /\ Edits
    /\ \E i \in {[unit.item[c] EXCEPT !.allowed = ~@], NoItem} : WriteItem(c, i)
    /\ Spend("edits")
    /\ UNCHANGED <<cloud, class, pass>>

RequestDeletion(c) ==
    /\ unit.live /\ unit.item[c] # NoItem /\ ~unit.item[c].deleting
    /\ LET i == [unit.item[c] EXCEPT !.deleting = TRUE, !.gen = @ + 1]
       IN  WriteItem(c, i) /\ budget' = [budget EXCEPT !.claim[c] = i]
    /\ UNCHANGED <<cloud, class, pass>>

\* Core lets the claim go once its completion is recorded for this UID.
Completed(u, c) ==
    /\ u.item[c].deleting
    /\ u.entry[c].uid = u.item[c].uid /\ u.entry[c].completed

RemoveItem(c) ==
    /\ unit.live /\ Completed(unit, c)
    /\ WriteItem(c, NoItem)
    /\ UNCHANGED <<cloud, class, pass, budget>>

DeleteUnit ==
    /\ unit.live /\ ~unit.deleting /\ Edits
    /\ \A c \in Claims : unit.item[c] = NoItem
    /\ WriteUnit(IF unit.finalizer THEN [unit EXCEPT !.deleting = TRUE] ELSE NoUnit)
    /\ Spend("edits")
    /\ UNCHANGED <<cloud, class, pass>>

Deliver ==
    /\ ~seen.current
    /\ seen' = [seen EXCEPT !.unit = unit, !.current = TRUE]
    /\ UNCHANGED <<unit, cloud, class, pass, budget>>

\* The ZoneClass or the identity becomes usable or not, or the class's
\* zoneDeletionPolicy changes.
ChangeClass ==
    /\ budget.faults < MaxFaults
    /\ class' \in Classes \ {class}
    /\ Spend("faults")
    /\ UNCHANGED <<unit, seen, cloud, pass>>

Fresh == budget.records + 1
CloudHas(id) == id \in cloud.zones

\* Someone else adds a record at the owner name, removes one, or removes the
\* whole zone (and its records) by hand.
ForeignAct ==
    /\ budget.faults < MaxFaults
    /\ \/ /\ Fresh \in RecordIds /\ cloud.zones # {}
          /\ \E t \in Types, v \in Values :
                cloud' = [cloud EXCEPT !.records[Fresh] =
                             [type |-> t, value |-> v, maker |-> Foreign]]
          /\ budget' = [budget EXCEPT !.faults = @ + 1, !.records = @ + 1]
       \/ /\ \E r \in Live : cloud' = [cloud EXCEPT !.records[r] = Gone]
          /\ budget' = [budget EXCEPT !.faults = @ + 1, !.tampered = TRUE]
       \/ /\ cloud.zones # {}
          /\ cloud' = [zones |-> {}, records |-> [r \in RecordIds |-> Gone]]
          /\ budget' = [budget EXCEPT !.faults = @ + 1, !.tampered = TRUE]
    /\ UNCHANGED <<unit, seen, class, pass>>

-----------------------------------------------------------------------------
(* The reconcile: the zone.                                                *)

Begin ==
    /\ pass.at = "idle" /\ seen.unit.live
    /\ pass' = [Idle EXCEPT !.at = IF seen.unit.deleting THEN "delete" ELSE "zone",
                            !.unit = seen.unit, !.zone = seen.unit.zone]
    /\ UNCHANGED <<unit, seen, cloud, class, budget>>

\* The process stops between two calls.
Crash ==
    /\ pass.at # "idle" /\ budget.faults < MaxFaults
    /\ pass' = Idle
    /\ Spend("faults")
    /\ UNCHANGED <<unit, seen, cloud, class>>

\* acceptZone, and the identity's readiness.
RefuseZone ==
    /\ pass.at = "zone" /\ ~Ready
    /\ WriteZone(IF class = "refused" THEN [pass.zone EXCEPT !.accepted = FALSE]
                 ELSE [pass.zone EXCEPT !.accepted = TRUE, !.programmed = FALSE], Idle)
    /\ UNCHANGED <<cloud, class, budget>>

AcceptZone ==
    /\ pass.at = "zone" /\ Ready
    /\ LET z == [pass.zone EXCEPT !.accepted = TRUE]
       IN  WriteZone(z, [pass EXCEPT !.at = "finalizer", !.zone = z])
    /\ UNCHANGED <<cloud, class, budget>>

\* reconcileFinalizer: an unlocked patch; the API server refuses to add a
\* finalizer to a unit that is being deleted.
SetFinalizer ==
    /\ pass.at = "finalizer"
    /\ IF pass.unit.finalizer # Retain
       THEN /\ pass' = [pass EXCEPT !.at = "select"]
            /\ UNCHANGED <<unit, seen>>
       ELSE /\ pass' = Idle
            /\ IF unit.live /\ ~unit.deleting
               THEN WriteUnit([unit EXCEPT !.finalizer = ~Retain])
               ELSE UNCHANGED <<unit, seen>>
    /\ UNCHANGED <<cloud, class, budget>>

\* recoverCreatedCloudflareZone: the only same-name zone, after a recorded
\* intent to create it, and without records of a user.
Recoverable == pass.zone.intent /\ Cardinality(cloud.zones) = 1 /\ Live = {}

\* The zone selectZone settles on: the recorded one while it exists, else a
\* recoverable one.
Selected ==
    IF CloudHas(pass.zone.id) THEN {pass.zone.id}
    ELSE IF Recoverable THEN cloud.zones
    ELSE {}

\* Mutant: creates without looking for a zone of the name.
MutantClear == TRUE

\* A new zone is only made when Cloudflare lists none of that name.
Clear == cloud.zones = {}

SelectZone ==
    /\ pass.at = "select"
    /\ IF Selected # {}
       THEN /\ pass' = [pass EXCEPT !.at = "apply", !.zone.id = CHOOSE id \in Selected : TRUE]
            /\ UNCHANGED <<unit, seen>>
       ELSE IF Clear
       THEN LET z == [pass.zone EXCEPT !.intent = TRUE]
            IN  WriteZone(z, [pass EXCEPT !.at = "create", !.zone = z])
       ELSE WriteZone([pass.zone EXCEPT !.programmed = FALSE], Idle)
    /\ UNCHANGED <<cloud, class, budget>>

\* The answer of a creating call may be lost after the zone was made.
CreateZone ==
    /\ pass.at = "create" /\ budget.zones < MaxZones
    /\ \E made, answered \in BOOLEAN :
          /\ answered => made
          /\ IF made
             THEN cloud' = [cloud EXCEPT !.zones = @ \cup {budget.zones + 1}]
             ELSE UNCHANGED cloud
          /\ answered \/ budget.faults < MaxFaults
          /\ budget' = [budget EXCEPT !.zones = IF made THEN @ + 1 ELSE @,
                                      !.faults = IF answered THEN @ ELSE @ + 1]
          /\ IF answered
             THEN /\ pass' = [pass EXCEPT !.at = "apply", !.zone.id = budget.zones + 1]
                  /\ UNCHANGED <<unit, seen>>
             ELSE WriteZone([pass.zone EXCEPT !.programmed = FALSE], Idle)
    /\ UNCHANGED class

\* applyObservedZone replaces the provider status, and with it the intent; a
\* zone that Cloudflare still initializes is not programmed yet.
ApplyZone ==
    /\ pass.at = "apply"
    /\ \E initializing \in BOOLEAN :
          LET z == [pass.zone EXCEPT !.intent = FALSE, !.programmed = ~initializing]
          IN  /\ initializing => budget.faults < MaxFaults
              /\ budget' = [budget EXCEPT !.faults = IF initializing THEN @ + 1 ELSE @]
              /\ WriteZone(z, IF initializing THEN Idle
                              ELSE [Idle EXCEPT !.at = "prune", !.unit = pass.unit])
    /\ UNCHANGED <<cloud, class>>

\* reconcileDelete; the ID is that of the recorded zone.
DeleteZone ==
    /\ pass.at = "delete"
    /\ LET u == pass.unit
           hasItems == \E c \in Claims : u.item[c] # NoItem
       IN  IF ~u.finalizer
           THEN pass' = Idle /\ UNCHANGED <<unit, seen, cloud>>
           ELSE IF class = "refused"
           THEN WriteZone([pass.zone EXCEPT !.accepted = FALSE], Idle) /\ UNCHANGED cloud
           ELSE IF ~Retain /\ (hasItems \/ class = "unready")
           THEN WriteZone([pass.zone EXCEPT !.programmed = FALSE], Idle) /\ UNCHANGED cloud
           ELSE /\ pass' = [pass EXCEPT !.at = "release"]
                /\ cloud' = IF Retain \/ ~CloudHas(u.zone.id) THEN cloud
                            ELSE [zones |-> cloud.zones \ {u.zone.id},
                                  records |-> [r \in RecordIds |-> Gone]]
                /\ UNCHANGED <<unit, seen>>
    /\ UNCHANGED <<class, budget>>

\* removeFinalizer; the last finalizer of a deleted unit takes the unit.
ReleaseUnit ==
    /\ pass.at = "release"
    /\ pass' = Idle
    /\ IF ~unit.live THEN UNCHANGED <<unit, seen>>
       ELSE WriteUnit(IF unit.deleting THEN NoUnit ELSE [unit EXCEPT !.finalizer = FALSE])
    /\ UNCHANGED <<cloud, class, budget>>

-----------------------------------------------------------------------------
(* The reconcile: the record sets.                                         *)

\* Entries no item refers to any more and that hold nothing to clean up.
Prunable(u) ==
    {c \in Claims : /\ u.item[c] = NoItem /\ u.entry[c] # NoEntry
                    /\ u.entry[c].completed \/ u.entry[c].ids = {}}

Prune ==
    /\ pass.at = "prune"
    /\ IF Prunable(seen.unit) # {}
       THEN /\ pass' = Idle
            /\ IF ~seen.current THEN UNCHANGED <<unit, seen>>
               ELSE WriteUnit([unit EXCEPT !.entry =
                      [c \in Claims |-> IF c \in Prunable(unit) THEN NoEntry ELSE @[c]]])
       ELSE LET todo == {c \in Claims : \/ pass.unit.item[c].allowed
                                        \/ pass.unit.item[c].deleting}
            IN  /\ pass' = IF todo = {} THEN Idle
                           ELSE [pass EXCEPT !.at = "items", !.rest = todo]
                /\ UNCHANGED <<unit, seen>>
    /\ UNCHANGED <<cloud, class, budget>>

\* acceptRecordSetFromZoneUnit: a refusal ends the loop over the items.  It
\* starts a new ledger entry for a new incarnation.
AcceptItem ==
    /\ pass.at = "items"
    /\ LET c == Min(pass.rest)
           u == pass.unit
           i == u.item[c]
           held == IF StatusMatchesItem(u.entry[c], i) THEN u.entry[c].ids ELSE {}
           refused == \/ class = "refused" \/ ~u.zone.accepted
                      \/ i.adopt # {} /\ held # {} /\ held # i.adopt
       IN  PatchEntry(c, i, [Current(c, i) EXCEPT !.accepted = ~refused],
                      IF refused THEN Idle
                      ELSE [pass EXCEPT !.at = "look", !.c = c, !.rest = @ \ {c},
                                        !.ids = Rebased(c, i).ids])
    /\ UNCHANGED <<cloud, class, budget>>

Type == TypeOf[pass.c]

\* cloudflareRecordValueKey: a CNAME is one record whatever it points to.
Key(type, v) == IF type = "CNAME" THEN "CNAME" ELSE v.value

\* Admission refuses duplicates among the values of a RecordSet, which share
\* one TTL, and a CNAME has one target (desiredCloudflareDNSRecords).
ASSUME ContentsAssumption ==
    \A want \in Contents, c \in Claims :
        /\ IsFiniteSet(want)
        /\ \A v, w \in want : Key(TypeOf[c], v) = Key(TypeOf[c], w) => v = w

\* Mutant: extra records are not deleted.
MutantOperations(type, ids, want) ==
    LET held == {v \in want : \E r \in ids : Key(type, cloud.records[r].value) = Key(type, v)}
    IN  [NoBatch EXCEPT !.posts = want \ held]

\* cloudflareRecordSetOperations: make the records ids show want.
Operations(type, ids, want) ==
    LET KeyOf(r) == Key(type, cloud.records[r].value)
        Holder(v) == Max({r \in ids : KeyOf(r) = Key(type, v)})
        held == {v \in want : \E r \in ids : KeyOf(r) = Key(type, v)}
        changed == {v \in held : cloud.records[Holder(v)].value # v}
    IN  [posts |-> want \ held,
         patches |-> [r \in {Holder(v) : v \in changed} |->
                         CHOOSE v \in changed : Holder(v) = r],
         deletes |-> {r \in ids : \A v \in want : Key(type, v) # KeyOf(r)}]

\* A type that cannot share the owner name is already there.
SameNameConflict(type) ==
    \E r \in Live : LET t == cloud.records[r].type
                    IN  t # type /\ {t, type} \cap Exclusive # {}

\* Mutant: a record outside the receipt is bound with the others.
MutantLegacyBound ==
    LET e == pass.unit.entry[pass.c]
    IN  /\ e.uid = 0 /\ ~e.completed /\ e.ids # {}
        /\ LiveOf(Type) # {} /\ Shows(LiveOf(Type), Source(pass).want)

\* legacyReceiptRecords: all live records of the type are in the pre-upgrade
\* receipt the pass began with, and show what the claim asks for.
LegacyBound ==
    LET e == pass.unit.entry[pass.c]
    IN  /\ e.uid = 0 /\ ~e.completed /\ e.ids # {}
        /\ LiveOf(Type) # {} /\ LiveOf(Type) \subseteq e.ids
        /\ Shows(LiveOf(Type), Source(pass).want)

\* The first part of setReady (and of binding a receipt): the ledger entry
\* holds exactly ids.
Bind(ids, next) ==
    LET i == Source(pass)
    IN  PatchEntry(pass.c, i, [Current(pass.c, i) EXCEPT !.ids = ids], next)

SetReady(ids) == Bind(ids, [pass EXCEPT !.at = "ready"])

\* What keeps the current item from being looked at in Cloudflare.
Blocked ==
    IF ~Ready THEN "Unready"
    ELSE IF ~pass.unit.zone.programmed THEN "Pending"
    ELSE IF ~CloudHas(pass.unit.zone.id) THEN "NotFound"
    ELSE ""

\* Names the records a RecordSet adopts, while it has no ledger of its own.
Adoption ==
    LET i == Source(pass)
        ids == i.adopt
    IN  IF ~(ids \subseteq Live) THEN Report("NotFound")
        ELSE IF ~Shows(ids, i.want) \/ ~(ids \subseteq LiveOf(Type)) THEN Report("Mismatch")
        ELSE IF ~(LiveOf(Type) \subseteq ids) THEN Report("Conflict")
        ELSE SetReady(ids)

\* The managed records are compared with the RecordSet; only IDs recorded
\* for this UID may be written, so any other record of the type blocks.
Diff ==
    LET ops == Operations(Type, pass.ids \cap LiveOf(Type), Source(pass).want)
    IN  IF SameNameConflict(Type) THEN Report("Conflict")
        ELSE IF pass.ids = {} /\ LegacyBound THEN SetReady(LiveOf(Type))
        ELSE IF ~(LiveOf(Type) \subseteq pass.ids) THEN Report("Conflict")
        ELSE IF ops = NoBatch THEN SetReady(pass.ids \cap LiveOf(Type))
        ELSE pass' = [pass EXCEPT !.at = "fence", !.batch = ops] /\ UNCHANGED <<unit, seen>>

\* reconcileNormal.
LookNormal ==
    /\ pass.at = "look" /\ ~Source(pass).deleting
    /\ IF Blocked # "" THEN Report(Blocked)
       ELSE IF Source(pass).adopt # {} /\ pass.ids = {} THEN Adoption
       ELSE Diff
    /\ UNCHANGED <<cloud, class, budget>>

ReportReady ==
    /\ pass.at = "ready"
    /\ Report("Programmed")
    /\ UNCHANGED <<cloud, class, budget>>

\* removeFinalizer of a record set: its deletion is reported as completed.
Complete ==
    LET i == Source(pass)
    IN  PatchEntry(pass.c, i, [Current(pass.c, i) EXCEPT !.why = "Programmed",
                                  !.whyGen = i.gen, !.completed = TRUE], Continue)

\* Mutant: an empty ledger is taken as proof that there are no records.
MutantDeleteUnknown == Complete

\* Without a known ID only an owner name without any record proves absence.
DeleteUnknown ==
    IF Live = {} THEN Complete
    ELSE IF LegacyBound THEN Bind(LiveOf(Type), [pass EXCEPT !.ids = LiveOf(Type)])
    ELSE Report("Unowned")

DeleteKnown(ids) ==
    LET odd == {r \in ids : cloud.records[r].type # Type}
        first == Min(odd)
    IN  IF odd # {} /\ first \in Live THEN Report("Mismatch")
        ELSE IF odd # {} /\ pass.ids # {}
        THEN Bind(Rebased(pass.c, Source(pass)).ids \ {first}, Continue)
        ELSE IF odd \cap Live # {} THEN Report("Mismatch")
        ELSE IF ids \cap Live = {} THEN Complete
        ELSE /\ pass' = [pass EXCEPT !.at = "fence",
                                     !.batch = [NoBatch EXCEPT !.deletes = ids \cap Live]]
             /\ UNCHANGED <<unit, seen>>

\* reconcileDeleteWithContext.
LookDeleting ==
    /\ pass.at = "look" /\ Source(pass).deleting
    /\ LET ids == IF pass.ids # {} THEN pass.ids ELSE Source(pass).adopt
       IN  IF ~CloudHas(pass.unit.zone.id) THEN Report("NotFound")
           ELSE IF ids = {} THEN DeleteUnknown
           ELSE DeleteKnown(ids)
    /\ UNCHANGED <<cloud, class, budget>>

\* A read of Cloudflare fails.
LookFails ==
    /\ pass.at = "look" /\ budget.faults < MaxFaults
    /\ Report("Error")
    /\ Spend("faults")
    /\ UNCHANGED <<cloud, class>>

\* authorizeCloudflareRecordSetMutation: the cached item is the source of the
\* pass, and the API server takes a no-op patch at the cached version.
Authorized == seen.unit.item[pass.c] = Source(pass) /\ seen.current

Fence ==
    /\ pass.at = "fence"
    /\ pass' = IF Authorized THEN [pass EXCEPT !.at = "batch"] ELSE Idle
    /\ UNCHANGED <<unit, seen, cloud, class, budget>>

\* The records after the batch of the pass; new records get fresh IDs.
Posted == Fresh..(budget.records + Cardinality(pass.batch.posts))

Applied ==
    LET b == pass.batch
        values == CHOOSE f \in [Posted -> b.posts] : {f[r] : r \in Posted} = b.posts
        Made(v) == [type |-> Type, value |-> v, maker |-> <<pass.c, Source(pass).uid>>]
    IN  [r \in RecordIds |->
            IF r \in Posted THEN Made(values[r])
            ELSE IF r \in DOMAIN b.patches THEN [cloud.records[r] EXCEPT !.value = b.patches[r]]
            ELSE IF r \in b.deletes THEN Gone
            ELSE cloud.records[r]]

\* Cloudflare applies a batch as a whole, or refuses it when a record in it
\* is gone.
Appliable == /\ CloudHas(pass.unit.zone.id)
             /\ (DOMAIN pass.batch.patches) \cup pass.batch.deletes \subseteq Live

\* The batch is applied, and answered unless a fault intervenes.
SendBatch ==
    /\ pass.at = "batch" /\ Appliable /\ Posted \subseteq RecordIds
    /\ cloud' = [cloud EXCEPT !.records = Applied]
    /\ \/ /\ pass' = [pass EXCEPT !.at = "ledger", !.batch = NoBatch,
                         !.add = Posted \cup DOMAIN pass.batch.patches,
                         !.drop = pass.batch.deletes]
          /\ budget' = [budget EXCEPT !.records = @ + Cardinality(Posted)]
          /\ UNCHANGED <<unit, seen>>
       \/ /\ budget.faults < MaxFaults
          /\ budget' = [budget EXCEPT !.records = @ + Cardinality(Posted), !.faults = @ + 1]
          /\ Report("Error")
    /\ UNCHANGED class

\* The batch is not applied.  While a claim is deleted the answer that a
\* record is gone counts as success.
RefuseBatch ==
    /\ pass.at = "batch"
    /\ IF Appliable
       THEN budget.faults < MaxFaults /\ Spend("faults") /\ Report("Error")
       ELSE /\ UNCHANGED budget
            /\ IF Source(pass).deleting
               THEN /\ pass' = [pass EXCEPT !.at = "ledger", !.batch = NoBatch,
                                            !.drop = pass.batch.deletes]
                    /\ UNCHANGED <<unit, seen>>
               ELSE Report("NotFound")
    /\ UNCHANGED <<cloud, class>>

\* One ledger write per record of the batch, then a report; what changed is
\* only confirmed by a later look.
Ledger ==
    /\ pass.at = "ledger"
    /\ LET held == Rebased(pass.c, Source(pass)).ids
       IN  IF pass.add # {}
           THEN Bind(held \cup {Min(pass.add)}, [pass EXCEPT !.add = @ \ {Min(@)}])
           ELSE IF pass.drop # {}
           THEN Bind(held \ {Min(pass.drop)}, [pass EXCEPT !.drop = @ \ {Min(@)}])
           ELSE Report("Pending")
    /\ UNCHANGED <<cloud, class, budget>>

-----------------------------------------------------------------------------
(* The specification.  A pre-upgrade unit starts with a record of each     *)
(* claim and the UID-less receipt for it.                                  *)

\* The record that claim c had before UIDs.
LegacyId(c) == Cardinality({d \in Claims : d <= c})

Init ==
    /\ \E old \in {FALSE, Legacy}, v \in Values :
          LET Ids(c) == IF old THEN {LegacyId(c)} ELSE {}
          IN  /\ unit = [NoUnit EXCEPT !.live = TRUE, !.zone.id = IF old THEN 1 ELSE 0,
                            !.entry = [c \in Claims |-> [NoEntry EXCEPT !.ids = Ids(c)]]]
              /\ cloud = [zones |-> {unit.zone.id} \ {0},
                          records |-> [r \in RecordIds |->
                             IF \E c \in Claims : r \in Ids(c)
                             THEN LET c == CHOOSE c \in Claims : r \in Ids(c)
                                  IN  [type |-> TypeOf[c], value |-> v, maker |-> <<c, 0>>]
                             ELSE Gone]]
    /\ seen = [unit |-> unit, current |-> TRUE, lags |-> 0]
    /\ class = "delete"
    /\ pass = Idle
    /\ budget = [claim |-> [c \in Claims |-> NoItem], uids |-> 0, edits |-> 0, faults |-> 0,
                 tampered |-> FALSE, records |-> Cardinality(Live),
                 zones |-> Cardinality(cloud.zones)]

Core(c) == AddItem(c) \/ EditItem(c) \/ DecideItem(c) \/ RequestDeletion(c) \/ RemoveItem(c)

ZoneStep ==
    \/ RefuseZone \/ AcceptZone \/ SetFinalizer \/ SelectZone \/ CreateZone \/ ApplyZone
    \/ DeleteZone \/ ReleaseUnit

RecordStep ==
    \/ Prune \/ AcceptItem \/ LookNormal \/ ReportReady \/ LookDeleting \/ LookFails
    \/ Fence \/ SendBatch \/ RefuseBatch \/ Ledger

Next ==
    \/ \E c \in Claims : Core(c)
    \/ DeleteUnit \/ Deliver \/ ChangeClass \/ ForeignAct
    \/ Begin \/ Crash \/ ZoneStep \/ RecordStep

Spec == Init /\ [][Next]_vars

-----------------------------------------------------------------------------
(* Properties.                                                             *)

TypeOK ==
    /\ unit \in Unit
    /\ seen \in [unit : Unit, current : BOOLEAN, lags : 0..MaxLags]
    /\ cloud \in [zones : SUBSET ZoneIds, records : [RecordIds -> Record \cup {Gone}]]
    /\ class \in Classes
    /\ pass.at \in {"idle", "zone", "finalizer", "select", "create", "apply", "delete",
                    "release", "prune", "items", "look", "ready", "fence", "batch", "ledger"}
    /\ pass.unit \in Unit /\ pass.zone \in ZoneStatus
    /\ pass.rest \subseteq Claims
    /\ pass.ids \cup pass.add \cup pass.drop \subseteq RecordIds
    /\ budget.records \in 0..MaxRecords /\ budget.zones \in 0..MaxZones

\* A write to Cloudflare changes or deletes only records that belong to the
\* claim it is made for: made by this incarnation, bound to the claim before
\* UIDs existed, or named by its adoption (recordset.go, reconcileNormal and
\* reconcileDeleteWithContext).
OwnRecordsOnly ==
    [][pass.at = "batch" /\ pass' # pass =>
          \A r \in Live : cloud'.records[r] # cloud.records[r] =>
              \/ cloud.records[r].maker \in {<<pass.c, Source(pass).uid>>, <<pass.c, 0>>}
              \/ r \in Source(pass).adopt]_vars

\* Once the deletion of a claim incarnation is reported as completed none of
\* the records it made is left in Cloudflare, and none appears later, not
\* even when the answer of the batch that made them was lost or a pass reads
\* an old unit (reconcileDeleteWithContext and removeFinalizer).
CompletedIsClean ==
    \A c \in Claims :
        LET e == unit.entry[c]
        IN  e.completed /\ budget.claim[c].uid = e.uid /\ budget.claim[c].adopt = {} =>
                \A r \in Live : cloud.records[r].maker # <<c, e.uid>>

\* While a claim is reported as programmed at its present generation, its
\* ledger lists exactly the records that show what it asks for, unless
\* someone removed records by hand (setReady and patchStatus).
ProgrammedIsShown ==
    \A c \in Claims :
        LET e == unit.entry[c]
            i == unit.item[c]
        IN  /\ i # NoItem /\ ~i.deleting /\ e.uid = i.uid
            /\ e.why = "Programmed" /\ e.whyGen = i.gen /\ ~budget.tampered
            => e.ids \subseteq LiveOf(TypeOf[c]) /\ ValuesOf(e.ids) = i.want

\* A creation whose answer or status write was lost is recovered, never
\* repeated: there is at most one zone of the name (selectZone).
OneZone == Cardinality(cloud.zones) <= 1

\* OneZone in well-typed states.
ZoneInvariant == TypeOK /\ OneZone
=============================================================================
