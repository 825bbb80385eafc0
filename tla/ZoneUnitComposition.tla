------------------------ MODULE ZoneUnitComposition ------------------------
(***************************************************************************)
(* The RecordSet side of the Core ZoneUnit controller: how RecordSet       *)
(* claims become items of ZoneUnit.spec.recordSets[], how the provider     *)
(* answers in the ledger ZoneUnit.status.recordSets[], and how core        *)
(* projects the answer back on the claims and releases deleted ones.       *)
(*                                                                         *)
(* The Zone exists, is not deleting and is accepted throughout.  Users,    *)
(* policy, the informer cache, the core reconciler and the provider are    *)
(* separate actors; every API-server write of the reconciler that another  *)
(* actor can observe is a step of its own.                                 *)
(***************************************************************************)
EXTENDS Naturals

CONSTANTS
    Claims,          \* claim keys (namespace/name), numbered in that order
    Idents,          \* the record identities in use, [name, type]
    IdentsOf,        \* claim -> the identities its author may give it
    Bodies,          \* record values
    CNAMECoexists,   \* the pairs {t, u} for which forbid-cname-coexistence is off
    ForbiddenPairs,  \* the pairs {t, u} zoneUnit.validationRules[] rejects
    CreatedAt,       \* UID -> metadata.creationTimestamp (whole seconds)
    MaxUID,          \* bound: how many claims are ever created
    MaxGeneration,   \* bound: claim generation after which edits stop
    MaxPolicyChanges,\* bound: how often the standing of a claim changes
    Standings,       \* what policy can make of a claim
    Forced,          \* may an administrator strip a claim's finalizer?
    Lag,             \* may the informer cache lag the API server?
    MaxFaults        \* bound: failed conversions, failed API calls and crashes

None == [none |-> TRUE]
UIDs == 1 .. MaxUID
Generations == 0 .. MaxGeneration + 1

ASSUME ClaimsAssumption == Claims \subseteq Nat
ASSUME BoundsAssumption ==
    /\ MaxUID \in Nat \ {0}
    /\ MaxGeneration \in Nat \ {0}
    /\ MaxPolicyChanges \in Nat
    /\ MaxFaults \in Nat
ASSUME SwitchAssumption == Forced \in BOOLEAN /\ Lag \in BOOLEAN
ASSUME IdentAssumption ==
    /\ \A i \in Idents : i = [name |-> i.name, type |-> i.type]
    /\ IdentsOf \in [Claims -> SUBSET Idents]
ASSUME StandingAssumption ==
    Standings \subseteq {"allowed", "notAllowed", "unsupported"}
ASSUME CreationAssumption ==
    /\ CreatedAt \in [UIDs -> Nat]
    /\ \A u, v \in UIDs : u <= v => CreatedAt[u] <= CreatedAt[v]

(***************************************************************************)
(* The Programmed condition of a claim or ledger entry is kept as the      *)
(* generation at which it is True, 0 when it is not True.  Accepted is not *)
(* kept: the provider reports Programmed=True only together with           *)
(* Accepted=True for the same generation.                                  *)
(***************************************************************************)

RecordSet == [uid : UIDs, ident : Idents, body : Bodies, gen : Generations,
              deleting : BOOLEAN, fin : BOOLEAN, prog : Generations]

Item == [uid : UIDs, ident : Idents, body : Bodies, gen : Generations,
         allowed : BOOLEAN, del : BOOLEAN]

\* rec is the record identity in the provider payload (the ownership receipt).
Entry == [uid : UIDs, gen : Generations, rec : Idents \cup {None},
          prog : Generations, done : BOOLEAN]

Unit == [exists : BOOLEAN,
         spec   : [Claims -> Item \cup {None}],
         ledger : [Claims -> Entry \cup {None}]]

\* A record of the hosted zone with the incarnation that programmed it.
DNSRecord == [uid : UIDs, body : Bodies]

Change == [op : {"UPSERT", "DELETE"}, ident : Idents, uid : UIDs, body : Bodies]

VARIABLES
    rs,        \* API server: the RecordSet claims
    unit,      \* API server: the ZoneUnit
    nextUID,   \* API server: the UID the next created object gets
    standing,  \* what Zone.spec.allowedRecordSets and the Provider make of a claim
    changes,   \* how often standing has changed
    faults,    \* how often core has failed
    crs,       \* core reconciler: the claims it read
    cunit,     \* core reconciler: the unit it read
    pc,        \* core reconciler: where in reconcileZone it is
    todo,      \* core reconciler: claims the running loop has not visited
    items,     \* core reconciler: the items collected so far
    rejected,  \* core reconciler: claims rejected so far
    dns,       \* the hosted zone: identity -> record
    inflight,  \* the provider call that passed the fence and has not landed
    attested   \* history: (uid, generation) pairs the provider observed live

apiVars == <<rs, unit, nextUID>>
userVars == <<nextUID, standing, changes>>
cacheVars == <<crs, cunit>>
loopVars == <<todo, items, rejected>>
coreVars == <<pc, todo, items, rejected, faults>>
providerVars == <<dns, inflight, attested>>
vars == <<rs, unit, nextUID, standing, changes, faults, crs, cunit, pc, todo, items,
          rejected, dns, inflight, attested>>

Phases == {"idle", "accept", "apply", "project"}

TypeOK ==
    /\ rs \in [Claims -> RecordSet \cup {None}]
    /\ unit \in Unit
    /\ nextUID \in 1 .. MaxUID + 1
    /\ standing \in [Claims -> Standings]
    /\ changes \in 0 .. MaxPolicyChanges
    /\ faults \in 0 .. MaxFaults
    /\ crs \in [Claims -> RecordSet \cup {None}]
    /\ cunit \in Unit
    /\ pc \in Phases
    /\ todo \subseteq Claims
    /\ items \in [Claims -> Item \cup {None}]
    /\ rejected \subseteq Claims
    /\ dns \in [Idents -> DNSRecord \cup {None}]
    /\ inflight \in Change \cup {None}
    /\ attested \subseteq UIDs \X Generations

-----------------------------------------------------------------------------
(* Conflicts between identities.                                           *)

\* zoneUnitRecordSetsConflict: the same name, and the same type, a CNAME that
\* may not coexist, or a provider rule.
Conflict(i, j) ==
    /\ i.name = j.name
    /\ \/ i.type = j.type
       \/ "CNAME" \in {i.type, j.type} /\ {i.type, j.type} \notin CNAMECoexists
       \/ {i.type, j.type} \in ForbiddenPairs

\* MUTANT of Completed: the confirmation of any incarnation of the name counts.
MutantCompleted(e, uid) == e /= None /\ e.done

\* providerRecordSetDeletionCompleted
Completed(e, uid) == e /= None /\ e.done /\ e.uid = uid

-----------------------------------------------------------------------------
(* What one reconcile reads: the cached claims and the cached unit.        *)

Cached(c) == crs[c] /= None

\* The claims left after recordSetsAllowedByZone, recordSetsMatchingProvider
\* and recordSetsSupportedByProvider.
Supported == {c \in Claims : Cached(c) /\ standing[c] = "allowed"}
PolicyRejected == {c \in Claims : Cached(c) /\ standing[c] = "notAllowed"}
Unsupported == {c \in Claims : Cached(c) /\ standing[c] = "unsupported"}

\* The disallowed claims retainedNotAllowedRecordSetItems looks at.
Retainable == {c \in PolicyRejected : cunit.spec[c] /= None}

\* retainedExistingRecordSetItems
Kept(c) ==
    LET i == cunit.spec[c] IN
    /\ i /= None
    /\ ~(i.del /\ Completed(cunit.ledger[c], i.uid))
    /\ ~(c \in Supported /\ crs[c].uid /= i.uid /\ ~i.del)

\* pendingRecordSetDeletion
PendingDeletion(c) == crs[c].deleting /\ ~Completed(cunit.ledger[c], crs[c].uid)

\* pendingRecordSetDeletionItems: the identities deleting claims still hold.
PendingDeletions == {c \in Supported : PendingDeletion(c)}

\* The existing items with which acceptedItems starts: the kept ones, except
\* those a pending deletion owns (zoneUnitItemOwnedByPendingDeletion).
ExistingOwners ==
    {c \in Claims : /\ Kept(c)
                    /\ ~\E d \in PendingDeletions \ {c} :
                            Conflict(cunit.spec[c].ident, crs[d].ident)}

\* zoneUnitRecordSetItem
ItemOf(c) ==
    [uid |-> crs[c].uid, ident |-> crs[c].ident, body |-> crs[c].body,
     gen |-> crs[c].gen, allowed |-> TRUE, del |-> crs[c].deleting]

\* zoneUnitRecordSetSpecEqual: generation and allowed are not compared.
SpecEqual(i, j) == [i EXCEPT !.gen = j.gen, !.allowed = j.allowed] = j

\* zoneUnitRecordSetItemIsPendingPredecessor, for an item not completed.
PendingPredecessor(c) ==
    LET i == cunit.spec[c] IN
    /\ Cached(c)
    /\ i /= None
    /\ i.del
    /\ i.uid /= crs[c].uid
    /\ ~Completed(cunit.ledger[c], i.uid)

\* The parts of LosesOwnership.
Superseded(c) ==
    \/ PendingPredecessor(c)
    \/ /\ ~crs[c].deleting
       /\ Kept(c)
       /\ ~SpecEqual(cunit.spec[c], ItemOf(c))
LosesToDeletion(c) ==
    /\ ~crs[c].deleting
    /\ \E d \in PendingDeletions \ {c} : Conflict(crs[c].ident, crs[d].ident)
LosesToOwner(c) ==
    \E o \in ExistingOwners \ {c} : Conflict(crs[c].ident, cunit.spec[o].ident)
LosesToItem(c) ==
    \E o \in Claims \ {c} :
        items[o] /= None /\ Conflict(crs[c].ident, items[o].ident)

\* MUTANTS of LosesOwnership: the items accepted in this reconcile, those of the
\* existing unit or those on their way out are not consulted, or a claim loses
\* to its own item.
MutantIgnoresItems(c) == Superseded(c) \/ LosesToDeletion(c) \/ LosesToOwner(c)
MutantIgnoresOwners(c) == Superseded(c) \/ LosesToDeletion(c) \/ LosesToItem(c)
MutantIgnoresDeletions(c) ==
    \/ Superseded(c)
    \/ LosesToOwner(c)
    \/ \E o \in Claims \ {c} : /\ items[o] /= None /\ ~items[o].del
                               /\ Conflict(crs[c].ident, items[o].ident)
MutantLosesToItself(c) ==
    \/ Superseded(c)
    \/ \E o \in ExistingOwners : Conflict(crs[c].ident, cunit.spec[o].ident)

\* The checks that end with RecordSetConflict in acceptedRecordSetItems.
LosesOwnership(c) ==
    Superseded(c) \/ LosesToDeletion(c) \/ LosesToOwner(c) \/ LosesToItem(c)

\* recordSetsForZoneKey's order, and deleting claims first (stable sort).
Before(c, d) ==
    IF PendingDeletion(c) # PendingDeletion(d)
    THEN PendingDeletion(c)
    ELSE \/ CreatedAt[crs[c].uid] < CreatedAt[crs[d].uid]
         \/ CreatedAt[crs[c].uid] = CreatedAt[crs[d].uid] /\ c < d

First(c) == c \in Supported /\ \A d \in (todo \cap Supported) \ {c} : Before(c, d)

-----------------------------------------------------------------------------
(* Users and administrators.                                               *)

CreateClaim(c, i, b) ==
    /\ rs[c] = None
    /\ nextUID <= MaxUID
    /\ rs' = [rs EXCEPT ![c] = [uid |-> nextUID, ident |-> i, body |-> b, gen |-> 1,
                                deleting |-> FALSE, fin |-> FALSE,
                                prog |-> 0]]
    /\ nextUID' = nextUID + 1
    /\ UNCHANGED <<unit, standing, changes, cacheVars, coreVars, providerVars>>

\* The CRD keeps zoneRef, provider, type and name immutable; values may change.
EditClaim(c, b) ==
    /\ rs[c] /= None
    /\ ~rs[c].deleting
    /\ rs[c].body /= b
    /\ rs[c].gen < MaxGeneration
    /\ rs' = [rs EXCEPT ![c] = [rs[c] EXCEPT !.body = b, !.gen = rs[c].gen + 1]]
    /\ UNCHANGED <<unit, userVars, cacheVars, coreVars, providerVars>>

\* With a finalizer the API server only marks the object and bumps its generation.
DeleteClaim(c) ==
    /\ rs[c] /= None
    /\ ~rs[c].deleting
    /\ rs' = [rs EXCEPT ![c] =
                 IF rs[c].fin
                 THEN [rs[c] EXCEPT !.deleting = TRUE, !.gen = rs[c].gen + 1]
                 ELSE None]
    /\ UNCHANGED <<unit, userVars, cacheVars, coreVars, providerVars>>

\* An administrator strips the finalizer of a claim stuck in deletion.
ForceFinalize(c) ==
    /\ Forced
    /\ rs[c] /= None
    /\ rs[c].deleting
    /\ rs' = [rs EXCEPT ![c] = None]
    /\ UNCHANGED <<unit, userVars, cacheVars, coreVars, providerVars>>

\* Zone.spec.allowedRecordSets, a namespace label or the Provider changes.  A
\* reconcile reads it once, when it begins: a change during one is a change
\* right after it.
ChangeStanding(c, s) ==
    /\ pc = "idle"
    /\ changes < MaxPolicyChanges
    /\ standing[c] /= s
    /\ standing' = [standing EXCEPT ![c] = s]
    /\ changes' = changes + 1
    /\ UNCHANGED <<apiVars, cacheVars, coreVars, providerVars>>

-----------------------------------------------------------------------------
(* The core reconciler.                                                    *)

\* Reads are served by informers that may lag: an object is seen as it is now
\* or, with Lag, as the previous reconcile saw it.
ReadCache ==
    \E fresh \in IF Lag THEN SUBSET Claims ELSE {Claims},
       unitFresh \in IF Lag THEN BOOLEAN ELSE {TRUE} :
        /\ crs' = [c \in Claims |-> IF c \in fresh THEN rs[c] ELSE crs[c]]
        /\ cunit' = IF unitFresh THEN unit ELSE cunit

\* reconcileZone up to acceptedRecordSetItems, for a resolved and allowed Zone.
\* The two loops over claims visit the supported claims and then the disallowed
\* ones that have an item.
BeginReconcile ==
    /\ pc = "idle"
    /\ pc' = "accept"
    /\ ReadCache
    /\ UNCHANGED <<apiVars, standing, changes, faults, providerVars>>
    /\ todo' = (Supported \cup Retainable)'
    /\ rejected' = (PolicyRejected \cup Unsupported)'
    /\ items' = [c \in Claims |-> None]

\* A patch by name with no UID or resourceVersion: whatever incarnation is
\* there takes it.  Dropping the last finalizer of a deleting object removes it.
DropFinalizer(c) ==
    rs' = IF crs[c].fin /\ rs[c] /= None
          THEN [rs EXCEPT ![c] = IF rs[c].deleting THEN None
                                 ELSE [rs[c] EXCEPT !.fin = FALSE]]
          ELSE rs

\* ensureFinalizer succeeds: nothing to patch, or the object takes the patch
\* (a deleting object accepts only the finalizer it already has).
AddFinalizer(c) ==
    \/ (crs[c].fin \/ crs[c].deleting) /\ UNCHANGED rs
    \/ /\ ~crs[c].fin
       /\ ~crs[c].deleting
       /\ rs[c] /= None
       /\ rs[c].deleting => rs[c].fin
       /\ rs' = [rs EXCEPT ![c] = [rs[c] EXCEPT !.fin = TRUE]]

\* ensureFinalizer fails: the object is gone, or is deleting and takes no new one.
FinalizerRefused(c) ==
    /\ ~crs[c].fin
    /\ ~crs[c].deleting
    /\ rs[c] /= None => rs[c].deleting /\ ~rs[c].fin

Fault == faults < MaxFaults /\ faults' = faults + 1

\* The claim leaves the loop as an item, rejected, or finalized.
Visit(c) == todo' = todo \ {c} /\ UNCHANGED pc

\* Conversion fails: the claim is rejected and its item is not rebuilt.
AcceptConversionError(c) ==
    /\ Fault
    /\ rejected' = rejected \cup {c}
    /\ UNCHANGED <<rs, items>>

\* A deleting claim whose cleanup completed is released.
AcceptFinalized(c) ==
    /\ crs[c].deleting
    /\ ~PendingDeletion(c)
    /\ DropFinalizer(c)
    /\ UNCHANGED <<items, rejected, faults>>

AcceptRejected(c) ==
    /\ crs[c].deleting => PendingDeletion(c)
    /\ LosesOwnership(c)
    /\ AddFinalizer(c)
    /\ rejected' = rejected \cup {c}
    /\ UNCHANGED <<items, faults>>

AcceptOwner(c) ==
    /\ crs[c].deleting => PendingDeletion(c)
    /\ ~LosesOwnership(c)
    /\ AddFinalizer(c)
    /\ items' = [items EXCEPT ![c] = ItemOf(c)]
    /\ UNCHANGED <<rejected, faults>>

\* One iteration of the loop of acceptedRecordSetItems.
AcceptNext(c) ==
    /\ pc = "accept"
    /\ c \in todo
    /\ First(c)
    /\ Visit(c)
    /\ \/ AcceptConversionError(c)
       \/ AcceptFinalized(c)
       \/ AcceptRejected(c)
       \/ AcceptOwner(c)
    /\ UNCHANGED <<unit, userVars, cacheVars, providerVars>>

\* A disallowed claim keeps its item as a cleanup ledger only.
RetainedItem(c) ==
    LET i == cunit.spec[c] IN
    IF i.uid = crs[c].uid
    THEN [i EXCEPT !.allowed = FALSE, !.del = crs[c].deleting]
    ELSE IF crs[c].deleting /\ ~PendingPredecessor(c)
    THEN [ItemOf(c) EXCEPT !.allowed = FALSE]
    ELSE None

\* One iteration of the loop of retainedNotAllowedRecordSetItems.
RetainNext(c) ==
    /\ pc = "accept"
    /\ c \in todo \cap Retainable
    /\ todo \cap Supported = {}
    /\ Visit(c)
    /\ \/ /\ crs[c].deleting
          /\ ~PendingDeletion(c)
          /\ DropFinalizer(c)
          /\ UNCHANGED items
       \/ /\ crs[c].deleting => PendingDeletion(c)
          /\ AddFinalizer(c)
          /\ items' = [items EXCEPT ![c] = RetainedItem(c)]
    /\ UNCHANGED <<unit, userVars, rejected, faults, cacheVars, providerVars>>

\* MUTANT of PatchStatus: the patch of a missing object creates a stub.
MutantPatchStatus(S, st) ==
    rs' = [c \in Claims |-> IF c \notin S THEN rs[c]
                            ELSE IF rs[c] = None THEN [prog |-> st[c]]
                            ELSE [rs[c] EXCEPT !.prog = st[c]]]

\* setRecordSetClaimStatus...: status patches by name, one per claim of S.  One
\* that equals the cached status may not be sent; a missing object is ignored.
PatchStatus(S, st) ==
    \E sent \in SUBSET S :
        /\ \A c \in S \ sent : crs[c].prog = st[c]
        /\ rs' = [c \in Claims |-> IF c \in sent /\ rs[c] /= None
                                   THEN [rs[c] EXCEPT !.prog = st[c]]
                                   ELSE rs[c]]

\* pendingPredecessorRecordSetItems, then Accepted=False or Unknown and
\* Programmed=Unknown on every rejected claim.
WriteRejected ==
    /\ pc = "accept"
    /\ todo = {}
    /\ pc' = "apply"
    /\ items' = [c \in Claims |-> IF PendingPredecessor(c) THEN cunit.spec[c]
                                                           ELSE items[c]]
    /\ PatchStatus(rejected, [c \in rejected |-> 0])
    /\ UNCHANGED <<unit, userVars, todo, rejected, faults, cacheVars, providerVars>>

\* validateZoneUnit: an item keeps its name and type as long as its key stays.
UpdateAdmitted ==
    \A c \in Claims : (unit.spec[c] /= None /\ items[c] /= None)
                         => unit.spec[c].ident = items[c].ident

\* applyZoneUnitDesired.  The unit is created when the first read missed it
\* (AlreadyExists is ignored), else patched unless the second read, which may
\* be as old as the first, already equals the desired spec.
ApplyUnit ==
    /\ pc = "apply"
    /\ pc' = "project"
    /\ \/ /\ ~cunit.exists
          /\ unit' = IF unit.exists THEN unit
                     ELSE [unit EXCEPT !.exists = TRUE, !.spec = items]
       \/ /\ cunit.exists
          /\ cunit.spec = items
          /\ UNCHANGED unit
       \/ /\ cunit.exists
          /\ UpdateAdmitted
          /\ unit' = [unit EXCEPT !.spec = items]
    /\ UNCHANGED <<rs, userVars, loopVars, faults, cacheVars, providerVars>>

\* MUTANT of Projected: the generations are not compared.
MutantProjected(c) == IF cunit.ledger[c].prog /= 0 THEN crs[c].gen ELSE 0

\* projectedAccepted and projectedProgrammed: only a condition observed at the
\* generation of the item, in an entry observed at that generation, is fresh.
\* The claim's condition is stamped with the claim's own generation.
Projected(c) ==
    LET e == cunit.ledger[c]
        g == items[c].gen
    IN  IF e.gen = g /\ e.prog = g THEN crs[c].gen ELSE 0

\* The claims whose ledger entry projectZoneUnitStatus uses, and the ones for
\* which it finds an entry of another incarnation or a completed one.
Projectable(c) ==
    /\ Cached(c)
    /\ items[c] /= None
    /\ items[c].uid = crs[c].uid
    /\ items[c].allowed \/ items[c].del
    /\ cunit.ledger[c] /= None
Incompatible(c) ==
    \/ cunit.ledger[c].uid /= items[c].uid
    \/ cunit.ledger[c].done /\ ~items[c].del

\* projectZoneUnitStatus
ProjectStatus ==
    /\ pc = "project"
    /\ pc' = "idle"
    /\ LET S == {c \in Claims : Projectable(c)} IN
       PatchStatus(S, [c \in S |-> IF Incompatible(c) THEN 0 ELSE Projected(c)])
    /\ todo' = {}
    /\ items' = [c \in Claims |-> None]
    /\ rejected' = {}
    /\ UNCHANGED <<unit, userVars, faults, cacheVars, providerVars>>

\* ensureFinalizer fails, the admission webhook refuses the unit, a call fails
\* or the process stops: the reconcile ends and its local state is lost.
AbortReconcile ==
    /\ pc /= "idle"
    /\ \/ Fault
       \/ /\ pc = "accept"
          /\ \E c \in todo : /\ First(c) \/ todo \cap Supported = {}
                             /\ FinalizerRefused(c)
          /\ UNCHANGED faults
       \/ /\ pc = "apply"
          /\ cunit.exists
          /\ ~UpdateAdmitted
          /\ UNCHANGED faults
    /\ pc' = "idle"
    /\ todo' = {}
    /\ items' = [c \in Claims |-> None]
    /\ rejected' = {}
    /\ UNCHANGED <<apiVars, standing, changes, cacheVars, providerVars>>

-----------------------------------------------------------------------------
(* The provider, one item at a time.  Its writes to the ledger carry the   *)
(* unit's resourceVersion and re-check the source item, so each of them is *)
(* atomic with respect to core's writes of the spec.                       *)

\* zoneUnitRecordSets: the ledger entry that belongs to the item's incarnation.
OwnEntry(c) ==
    LET i == unit.spec[c]
        e == unit.ledger[c]
    IN  IF e /= None /\ e.uid = i.uid /\ (e.done => i.del) THEN e
        ELSE [uid |-> i.uid, gen |-> 0, rec |-> None, prog |-> 0,
              done |-> FALSE]

Managed(c) == OwnEntry(c).rec /= None
Active(i) == i /= None /\ i.allowed /\ ~i.del
Deleting(i) == i /= None /\ i.del
Live(c) == dns[unit.spec[c].ident]

\* patchRecordSetStatusWithDeletionCompletion
WriteEntry(c, e) ==
    unit' = [unit EXCEPT !.ledger[c] =
                [e EXCEPT !.uid = unit.spec[c].uid, !.gen = unit.spec[c].gen]]

\* planRecordSet, planRecordSetDelete: a live record this incarnation does not
\* own is a ProviderConflict.
ProviderConflict(c) ==
    /\ inflight = None
    /\ Active(unit.spec[c]) \/ Deleting(unit.spec[c])
    /\ Live(c) /= None
    /\ ~Managed(c)
    /\ WriteEntry(c, [OwnEntry(c) EXCEPT !.prog = 0])
    /\ UNCHANGED <<rs, userVars, cacheVars, coreVars, providerVars>>

\* setRecordSetReady: the live record equals the desired one.
ProviderReady(c) ==
    /\ inflight = None
    /\ Active(unit.spec[c])
    /\ Managed(c)
    /\ Live(c) /= None
    /\ Live(c).body = unit.spec[c].body
    /\ LET i == unit.spec[c] IN
       /\ WriteEntry(c, [OwnEntry(c) EXCEPT !.rec = i.ident, !.prog = i.gen])
       /\ attested' = attested \cup {<<i.uid, i.gen>>}
    /\ UNCHANGED <<rs, userVars, cacheVars, coreVars, dns, inflight>>

\* The receipt is in the ledger before the change is sent.
ProviderReceipt(c) ==
    /\ inflight = None
    /\ Active(unit.spec[c])
    /\ Live(c) /= None => Managed(c) /\ Live(c).body /= unit.spec[c].body
    /\ LET i == unit.spec[c] IN
       WriteEntry(c, [OwnEntry(c) EXCEPT !.rec = i.ident])
    /\ UNCHANGED <<rs, userVars, cacheVars, coreVars, providerVars>>

\* fenceRecordSetChangeDispatch: the receipt and the source are current; the
\* call is then on its way and nothing recalls it.
ProviderDispatch(c) ==
    /\ inflight = None
    /\ \/ /\ Active(unit.spec[c])
          /\ Managed(c)
          /\ OwnEntry(c).gen = unit.spec[c].gen
          /\ Live(c) /= None => Live(c).body /= unit.spec[c].body
          /\ inflight' = [op |-> "UPSERT", ident |-> unit.spec[c].ident,
                          uid |-> unit.spec[c].uid, body |-> unit.spec[c].body]
       \/ /\ Deleting(unit.spec[c])
          /\ Managed(c)
          /\ Live(c) /= None
          /\ inflight' = [op |-> "DELETE", ident |-> unit.spec[c].ident,
                          uid |-> unit.spec[c].uid, body |-> Live(c).body]
    /\ UNCHANGED <<rs, unit, userVars, cacheVars, coreVars, dns, attested>>

\* ChangeRecordSets takes effect in the hosted zone.
ProviderLand ==
    /\ inflight /= None
    /\ dns' = [dns EXCEPT ![inflight.ident] =
                  IF inflight.op = "DELETE" THEN None
                  ELSE [uid |-> inflight.uid, body |-> inflight.body]]
    /\ inflight' = None
    /\ UNCHANGED <<rs, unit, userVars, cacheVars, coreVars, attested>>

\* MUTANTS of ProviderCompleted: completion is reported as soon as it is
\* requested, or only for an item that was programmed.
MutantCompletedEarly(c) ==
    /\ inflight = None
    /\ Deleting(unit.spec[c])
    /\ WriteEntry(c, [OwnEntry(c) EXCEPT !.done = TRUE, !.prog = unit.spec[c].gen])
    /\ UNCHANGED <<rs, userVars, cacheVars, coreVars, providerVars>>
MutantCompletedManaged(c) ==
    /\ inflight = None
    /\ Deleting(unit.spec[c])
    /\ Managed(c)
    /\ Live(c) = None
    /\ WriteEntry(c, [OwnEntry(c) EXCEPT !.done = TRUE, !.prog = unit.spec[c].gen])
    /\ UNCHANGED <<rs, userVars, cacheVars, coreVars, providerVars>>

\* removeRecordSetFinalizer: no live record is left, cleanup is complete.
ProviderCompleted(c) ==
    /\ inflight = None
    /\ Deleting(unit.spec[c])
    /\ Live(c) = None
    /\ WriteEntry(c, [OwnEntry(c) EXCEPT !.done = TRUE, !.prog = unit.spec[c].gen])
    /\ UNCHANGED <<rs, userVars, cacheVars, coreVars, providerVars>>

\* pruneOrphanedRecordSetStatuses
Prunable(c) ==
    LET e == unit.ledger[c] IN
    /\ unit.spec[c] = None
    /\ e /= None
    /\ ~e.done /\ e.rec /= None => dns[e.rec] = None

ProviderPrune ==
    /\ inflight = None
    /\ \E c \in Claims : Prunable(c)
    /\ unit' = [unit EXCEPT !.ledger = [c \in Claims |->
                    IF Prunable(c) THEN None ELSE unit.ledger[c]]]
    /\ UNCHANGED <<rs, userVars, cacheVars, coreVars, providerVars>>

-----------------------------------------------------------------------------
Init ==
    /\ rs = [c \in Claims |-> None]
    /\ unit = [exists |-> FALSE, spec |-> [c \in Claims |-> None],
               ledger |-> [c \in Claims |-> None]]
    /\ nextUID = 1
    /\ standing \in [Claims -> Standings]
    /\ changes = 0
    /\ faults = 0
    /\ crs = rs
    /\ cunit = unit
    /\ pc = "idle"
    /\ todo = {}
    /\ items = [c \in Claims |-> None]
    /\ rejected = {}
    /\ dns = [i \in Idents |-> None]
    /\ inflight = None
    /\ attested = {}

User ==
    \E c \in Claims :
        \/ \E i \in IdentsOf[c], b \in Bodies : CreateClaim(c, i, b)
        \/ \E b \in Bodies : EditClaim(c, b)
        \/ DeleteClaim(c)
        \/ ForceFinalize(c)
        \/ \E s \in Standings : ChangeStanding(c, s)

Core ==
    \/ BeginReconcile
    \/ \E c \in Claims : AcceptNext(c)
    \/ \E c \in Claims : RetainNext(c)
    \/ WriteRejected
    \/ ApplyUnit
    \/ ProjectStatus
    \/ AbortReconcile

Provider ==
    \/ \E c \in Claims :
          \/ ProviderConflict(c)
          \/ ProviderReady(c)
          \/ ProviderReceipt(c)
          \/ ProviderDispatch(c)
          \/ ProviderCompleted(c)
    \/ ProviderLand
    \/ ProviderPrune

Next == User \/ Core \/ Provider

Spec == Init /\ [][Next]_vars

(***************************************************************************)
(* Every event core watches (claims, units, policy) requeues the Zone, a   *)
(* failed reconcile is retried with back-off, and the provider is requeued *)
(* on every change of the unit and while a change is pending: both keep    *)
(* working.  Informers deliver every event in the end, so reconciles that  *)
(* read the current objects keep happening.  Nothing is assumed of users.  *)
(***************************************************************************)
FreshReconcile == BeginReconcile /\ crs' = rs /\ cunit' = unit
Fairness == WF_vars(Core) /\ WF_vars(Provider) /\ SF_vars(FreshReconcile)

FairSpec == Spec /\ Fairness

-----------------------------------------------------------------------------
(* Safety.                                                                 *)

\* No two items through which a provider may create or update records claim
\* conflicting identities: acceptedRecordSetItems resolves ownership before
\* the unit is written.
OwnersExclusive ==
    \A c, d \in Claims :
        (c /= d /\ Active(unit.spec[c]) /\ Active(unit.spec[d]))
            => ~Conflict(unit.spec[c].ident, unit.spec[d].ident)

\* A record that a live owner may write has no second item in the unit, not
\* even one kept as a cleanup ledger (disallowed) or as a pending predecessor:
\* the provider would delete under one item what it programs under the other.
RecordHasOneClaimant ==
    \A c, d \in Claims :
        (c /= d /\ Active(unit.spec[c]) /\ unit.spec[d] /= None)
            => unit.spec[c].ident /= unit.spec[d].ident

\* deletionCompleted is final: once it is in the ledger, no record of that
\* incarnation is live and no call that would create one is on its way.
CompletionIsFinal ==
    \A c \in Claims : LET e == unit.ledger[c] IN
        (e /= None /\ e.done) =>
            /\ \A i \in Idents : dns[i] /= None => dns[i].uid /= e.uid
            /\ inflight /= None => ~(inflight.op = "UPSERT" /\ inflight.uid = e.uid)

\* Programmed=True on a claim is an observation of exactly that incarnation
\* at exactly that generation: it is never inherited from a predecessor of
\* the same name nor carried over from an older generation.
ProgrammedIsAttested ==
    \A c \in Claims :
        (rs[c] /= None /\ ~rs[c].deleting /\ rs[c].prog /= 0)
            => <<rs[c].uid, rs[c].prog>> \in attested

(* Action properties.                                                      *)

\* A claim that carries the finalizer leaves the API server only when no record
\* of that incarnation is live and no call that would create one is on its way.
ReleasedClean ==
    [][\A c \in Claims :
          (rs[c] /= None /\ rs[c].fin /\ rs'[c] = None) =>
            /\ \A i \in Idents : dns[i] /= None => dns[i].uid /= rs[c].uid
            /\ inflight /= None => ~(inflight.op = "UPSERT" /\ inflight.uid = rs[c].uid)]_vars

\* An owner leaves ZoneUnit.spec, or stops being active, only because of what
\* its own claim became, or because a conflicting claim is being deleted.
OwnerLosesForCause ==
    [][\A c \in Claims :
          (/\ Active(unit.spec[c])
           /\ ~(Active(unit'.spec[c]) /\ unit'.spec[c].uid = unit.spec[c].uid)) =>
            \/ crs[c] = None
            \/ crs[c].uid /= unit.spec[c].uid
            \/ crs[c].deleting
            \/ crs[c].body /= unit.spec[c].body
            \/ standing[c] /= "allowed"
            \/ faults > 0
            \/ \E d \in PendingDeletions \ {c} :
                  Conflict(unit.spec[c].ident, crs[d].ident)]_vars

(* Liveness.                                                               *)

\* The only claim of the zone, at a name where no other incarnation left a
\* record.
Alone(c) ==
    /\ rs[c] /= None
    /\ standing[c] = "allowed"
    /\ \A d \in Claims \ {c} : rs[d] = None
    /\ \A i \in Idents :
          i.name = rs[c].ident.name /\ dns[i] /= None => dns[i].uid = rs[c].uid

\* A claim that in the end is alone is programmed as it stands, whatever
\* conflicts, edits, failed reconciles and late writes came before.
LoneClaimProgrammed ==
    \A c \in Claims :
        <>[](Alone(c) /\ ~rs[c].deleting)
            => <>[](rs[c] /= None /\ rs[c].prog = rs[c].gen)

\* A deleting claim that in the end is alone is released.
LoneDeletionCompletes ==
    \A c \in Claims : ~<>[](Alone(c) /\ rs[c].deleting)
=============================================================================
