--------------------------- MODULE ZoneLifecycle ---------------------------
(***************************************************************************)
(* The life of a Zone, of the ZoneUnit core keeps for it and of the hosted *)
(* zone the Route 53 controller keeps for the unit: creation, programming, *)
(* and deletion through three finalizers.                                  *)
(*                                                                         *)
(* The ZoneClass, the Provider and the identity resolve throughout, the    *)
(* Zone is not an adoption, and one RecordSet at most references it (what  *)
(* happens to several is ZoneUnitComposition).  Core and the Route 53      *)
(* controller share one manager, hence one informer cache.                 *)
(***************************************************************************)
EXTENDS Naturals

CONSTANTS
    MaxZones,          \* bound: Zones of this name ever created
    MaxUnits,          \* bound: ZoneUnits ever created
    Policies,          \* zoneDeletionPolicy of the ZoneClass, over time
    MaxPolicyChanges,  \* bound: how often it changes
    DenySameName,      \* sameNameZonePolicy is Deny
    WithClaim,         \* is a RecordSet ever created for the Zone?
    Manual,            \* do administrators delete ZoneUnits?
    Lag,               \* the kinds whose informer cache may lag the API server
    MaxCoreFaults,     \* bound: failed calls and crashes of core
    MaxProviderFaults  \* bound: failed calls and crashes of the controller

ASSUME LifecycleBounds ==
    /\ MaxZones \in Nat \ {0}
    /\ MaxUnits \in Nat \ {0}
    /\ MaxPolicyChanges \in Nat
    /\ MaxCoreFaults \in Nat
    /\ MaxProviderFaults \in Nat
ASSUME LifecycleSwitches ==
    /\ Policies \subseteq {"Delete", "Retain"}
    /\ {DenySameName, WithClaim, Manual} \subseteq BOOLEAN
    /\ Lag \subseteq {"zone", "claim", "unit"}

None == [none |-> TRUE]

\* A Zone has generation 1 until it is deleted, then 2.
Zone == [uid : 1 .. MaxZones, deleting : BOOLEAN, fin : BOOLEAN, prog : BOOLEAN]
Generation(z) == IF z.deleting THEN 2 ELSE 1

\* fin, prov: core's finalizer and the provider's.
\* gen: spec.zone.observedGeneration.  item, done: the RecordSet's item and its
\* ledger entry.  hz, ref, pend: provider state, 0 or "" when unset.
\* zprog: the generation at which the zone target is Programmed=True, or 0.
Unit == [uid : 1 .. MaxUnits, deleting : BOOLEAN, fin : BOOLEAN, prov : BOOLEAN,
         gen : 1 .. 2,
         item : {"none", "active", "del"}, done : BOOLEAN,
         hz : 0 .. MaxUnits, ref : 0 .. MaxUnits,
         pend : {"", "CREATE", "DELETE"}, zprog : 0 .. 2]

\* The RecordSet: not yet created, live, live with core's finalizer, deleting,
\* or gone for good.
ClaimStates == {"never", "live", "held", "deleting", "gone"}
Present(k) == k \in {"live", "held", "deleting"}

CorePhases == {"idle", "begin", "claim", "decide", "project", "wait", "release"}
ProviderPhases == {"idle", "start", "select", "create", "call", "tagNew", "record",
                   "tagFound", "refresh", "records", "delete", "deleted"}

VARIABLES
    zone,      \* API server: the Zone
    claim,     \* API server: the RecordSet that references it
    unit,      \* API server: the ZoneUnit
    zones,     \* API server: Zones created so far
    units,     \* API server: ZoneUnits created so far
    policy,    \* the ZoneClass's zoneDeletionPolicy
    changes,   \* how often it has changed
    cache,     \* the informers: [zone, claim, unit]
    pc,        \* core: where in reconcileZone it is
    seen,      \* core: what it read, [zone, claim, unit]
    ppc,       \* controller: where in Reconcile it is
    pu,        \* controller: the unit it read
    pid,       \* controller: the hosted zone it selected, or 0
    hosted,    \* Route 53: caller reference -> state of the hosted zone
    insync,    \* Route 53: has the last change propagated?
    faults,    \* how often each has failed, [core, provider]
    madeFor    \* history: the Zone a ZoneUnit was created for

apiVars == <<zone, claim, unit, zones, units>>
classVars == <<policy, changes>>
coreVars == <<pc, seen>>
providerVars == <<ppc, pu, pid>>
awsVars == <<hosted, insync>>
vars == <<zone, claim, unit, zones, units, policy, changes, cache, pc, seen, ppc, pu,
          pid, hosted, insync, faults, madeFor>>

Snapshot == [zone : Zone \cup {None}, claim : ClaimStates, unit : Unit \cup {None}]

TypeOK ==
    /\ zone \in Zone \cup {None}
    /\ claim \in ClaimStates
    /\ unit \in Unit \cup {None}
    /\ zones \in 0 .. MaxZones
    /\ units \in 0 .. MaxUnits
    /\ policy \in Policies
    /\ changes \in 0 .. MaxPolicyChanges
    /\ cache \in Snapshot
    /\ pc \in CorePhases
    /\ seen \in Snapshot
    /\ ppc \in ProviderPhases
    /\ pu \in Unit \cup {None}
    /\ pid \in 0 .. MaxUnits
    /\ hosted \in [1 .. MaxUnits -> {"none", "empty", "used", "gone"}]
    /\ insync \in BOOLEAN
    /\ faults \in [core : 0 .. MaxCoreFaults, provider : 0 .. MaxProviderFaults]
    /\ madeFor \in [1 .. MaxUnits -> 0 .. MaxZones]

Unread == [zone |-> None, claim |-> "never", unit |-> None]
Server == [zone |-> zone, claim |-> claim, unit |-> unit]
Informer == [k \in DOMAIN Server |-> IF k \in Lag THEN cache[k] ELSE Server[k]]
Exists(h) == h /= 0 /\ hosted[h] \in {"empty", "used"}

-----------------------------------------------------------------------------
(* Users and administrators.                                               *)

CreateZone ==
    /\ zone = None
    /\ zones < MaxZones
    /\ zones' = zones + 1
    /\ zone' = [uid |-> zones + 1, deleting |-> FALSE, fin |-> FALSE, prog |-> FALSE]
    /\ UNCHANGED <<claim, unit, units, classVars, cache, coreVars, providerVars,
                   awsVars, faults, madeFor>>

DeleteZone ==
    /\ zone /= None
    /\ ~zone.deleting
    /\ zone' = IF zone.fin THEN [zone EXCEPT !.deleting = TRUE] ELSE None
    /\ UNCHANGED <<claim, unit, zones, units, classVars, cache, coreVars,
                   providerVars, awsVars, faults, madeFor>>

CreateClaim ==
    /\ WithClaim
    /\ claim = "never"
    /\ claim' = "live"
    /\ UNCHANGED <<zone, unit, zones, units, classVars, cache, coreVars,
                   providerVars, awsVars, faults, madeFor>>

DeleteClaim ==
    /\ claim \in {"live", "held"}
    /\ claim' = IF claim = "held" THEN "deleting" ELSE "gone"
    /\ UNCHANGED <<zone, unit, zones, units, classVars, cache, coreVars,
                   providerVars, awsVars, faults, madeFor>>

\* A deletion of the unit: it stays as long as a finalizer is left.
MarkDeleted(u) == IF u.fin \/ u.prov THEN [u EXCEPT !.deleting = TRUE] ELSE None

\* A patch of the unit's finalizers replaces the list, by name.  The API server
\* refuses new ones on an object that is deleting, and removes the object with
\* the last one; NotFound is ignored.
FinalizersAdmitted(fin, prov) ==
    unit /= None /\ unit.deleting => (fin => unit.fin) /\ (prov => unit.prov)
SetFinalizers(fin, prov) ==
    IF unit = None \/ ~FinalizersAdmitted(fin, prov) THEN unit
    ELSE IF unit.deleting /\ ~fin /\ ~prov THEN None
    ELSE [unit EXCEPT !.fin = fin, !.prov = prov]

\* MUTANT of UnitDeletionAdmitted: the webhook is not asked.
MutantUnitDeletionAdmitted == TRUE

\* validateZoneUnitDelete, for a unit no RecordWithdrawal refers to.
UnitDeletionAdmitted == Informer.zone /= None => Informer.zone.deleting

\* An administrator deletes the unit by hand.
DeleteUnit ==
    /\ Manual
    /\ unit /= None
    /\ ~unit.deleting
    /\ UnitDeletionAdmitted
    /\ unit' = MarkDeleted(unit)
    /\ UNCHANGED <<zone, claim, zones, units, classVars, cache, coreVars,
                   providerVars, awsVars, faults, madeFor>>

ChangePolicy(p) ==
    /\ changes < MaxPolicyChanges
    /\ policy /= p
    /\ policy' = p
    /\ changes' = changes + 1
    /\ UNCHANGED <<apiVars, cache, coreVars, providerVars, awsVars, faults, madeFor>>

(* The environment.                                                        *)

\* An informer delivers the newest version of one object.
Deliver(k) ==
    /\ k \in Lag
    /\ cache[k] /= Server[k]
    /\ cache' = [cache EXCEPT ![k] = Server[k]]
    /\ UNCHANGED <<apiVars, classVars, coreVars, providerVars, awsVars, faults, madeFor>>

\* A pending Route 53 change becomes INSYNC.
Propagate ==
    /\ ~insync
    /\ insync' = TRUE
    /\ UNCHANGED <<apiVars, classVars, cache, coreVars, providerVars, hosted, faults,
                   madeFor>>

-----------------------------------------------------------------------------
(* Core: reconcileZone, one step per write another actor can see.          *)

coreFrame == <<zones, classVars, cache, providerVars, awsVars>>

\* What core has read is forgotten when the reconcile ends.
CoreGoto(next) ==
    /\ pc' = next
    /\ seen' = IF next = "idle" THEN Unread ELSE seen

CoreBegin ==
    /\ pc = "idle"
    /\ pc' = "begin"
    /\ seen' = Informer
    /\ UNCHANGED <<apiVars, classVars, cache, providerVars, awsVars, faults, madeFor>>

\* MUTANT of CleanupCompleted: the provider's finalizer is not waited for.
MutantCleanupCompleted == seen.unit /= None /\ seen.unit.deleting

\* providerZoneCleanupCompleted, of a deleting unit.
CleanupCompleted ==
    seen.unit /= None /\ seen.unit.deleting /\ ~seen.unit.prov

\* removeZoneUnitCoreFinalizer
DropUnitFinalizer ==
    unit' = IF seen.unit.fin THEN SetFinalizers(FALSE, seen.unit.prov) ELSE unit

\* The Zone is gone: the unit is released once the provider is done with it,
\* and stays otherwise.
ZoneMissing ==
    /\ pc = "begin"
    /\ seen.zone = None
    /\ CoreGoto("idle")
    /\ IF CleanupCompleted THEN DropUnitFinalizer ELSE UNCHANGED unit
    /\ UNCHANGED <<zone, claim, units, faults, madeFor, coreFrame>>

\* ensureFinalizer on the Zone.  The patch is by name: a later incarnation
\* takes it, a missing Zone or one that is deleting without it refuses.
EnsureZoneFinalizer ==
    /\ pc = "begin"
    /\ seen.zone /= None
    /\ \/ /\ seen.zone.deleting \/ seen.zone.fin
          /\ CoreGoto("claim")
          /\ UNCHANGED zone
       \/ /\ ~seen.zone.deleting /\ ~seen.zone.fin
          /\ zone /= None
          /\ CoreGoto("claim")
          /\ zone' = [zone EXCEPT !.fin = TRUE]
       \/ /\ ~seen.zone.deleting /\ ~seen.zone.fin
          /\ zone = None
          /\ CoreGoto("idle")
          /\ UNCHANGED zone
    /\ UNCHANGED <<claim, unit, units, faults, madeFor, coreFrame>>

\* The provider confirmed the deletion of the RecordSet's record.
ClaimCompleted == seen.unit /= None /\ seen.unit.done

\* acceptedRecordSetItems for the one RecordSet: its finalizer is dropped when
\* the provider has confirmed the deletion, and ensured while it is live.
SettleClaim ==
    /\ pc = "claim"
    /\ \/ /\ seen.claim = "deleting" /\ ClaimCompleted
          /\ CoreGoto("decide")
          /\ claim' = IF claim = "deleting" THEN "gone" ELSE claim
       \/ /\ seen.claim = "live"
          /\ claim \in {"live", "held", "deleting"}
          /\ CoreGoto("decide")
          /\ claim' = IF claim = "live" THEN "held" ELSE claim
       \/ /\ seen.claim = "live"
          /\ claim = "gone"
          /\ CoreGoto("idle")
          /\ UNCHANGED claim
       \/ /\ seen.claim /= "live"
          /\ ~(seen.claim = "deleting" /\ ClaimCompleted)
          /\ CoreGoto("decide")
          /\ UNCHANGED claim
    /\ UNCHANGED <<zone, unit, units, faults, madeFor, coreFrame>>

DesiredItem ==
    CASE seen.claim \in {"live", "held"} -> "active"
      [] seen.claim = "deleting" /\ ~ClaimCompleted -> "del"
      [] OTHER -> "none"

\* MUTANT of NewUnit: observedGeneration is forgotten.
MutantNewUnit(u) ==
    [uid |-> u, deleting |-> FALSE, fin |-> TRUE, prov |-> FALSE, gen |-> 0,
     item |-> DesiredItem, done |-> FALSE, hz |-> 0, ref |-> 0, pend |-> "", zprog |-> 0]

\* The unit core creates, with its own finalizer.
NewUnit(u) ==
    [uid |-> u, deleting |-> FALSE, fin |-> TRUE, prov |-> FALSE,
     gen |-> Generation(seen.zone), item |-> DesiredItem, done |-> FALSE, hz |-> 0,
     ref |-> 0, pend |-> "", zprog |-> 0]

\* The finalizers in a patch of the unit: those read again, and core's own
\* when the read misses it; without a change, those that are there.
AppliedFinalizers ==
    LET readd == ~Informer.unit.fin /\ ~Informer.unit.deleting
    IN  [fin  |-> IF readd THEN TRUE ELSE unit.fin,
         prov |-> IF readd THEN Informer.unit.prov ELSE unit.prov]

\* The unit is there when it is read again, and when the patch arrives.
PatchAdmitted ==
    /\ None \notin {unit, Informer.unit}
    /\ FinalizersAdmitted(AppliedFinalizers.fin, AppliedFinalizers.prov)

\* applyZoneUnitDesired: create when the read missed the unit (AlreadyExists is
\* ignored), else read it again and patch, by name, the fields that differ from
\* that read; a unit that is gone, and a refused patch, fail the reconcile.
ApplyUnit(next) ==
    \/ /\ seen.unit = None
       /\ unit = None
       /\ units < MaxUnits
       /\ units' = units + 1
       /\ unit' = NewUnit(units + 1)
       /\ madeFor' = [madeFor EXCEPT ![units + 1] = seen.zone.uid]
       /\ CoreGoto(next)
    \/ /\ seen.unit = None
       /\ unit /= None
       /\ CoreGoto(next)
       /\ UNCHANGED <<unit, units, madeFor>>
    \/ /\ seen.unit /= None
       /\ PatchAdmitted
       /\ unit' = [unit EXCEPT
             !.fin = AppliedFinalizers.fin,
             !.prov = AppliedFinalizers.prov,
             !.gen = IF Informer.unit.gen = Generation(seen.zone) THEN unit.gen
                     ELSE Generation(seen.zone),
             !.item = IF Informer.unit.item = DesiredItem THEN unit.item
                      ELSE DesiredItem]
       /\ CoreGoto(next)
       /\ UNCHANGED <<units, madeFor>>
    \/ /\ seen.unit /= None
       /\ ~PatchAdmitted
       /\ CoreGoto("idle")
       /\ UNCHANGED <<unit, units, madeFor>>

\* The Zone is live.
ComposeLive ==
    /\ pc = "decide"
    /\ ~seen.zone.deleting
    /\ ApplyUnit("project")
    /\ UNCHANGED <<zone, claim, faults, coreFrame>>

\* setZoneClaimStatus: the patch is by name, and dropped when it would not change
\* the status core has read.
Reported(prog) ==
    IF zone = None \/ seen.zone.prog = prog THEN zone ELSE [zone EXCEPT !.prog = prog]

\* projectZoneUnitStatus: a Programmed condition of the desired generation is
\* copied to the Zone, anything else is reported as not programmed.  A unit whose
\* provider state is empty may have no status yet, which leaves the Zone alone.
ProjectZone ==
    /\ pc = "project"
    /\ CoreGoto("idle")
    /\ \/ /\ seen.unit /= None
          /\ zone' = Reported(seen.unit.zprog = Generation(seen.zone))
       \/ /\ seen.unit /= None => seen.unit.ref = 0 /\ seen.unit.zprog = 0
          /\ UNCHANGED zone
    /\ UNCHANGED <<claim, unit, units, faults, madeFor, coreFrame>>

\* MUTANT of Dependents: deleting RecordSets are not counted.
MutantDependents == seen.claim \in {"live", "held"}

\* RecordSets still reference the deleting Zone.
Dependents == Present(seen.claim)

\* The deleting Zone waits for its RecordSets; the unit stays active for them.
WaitForClaims ==
    /\ pc = "decide"
    /\ seen.zone.deleting
    /\ Dependents
    /\ IF seen.unit = None \/ ~seen.unit.deleting
       THEN ApplyUnit("wait")
       ELSE CoreGoto("wait") /\ UNCHANGED <<unit, units, madeFor>>
    /\ UNCHANGED <<zone, claim, faults, coreFrame>>

ReportWaiting ==
    /\ pc = "wait"
    /\ CoreGoto("idle")
    /\ zone' = Reported(FALSE)
    /\ UNCHANGED <<claim, unit, units, faults, madeFor, coreFrame>>

\* removeFinalizer on the Zone, by name.
DropZoneFinalizer ==
    zone' = CASE zone = None \/ ~seen.zone.fin -> zone
              [] zone /= None /\ seen.zone.fin /\ zone.deleting -> None
              [] OTHER -> [zone EXCEPT !.fin = FALSE]

ReleaseZoneWithoutUnit ==
    /\ pc = "decide"
    /\ seen.zone.deleting
    /\ ~Dependents
    /\ seen.unit = None
    /\ CoreGoto("idle")
    /\ DropZoneFinalizer
    /\ UNCHANGED <<claim, unit, units, faults, madeFor, coreFrame>>

\* r.Delete of the unit, which the webhook may refuse.
RequestCleanup ==
    /\ pc = "decide"
    /\ seen.zone.deleting
    /\ ~Dependents
    /\ seen.unit /= None
    /\ ~seen.unit.deleting
    /\ CoreGoto("idle")
    /\ IF unit = None \/ UnitDeletionAdmitted
       THEN /\ unit' = IF unit = None THEN None ELSE MarkDeleted(unit)
            /\ zone' = Reported(FALSE)
       ELSE UNCHANGED <<unit, zone>>
    /\ UNCHANGED <<claim, units, faults, madeFor, coreFrame>>

WaitForCleanup ==
    /\ pc = "decide"
    /\ seen.zone.deleting
    /\ ~Dependents
    /\ seen.unit /= None
    /\ seen.unit.deleting
    /\ ~CleanupCompleted
    /\ CoreGoto("idle")
    /\ zone' = Reported(FALSE)
    /\ UNCHANGED <<claim, unit, units, faults, madeFor, coreFrame>>

\* Cleanup is complete: the Zone is released first, then the unit.
ReleaseZone ==
    /\ pc = "decide"
    /\ seen.zone.deleting
    /\ ~Dependents
    /\ CleanupCompleted
    /\ CoreGoto("release")
    /\ DropZoneFinalizer
    /\ UNCHANGED <<claim, unit, units, faults, madeFor, coreFrame>>

ReleaseUnit ==
    /\ pc = "release"
    /\ CoreGoto("idle")
    /\ DropUnitFinalizer
    /\ UNCHANGED <<zone, claim, units, faults, madeFor, coreFrame>>

\* A call fails or the process stops.
CoreFault ==
    /\ pc /= "idle"
    /\ faults.core < MaxCoreFaults
    /\ faults' = [faults EXCEPT !.core = faults.core + 1]
    /\ CoreGoto("idle")
    /\ UNCHANGED <<apiVars, classVars, cache, providerVars, awsVars, madeFor>>

-----------------------------------------------------------------------------
(* The Route 53 controller: Reconcile, one step per call or write.         *)

providerFrame == <<zone, claim, zones, units, classVars, cache, coreVars, madeFor>>

\* What the controller has read is forgotten when the reconcile ends.
End == ppc' = "idle" /\ pu' = None /\ pid' = 0
Goto(next) == ppc' = next /\ UNCHANGED <<pu, pid>>

\* patchZoneStatus: the patch is by name, carries only what differs between the
\* workflow's state and `after', and is dropped when the unit is missing.
PatchZoneStatus(after) ==
    LET carried(field) == IF after[field] = pu[field] THEN unit[field] ELSE after[field]
    IN  unit' = IF None \in {unit, Informer.unit} THEN unit
                ELSE [unit EXCEPT !.hz = carried("hz"), !.ref = carried("ref"),
                                  !.pend = carried("pend"), !.zprog = carried("zprog")]

\* setProgrammed(False) on the way out.
FailProgrammed == PatchZoneStatus([pu EXCEPT !.zprog = 0]) /\ End

ProviderBegin ==
    /\ ppc = "idle"
    /\ Informer.unit /= None
    /\ pu' = Informer.unit
    /\ ppc' = "start"
    /\ pid' = 0
    /\ UNCHANGED <<unit, awsVars, faults, providerFrame>>

\* removeFinalizer of the Route 53 controller.
DropProviderFinalizer == unit' = SetFinalizers(pu.fin, FALSE)

\* MUTANT of WantsFinalizer: the finalizer follows the hosted zone.
MutantWantsFinalizer == policy = "Delete" /\ pu.hz /= 0

WantsFinalizer == policy = "Delete"

\* reconcileFinalizer
ReconcileFinalizer ==
    /\ ppc = "start"
    /\ ~pu.deleting
    /\ pu.prov /= WantsFinalizer
    /\ IF pu.prov THEN DropProviderFinalizer
       ELSE unit' = SetFinalizers(pu.fin, TRUE)
    /\ End
    /\ UNCHANGED <<awsVars, faults, providerFrame>>

\* refreshPendingHostedZoneChange
RefreshPending ==
    /\ ppc = "start"
    /\ ~pu.deleting
    /\ pu.prov = WantsFinalizer
    /\ pu.pend /= ""
    /\ IF insync THEN PatchZoneStatus([pu EXCEPT !.pend = ""]) /\ End
       ELSE FailProgrammed
    /\ UNCHANGED <<awsVars, faults, providerFrame>>

StartSelect ==
    /\ ppc = "start"
    /\ ~pu.deleting
    /\ pu.prov = WantsFinalizer
    /\ pu.pend = ""
    /\ Goto("select")
    /\ UNCHANGED <<unit, awsVars, faults, providerFrame>>

\* callerReferenceForZoneState
CallerReference == IF pu.ref /= 0 THEN pu.ref ELSE pu.uid

\* MUTANT of Selected: only the hosted zone in the status is found.
MutantSelected == pu.hz

\* The hosted zone in the status, else the one with the caller reference.
Selected == IF pu.hz /= 0 THEN pu.hz
            ELSE IF Exists(CallerReference) THEN CallerReference ELSE 0

\* Another hosted zone of the name is a conflict under sameNameZonePolicy Deny,
\* unless the status names the hosted zone.
SameNameConflict ==
    /\ DenySameName
    /\ pu.hz = 0
    /\ \E h \in 1 .. MaxUnits : Exists(h) /\ h /= Selected

\* selectHostedZone
SelectHostedZone ==
    /\ ppc = "select"
    /\ \/ /\ SameNameConflict
          /\ FailProgrammed
       \/ /\ ~SameNameConflict
          /\ Selected = 0
          /\ Goto("create")
          /\ UNCHANGED unit
       \/ /\ ~SameNameConflict
          /\ Selected /= 0
          /\ ppc' = "tagFound"
          /\ pid' = Selected
          /\ UNCHANGED <<pu, unit>>
    /\ UNCHANGED <<awsVars, faults, providerFrame>>

\* MUTANT of PersistCallerReference: the hosted zone is recorded beforehand.
MutantPersist ==
    /\ ppc = "create"
    /\ PatchZoneStatus([pu EXCEPT !.ref = CallerReference, !.hz = CallerReference])
    /\ pu' = [pu EXCEPT !.ref = CallerReference, !.hz = CallerReference]
    /\ ppc' = "call"
    /\ UNCHANGED <<pid, awsVars, faults, providerFrame>>

\* createHostedZone persists the caller reference before the call.
PersistCallerReference ==
    /\ ppc = "create"
    /\ PatchZoneStatus([pu EXCEPT !.ref = CallerReference])
    /\ pu' = [pu EXCEPT !.ref = CallerReference]
    /\ ppc' = "call"
    /\ UNCHANGED <<pid, awsVars, faults, providerFrame>>

\* CreateHostedZone; Route 53 takes a caller reference only once.
CallCreateHostedZone ==
    /\ ppc = "call"
    /\ IF hosted[CallerReference] = "none"
       THEN /\ hosted' = [hosted EXCEPT ![CallerReference] = "empty"]
            /\ insync' \in BOOLEAN
            /\ ppc' = "tagNew"
            /\ pid' = CallerReference
            /\ UNCHANGED <<pu, unit>>
       ELSE FailProgrammed /\ UNCHANGED awsVars
    /\ UNCHANGED <<faults, providerFrame>>

\* A created hosted zone is tagged, then it and its pending change are recorded.
TagNewHostedZone ==
    /\ ppc = "tagNew"
    /\ Goto("record")
    /\ UNCHANGED <<unit, awsVars, faults, providerFrame>>

RecordHostedZone ==
    /\ ppc = "record"
    /\ LET after == [pu EXCEPT !.hz = pid, !.pend = IF insync THEN pu.pend ELSE "CREATE"]
       IN  PatchZoneStatus(after) /\ pu' = after
    /\ ppc' = "refresh"
    /\ UNCHANGED <<pid, awsVars, faults, providerFrame>>

\* One that was found is tagged and recorded again.
TagFoundHostedZone ==
    /\ ppc = "tagFound"
    /\ LET after == [pu EXCEPT !.hz = pid,
                               !.ref = IF pid = CallerReference THEN pid ELSE pu.ref]
       IN  PatchZoneStatus(after) /\ pu' = after
    /\ ppc' = "refresh"
    /\ UNCHANGED <<pid, awsVars, faults, providerFrame>>

\* refreshHostedZoneStatus: Programmed once no change is pending.
RefreshHostedZone ==
    /\ ppc = "refresh"
    /\ IF pu.pend /= "" /\ ~insync
       THEN FailProgrammed
       ELSE LET after == [pu EXCEPT !.zprog = pu.gen, !.pend = ""]
            IN  /\ PatchZoneStatus(after)
                /\ IF pu.pend /= "" THEN End
                   ELSE ppc' = "records" /\ pu' = after /\ UNCHANGED pid
    /\ UNCHANGED <<awsVars, faults, providerFrame>>

\* reconcileZoneRecordSets for the one item.  The fence makes the change and the
\* read of the unit one step: it refuses a read that is not the newest.
ReconcileRecords ==
    /\ ppc = "records"
    /\ End
    /\ IF unit = None \/ unit /= Informer.unit \/ ~Exists(pid)
       THEN UNCHANGED <<unit, hosted>>
       ELSE /\ hosted' = [hosted EXCEPT ![pid] = IF unit.item = "active" THEN "used"
                                                 ELSE IF unit.item = "del" THEN "empty"
                                                 ELSE hosted[pid]]
            /\ unit' = [unit EXCEPT !.done = unit.done \/ unit.item = "del"]
    /\ UNCHANGED <<insync, faults, providerFrame>>

\* reconcileDelete has nothing to do: the finalizer is not there.
DeleteNothing ==
    /\ ppc = "start"
    /\ pu.deleting
    /\ ~pu.prov
    /\ End
    /\ UNCHANGED <<unit, awsVars, faults, providerFrame>>

RetainHostedZone ==
    /\ ppc = "start"
    /\ pu.deleting
    /\ pu.prov
    /\ policy = "Retain"
    /\ DropProviderFinalizer
    /\ End
    /\ UNCHANGED <<awsVars, faults, providerFrame>>

\* refreshDeletingHostedZoneChange
RefreshDeleting ==
    /\ ppc = "start"
    /\ pu.deleting
    /\ pu.prov
    /\ policy = "Delete"
    /\ IF pu.pend /= "DELETE" THEN Goto("delete") /\ UNCHANGED unit
       ELSE IF ~insync THEN FailProgrammed
       ELSE LET after == [pu EXCEPT !.pend = ""]
            IN  PatchZoneStatus(after) /\ pu' = after /\ ppc' = "delete" /\ UNCHANGED pid
    /\ UNCHANGED <<awsVars, faults, providerFrame>>

\* MUTANT of DeleteConfirmed: a hosted zone that is gone is an error.
MutantDeleteConfirmed ==
    /\ ppc = "delete"
    /\ ~Exists(pu.hz)
    /\ IF pu.hz = 0 THEN DropProviderFinalizer ELSE UNCHANGED unit
    /\ End
    /\ UNCHANGED <<awsVars, faults, providerFrame>>

\* hostedZoneIDForDelete names no hosted zone, or one that is gone.
DeleteConfirmed ==
    /\ ppc = "delete"
    /\ ~Exists(pu.hz)
    /\ DropProviderFinalizer
    /\ End
    /\ UNCHANGED <<awsVars, faults, providerFrame>>

\* DeleteHostedZone: refused while records are left.
DeleteRefused ==
    /\ ppc = "delete"
    /\ Exists(pu.hz)
    /\ hosted[pu.hz] = "used"
    /\ FailProgrammed
    /\ UNCHANGED <<awsVars, faults, providerFrame>>

DeleteHostedZone ==
    /\ ppc = "delete"
    /\ Exists(pu.hz)
    /\ hosted[pu.hz] = "empty"
    /\ hosted' = [hosted EXCEPT ![pu.hz] = "gone"]
    /\ insync' \in BOOLEAN
    /\ Goto("deleted")
    /\ UNCHANGED <<unit, faults, providerFrame>>

\* The deletion is complete, or its change is pending and recorded.
DeleteSubmitted ==
    /\ ppc = "deleted"
    /\ IF insync THEN DropProviderFinalizer
       ELSE PatchZoneStatus([pu EXCEPT !.pend = "DELETE", !.zprog = 0])
    /\ End
    /\ UNCHANGED <<awsVars, faults, providerFrame>>

ProviderFails ==
    /\ ppc /= "idle"
    /\ faults.provider < MaxProviderFaults
    /\ faults' = [faults EXCEPT !.provider = faults.provider + 1]

\* The process stops, or a call to the API server fails.
ProviderCrash ==
    /\ ProviderFails
    /\ End
    /\ UNCHANGED <<unit, awsVars, providerFrame>>

\* failProgrammedForProviderError: a call to Route 53 fails.
ProviderError ==
    /\ ProviderFails
    /\ ppc \in {"select", "call", "tagNew", "tagFound", "refresh", "delete"}
    /\ FailProgrammed
    /\ UNCHANGED <<awsVars, providerFrame>>

-----------------------------------------------------------------------------
Init ==
    /\ zone = None
    /\ claim = "never"
    /\ unit = None
    /\ zones = 0
    /\ units = 0
    /\ policy \in Policies
    /\ changes = 0
    /\ cache = Unread
    /\ pc = "idle"
    /\ seen = Unread
    /\ ppc = "idle"
    /\ pu = None
    /\ pid = 0
    /\ hosted = [h \in 1 .. MaxUnits |-> "none"]
    /\ insync = TRUE
    /\ faults = [core |-> 0, provider |-> 0]
    /\ madeFor = [u \in 1 .. MaxUnits |-> 0]

User ==
    \/ CreateZone \/ DeleteZone \/ CreateClaim \/ DeleteClaim \/ DeleteUnit
    \/ \E p \in Policies : ChangePolicy(p)

Environment == (\E k \in {"zone", "claim", "unit"} : Deliver(k)) \/ Propagate

Core ==
    \/ CoreBegin \/ ZoneMissing \/ EnsureZoneFinalizer \/ SettleClaim
    \/ ComposeLive \/ ProjectZone
    \/ WaitForClaims \/ ReportWaiting \/ ReleaseZoneWithoutUnit
    \/ RequestCleanup \/ WaitForCleanup \/ ReleaseZone \/ ReleaseUnit

Provider ==
    \/ ProviderBegin \/ ReconcileFinalizer \/ RefreshPending \/ StartSelect
    \/ SelectHostedZone \/ PersistCallerReference \/ CallCreateHostedZone
    \/ TagNewHostedZone \/ RecordHostedZone \/ TagFoundHostedZone
    \/ RefreshHostedZone \/ ReconcileRecords
    \/ DeleteNothing \/ RetainHostedZone \/ RefreshDeleting \/ DeleteConfirmed
    \/ DeleteRefused \/ DeleteHostedZone \/ DeleteSubmitted

Next ==
    \/ User
    \/ Environment
    \/ Core \/ CoreFault
    \/ Provider \/ ProviderCrash \/ ProviderError

Spec == Init /\ [][Next]_vars

\* Both controllers are requeued until they have nothing to do, informers catch
\* up, and changes propagate.  Users and faults are not fair.
Fairness ==
    /\ WF_vars(Core)
    /\ WF_vars(Provider)
    /\ \A k \in {"zone", "claim", "unit"} : WF_vars(Deliver(k))
    /\ WF_vars(Propagate)

FairSpec == Spec /\ Fairness

-----------------------------------------------------------------------------
(* What makes it correct.                                                  *)

\* As long as the policy is Delete, every hosted zone in Route 53 belongs to the
\* ZoneUnit that is there: the provider's finalizer keeps the unit until
\* reconcileDelete has deleted its hosted zone, however creation, deletion and
\* recreation of the Zone interleave with createHostedZone.
NoLeakedHostedZone ==
    Policies = {"Delete"} =>
        \A h \in 1 .. MaxUnits : Exists(h) => unit /= None /\ unit.uid = h

\* A live Zone that core reports as Programmed has a hosted zone in Route 53: it
\* does not inherit the report of the previous Zone of its name, whose hosted
\* zone reconcileDelete has deleted.
ProgrammedZoneExists ==
    zone /= None /\ zone.prog /\ ~zone.deleting => \E h \in 1 .. MaxUnits : Exists(h)

\* DeleteHostedZone is called only for a hosted zone whose Zone is deleting,
\* gone or replaced: neither an administrator's deletion of the unit, nor stale
\* reads, nor a crash makes the controller delete a live Zone's hosted zone.
HostedZoneDeletedForCause ==
    [][\A h \in 1 .. MaxUnits :
          hosted[h] /= "gone" /\ hosted'[h] = "gone"
              => zone = None \/ zone.deleting \/ zone.uid /= madeFor[h]]_vars

\* Core asks for the deletion of the unit only when no RecordSet that carries
\* core's finalizer is left: the provider still needs the unit to delete the
\* record of such a RecordSet.
UnitKeptForDependents ==
    [][unit /= None /\ unit' /= None /\ ~unit.deleting /\ unit'.deleting
          => claim \notin {"held", "deleting"}]_vars

\* A deleting Zone is let go only when its unit is gone, or is deleting with
\* nothing left for the provider to clean up.
NoOrphanedUnit ==
    [][zone /= None /\ zone.deleting /\ zone' = None
          => unit = None \/ (unit.deleting /\ ~unit.prov)]_vars

\* A deleting Zone that no RecordSet references is not kept for ever, whatever
\* fails on the way a bounded number of times.
ZoneDeletionCompletes == ~<>[](zone /= None /\ zone.deleting /\ ~Present(claim))

\* A Zone that stays is Programmed in the end: a crash between CreateHostedZone
\* and the status patch is made good by finding the hosted zone again by its
\* caller reference.
LoneZoneProgrammed ==
    <>[](zone /= None /\ ~zone.deleting) => <>[](zone /= None /\ zone.prog)
=============================================================================
