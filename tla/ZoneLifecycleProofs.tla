------------------------ MODULE ZoneLifecycleProofs ------------------------
(***************************************************************************)
(* Theorems about ZoneLifecycle, for any number of Zones and units, any    *)
(* policies and any number of failures.  The second half relates the       *)
(* objects to what is in Route 53: no hosted zone is left behind, and what *)
(* is reported exists.                                                     *)
(***************************************************************************)
EXTENDS ZoneLifecycle, TLAPS

-----------------------------------------------------------------------------
(* Types.                                                                  *)

\* A reconcile past its first step has what it read.
TypeInv ==
    /\ TypeOK
    /\ pc \notin {"idle", "begin"} => seen.zone /= None
    /\ pc = "release" => seen.unit /= None
    /\ ppc /= "idle" => pu /= None
    /\ ppc \in {"delete", "deleted"} => pu.deleting

Bounds == /\ MaxZones \in Nat \ {0} /\ MaxUnits \in Nat \ {0} /\ MaxPolicyChanges \in Nat
          /\ MaxCoreFaults \in Nat /\ MaxProviderFaults \in Nat

LEMMA NoneIsNot == None \notin Zone /\ None \notin Unit
  BY DEF None, Zone, Unit

\* What is read of each object.
LEMMA InformerIs ==
    /\ Informer.zone = IF "zone" \in Lag THEN cache.zone ELSE zone
    /\ Informer.claim = IF "claim" \in Lag THEN cache.claim ELSE claim
    /\ Informer.unit = IF "unit" \in Lag THEN cache.unit ELSE unit
  BY DEF Informer, Server

LEMMA InformerTyped ==
    ASSUME TypeOK
    PROVE  /\ Informer \in Snapshot
           /\ Informer.zone \in Zone \cup {None}
           /\ Informer.claim \in ClaimStates
           /\ Informer.unit \in Unit \cup {None}
<1>1. /\ Informer.zone \in Zone \cup {None}
      /\ Informer.claim \in ClaimStates
      /\ Informer.unit \in Unit \cup {None}
  BY InformerIs DEF TypeOK, Snapshot
<1>2. Informer = [zone |-> Informer.zone, claim |-> Informer.claim, unit |-> Informer.unit]
  BY DEF Informer, Server
<1> QED
  BY <1>1, <1>2 DEF Snapshot

LEMMA UnreadTyped == Unread \in Snapshot
  BY DEF Unread, Snapshot, ClaimStates

LEMMA FinalizersTyped ==
    ASSUME unit \in Unit \cup {None}, NEW fin \in BOOLEAN, NEW prov \in BOOLEAN
    PROVE  SetFinalizers(fin, prov) \in Unit \cup {None}
  BY DEF SetFinalizers, Unit

LEMMA MarkedTyped ==
    ASSUME NEW u \in Unit
    PROVE  MarkDeleted(u) \in Unit \cup {None}
  BY DEF MarkDeleted, Unit

\* A patch of the status by name changes the four fields it may carry.
LEMMA PatchIs ==
    ASSUME TypeOK, pu \in Unit, NEW after \in Unit, PatchZoneStatus(after), None \notin {unit, Informer.unit}
    PROVE  /\ unit \in Unit /\ unit' \in Unit
           /\ unit'.uid = unit.uid /\ unit'.deleting = unit.deleting
           /\ unit'.fin = unit.fin /\ unit'.prov = unit.prov
           /\ unit'.hz = IF after.hz = pu.hz THEN unit.hz ELSE after.hz
           /\ unit'.ref = IF after.ref = pu.ref THEN unit.ref ELSE after.ref
           /\ unit'.zprog = IF after.zprog = pu.zprog THEN unit.zprog ELSE after.zprog
<1>1. None \notin {unit, Informer.unit} /\ unit \in Unit
  BY DEF TypeOK
<1> DEFINE carried(field) == IF after[field] = pu[field] THEN unit[field] ELSE after[field]
<1>2. unit' = [unit EXCEPT !.hz = carried("hz"), !.ref = carried("ref"),
                           !.pend = carried("pend"), !.zprog = carried("zprog")]
  BY <1>1 DEF PatchZoneStatus
<1>3. /\ carried("hz") = IF after.hz = pu.hz THEN unit.hz ELSE after.hz
      /\ carried("ref") = IF after.ref = pu.ref THEN unit.ref ELSE after.ref
      /\ carried("pend") = IF after.pend = pu.pend THEN unit.pend ELSE after.pend
      /\ carried("zprog") = IF after.zprog = pu.zprog THEN unit.zprog ELSE after.zprog
  BY <1>1 DEF Unit
<1> HIDE DEF carried
<1>4. /\ carried("hz") \in 0..MaxUnits /\ carried("ref") \in 0..MaxUnits
      /\ carried("pend") \in {"", "CREATE", "DELETE"} /\ carried("zprog") \in 0..2
  BY <1>1, <1>3 DEF Unit
<1>5. unit' \in Unit
  BY <1>1, <1>2, <1>4 DEF Unit
<1>6. /\ unit'.uid = unit.uid /\ unit'.deleting = unit.deleting
      /\ unit'.fin = unit.fin /\ unit'.prov = unit.prov
      /\ unit'.hz = carried("hz") /\ unit'.ref = carried("ref") /\ unit'.zprog = carried("zprog")
  BY <1>1, <1>2 DEF Unit
<1> QED
  BY <1>1, <1>3, <1>5, <1>6

LEMMA PatchTyped ==
    ASSUME TypeOK, pu \in Unit, NEW after \in Unit, PatchZoneStatus(after)
    PROVE  unit' \in Unit \cup {None}
  BY PatchIs DEF TypeOK, PatchZoneStatus

LEMMA InitTyped == Init => TypeInv
  BY LifecycleBounds, UnreadTyped DEF Init, TypeInv, TypeOK, ClaimStates, CorePhases, ProviderPhases

LEMMA UserTyped ==
    ASSUME TypeInv, User
    PROVE  TypeInv'
<1> USE DEF TypeInv
<1>1. CASE CreateZone
  BY <1>1, LifecycleBounds DEF CreateZone, TypeOK, classVars, coreVars, providerVars, awsVars, Zone
<1>2. CASE DeleteZone
  BY <1>2 DEF DeleteZone, TypeOK, classVars, coreVars, providerVars, awsVars, Zone
<1>3. CASE CreateClaim
  BY <1>3 DEF CreateClaim, TypeOK, classVars, coreVars, providerVars, awsVars, ClaimStates
<1>4. CASE DeleteClaim
  BY <1>4 DEF DeleteClaim, TypeOK, classVars, coreVars, providerVars, awsVars, ClaimStates
<1>5. CASE DeleteUnit
  BY <1>5, MarkedTyped DEF DeleteUnit, TypeOK, classVars, coreVars, providerVars, awsVars
<1>6. CASE \E p \in Policies : ChangePolicy(p)
  BY <1>6, LifecycleBounds DEF ChangePolicy, TypeOK, apiVars, coreVars, providerVars, awsVars
<1> QED
  BY <1>1, <1>2, <1>3, <1>4, <1>5, <1>6 DEF User

LEMMA EnvironmentTyped ==
    ASSUME TypeInv, Environment
    PROVE  TypeInv'
<1> USE DEF TypeInv
<1>1. ASSUME NEW k \in {"zone", "claim", "unit"}, Deliver(k)
      PROVE  TypeInv'
  <2>1. cache' \in Snapshot
    BY <1>1 DEF Deliver, Server, TypeOK, Snapshot
  <2> QED
    BY <1>1, <2>1 DEF Deliver, TypeOK, apiVars, classVars, coreVars, providerVars, awsVars
<1>2. CASE Propagate
  BY <1>2 DEF Propagate, TypeOK, apiVars, classVars, coreVars, providerVars
<1> QED
  BY <1>1, <1>2 DEF Environment

LEMMA FreshUnitTyped ==
    ASSUME NEW u \in 1..MaxUnits, NEW d \in {"none", "active", "del"}, NEW g \in 1..2,
           MaxUnits \in Nat
    PROVE  [uid |-> u, deleting |-> FALSE, fin |-> TRUE, prov |-> FALSE, gen |-> g,
            item |-> d, done |-> FALSE, hz |-> 0, ref |-> 0, pend |-> "", zprog |-> 0] \in Unit
  BY DEF Unit

LEMMA NewUnitIs ==
    ASSUME NEW u \in 1..MaxUnits
    PROVE  /\ NewUnit(u) \in Unit /\ NewUnit(u).uid = u /\ ~NewUnit(u).deleting
           /\ NewUnit(u).hz = 0 /\ NewUnit(u).ref = 0 /\ NewUnit(u).zprog = 0 /\ ~NewUnit(u).prov
<1>1. DesiredItem \in {"none", "active", "del"}
  BY DEF DesiredItem
<1>2. Generation(seen.zone) \in 1..2
  BY DEF Generation
<1>3. NewUnit(u) \in Unit
  BY <1>1, <1>2, FreshUnitTyped, LifecycleBounds DEF NewUnit
<1> QED
  BY <1>3 DEF NewUnit

\* A patch of an existing unit by core keeps all but finalizers and the spec.
LEMMA CorePatchIs ==
    ASSUME TypeOK, PatchAdmitted,
           unit' = [unit EXCEPT
             !.fin = AppliedFinalizers.fin,
             !.prov = AppliedFinalizers.prov,
             !.gen = IF Informer.unit.gen = Generation(seen.zone) THEN unit.gen
                     ELSE Generation(seen.zone),
             !.item = IF Informer.unit.item = DesiredItem THEN unit.item
                      ELSE DesiredItem]
    PROVE  /\ unit \in Unit /\ unit' \in Unit
           /\ unit'.uid = unit.uid /\ unit'.deleting = unit.deleting
           /\ unit'.hz = unit.hz /\ unit'.ref = unit.ref /\ unit'.zprog = unit.zprog
           /\ unit'.prov = AppliedFinalizers.prov
           /\ unit.deleting /\ unit'.prov => unit.prov
<1>1. unit \in Unit /\ Informer.unit \in Unit
  BY InformerTyped DEF TypeOK, PatchAdmitted
<1>2. AppliedFinalizers.fin \in BOOLEAN /\ AppliedFinalizers.prov \in BOOLEAN
  BY <1>1 DEF AppliedFinalizers, Unit
<1>3. DesiredItem \in {"none", "active", "del"}
  BY DEF DesiredItem
<1>4. Generation(seen.zone) \in 1..2
  BY DEF Generation
<1> DEFINE g == IF Informer.unit.gen = Generation(seen.zone) THEN unit.gen
                ELSE Generation(seen.zone)
           i == IF Informer.unit.item = DesiredItem THEN unit.item ELSE DesiredItem
           f == AppliedFinalizers.fin
           p == AppliedFinalizers.prov
<1>5. g \in 1..2 /\ i \in {"none", "active", "del"} /\ f \in BOOLEAN /\ p \in BOOLEAN
  BY <1>1, <1>2, <1>3, <1>4 DEF Unit
<1>10. unit' = [unit EXCEPT !.fin = f, !.prov = p, !.gen = g, !.item = i] /\ p = AppliedFinalizers.prov
  OBVIOUS
<1> HIDE DEF f, p, g, i
<1>6. unit' \in Unit
  BY <1>1, <1>5, <1>10 DEF Unit
<1>7. unit'.prov = AppliedFinalizers.prov
  BY <1>1, <1>5, <1>10 DEF Unit
<1>8. unit.deleting /\ unit'.prov => unit.prov
  BY <1>1, <1>7, NoneIsNot DEF PatchAdmitted, FinalizersAdmitted
<1> QED
  BY <1>1, <1>6, <1>7, <1>8, <1>10 DEF Unit

LEMMA ApplyTyped ==
    ASSUME TypeInv, seen.zone /= None, NEW next \in {"project", "wait"}, ApplyUnit(next)
    PROVE  /\ unit' \in Unit \cup {None} /\ units' \in 0..MaxUnits
           /\ madeFor' \in [1..MaxUnits -> 0..MaxZones]
           /\ pc' \in {"project", "wait", "idle"}
           /\ seen' = IF pc' = "idle" THEN Unread ELSE seen
<1>1. CASE /\ seen.unit = None /\ unit = None /\ units < MaxUnits
           /\ units' = units + 1 /\ unit' = NewUnit(units + 1)
           /\ madeFor' = [madeFor EXCEPT ![units + 1] = seen.zone.uid]
           /\ CoreGoto(next)
  <2>1. units + 1 \in 1..MaxUnits
    BY <1>1, LifecycleBounds DEF TypeInv, TypeOK
  <2>2. seen.zone \in Zone
    BY DEF TypeInv, TypeOK, Snapshot
  <2>3. seen.zone.uid \in 0..MaxZones
    BY <2>2, LifecycleBounds DEF Zone
  <2>4. madeFor' \in [1..MaxUnits -> 0..MaxZones]
    BY <1>1, <2>1, <2>3 DEF TypeInv, TypeOK
  <2> QED
    BY <1>1, <2>1, <2>4, NewUnitIs, LifecycleBounds DEF CoreGoto
<1>2. CASE CoreGoto(next) /\ UNCHANGED <<unit, units, madeFor>>
  BY <1>2 DEF CoreGoto, TypeInv, TypeOK
<1>3. CASE CoreGoto("idle") /\ UNCHANGED <<unit, units, madeFor>>
  BY <1>3 DEF CoreGoto, TypeInv, TypeOK
<1>4. CASE /\ PatchAdmitted
           /\ unit' = [unit EXCEPT
                 !.fin = AppliedFinalizers.fin,
                 !.prov = AppliedFinalizers.prov,
                 !.gen = IF Informer.unit.gen = Generation(seen.zone) THEN unit.gen
                         ELSE Generation(seen.zone),
                 !.item = IF Informer.unit.item = DesiredItem THEN unit.item
                          ELSE DesiredItem]
           /\ CoreGoto(next) /\ UNCHANGED <<units, madeFor>>
  BY <1>4, CorePatchIs DEF CoreGoto, TypeInv, TypeOK
<1> QED
  BY <1>1, <1>2, <1>3, <1>4 DEF ApplyUnit

LEMMA ReportedIs ==
    ASSUME TypeOK, NEW prog \in BOOLEAN, zone' = Reported(prog)
    PROVE  \/ zone' = zone
           \/ /\ zone \in Zone /\ zone' \in Zone /\ zone'.uid = zone.uid
              /\ zone'.deleting = zone.deleting /\ zone'.prog = prog
  BY DEF Reported, TypeOK, Zone

LEMMA DroppedIs ==
    ASSUME TypeOK, DropZoneFinalizer
    PROVE  \/ zone' = zone
           \/ zone \in Zone /\ zone.deleting /\ zone' = None
           \/ /\ zone \in Zone /\ zone' \in Zone /\ zone'.uid = zone.uid
              /\ ~zone.deleting /\ ~zone'.deleting /\ zone'.prog = zone.prog
  BY DEF DropZoneFinalizer, TypeOK, Zone

LEMMA CoreTyped ==
    ASSUME TypeInv, Core
    PROVE  TypeInv'
<1> USE DEF TypeInv, CoreGoto, coreFrame, classVars, providerVars, awsVars, CorePhases
<1>0. Unread \in Snapshot
  BY UnreadTyped
<1>1. CASE CoreBegin
  BY <1>1, InformerTyped DEF CoreBegin, TypeOK, apiVars
<1>2. CASE ZoneMissing
  <2>1. unit' \in Unit \cup {None}
    <3>1. CASE CleanupCompleted
      <4>1. seen.unit \in Unit
        BY <3>1 DEF CleanupCompleted, TypeOK, Snapshot
      <4>2. seen.unit.prov \in BOOLEAN
        BY <4>1 DEF Unit
      <4> QED
        BY <1>2, <3>1, <4>2, FinalizersTyped DEF ZoneMissing, DropUnitFinalizer, TypeOK
    <3>2. CASE ~CleanupCompleted
      BY <1>2, <3>2 DEF ZoneMissing, TypeOK
    <3> QED
      BY <3>1, <3>2
  <2> QED
    BY <1>0, <1>2, <2>1 DEF ZoneMissing, TypeOK
<1>3. CASE EnsureZoneFinalizer
  <2>1. zone' \in Zone \cup {None}
    BY <1>3 DEF EnsureZoneFinalizer, TypeOK, Zone
  <2> QED
    BY <1>0, <1>3, <2>1 DEF EnsureZoneFinalizer, TypeOK
<1>4. CASE SettleClaim
  <2>1. claim' \in ClaimStates
    BY <1>4 DEF SettleClaim, TypeOK, ClaimStates
  <2> QED
    BY <1>0, <1>4, <2>1 DEF SettleClaim, TypeOK
<1>5. CASE ComposeLive
  BY <1>0, <1>5, ApplyTyped DEF ComposeLive, TypeOK
<1>6. CASE ProjectZone
  <2>1. zone' \in Zone \cup {None}
    BY <1>6, ReportedIs DEF ProjectZone, TypeOK
  <2> QED
    BY <1>0, <1>6, <2>1 DEF ProjectZone, TypeOK
<1>7. CASE WaitForClaims
  <2>1. \/ ApplyUnit("wait")
        \/ CoreGoto("wait") /\ UNCHANGED <<unit, units, madeFor>>
    BY <1>7 DEF WaitForClaims
  <2>2. seen.zone /= None
    BY <1>7 DEF WaitForClaims
  <2>3. /\ unit' \in Unit \cup {None} /\ units' \in 0..MaxUnits
        /\ madeFor' \in [1..MaxUnits -> 0..MaxZones]
        /\ pc' \in {"project", "wait", "idle"}
        /\ seen' = IF pc' = "idle" THEN Unread ELSE seen
    BY <2>1, <2>2, ApplyTyped DEF TypeOK
  <2> QED
    BY <1>0, <1>7, <2>2, <2>3 DEF WaitForClaims, TypeOK
<1>8. CASE ReportWaiting
  <2>1. zone' \in Zone \cup {None}
    BY <1>8, ReportedIs DEF ReportWaiting, TypeOK
  <2> QED
    BY <1>0, <1>8, <2>1 DEF ReportWaiting, TypeOK
<1>9. CASE ReleaseZoneWithoutUnit
  <2>1. zone' \in Zone \cup {None}
    BY <1>9, DroppedIs DEF ReleaseZoneWithoutUnit, TypeOK
  <2> QED
    BY <1>0, <1>9, <2>1 DEF ReleaseZoneWithoutUnit, TypeOK
<1>10. CASE RequestCleanup
  <2>1. zone' \in Zone \cup {None}
    BY <1>10, ReportedIs DEF RequestCleanup, TypeOK
  <2>2. unit' \in Unit \cup {None}
    BY <1>10, MarkedTyped DEF RequestCleanup, TypeOK
  <2> QED
    BY <1>0, <1>10, <2>1, <2>2 DEF RequestCleanup, TypeOK
<1>11. CASE WaitForCleanup
  <2>1. zone' \in Zone \cup {None}
    BY <1>11, ReportedIs DEF WaitForCleanup, TypeOK
  <2> QED
    BY <1>0, <1>11, <2>1 DEF WaitForCleanup, TypeOK
<1>12. CASE ReleaseZone
  <2>1. zone' \in Zone \cup {None}
    BY <1>12, DroppedIs DEF ReleaseZone, TypeOK
  <2> QED
    BY <1>0, <1>12, <2>1 DEF ReleaseZone, CleanupCompleted, TypeOK
<1>13. CASE ReleaseUnit
  <2>1. seen.unit \in Unit
    BY <1>13 DEF ReleaseUnit, TypeOK, Snapshot
  <2>2. seen.unit.prov \in BOOLEAN
    BY <2>1 DEF Unit
  <2>3. unit' \in Unit \cup {None}
    BY <1>13, <2>2, FinalizersTyped DEF ReleaseUnit, DropUnitFinalizer, TypeOK
  <2> QED
    BY <1>0, <1>13, <2>3 DEF ReleaseUnit, TypeOK
<1> QED
  BY <1>1, <1>2, <1>3, <1>4, <1>5, <1>6, <1>7, <1>8, <1>9, <1>10, <1>11, <1>12, <1>13 DEF Core

LEMMA CoreFaultTyped ==
    ASSUME TypeInv, CoreFault
    PROVE  TypeInv'
<1>1. faults' \in [core : 0..MaxCoreFaults, provider : 0..MaxProviderFaults]
  BY LifecycleBounds DEF TypeInv, TypeOK, CoreFault
<1> QED
  BY <1>1, UnreadTyped DEF TypeInv, TypeOK, CoreFault, CoreGoto, apiVars, classVars, providerVars, awsVars,
       CorePhases

\* What the workflow of the controller writes into its copy of the unit.
LEMMA ReportIs ==
    ASSUME NEW v \in Unit, NEW z \in 0..2
    PROVE  LET w == [v EXCEPT !.zprog = z] IN
           /\ w \in Unit /\ w.uid = v.uid /\ w.deleting = v.deleting /\ w.prov = v.prov
           /\ w.hz = v.hz /\ w.ref = v.ref /\ w.zprog = z
  BY DEF Unit

LEMMA FailedIs ==
    ASSUME NEW v \in Unit
    PROVE  LET w == [v EXCEPT !.zprog = 0] IN
           /\ w \in Unit /\ w.uid = v.uid /\ w.deleting = v.deleting /\ w.prov = v.prov
           /\ w.hz = v.hz /\ w.ref = v.ref /\ w.zprog = 0
<1>1. 0 \in 0..2
  OBVIOUS
<1> QED
  BY <1>1, ReportIs

LEMMA SettledIs ==
    ASSUME NEW v \in Unit
    PROVE  LET w == [v EXCEPT !.pend = ""] IN
           /\ w \in Unit /\ w.uid = v.uid /\ w.deleting = v.deleting /\ w.prov = v.prov
           /\ w.hz = v.hz /\ w.ref = v.ref /\ w.zprog = v.zprog
  BY DEF Unit

LEMMA ReferencedIs ==
    ASSUME NEW v \in Unit, NEW r \in 0..MaxUnits
    PROVE  LET w == [v EXCEPT !.ref = r] IN
           /\ w \in Unit /\ w.uid = v.uid /\ w.deleting = v.deleting /\ w.prov = v.prov
           /\ w.hz = v.hz /\ w.ref = r /\ w.zprog = v.zprog
  BY DEF Unit

LEMMA RecordedIs ==
    ASSUME NEW v \in Unit, NEW h \in 0..MaxUnits, NEW p \in {"", "CREATE", "DELETE"}
    PROVE  LET w == [v EXCEPT !.hz = h, !.pend = p] IN
           /\ w \in Unit /\ w.uid = v.uid /\ w.deleting = v.deleting /\ w.prov = v.prov
           /\ w.hz = h /\ w.ref = v.ref /\ w.zprog = v.zprog
  BY DEF Unit

LEMMA FoundIs ==
    ASSUME NEW v \in Unit, NEW h \in 0..MaxUnits, NEW r \in 0..MaxUnits
    PROVE  LET w == [v EXCEPT !.hz = h, !.ref = r] IN
           /\ w \in Unit /\ w.uid = v.uid /\ w.deleting = v.deleting /\ w.prov = v.prov
           /\ w.hz = h /\ w.ref = r /\ w.zprog = v.zprog
  BY DEF Unit

LEMMA RefreshedIs ==
    ASSUME NEW v \in Unit, NEW z \in 0..2
    PROVE  LET w == [v EXCEPT !.zprog = z, !.pend = ""] IN
           /\ w \in Unit /\ w.uid = v.uid /\ w.deleting = v.deleting /\ w.prov = v.prov
           /\ w.hz = v.hz /\ w.ref = v.ref /\ w.zprog = z
  BY DEF Unit

LEMMA RequestedIs ==
    ASSUME NEW v \in Unit, NEW z \in 0..2
    PROVE  LET w == [v EXCEPT !.pend = "DELETE", !.zprog = z] IN
           /\ w \in Unit /\ w.uid = v.uid /\ w.deleting = v.deleting /\ w.prov = v.prov
           /\ w.hz = v.hz /\ w.ref = v.ref /\ w.zprog = z
  BY DEF Unit

LEMMA SubmittedIs ==
    ASSUME NEW v \in Unit
    PROVE  LET w == [v EXCEPT !.pend = "DELETE", !.zprog = 0] IN
           /\ w \in Unit /\ w.uid = v.uid /\ w.deleting = v.deleting /\ w.prov = v.prov
           /\ w.hz = v.hz /\ w.ref = v.ref /\ w.zprog = 0
<1>1. 0 \in 0..2
  OBVIOUS
<1> QED
  BY <1>1, RequestedIs

LEMMA ReferenceIs ==
    ASSUME pu \in Unit
    PROVE  /\ CallerReference \in 1..MaxUnits
           /\ CallerReference = pu.ref \/ (pu.ref = 0 /\ CallerReference = pu.uid)
           /\ Selected \in 0..MaxUnits
           /\ Selected = pu.hz \/ (pu.hz = 0 /\ Selected = CallerReference)
           /\ pu.hz = 0 /\ Selected /= 0 => Exists(Selected)
<1>1. pu.uid \in 1..MaxUnits /\ pu.ref \in 0..MaxUnits /\ pu.hz \in 0..MaxUnits
  BY DEF Unit
<1>2. /\ CallerReference \in 1..MaxUnits
      /\ CallerReference = pu.ref \/ (pu.ref = 0 /\ CallerReference = pu.uid)
  BY <1>1, LifecycleBounds DEF CallerReference
<1> QED
  BY <1>1, <1>2, LifecycleBounds DEF Selected

LEMMA ProviderTyped ==
    ASSUME TypeInv, Provider
    PROVE  TypeInv'
<1> USE DEF TypeInv, providerFrame, classVars, coreVars, awsVars, ProviderPhases, End, Goto
<1>0. ppc /= "idle" => pu \in Unit
  BY DEF TypeOK
<1>1. CASE ProviderBegin
  BY <1>1, LifecycleBounds, InformerTyped DEF ProviderBegin, TypeOK
<1>2. CASE ReconcileFinalizer
  <2>1. pu.fin \in BOOLEAN
    BY <1>0, <1>2 DEF ReconcileFinalizer, Unit
  <2>2. unit' \in Unit \cup {None}
    BY <1>2, <2>1, FinalizersTyped DEF ReconcileFinalizer, DropProviderFinalizer, TypeOK
  <2> QED
    BY <1>2, <2>2, LifecycleBounds DEF ReconcileFinalizer, TypeOK
<1>3. ASSUME FailProgrammed, pu \in Unit PROVE unit' \in Unit \cup {None}
  BY <1>3, FailedIs, PatchTyped DEF FailProgrammed
<1>4. CASE RefreshPending
  <2>1. unit' \in Unit \cup {None}
    BY <1>0, <1>3, <1>4, SettledIs, PatchTyped DEF RefreshPending
  <2>2. End
    BY <1>4 DEF RefreshPending, FailProgrammed
  <2>3. 0 \in 0..MaxUnits
    BY LifecycleBounds
  <2> QED
    BY <1>4, <2>1, <2>2, <2>3 DEF RefreshPending, TypeOK
<1>5. CASE StartSelect
  BY <1>5 DEF StartSelect, TypeOK
<1>6. CASE SelectHostedZone
  <2>1. unit' \in Unit \cup {None}
    BY <1>0, <1>3, <1>6 DEF SelectHostedZone, TypeOK
  <2>2. pid' \in 0..MaxUnits
    BY <1>0, <1>6, ReferenceIs, LifecycleBounds DEF SelectHostedZone, FailProgrammed, TypeOK
  <2> QED
    BY <1>6, <2>1, <2>2 DEF SelectHostedZone, FailProgrammed, TypeOK
<1>7. CASE PersistCallerReference
  <2>1. CallerReference \in 0..MaxUnits /\ pu \in Unit
    BY <1>0, <1>7, ReferenceIs, LifecycleBounds DEF PersistCallerReference
  <2>2. pu' \in Unit
    BY <1>7, <2>1, ReferencedIs DEF PersistCallerReference
  <2>3. unit' \in Unit \cup {None}
    BY <1>7, <2>1, ReferencedIs, PatchTyped DEF PersistCallerReference
  <2> QED
    BY <1>7, <2>2, <2>3, NoneIsNot DEF PersistCallerReference, TypeOK
<1>8. CASE CallCreateHostedZone
  <2>1. CallerReference \in 1..MaxUnits /\ pu \in Unit
    BY <1>0, <1>8, ReferenceIs DEF CallCreateHostedZone
  <2>2. unit' \in Unit \cup {None}
    BY <1>3, <1>8, <2>1 DEF CallCreateHostedZone, TypeOK
  <2>3. hosted' \in [1..MaxUnits -> {"none", "empty", "used", "gone"}]
    BY <1>8 DEF CallCreateHostedZone, TypeOK
  <2> QED
    BY <1>8, <2>1, <2>2, <2>3, LifecycleBounds DEF CallCreateHostedZone, FailProgrammed, TypeOK
<1>9. CASE TagNewHostedZone
  BY <1>9 DEF TagNewHostedZone, TypeOK
<1>10. CASE RecordHostedZone
  <2> DEFINE p == IF insync THEN pu.pend ELSE "CREATE"
  <2>1. pid \in 0..MaxUnits /\ p \in {"", "CREATE", "DELETE"} /\ pu \in Unit
    BY <1>0, <1>10 DEF RecordHostedZone, TypeOK, Unit
  <2>2. /\ PatchZoneStatus([pu EXCEPT !.hz = pid, !.pend = p])
        /\ pu' = [pu EXCEPT !.hz = pid, !.pend = p]
    BY <1>10 DEF RecordHostedZone
  <2> HIDE DEF p
  <2>3. pu' \in Unit /\ unit' \in Unit \cup {None}
    BY <2>1, <2>2, RecordedIs, PatchTyped
  <2> QED
    BY <1>10, <2>3, NoneIsNot DEF RecordHostedZone, TypeOK
<1>11. CASE TagFoundHostedZone
  <2> DEFINE r == IF pid = CallerReference THEN pid ELSE pu.ref
  <2>1. pid \in 0..MaxUnits /\ r \in 0..MaxUnits /\ pu \in Unit
    BY <1>0, <1>11 DEF TagFoundHostedZone, TypeOK, Unit
  <2>2. /\ PatchZoneStatus([pu EXCEPT !.hz = pid, !.ref = r])
        /\ pu' = [pu EXCEPT !.hz = pid, !.ref = r]
    BY <1>11 DEF TagFoundHostedZone
  <2> HIDE DEF r
  <2>3. pu' \in Unit /\ unit' \in Unit \cup {None}
    BY <2>1, <2>2, FoundIs, PatchTyped
  <2> QED
    BY <1>11, <2>3, NoneIsNot DEF TagFoundHostedZone, TypeOK
<1>12. CASE RefreshHostedZone
  <2>0. pu \in Unit /\ pu.gen \in 1..2
    BY <1>0, <1>12 DEF RefreshHostedZone, Unit
  <2>1. pu.gen \in 0..2 /\ pu \in Unit
    BY <2>0
  <2> DEFINE w == [pu EXCEPT !.zprog = pu.gen, !.pend = ""]
  <2>2. w \in Unit
    BY <2>1, RefreshedIs
  <2>3. \/ FailProgrammed
        \/ /\ PatchZoneStatus(w)
           /\ \/ End
              \/ ppc' = "records" /\ pu' = w /\ UNCHANGED pid
    BY <1>12 DEF RefreshHostedZone
  <2> HIDE DEF w
  <2>4. unit' \in Unit \cup {None}
    BY <1>3, <2>1, <2>2, <2>3, PatchTyped
  <2>5. End \/ (ppc' = "records" /\ pu' = w /\ UNCHANGED pid)
    BY <2>3 DEF FailProgrammed
  <2>6. 0 \in 0..MaxUnits
    BY LifecycleBounds
  <2>7. zone' = zone /\ claim' = claim /\ zones' = zones /\ units' = units /\ seen' = seen
        /\ pc' = pc /\ policy' = policy /\ changes' = changes /\ cache' = cache
        /\ hosted' = hosted /\ insync' = insync /\ faults' = faults /\ madeFor' = madeFor
    BY <1>12 DEF RefreshHostedZone
  <2> QED
    BY <2>2, <2>4, <2>5, <2>6, <2>7, NoneIsNot DEF TypeOK
<1>13. CASE ReconcileRecords
  <2>1. unit' \in Unit \cup {None}
    <3>1. CASE unit' = unit
      BY <3>1 DEF TypeOK
    <3>2. CASE unit' /= unit
      <4>1. unit \in Unit /\ unit' = [unit EXCEPT !.done = unit.done \/ unit.item = "del"]
        BY <1>13, <3>2 DEF ReconcileRecords, TypeOK
      <4> QED
        BY <4>1 DEF Unit
    <3> QED
      BY <3>1, <3>2
  <2>2. hosted' \in [1..MaxUnits -> {"none", "empty", "used", "gone"}]
    BY <1>13 DEF ReconcileRecords, TypeOK, Exists
  <2> QED
    BY <1>13, <2>1, <2>2, LifecycleBounds DEF ReconcileRecords, TypeOK
<1>14. CASE DeleteNothing
  BY <1>14, LifecycleBounds DEF DeleteNothing, TypeOK
<1>15. ASSUME DropProviderFinalizer, pu \in Unit PROVE unit' \in Unit \cup {None}
  <2>1. pu.fin \in BOOLEAN
    BY <1>15 DEF Unit
  <2> QED
    BY <1>15, <2>1, FinalizersTyped DEF DropProviderFinalizer, TypeOK
<1>16. CASE RetainHostedZone
  <2>1. unit' \in Unit \cup {None}
    BY <1>0, <1>15, <1>16 DEF RetainHostedZone
  <2> QED
    BY <1>16, <2>1, LifecycleBounds DEF RetainHostedZone, TypeOK
<1>17. CASE RefreshDeleting
  <2> DEFINE w == [pu EXCEPT !.pend = ""]
  <2>1. pu \in Unit /\ w \in Unit /\ w.deleting = pu.deleting
    BY <1>0, <1>17, SettledIs DEF RefreshDeleting
  <2>2. \/ Goto("delete") /\ UNCHANGED unit
        \/ FailProgrammed
        \/ PatchZoneStatus(w) /\ pu' = w /\ ppc' = "delete" /\ UNCHANGED pid
    BY <1>17 DEF RefreshDeleting
  <2> HIDE DEF w
  <2>3. unit' \in Unit \cup {None}
    BY <1>3, <2>1, <2>2, PatchTyped DEF TypeOK
  <2>4. \/ End
        \/ ppc' = "delete" /\ (pu' = w \/ pu' = pu) /\ UNCHANGED pid
    BY <2>2 DEF FailProgrammed
  <2>5. 0 \in 0..MaxUnits
    BY LifecycleBounds
  <2>7. pu.deleting
    BY <1>17 DEF RefreshDeleting
  <2>6. zone' = zone /\ claim' = claim /\ zones' = zones /\ units' = units /\ seen' = seen
        /\ pc' = pc /\ policy' = policy /\ changes' = changes /\ cache' = cache
        /\ hosted' = hosted /\ insync' = insync /\ faults' = faults /\ madeFor' = madeFor
    BY <1>17 DEF RefreshDeleting
  <2> QED
    BY <2>1, <2>3, <2>4, <2>5, <2>6, <2>7, NoneIsNot DEF TypeOK
<1>18. CASE DeleteConfirmed
  <2>1. unit' \in Unit \cup {None}
    BY <1>0, <1>15, <1>18 DEF DeleteConfirmed
  <2> QED
    BY <1>18, <2>1, LifecycleBounds DEF DeleteConfirmed, TypeOK
<1>19. CASE DeleteRefused
  <2>1. unit' \in Unit \cup {None}
    BY <1>0, <1>3, <1>19 DEF DeleteRefused
  <2> QED
    BY <1>19, <2>1, LifecycleBounds DEF DeleteRefused, FailProgrammed, TypeOK
<1>20. CASE DeleteHostedZone
  BY <1>20 DEF DeleteHostedZone, TypeOK
<1>21. CASE DeleteSubmitted
  <2>1. unit' \in Unit \cup {None}
    BY <1>0, <1>15, <1>21, SubmittedIs, PatchTyped DEF DeleteSubmitted
  <2> QED
    BY <1>21, <2>1, LifecycleBounds DEF DeleteSubmitted, TypeOK
<1> QED
  BY <1>1, <1>2, <1>4, <1>5, <1>6, <1>7, <1>8, <1>9, <1>10, <1>11, <1>12, <1>13, <1>14,
     <1>16, <1>17, <1>18, <1>19, <1>20, <1>21 DEF Provider

LEMMA ProviderFaultTyped ==
    ASSUME TypeInv, ProviderCrash \/ ProviderError
    PROVE  TypeInv'
<1>1. faults' \in [core : 0..MaxCoreFaults, provider : 0..MaxProviderFaults]
  BY LifecycleBounds DEF TypeInv, TypeOK, ProviderCrash, ProviderError, ProviderFails
<1>2. unit' \in Unit \cup {None}
  <2>1. ProviderError => pu \in Unit
    BY DEF ProviderError, ProviderFails, TypeInv, TypeOK
  <2> QED
    BY <2>1, FailedIs, PatchTyped DEF ProviderCrash, ProviderError, FailProgrammed, TypeInv, TypeOK
<1> QED
  BY <1>1, <1>2, LifecycleBounds DEF ProviderCrash, ProviderError, FailProgrammed, End, TypeInv, TypeOK,
     providerFrame, classVars, coreVars, awsVars, ProviderPhases

LEMMA NextTyped ==
    ASSUME TypeInv, [Next]_vars
    PROVE  TypeInv'
<1>1. CASE UNCHANGED vars
  BY <1>1 DEF vars, TypeInv, TypeOK
<1> QED
  BY <1>1, UserTyped, EnvironmentTyped, CoreTyped, CoreFaultTyped, ProviderTyped,
     ProviderFaultTyped DEF Next

LEMMA TypesHold == Spec => []TypeInv
<1>1. Init => TypeInv
  BY InitTyped
<1>2. TypeInv /\ [Next]_vars => TypeInv'
  BY NextTyped
<1> QED
  BY <1>1, <1>2, PTL DEF Spec

\* Every object, cached copy and reconcile in progress has its type; neither
\* controller acts on something it has not read (reconcileZone and Reconcile).
THEOREM TypeCorrect == Spec => []TypeOK
<1>1. TypeInv => TypeOK
  BY DEF TypeInv
<1> QED
  BY <1>1, TypesHold, PTL

-----------------------------------------------------------------------------
(* What a step may do to the Zone, the informers, core's reading and the   *)
(* units.                                                                  *)

ZoneCreated ==
    /\ zone = None /\ zones' = zones + 1 /\ zones' <= MaxZones
    /\ zone' \in Zone /\ zone'.uid = zones + 1 /\ ~zone'.deleting /\ ~zone'.prog

ZoneChanged ==
    /\ zones' = zones /\ zone \in Zone /\ zone' \in Zone
    /\ zone'.uid = zone.uid
    /\ zone.deleting => zone'.deleting
    /\ zone'.prog => zone.prog \/ (seen.unit /= None /\ seen.unit.zprog /= 0)

ZoneStep ==
    \/ zone' = zone /\ zones' = zones
    \/ zones' = zones /\ zone \in Zone /\ zone' = None
    \/ ZoneCreated
    \/ ZoneChanged

CacheStep ==
    \/ cache' = cache
    \/ /\ \E k \in {"zone", "claim", "unit"} : cache' = [cache EXCEPT ![k] = Server[k]]
       /\ UNCHANGED <<zone, claim, unit, zones, units, seen, pu, pid, madeFor, hosted>>

SeenStep ==
    \/ seen' = seen
    \/ seen' = Unread
    \/ /\ seen' = Informer
       /\ UNCHANGED <<zone, claim, unit, zones, units, cache, pu, pid, madeFor, hosted>>

UnitCreated ==
    /\ unit = None /\ seen.unit = None /\ seen.zone /= None
    /\ units' = units + 1 /\ units' \in 1..MaxUnits
    /\ unit' = NewUnit(units')
    /\ pc' \in {"project", "wait"}
    /\ madeFor' = [madeFor EXCEPT ![units'] = seen.zone.uid]
    /\ UNCHANGED <<zone, claim, zones, seen, cache, pu, pid, hosted>>

BookStep ==
    \/ units' = units /\ madeFor' = madeFor
    \/ UnitCreated

LEMMA ApplySteps ==
    ASSUME TypeInv, seen.zone /= None, NEW next \in {"project", "wait"}, ApplyUnit(next),
           UNCHANGED <<zone, claim, zones, cache, pu, pid, hosted>>
    PROVE  (units' = units /\ madeFor' = madeFor) \/ UnitCreated
<1>1. CASE /\ seen.unit = None /\ unit = None /\ units < MaxUnits
           /\ units' = units + 1 /\ unit' = NewUnit(units + 1)
           /\ madeFor' = [madeFor EXCEPT ![units + 1] = seen.zone.uid]
           /\ CoreGoto(next)
  <2>1. units' \in 1..MaxUnits
    BY <1>1, LifecycleBounds DEF TypeInv, TypeOK
  <2> QED
    BY <1>1, <2>1 DEF CoreGoto, UnitCreated
<1>2. CASE UNCHANGED <<units, madeFor>>
  BY <1>2
<1> QED
  BY <1>1, <1>2 DEF ApplyUnit

LEMMA Steps ==
    ASSUME TypeInv, [Next]_vars
    PROVE  ZoneStep /\ CacheStep /\ SeenStep /\ BookStep
<1> USE DEF coreFrame, providerFrame, apiVars, classVars, coreVars, providerVars, awsVars
<1>1. CASE User
  <2>1. ZoneStep
    <3>1. CASE CreateZone
      BY <3>1, LifecycleBounds DEF CreateZone, TypeInv, TypeOK, ZoneStep, ZoneCreated, Zone
    <3>2. CASE DeleteZone
      BY <3>2 DEF DeleteZone, TypeInv, TypeOK, ZoneStep, ZoneChanged, Zone
    <3>3. CASE zone' = zone /\ zones' = zones
      BY <3>3 DEF ZoneStep
    <3> QED
      BY <1>1, <3>1, <3>2, <3>3 DEF User, CreateClaim, DeleteClaim, DeleteUnit, ChangePolicy
  <2>2. cache' = cache /\ seen' = seen /\ units' = units /\ madeFor' = madeFor
    BY <1>1 DEF User, CreateZone, DeleteZone, CreateClaim, DeleteClaim, DeleteUnit, ChangePolicy
  <2> QED
    BY <2>1, <2>2 DEF CacheStep, SeenStep, BookStep
<1>2. CASE Environment
  BY <1>2 DEF Environment, Deliver, Propagate, ZoneStep, CacheStep, SeenStep, BookStep
<1>3. CASE Core \/ CoreFault
  <2>1. cache' = cache /\ zones' = zones /\ pu' = pu /\ pid' = pid /\ hosted' = hosted
    BY <1>3 DEF Core, CoreBegin, ZoneMissing, EnsureZoneFinalizer, SettleClaim, ComposeLive,
         ProjectZone, WaitForClaims, ReportWaiting, ReleaseZoneWithoutUnit, RequestCleanup,
         WaitForCleanup, ReleaseZone, ReleaseUnit, CoreFault
  <2>2. SeenStep
    <3>1. CASE CoreBegin
      BY <2>1, <3>1 DEF CoreBegin, SeenStep
    <3>2. CASE ~CoreBegin
      <4>1. ASSUME NEW next, CoreGoto(next) PROVE SeenStep
        BY <4>1 DEF CoreGoto, SeenStep
      <4>2. ASSUME NEW next, ApplyUnit(next) PROVE SeenStep
        BY <4>1, <4>2 DEF ApplyUnit
      <4> QED
        BY <1>3, <3>2, <4>1, <4>2 DEF Core, ZoneMissing, EnsureZoneFinalizer, SettleClaim,
           ComposeLive, ProjectZone, WaitForClaims, ReportWaiting, ReleaseZoneWithoutUnit,
           RequestCleanup, WaitForCleanup, ReleaseZone, ReleaseUnit, CoreFault
    <3> QED
      BY <3>1, <3>2
  <2>3. ZoneStep
    <3>1. CASE EnsureZoneFinalizer
      BY <2>1, <3>1 DEF EnsureZoneFinalizer, TypeInv, TypeOK, ZoneStep, ZoneChanged, Zone
    <3>2. ASSUME NEW prog \in BOOLEAN, zone' = Reported(prog),
                 prog => seen.unit /= None /\ seen.unit.zprog /= 0
          PROVE  ZoneStep
      BY <2>1, <3>2, ReportedIs DEF TypeInv, TypeOK, ZoneStep, ZoneChanged
    <3>3. CASE ProjectZone
      <4>1. CASE zone' = zone
        BY <2>1, <4>1 DEF ZoneStep
      <4>2. CASE seen.unit /= None /\ zone' = Reported(seen.unit.zprog = Generation(seen.zone))
        <5>1. Generation(seen.zone) \in 1..2
          BY DEF Generation
        <5>2. seen.unit.zprog = Generation(seen.zone) => seen.unit.zprog /= 0
          BY <5>1
        <5> QED
          BY <3>2, <4>2, <5>2
      <4> QED
        BY <3>3, <4>1, <4>2 DEF ProjectZone
    <3>4. CASE zone' = Reported(FALSE)
      BY <3>2, <3>4
    <3>5. CASE DropZoneFinalizer
      BY <2>1, <3>5, DroppedIs DEF TypeInv, TypeOK, ZoneStep, ZoneChanged
    <3>6. CASE zone' = zone
      BY <2>1, <3>6 DEF ZoneStep
    <3> QED
      BY <1>3, <3>1, <3>3, <3>4, <3>5, <3>6 DEF Core, CoreBegin, ZoneMissing, SettleClaim,
         ComposeLive, WaitForClaims, ReportWaiting, ReleaseZoneWithoutUnit, RequestCleanup,
         WaitForCleanup, ReleaseZone, ReleaseUnit, CoreFault
  <2>4. BookStep
    <3>1. CASE ComposeLive
      BY <2>1, <3>1, ApplySteps DEF ComposeLive, TypeInv, BookStep
    <3>2. CASE WaitForClaims
      BY <2>1, <3>2, ApplySteps DEF WaitForClaims, TypeInv, BookStep
    <3> QED
      BY <1>3, <3>1, <3>2 DEF Core, CoreBegin, ZoneMissing, EnsureZoneFinalizer, SettleClaim,
         ProjectZone, ReportWaiting, ReleaseZoneWithoutUnit, RequestCleanup,
         WaitForCleanup, ReleaseZone, ReleaseUnit, CoreFault, BookStep
  <2> QED
    BY <2>1, <2>2, <2>3, <2>4 DEF CacheStep
<1>4. CASE Provider \/ ProviderCrash \/ ProviderError
  <2>1. UNCHANGED <<zone, zones, units, cache, seen, madeFor>>
    BY <1>4 DEF Provider, ProviderCrash, ProviderError,
         ProviderBegin, ReconcileFinalizer, RefreshPending, StartSelect,
         SelectHostedZone, PersistCallerReference, CallCreateHostedZone,
         TagNewHostedZone, RecordHostedZone, TagFoundHostedZone,
         RefreshHostedZone, ReconcileRecords,
         DeleteNothing, RetainHostedZone, RefreshDeleting, DeleteConfirmed,
         DeleteRefused, DeleteHostedZone, DeleteSubmitted
  <2> QED
    BY <2>1 DEF ZoneStep, CacheStep, SeenStep, BookStep
<1>5. CASE UNCHANGED vars
  BY <1>5 DEF vars, ZoneStep, CacheStep, SeenStep, BookStep
<1> QED
  BY <1>1, <1>2, <1>3, <1>4, <1>5 DEF Next

-----------------------------------------------------------------------------
(* A hosted zone is deleted for cause.                                     *)

\* What is read of the Zone.
ReadZone == IF "zone" \in Lag THEN cache.zone ELSE zone

\* The Zone with UID w is deleting or gone, and stays so.
Over(w) == zone /= None /\ ~zone.deleting => zone.uid > w

\* The reader of Zones is at least as far as the Zone with UID w.
Passed(w) == w <= zones /\ (IF ReadZone = None THEN Over(w) ELSE w <= ReadZone.uid)

Old(z) == z /= None => z.uid <= zones /\ (z.deleting => Over(z.uid))

ZoneInv ==
    /\ zone /= None => zone.uid = zones
    /\ Old(cache.zone) /\ Old(seen.zone)
    /\ seen.zone /= None => Passed(seen.zone.uid)

\* Later units are made for later Zones, none beyond what is read now.
MadeInv ==
    /\ \A u \in 1..MaxUnits : u <= units => Passed(madeFor[u])
    /\ seen.zone /= None => \A u \in 1..MaxUnits : u <= units => madeFor[u] <= seen.zone.uid
    /\ \A u, v \in 1..MaxUnits : u <= v /\ v <= units => madeFor[u] <= madeFor[v]

LEMMA ReadZoneIs == Informer.zone = ReadZone
  BY InformerIs DEF ReadZone

LEMMA ZoneNumbers ==
    ASSUME TypeInv
    PROVE  /\ zones \in Nat /\ units \in 0..MaxUnits
           /\ \A z \in Zone : z.uid \in Nat \ {0} /\ z.deleting \in BOOLEAN /\ z /= None
           /\ zone \in Zone \cup {None} /\ ReadZone \in Zone \cup {None}
           /\ seen.zone \in Zone \cup {None} /\ cache.zone \in Zone \cup {None}
           /\ \A u \in 1..MaxUnits : madeFor[u] \in Nat
  BY LifecycleBounds, NoneIsNot DEF TypeInv, TypeOK, Snapshot, Zone, ReadZone

LEMMA OverStays ==
    ASSUME TypeInv, ZoneInv, ZoneStep, NEW w \in Nat, w <= zones, Over(w)
    PROVE  w <= zones' /\ Over(w)'
<1>1. zones \in Nat /\ (zone /= None => zone \in Zone /\ zone.uid \in Nat)
  BY ZoneNumbers
<1>2. CASE zone' = zone /\ zones' = zones
  BY <1>1, <1>2 DEF Over
<1>3. CASE zones' = zones /\ zone' = None
  BY <1>1, <1>3 DEF Over
<1>4. CASE ZoneCreated
  BY <1>1, <1>4 DEF ZoneCreated, Over
<1>5. CASE ZoneChanged
  BY <1>1, <1>5, NoneIsNot DEF ZoneChanged, Over
<1> QED
  BY <1>2, <1>3, <1>4, <1>5 DEF ZoneStep

LEMMA PassedStays ==
    ASSUME TypeInv, ZoneInv, ZoneStep, CacheStep, NEW w \in Nat, Passed(w)
    PROVE  Passed(w)'
<1>1. zones \in Nat /\ zone \in Zone \cup {None} /\ \A z \in Zone : z.uid \in Nat /\ z /= None
  BY ZoneNumbers
<1>2. cache \in Snapshot
  BY DEF TypeInv, TypeOK
<1>3. w <= zones'
  BY <1>1 DEF Passed, ZoneStep, ZoneCreated, ZoneChanged
<1>4. CASE ReadZone' = ReadZone
  BY <1>3, <1>4, OverStays DEF Passed
<1>5. CASE ReadZone' /= ReadZone /\ ReadZone' = zone'
  <2>1. zone' /= None => w <= zone'.uid
    <3>1. CASE zone' = zone
      <4>1. zone /= None => w <= zone.uid
        BY DEF Passed, ZoneInv
      <4> QED
        BY <3>1, <4>1
    <3>2. CASE ZoneCreated
      BY <1>1, <3>2 DEF Passed, ZoneCreated
    <3>3. CASE ZoneChanged
      BY <1>1, <3>3 DEF Passed, ZoneInv, ZoneChanged
    <3> QED
      BY <3>1, <3>2, <3>3 DEF ZoneStep
  <2>2. zone' = None => Over(w)'
    BY DEF Over
  <2> QED
    BY <1>3, <1>5, <2>1, <2>2 DEF Passed
<1>6. ReadZone' = ReadZone \/ ReadZone' = zone'
  <2>1. CASE "zone" \in Lag
    BY <1>2, <2>1 DEF CacheStep, ReadZone, Snapshot, Server
  <2>2. CASE "zone" \notin Lag
    BY <2>2 DEF ReadZone
  <2> QED
    BY <2>1, <2>2
<1> QED
  BY <1>4, <1>5, <1>6

LEMMA OldStays ==
    ASSUME TypeInv, ZoneInv, ZoneStep, NEW z \in Zone \cup {None}, Old(z)
    PROVE  Old(z)'
<1>1. \A y \in Zone : y.uid \in Nat /\ y /= None
  BY ZoneNumbers
<1>2. zones \in Nat /\ zones <= zones'
  BY ZoneNumbers DEF ZoneStep, ZoneCreated, ZoneChanged
<1>3. zones' \in Nat
  BY <1>2 DEF ZoneStep, ZoneCreated, ZoneChanged
<1> QED
  BY <1>1, <1>2, <1>3, OverStays DEF Old

LEMMA CurrentIsOld ==
    ASSUME TypeInv, ZoneInv
    PROVE  Old(zone) /\ Old(ReadZone) /\ Passed(0)
           /\ (ReadZone /= None => Passed(ReadZone.uid))
  BY ZoneNumbers DEF Old, ZoneInv, Over, ReadZone, Passed

LEMMA NextZone ==
    ASSUME TypeInv, TypeInv', ZoneInv, [Next]_vars
    PROVE  ZoneInv'
<1>1. ZoneStep /\ CacheStep /\ SeenStep
  BY Steps
<1>2. zone' /= None => zone'.uid = zones'
  <2>1. zone' = zone /\ zones' = zones => (zone' /= None => zone'.uid = zones')
    BY DEF ZoneInv
  <2>2. ZoneCreated => zone'.uid = zones'
    BY DEF ZoneCreated
  <2>3. ZoneChanged => zone'.uid = zones'
    BY ZoneNumbers DEF ZoneChanged, ZoneInv
  <2> QED
    BY <1>1, <2>1, <2>2, <2>3 DEF ZoneStep
<1>3. cache.zone \in Zone \cup {None} /\ seen.zone \in Zone \cup {None} /\ zone \in Zone \cup {None}
  BY ZoneNumbers
<1>4. cache'.zone = cache.zone \/ (cache'.zone = zone /\ zone' = zone)
  BY <1>1 DEF CacheStep, Server, TypeInv, TypeOK, Snapshot
<1>5. \A z \in {cache.zone, seen.zone, zone} : Old(z)'
  BY <1>1, <1>3, OldStays, CurrentIsOld DEF ZoneInv
<1>6. Old(cache.zone)'
  BY <1>4, <1>5 DEF Old
<1>7. CASE seen' = seen
  <2>1. Old(seen.zone)'
    BY <1>5, <1>7 DEF Old
  <2>2. seen.zone /= None => seen.zone.uid \in Nat /\ Passed(seen.zone.uid)
    BY <1>3, ZoneNumbers DEF ZoneInv
  <2>3. \A w \in Nat : Passed(w) => Passed(w)'
    BY <1>1, PassedStays
  <2>4. (seen.zone /= None => Passed(seen.zone.uid))'
    BY <1>7, <2>2, <2>3 DEF Passed
  <2> QED
    BY <1>2, <1>6, <2>1, <2>4 DEF ZoneInv
<1>8. CASE seen' = Unread
  BY <1>2, <1>6, <1>8 DEF ZoneInv, Unread, Old
<1>9. CASE seen' = Informer /\ UNCHANGED <<zone, zones, cache>>
  <2>1. seen'.zone = ReadZone
    BY <1>9, ReadZoneIs
  <2>2. Old(seen.zone)'
    BY <1>9, <2>1, CurrentIsOld DEF Old, Over
  <2>3. (seen.zone /= None => Passed(seen.zone.uid))'
    BY <1>9, <2>1, CurrentIsOld DEF Passed, Over, ReadZone
  <2> QED
    BY <1>2, <1>6, <2>2, <2>3 DEF ZoneInv
<1> QED
  BY <1>1, <1>7, <1>8, <1>9 DEF SeenStep

LEMMA NextMade ==
    ASSUME TypeInv, ZoneInv, MadeInv, [Next]_vars
    PROVE  MadeInv'
<1>1. ZoneStep /\ CacheStep /\ SeenStep /\ BookStep
  BY Steps
<1>2. \A w \in Nat : Passed(w) => Passed(w)'
  BY <1>1, PassedStays
<1>3. \A u \in 1..MaxUnits : madeFor[u] \in Nat
  BY ZoneNumbers
<1>4. CASE units' = units /\ madeFor' = madeFor
  <2>1. (\A u \in 1..MaxUnits : u <= units => Passed(madeFor[u]))'
    <3>1. \A u \in 1..MaxUnits : u <= units => Passed(madeFor[u]) /\ madeFor[u] \in Nat
      BY <1>3 DEF MadeInv
    <3> QED
      BY <1>2, <1>4, <3>1 DEF Passed
  <2>2. (seen.zone /= None => \A u \in 1..MaxUnits : u <= units => madeFor[u] <= seen.zone.uid)'
    <3>1. CASE seen' = seen
      BY <1>4, <3>1 DEF MadeInv
    <3>2. CASE seen' = Unread
      BY <3>2 DEF Unread
    <3>3. CASE seen' = Informer
      BY <1>4, <3>3, ReadZoneIs DEF MadeInv, Passed
    <3> QED
      BY <1>1, <3>1, <3>2, <3>3 DEF SeenStep
  <2> QED
    BY <1>4, <2>1, <2>2 DEF MadeInv
<1>5. CASE UnitCreated
  <2>1. /\ units' = units + 1 /\ units' \in 1..MaxUnits /\ units \in Nat
        /\ madeFor' = [madeFor EXCEPT ![units'] = seen.zone.uid]
        /\ seen' = seen /\ seen.zone /= None
    BY <1>5, ZoneNumbers DEF UnitCreated
  <2>2. madeFor \in [1..MaxUnits -> 0..MaxZones]
    BY DEF TypeInv, TypeOK
  <2>3. madeFor'[units'] = seen.zone.uid /\ \A u \in 1..MaxUnits : u <= units => madeFor'[u] = madeFor[u]
    BY <2>1, <2>2
  <2>4. \A u \in 1..MaxUnits : u <= units' => u <= units \/ u = units'
    BY <2>1
  <2>5. seen.zone.uid \in Nat /\ Passed(seen.zone.uid)
    BY <2>1, ZoneNumbers DEF ZoneInv
  <2>6. \A u \in 1..MaxUnits : u <= units' =>
            /\ madeFor'[u] \in Nat /\ Passed(madeFor'[u]) /\ madeFor'[u] <= seen.zone.uid
    BY <1>3, <2>1, <2>3, <2>4, <2>5 DEF MadeInv
  <2>7. (\A u \in 1..MaxUnits : u <= units => Passed(madeFor[u]))'
    BY <1>2, <2>6 DEF Passed
  <2>8. (\A u, v \in 1..MaxUnits : u <= v /\ v <= units => madeFor[u] <= madeFor[v])'
    <3> SUFFICES ASSUME NEW u \in 1..MaxUnits, NEW v \in 1..MaxUnits, u <= v, v <= units'
                 PROVE  madeFor'[u] <= madeFor'[v]
      OBVIOUS
    <3>1. u <= units'
      BY <2>1
    <3>2. CASE v = units'
      BY <2>3, <2>6, <3>1, <3>2
    <3>3. CASE v <= units
      BY <2>1, <2>3, <3>3 DEF MadeInv
    <3> QED
      BY <2>4, <3>2, <3>3
  <2> QED
    BY <2>1, <2>6, <2>7, <2>8 DEF MadeInv
<1> QED
  BY <1>1, <1>4, <1>5 DEF BookStep

\* The unit as a step may leave it, short of creating it: finalizers and the
\* record go their way; it is deleted by core or by hand; or the controller
\* writes the hosted zone and the reference of the unit it works on.
UnitKept ==
    /\ unit \in Unit /\ unit' \in Unit /\ unit'.uid = unit.uid
    /\ unit'.deleting = unit.deleting
    /\ unit'.hz = unit.hz /\ unit'.ref = unit.ref /\ unit'.zprog = unit.zprog
    /\ unit.deleting /\ unit'.prov => unit.prov

UnitMarked ==
    /\ unit \in Unit /\ unit' \in Unit /\ unit'.uid = unit.uid
    /\ unit'.hz = unit.hz /\ unit'.ref = unit.ref /\ unit'.zprog = unit.zprog
    /\ unit'.prov = unit.prov /\ unit'.deleting
    /\ \/ Manual /\ (Informer.zone /= None => Informer.zone.deleting)
       \/ /\ pc = "decide" /\ seen.zone /= None /\ seen.zone.deleting /\ ~Dependents

UnitPatched ==
    /\ unit \in Unit /\ unit' \in Unit /\ pu \in Unit /\ unit'.uid = unit.uid
    /\ unit'.deleting = unit.deleting /\ unit'.prov = unit.prov
    /\ unit'.hz \in {unit.hz, pu.hz, pid}
    /\ unit'.ref \in {unit.ref, pu.ref, pu.uid, pid}

UnitStep ==
    \/ unit' = unit
    \/ unit' = None
    \/ UnitCreated
    \/ UnitKept
    \/ UnitMarked
    \/ UnitPatched

LEMMA SetKept ==
    ASSUME TypeOK, NEW fin \in BOOLEAN, NEW prov \in BOOLEAN, unit' = SetFinalizers(fin, prov)
    PROVE  unit' = unit \/ unit' = None \/ UnitKept
  BY DEF SetFinalizers, FinalizersAdmitted, TypeOK, Unit, UnitKept

LEMMA DropKept ==
    ASSUME TypeInv, seen.unit /= None, DropUnitFinalizer
    PROVE  unit' = unit \/ unit' = None \/ UnitKept
<1>1. seen.unit \in Unit
  BY DEF TypeInv, TypeOK, Snapshot
<1>2. seen.unit.prov \in BOOLEAN
  BY <1>1 DEF Unit
<1> QED
  BY <1>2, SetKept DEF DropUnitFinalizer, TypeInv

LEMMA MarkIs ==
    ASSUME NEW u \in Unit, MarkDeleted(u) /= None
    PROVE  /\ MarkDeleted(u) \in Unit /\ MarkDeleted(u).uid = u.uid
           /\ MarkDeleted(u).hz = u.hz /\ MarkDeleted(u).ref = u.ref
           /\ MarkDeleted(u).zprog = u.zprog /\ MarkDeleted(u).prov = u.prov
           /\ MarkDeleted(u).fin = u.fin /\ MarkDeleted(u).deleting
  BY DEF MarkDeleted, Unit

LEMMA ApplyKept ==
    ASSUME TypeInv, seen.zone /= None, NEW next \in {"project", "wait"}, ApplyUnit(next),
           UNCHANGED <<zone, claim, zones, cache, pu, pid, hosted>>
    PROVE  unit' = unit \/ UnitCreated \/ UnitKept
<1>1. CASE /\ seen.unit = None /\ unit = None /\ units < MaxUnits
           /\ units' = units + 1 /\ unit' = NewUnit(units + 1)
           /\ madeFor' = [madeFor EXCEPT ![units + 1] = seen.zone.uid]
           /\ CoreGoto(next)
  <2>1. units' \in 1..MaxUnits
    BY <1>1, LifecycleBounds DEF TypeInv, TypeOK
  <2> QED
    BY <1>1, <2>1 DEF CoreGoto, UnitCreated
<1>2. CASE /\ PatchAdmitted
           /\ unit' = [unit EXCEPT
                 !.fin = AppliedFinalizers.fin,
                 !.prov = AppliedFinalizers.prov,
                 !.gen = IF Informer.unit.gen = Generation(seen.zone) THEN unit.gen
                         ELSE Generation(seen.zone),
                 !.item = IF Informer.unit.item = DesiredItem THEN unit.item
                          ELSE DesiredItem]
  BY <1>2, CorePatchIs DEF TypeInv, UnitKept
<1> QED
  BY <1>1, <1>2 DEF ApplyUnit

LEMMA CoreUnitSteps ==
    ASSUME TypeInv, Core
    PROVE  UnitStep
<1> USE DEF UnitStep, coreFrame, providerVars, awsVars, apiVars
<1>1. CASE ZoneMissing
  BY <1>1, DropKept DEF ZoneMissing, CleanupCompleted
<1>2. CASE ReleaseUnit
  BY <1>2, DropKept DEF ReleaseUnit, TypeInv
<1>3. CASE ComposeLive
  BY <1>3, ApplyKept DEF ComposeLive, TypeInv
<1>4. CASE WaitForClaims
  BY <1>4, ApplyKept DEF WaitForClaims, TypeInv
<1>5. CASE RequestCleanup
  <2>1. unit \in Unit \cup {None}
    BY DEF TypeInv, TypeOK
  <2>2. seen.zone /= None /\ seen.zone.deleting /\ ~Dependents /\ pc = "decide"
    BY <1>5 DEF RequestCleanup, TypeInv
  <2>3. unit' = unit \/ unit' = None \/ (unit \in Unit /\ unit' = MarkDeleted(unit))
    BY <1>5, <2>1 DEF RequestCleanup
  <2> QED
    BY <2>2, <2>3, MarkIs DEF UnitMarked
<1> QED
  BY <1>1, <1>2, <1>3, <1>4, <1>5 DEF Core, CoreBegin, EnsureZoneFinalizer, SettleClaim,
     ProjectZone, ReportWaiting, ReleaseZoneWithoutUnit, WaitForCleanup, ReleaseZone

LEMMA PatchSteps ==
    ASSUME TypeInv, pu \in Unit, NEW after \in Unit, PatchZoneStatus(after),
           after.hz \in {pu.hz, pid}, after.ref \in {pu.ref, pu.uid, pid}
    PROVE  UnitStep
<1>1. CASE None \in {unit, Informer.unit}
  BY <1>1 DEF PatchZoneStatus, UnitStep
<1>2. CASE None \notin {unit, Informer.unit}
  BY <1>2, PatchIs DEF TypeInv, UnitStep, UnitPatched
<1> QED
  BY <1>1, <1>2

LEMMA FailSteps ==
    ASSUME TypeInv, pu \in Unit, FailProgrammed
    PROVE  UnitStep
<1> DEFINE w == [pu EXCEPT !.zprog = 0]
<1>1. w \in Unit /\ w.hz = pu.hz /\ w.ref = pu.ref
  BY FailedIs
<1>2. PatchZoneStatus(w)
  BY DEF FailProgrammed
<1> HIDE DEF w
<1> QED
  BY <1>1, <1>2, PatchSteps

LEMMA ReleaseSteps ==
    ASSUME TypeInv, pu \in Unit, DropProviderFinalizer
    PROVE  UnitStep
<1>1. pu.fin \in BOOLEAN
  BY DEF Unit
<1> QED
  BY <1>1, SetKept DEF DropProviderFinalizer, TypeInv, UnitStep

\* What the controller works with.
ProviderStep ==
    \/ pu' = pu /\ pid' = pid
    \/ pu' = None /\ pid' = 0
    \/ /\ pu' = Informer.unit /\ pid' = 0
       /\ UNCHANGED <<zone, claim, unit, zones, units, cache, seen, madeFor, hosted>>
    \/ /\ pu \in Unit /\ pu' \in Unit /\ pu'.uid = pu.uid /\ pu'.deleting = pu.deleting
       /\ pu'.hz \in {pu.hz, pid} /\ pu'.ref \in {pu.ref, pu.uid, pid}
       /\ pid' \in {pid, pu.hz, pu.ref, pu.uid}

LEMMA ProviderSteps ==
    ASSUME TypeInv, Provider
    PROVE  UnitStep /\ ProviderStep
<1> USE DEF providerFrame, awsVars, End, Goto
<1>0. ppc /= "idle" => pu \in Unit
  BY DEF TypeInv, TypeOK
<1>1. CASE ProviderBegin
  BY <1>1 DEF ProviderBegin, UnitStep, ProviderStep, classVars, coreVars
<1>2. ASSUME FailProgrammed, pu \in Unit PROVE UnitStep /\ ProviderStep
  BY <1>2, FailSteps DEF FailProgrammed, ProviderStep
<1>3. ASSUME DropProviderFinalizer, End, pu \in Unit PROVE UnitStep /\ ProviderStep
  BY <1>3, ReleaseSteps DEF ProviderStep
<1>4. ASSUME pu \in Unit, NEW w \in Unit, PatchZoneStatus(w), w.uid = pu.uid,
             w.deleting = pu.deleting, w.hz \in {pu.hz, pid}, w.ref \in {pu.ref, pu.uid, pid},
             End \/ (pu' = w /\ pid' = pid)
      PROVE  UnitStep /\ ProviderStep
  BY <1>4, PatchSteps DEF ProviderStep
<1>5. CASE ReconcileFinalizer
  <2>1. pu \in Unit /\ pu.fin \in BOOLEAN /\ End
    BY <1>0, <1>5 DEF ReconcileFinalizer, Unit
  <2>2. CASE unit' = SetFinalizers(pu.fin, TRUE)
    BY <2>1, <2>2, SetKept DEF UnitStep, ProviderStep, TypeInv
  <2> QED
    BY <1>3, <1>5, <2>1, <2>2 DEF ReconcileFinalizer
<1>6. CASE RefreshPending
  <2> DEFINE w == [pu EXCEPT !.pend = ""]
  <2>1. pu \in Unit
    BY <1>0, <1>6 DEF RefreshPending
  <2>2. FailProgrammed \/ (PatchZoneStatus(w) /\ End)
    BY <1>6 DEF RefreshPending
  <2>3. /\ w \in Unit /\ w.uid = pu.uid /\ w.deleting = pu.deleting /\ w.hz = pu.hz
        /\ w.ref = pu.ref
    BY <2>1, SettledIs
  <2> HIDE DEF w
  <2> QED
    BY <1>2, <1>4, <2>1, <2>2, <2>3
<1>7. CASE SelectHostedZone
  BY <1>0, <1>2, <1>7, ReferenceIs DEF SelectHostedZone, UnitStep, ProviderStep
<1>8. CASE PersistCallerReference
  <2> DEFINE w == [pu EXCEPT !.ref = CallerReference]
  <2>1. pu \in Unit /\ CallerReference \in {pu.ref, pu.uid} /\ CallerReference \in 0..MaxUnits
    BY <1>0, <1>8, ReferenceIs, LifecycleBounds DEF PersistCallerReference
  <2>2. PatchZoneStatus(w) /\ pu' = w /\ pid' = pid
    BY <1>8 DEF PersistCallerReference
  <2>3. /\ w \in Unit /\ w.uid = pu.uid /\ w.deleting = pu.deleting /\ w.hz = pu.hz
        /\ w.ref \in {pu.ref, pu.uid}
    BY <2>1, ReferencedIs
  <2> HIDE DEF w
  <2> QED
    BY <1>4, <2>1, <2>2, <2>3
<1>9. CASE CallCreateHostedZone
  BY <1>0, <1>2, <1>9, ReferenceIs DEF CallCreateHostedZone, UnitStep, ProviderStep
<1>10. CASE RecordHostedZone
  <2> DEFINE p == IF insync THEN pu.pend ELSE "CREATE"
             w == [pu EXCEPT !.hz = pid, !.pend = p]
  <2>1. pu \in Unit /\ p \in {"", "CREATE", "DELETE"} /\ pid \in 0..MaxUnits
    BY <1>0, <1>10 DEF RecordHostedZone, Unit, TypeInv, TypeOK
  <2>2. PatchZoneStatus(w) /\ pu' = w /\ pid' = pid
    BY <1>10 DEF RecordHostedZone
  <2> HIDE DEF p, w
  <2>3. /\ w \in Unit /\ w.uid = pu.uid /\ w.deleting = pu.deleting /\ w.hz = pid
        /\ w.ref = pu.ref
    BY <2>1 DEF w, Unit
  <2> HIDE DEF w
  <2> QED
    BY <1>4, <2>1, <2>2, <2>3
<1>11. CASE TagFoundHostedZone
  <2> DEFINE r == IF pid = CallerReference THEN pid ELSE pu.ref
             w == [pu EXCEPT !.hz = pid, !.ref = r]
  <2>1. pu \in Unit /\ r \in 0..MaxUnits /\ r \in {pid, pu.ref} /\ pid \in 0..MaxUnits
    BY <1>0, <1>11 DEF TagFoundHostedZone, Unit, TypeInv, TypeOK
  <2>2. PatchZoneStatus(w) /\ pu' = w /\ pid' = pid
    BY <1>11 DEF TagFoundHostedZone
  <2> HIDE DEF r, w
  <2>3. /\ w \in Unit /\ w.uid = pu.uid /\ w.deleting = pu.deleting /\ w.hz = pid
        /\ w.ref = r
    BY <2>1 DEF w, Unit
  <2> HIDE DEF w
  <2> QED
    BY <1>4, <2>1, <2>2, <2>3
<1>12. CASE RefreshHostedZone
  <2> DEFINE w == [pu EXCEPT !.zprog = pu.gen, !.pend = ""]
  <2>0. pu \in Unit /\ pu.gen \in 1..2
    BY <1>0, <1>12 DEF RefreshHostedZone, Unit
  <2>1. pu \in Unit /\ pu.gen \in 0..2
    BY <2>0
  <2>2. FailProgrammed \/ (PatchZoneStatus(w) /\ (End \/ (pu' = w /\ pid' = pid)))
    BY <1>12 DEF RefreshHostedZone
  <2>3. /\ w \in Unit /\ w.uid = pu.uid /\ w.deleting = pu.deleting /\ w.hz = pu.hz
        /\ w.ref = pu.ref
    BY <2>1, RefreshedIs
  <2> HIDE DEF w
  <2> QED
    BY <1>2, <1>4, <2>1, <2>2, <2>3
<1>13. CASE ReconcileRecords
  <2>1. unit' = unit \/ UnitKept
    <3>1. CASE unit' /= unit
      <4>1. unit \in Unit /\ unit' = [unit EXCEPT !.done = unit.done \/ unit.item = "del"]
        BY <1>13, <3>1 DEF ReconcileRecords, TypeInv, TypeOK
      <4> QED
        BY <4>1 DEF Unit, UnitKept
    <3> QED
      BY <3>1
  <2> QED
    BY <1>13, <2>1 DEF ReconcileRecords, UnitStep, ProviderStep
<1>14. CASE RefreshDeleting
  <2> DEFINE w == [pu EXCEPT !.pend = ""]
  <2>1. pu \in Unit
    BY <1>0, <1>14 DEF RefreshDeleting
  <2>2. \/ pu' = pu /\ pid' = pid /\ unit' = unit
        \/ FailProgrammed
        \/ PatchZoneStatus(w) /\ pu' = w /\ pid' = pid
    BY <1>14 DEF RefreshDeleting
  <2>3. /\ w \in Unit /\ w.uid = pu.uid /\ w.deleting = pu.deleting /\ w.hz = pu.hz
        /\ w.ref = pu.ref
    BY <2>1, SettledIs
  <2> HIDE DEF w
  <2> QED
    BY <1>2, <1>4, <2>1, <2>2, <2>3 DEF UnitStep, ProviderStep
<1>15. CASE DeleteSubmitted
  <2> DEFINE w == [pu EXCEPT !.pend = "DELETE", !.zprog = 0]
  <2>1. pu \in Unit /\ End
    BY <1>0, <1>15 DEF DeleteSubmitted
  <2>2. DropProviderFinalizer \/ PatchZoneStatus(w)
    BY <1>15 DEF DeleteSubmitted
  <2>3. /\ w \in Unit /\ w.uid = pu.uid /\ w.deleting = pu.deleting /\ w.hz = pu.hz
        /\ w.ref = pu.ref
    BY <2>1, SubmittedIs
  <2> HIDE DEF w
  <2> QED
    BY <1>3, <1>4, <2>1, <2>2, <2>3
<1>16. CASE RetainHostedZone
  BY <1>0, <1>3, <1>16 DEF RetainHostedZone
<1>17. CASE DeleteConfirmed
  BY <1>0, <1>3, <1>17 DEF DeleteConfirmed
<1>18. CASE DeleteRefused
  BY <1>0, <1>2, <1>18 DEF DeleteRefused
<1>19. CASE StartSelect \/ TagNewHostedZone \/ DeleteNothing \/ DeleteHostedZone
  BY <1>19 DEF StartSelect, TagNewHostedZone, DeleteNothing, DeleteHostedZone, UnitStep, ProviderStep
<1> QED
  BY <1>1, <1>5, <1>6, <1>7, <1>8, <1>9, <1>10, <1>11, <1>12, <1>13, <1>14, <1>15,
     <1>16, <1>17, <1>18, <1>19 DEF Provider

LEMMA UnitSteps ==
    ASSUME TypeInv, [Next]_vars
    PROVE  UnitStep /\ ProviderStep
<1> USE DEF coreFrame, providerFrame, apiVars, coreVars, providerVars, awsVars
<1>1. CASE User
  <2>1. CASE DeleteUnit
    <3>1. unit \in Unit /\ unit' = MarkDeleted(unit) /\ Manual
      BY <2>1 DEF DeleteUnit, TypeInv, TypeOK
    <3>2. Informer.zone /= None => Informer.zone.deleting
      BY <2>1 DEF DeleteUnit, UnitDeletionAdmitted
    <3> QED
      BY <2>1, <3>1, <3>2, MarkIs DEF DeleteUnit, UnitStep, UnitMarked, ProviderStep
  <2>2. CASE ~DeleteUnit
    BY <1>1, <2>2 DEF User, CreateZone, DeleteZone, CreateClaim, DeleteClaim, ChangePolicy,
       UnitStep, ProviderStep
  <2> QED
    BY <2>1, <2>2
<1>2. CASE Environment \/ CoreFault
  BY <1>2 DEF Environment, Deliver, Propagate, CoreFault, UnitStep, ProviderStep
<1>3. CASE Core
  <2>1. pu' = pu /\ pid' = pid
    BY <1>3 DEF Core, CoreBegin, ZoneMissing, EnsureZoneFinalizer, SettleClaim, ComposeLive,
         ProjectZone, WaitForClaims, ReportWaiting, ReleaseZoneWithoutUnit, RequestCleanup,
         WaitForCleanup, ReleaseZone, ReleaseUnit
  <2> QED
    BY <1>3, <2>1, CoreUnitSteps DEF ProviderStep
<1>4. CASE Provider
  BY <1>4, ProviderSteps
<1>5. CASE ProviderCrash \/ ProviderError
  <2>1. ProviderError => pu \in Unit
    BY DEF ProviderError, ProviderFails, TypeInv, TypeOK
  <2> QED
    BY <1>5, <2>1, FailSteps DEF ProviderCrash, ProviderError, FailProgrammed, End, UnitStep, ProviderStep
<1>6. CASE UNCHANGED vars
  BY <1>6 DEF vars, UnitStep, ProviderStep
<1> QED
  BY <1>1, <1>2, <1>3, <1>4, <1>5, <1>6 DEF Next

\* A copy of a unit: what it names is no younger than itself, and when it is
\* deleting, the Zone it was made for is on its way out.
Sound(v) ==
    v /= None => /\ v.uid <= units /\ v.hz <= v.uid /\ v.ref <= v.uid
                 /\ v.deleting => Over(madeFor[v.uid])

UnitInv ==
    /\ unit /= None => unit.uid = units
    /\ Sound(unit) /\ Sound(cache.unit) /\ Sound(pu)
    /\ pu /= None => pid <= pu.uid

LEMMA UnitNumbers ==
    ASSUME TypeInv
    PROVE  /\ \A v \in Unit : /\ v.uid \in 1..MaxUnits /\ v.uid \in Nat /\ v.hz \in Nat /\ v.ref \in Nat
                              /\ v.hz \in 0..MaxUnits /\ v.deleting \in BOOLEAN /\ v /= None
           /\ unit \in Unit \cup {None} /\ pu \in Unit \cup {None}
           /\ cache.unit \in Unit \cup {None} /\ pid \in Nat
           /\ Informer.unit \in Unit \cup {None}
<1>1. \A v \in Unit : v.uid \in 1..MaxUnits /\ v.hz \in 0..MaxUnits /\ v.ref \in 0..MaxUnits
                      /\ v.deleting \in BOOLEAN /\ v /= None
  BY NoneIsNot DEF Unit
<1> QED
  BY <1>1, LifecycleBounds, InformerTyped DEF TypeInv, TypeOK, Snapshot

LEMMA SoundStays ==
    ASSUME TypeInv, ZoneInv, MadeInv, [Next]_vars, NEW v \in Unit \cup {None}, Sound(v)
    PROVE  Sound(v)'
<1>1. CASE v = None
  BY <1>1 DEF Sound
<1>2. CASE v \in Unit
  <2>1. /\ v.uid \in 1..MaxUnits /\ v.uid <= units /\ v.hz <= v.uid /\ v.ref <= v.uid
        /\ v.deleting => Over(madeFor[v.uid])
    BY <1>2, UnitNumbers DEF Sound
  <2>2. units \in 0..MaxUnits /\ madeFor \in [1..MaxUnits -> 0..MaxZones]
    BY ZoneNumbers DEF TypeInv, TypeOK
  <2>3. units <= units' /\ units' \in Nat /\ madeFor'[v.uid] = madeFor[v.uid]
    <3>1. BookStep
      BY Steps
    <3>2. CASE UnitCreated
      <4>1. units' = units + 1 /\ madeFor' = [madeFor EXCEPT ![units'] = seen.zone.uid]
        BY <3>2 DEF UnitCreated
      <4> QED
        BY <2>1, <2>2, <4>1, LifecycleBounds
    <3>3. CASE units' = units /\ madeFor' = madeFor
      BY <2>2, <3>3, LifecycleBounds
    <3> QED
      BY <3>1, <3>2, <3>3 DEF BookStep
  <2>4. madeFor[v.uid] \in Nat /\ madeFor[v.uid] <= zones
    BY <2>1, ZoneNumbers DEF MadeInv, Passed
  <2>5. v.deleting => Over(madeFor[v.uid])'
    <3>1. \A w \in Nat : w <= zones /\ Over(w) => Over(w)'
      BY Steps, OverStays
    <3> QED
      BY <2>1, <2>3, <2>4, <3>1 DEF Over
  <2>6. v.uid <= units'
    BY <2>1, <2>2, <2>3
  <2> QED
    BY <2>1, <2>5, <2>6 DEF Sound
<1> QED
  BY <1>1, <1>2

LEMMA NextUnit ==
    ASSUME TypeInv, TypeInv', ZoneInv, MadeInv, UnitInv, [Next]_vars
    PROVE  UnitInv'
<1> USE UnitNumbers
<1>1. ZoneStep /\ CacheStep /\ SeenStep /\ BookStep /\ UnitStep /\ ProviderStep
  BY Steps, UnitSteps
<1>2. \A v \in {unit, cache.unit, pu} : Sound(v)'
  BY SoundStays DEF UnitInv
<1>3. units \in Nat /\ \A v \in Unit \cup {None} : Sound(v)' <=>
          (v /= None => /\ v.uid <= units' /\ v.hz <= v.uid /\ v.ref <= v.uid
                        /\ v.deleting => Over(madeFor[v.uid])')
  BY ZoneNumbers DEF Sound
<1>4. cache'.unit = cache.unit \/ cache'.unit = unit
  BY <1>1 DEF CacheStep, Server, TypeInv, TypeOK, Snapshot
<1>5. Sound(cache.unit)'
  BY <1>2, <1>4 DEF Sound
<1>6. Sound(unit)' /\ (unit' /= None => unit'.uid = units')
  <2>0. unit' /= None /\ ~UnitCreated => unit /= None /\ unit'.uid = unit.uid /\ units' = units /\ madeFor' = madeFor
    <3>1. unit' /= None /\ ~UnitCreated => unit /= None /\ unit'.uid = unit.uid
      BY <1>1 DEF UnitStep, UnitKept, UnitMarked, UnitPatched
    <3> QED
      BY <1>1, <3>1 DEF BookStep
  <2>1. CASE unit' = None
    BY <2>1 DEF Sound
  <2>2. CASE UnitCreated
    <3>1. unit' = NewUnit(units') /\ units' \in 1..MaxUnits
      BY <2>2 DEF UnitCreated
    <3>2. unit'.uid = units' /\ ~unit'.deleting /\ unit'.hz = 0 /\ unit'.ref = 0
      BY <3>1, NewUnitIs
    <3> QED
      BY <3>1, <3>2, LifecycleBounds DEF Sound
  <2>3. CASE unit' = unit /\ unit /= None /\ ~UnitCreated
    BY <1>2, <2>0, <2>3 DEF Sound, UnitInv
  <2>4. CASE UnitKept /\ ~UnitCreated
    BY <1>2, <2>0, <2>4 DEF Sound, UnitInv, UnitKept
  <2>5. CASE UnitMarked /\ ~UnitCreated
    <3>1. Over(madeFor[unit.uid])
      <4>1. unit.uid \in 1..MaxUnits /\ unit.uid = units /\ madeFor[unit.uid] \in Nat
        BY <2>5, ZoneNumbers DEF UnitMarked, UnitInv
      <4>2. Passed(madeFor[unit.uid])
        BY <1>3, <4>1 DEF MadeInv
      <4>3. CASE Informer.zone /= None => Informer.zone.deleting
        BY <4>1, <4>2, <4>3, ReadZoneIs, CurrentIsOld, ZoneNumbers DEF Passed, Over, Old
      <4>4. CASE seen.zone /= None /\ seen.zone.deleting
        <5>1. madeFor[unit.uid] <= seen.zone.uid
          BY <1>3, <4>1, <4>4 DEF MadeInv
        <5> QED
          BY <4>1, <4>4, <5>1, ZoneNumbers DEF ZoneInv, Old, Over
      <4> QED
        BY <2>5, <4>3, <4>4 DEF UnitMarked
    <3>2. Over(madeFor[unit.uid])'
      <4>1. unit.uid \in 1..MaxUnits /\ unit.uid = units
        BY <2>5 DEF UnitMarked, UnitInv
      <4>2. madeFor[unit.uid] \in Nat /\ madeFor[unit.uid] <= zones
        BY <1>3, <4>1, ZoneNumbers DEF MadeInv, Passed
      <4>3. unit'.uid = unit.uid /\ madeFor' = madeFor
        BY <2>0, <2>5 DEF UnitMarked
      <4>4. \A w \in Nat : w <= zones /\ Over(w) => Over(w)'
        BY Steps, OverStays
      <4> QED
        BY <3>1, <4>2, <4>3, <4>4 DEF Over
    <3> QED
      BY <1>2, <2>0, <2>5, <3>2 DEF Sound, UnitInv, UnitMarked
  <2>6. CASE UnitPatched /\ ~UnitCreated
    <3>1. pu.uid <= unit.uid /\ unit'.hz <= unit.uid /\ unit'.ref <= unit.uid
      <4>1. pu.uid <= units /\ pu.hz <= pu.uid /\ pu.ref <= pu.uid /\ pid <= pu.uid
            /\ unit.hz <= unit.uid /\ unit.ref <= unit.uid /\ unit.uid = units
        BY <2>6 DEF UnitPatched, UnitInv, Sound
      <4> QED
        BY <1>3, <2>6, <4>1 DEF UnitPatched
    <3> QED
      BY <1>2, <2>0, <2>6, <3>1 DEF Sound, UnitInv, UnitPatched
  <2> QED
    BY <1>1, <2>1, <2>2, <2>3, <2>4, <2>5, <2>6 DEF UnitStep
<1>7. Sound(pu)' /\ (pu' /= None => pid' <= pu'.uid)
  <2>1. CASE pu' = pu /\ pid' = pid
    BY <1>2, <2>1 DEF Sound, UnitInv
  <2>2. CASE pu' = None
    BY <2>2 DEF Sound
  <2>3. CASE pu' = Informer.unit /\ pid' = 0
    BY <1>2, <2>3, InformerIs DEF Sound
  <2>4. CASE /\ pu \in Unit /\ pu' \in Unit /\ pu'.uid = pu.uid /\ pu'.deleting = pu.deleting
             /\ pu'.hz \in {pu.hz, pid} /\ pu'.ref \in {pu.ref, pu.uid, pid}
             /\ pid' \in {pid, pu.hz, pu.ref, pu.uid}
    <3>1. pu.hz <= pu.uid /\ pu.ref <= pu.uid /\ pid <= pu.uid
      BY <2>4 DEF UnitInv, Sound
    <3> QED
      BY <1>2, <2>4, <3>1 DEF Sound, UnitInv
  <2> QED
    BY <1>1, <2>1, <2>2, <2>3, <2>4 DEF ProviderStep
<1> QED
  BY <1>5, <1>6, <1>7 DEF UnitInv

LifecycleInv == TypeInv /\ ZoneInv /\ MadeInv /\ UnitInv

LEMMA LifecycleHolds == Spec => []LifecycleInv
<1>1. Init => LifecycleInv
  <2>1. ASSUME Init PROVE ZoneInv /\ MadeInv /\ UnitInv
    BY <2>1, LifecycleBounds DEF Init, ZoneInv, MadeInv, UnitInv, Old, Sound, Unread
  <2> QED
    BY <2>1, InitTyped DEF LifecycleInv
<1>2. LifecycleInv /\ [Next]_vars => LifecycleInv'
  BY NextTyped, NextZone, NextMade, NextUnit DEF LifecycleInv
<1> QED
  BY <1>1, <1>2, PTL DEF Spec

\* A hosted zone is deleted only when the Zone it was made for is deleting, gone
\* or replaced (Reconcile deletes for a unit that is deleting, which core and the
\* webhook allow only then), with any lag of the informers and any failures.
THEOREM DeletionHasCause == Spec => HostedZoneDeletedForCause
<1>1. LifecycleInv /\ [Next]_vars =>
        [\A h \in 1 .. MaxUnits :
          hosted[h] /= "gone" /\ hosted'[h] = "gone"
              => zone = None \/ zone.deleting \/ zone.uid /= madeFor[h]]_vars
  <2> SUFFICES ASSUME LifecycleInv, [Next]_vars, NEW h \in 1..MaxUnits,
                      hosted[h] /= "gone", hosted'[h] = "gone",
                      zone /= None, ~zone.deleting
               PROVE  zone.uid /= madeFor[h]
    OBVIOUS
  <2>1. hosted \in [1..MaxUnits -> {"none", "empty", "used", "gone"}]
    BY DEF LifecycleInv, TypeInv, TypeOK
  <2>2. DeleteHostedZone
    BY <2>1 DEF Next, vars, User, CreateZone, DeleteZone, CreateClaim, DeleteClaim, DeleteUnit, ChangePolicy,
       Environment, Deliver, Propagate,
       Core, CoreBegin, ZoneMissing, EnsureZoneFinalizer, SettleClaim, ComposeLive,
       ProjectZone, WaitForClaims, ReportWaiting, ReleaseZoneWithoutUnit, RequestCleanup,
       WaitForCleanup, ReleaseZone, ReleaseUnit, CoreFault,
       Provider, ProviderCrash, ProviderError,
       ProviderBegin, ReconcileFinalizer, RefreshPending, StartSelect,
       SelectHostedZone, PersistCallerReference, CallCreateHostedZone,
       TagNewHostedZone, RecordHostedZone, TagFoundHostedZone,
       RefreshHostedZone, ReconcileRecords,
       DeleteNothing, RetainHostedZone, RefreshDeleting, DeleteConfirmed,
       DeleteRefused, DeleteSubmitted, Exists,
       coreFrame, providerFrame, apiVars, classVars, coreVars, providerVars, awsVars
  <2>3. h = pu.hz /\ pu /= None /\ pu.deleting
    BY <2>1, <2>2 DEF DeleteHostedZone, LifecycleInv, TypeInv
  <2>4. /\ pu.uid \in 1..MaxUnits /\ pu.uid <= units /\ h <= pu.uid
        /\ Over(madeFor[pu.uid])
    BY <2>3, UnitNumbers DEF LifecycleInv, UnitInv, Sound
  <2>5. madeFor[h] <= madeFor[pu.uid]
    BY <2>4 DEF LifecycleInv, MadeInv
  <2>6. madeFor[h] \in Nat /\ madeFor[pu.uid] \in Nat /\ zone.uid \in Nat
    BY <2>4, ZoneNumbers DEF LifecycleInv
  <2> QED
    BY <2>4, <2>5, <2>6 DEF Over
<1> QED
  BY <1>1, LifecycleHolds, PTL DEF Spec, HostedZoneDeletedForCause

-----------------------------------------------------------------------------
(* The unit is kept for dependents.                                        *)

\* What is read of the RecordSet.
ReadClaim == IF "claim" \in Lag THEN cache.claim ELSE claim

ClaimInv ==
    /\ "gone" \in {cache.claim, seen.claim} => claim = "gone"
    /\ cache.claim /= "never" => claim /= "never"
    /\ seen.claim /= "never" => ReadClaim /= "never"
    /\ claim \in {"held", "deleting"} => ReadClaim /= "never"
    /\ pc /= "idle" /\ seen.claim = "never" => claim \notin {"held", "deleting"}

\* Only core, having read the RecordSet as live, gives it the finalizer.
ClaimStep ==
    \/ claim' = claim
    \/ claim = "never" /\ claim' = "live" /\ UNCHANGED <<pc, seen, cache>>
    \/ /\ <<claim, claim'>> \in {<<"held", "deleting">>, <<"live", "gone">>, <<"deleting", "gone">>}
       /\ UNCHANGED cache
    \/ /\ claim = "live" /\ claim' = "held" /\ seen.claim = "live"
       /\ UNCHANGED <<cache, seen>>

LEMMA ClaimSteps ==
    ASSUME TypeInv, [Next]_vars
    PROVE  ClaimStep
<1> USE DEF ClaimStep, coreFrame, providerFrame, apiVars, coreVars
<1>1. CASE User
  BY <1>1 DEF User, CreateZone, DeleteZone, CreateClaim, DeleteClaim, DeleteUnit, ChangePolicy,
     TypeInv, TypeOK, ClaimStates
<1>2. CASE Core \/ CoreFault
  <2>1. CASE SettleClaim
    BY <2>1 DEF SettleClaim, CoreGoto, TypeInv, TypeOK, ClaimStates
  <2> QED
    BY <1>2, <2>1 DEF Core, CoreBegin, ZoneMissing, EnsureZoneFinalizer, ComposeLive,
       ProjectZone, WaitForClaims, ReportWaiting, ReleaseZoneWithoutUnit, RequestCleanup,
       WaitForCleanup, ReleaseZone, ReleaseUnit, CoreFault
<1>3. CASE Environment \/ Provider \/ ProviderCrash \/ ProviderError
  BY <1>3 DEF Environment, Deliver, Propagate, Provider, ProviderCrash, ProviderError,
     ProviderBegin, ReconcileFinalizer, RefreshPending, StartSelect,
     SelectHostedZone, PersistCallerReference, CallCreateHostedZone,
     TagNewHostedZone, RecordHostedZone, TagFoundHostedZone,
     RefreshHostedZone, ReconcileRecords,
     DeleteNothing, RetainHostedZone, RefreshDeleting, DeleteConfirmed,
     DeleteRefused, DeleteHostedZone, DeleteSubmitted
<1>4. CASE UNCHANGED vars
  BY <1>4 DEF vars
<1> QED
  BY <1>1, <1>2, <1>3, <1>4 DEF Next

\* Core reads at the start of a reconcile and forgets at its end.
ReadingStep ==
    \/ /\ UNCHANGED seen
       /\ pc' = "idle" <=> pc = "idle"
       /\ pc \in {"project", "wait"} => pc' = pc
    \/ pc' = "idle" /\ seen' = Unread
    \/ pc = "idle" /\ seen' = Informer /\ UNCHANGED <<zone, claim, unit, cache>>

LEMMA ReadingSteps ==
    ASSUME TypeInv, [Next]_vars
    PROVE  ReadingStep
<1> USE DEF ReadingStep, coreFrame, providerFrame, apiVars, coreVars
<1>1. CASE CoreBegin
  BY <1>1 DEF CoreBegin
<1>2. CASE (Core /\ ~CoreBegin) \/ CoreFault
  <2>1. ASSUME pc /= "idle", NEW next, next = "idle" \/ pc \notin {"project", "wait"},
               CoreGoto(next)
        PROVE  ReadingStep
    BY <2>1 DEF CoreGoto
  <2>2. ASSUME pc = "decide", NEW next, ApplyUnit(next)
        PROVE  ReadingStep
    BY <2>1, <2>2 DEF ApplyUnit
  <2>3. pc /= "idle"
    BY <1>2 DEF Core, ZoneMissing, EnsureZoneFinalizer, SettleClaim, ComposeLive,
       ProjectZone, WaitForClaims, ReportWaiting, ReleaseZoneWithoutUnit, RequestCleanup,
       WaitForCleanup, ReleaseZone, ReleaseUnit, CoreFault
  <2> QED
    BY <1>2, <2>1, <2>2, <2>3 DEF Core, ZoneMissing, EnsureZoneFinalizer, SettleClaim, ComposeLive,
       ProjectZone, WaitForClaims, ReportWaiting, ReleaseZoneWithoutUnit, RequestCleanup,
       WaitForCleanup, ReleaseZone, ReleaseUnit, CoreFault
<1>3. CASE User \/ Environment \/ Provider \/ ProviderCrash \/ ProviderError \/ UNCHANGED vars
  <2>1. UNCHANGED <<pc, seen>>
    BY <1>3 DEF User, CreateZone, DeleteZone, CreateClaim, DeleteClaim, DeleteUnit, ChangePolicy,
     Environment, Deliver, Propagate, Provider, ProviderCrash, ProviderError,
     ProviderBegin, ReconcileFinalizer, RefreshPending, StartSelect,
     SelectHostedZone, PersistCallerReference, CallCreateHostedZone,
     TagNewHostedZone, RecordHostedZone, TagFoundHostedZone,
     RefreshHostedZone, ReconcileRecords,
     DeleteNothing, RetainHostedZone, RefreshDeleting, DeleteConfirmed,
     DeleteRefused, DeleteHostedZone, DeleteSubmitted, vars
  <2> QED
    BY <2>1
<1> QED
  BY <1>1, <1>2, <1>3 DEF Next

LEMMA NextClaim ==
    ASSUME TypeInv, ClaimInv, [Next]_vars
    PROVE  ClaimInv'
<1>1. ClaimStep /\ ReadingStep /\ CacheStep
  BY ClaimSteps, ReadingSteps, Steps
<1>2. Informer.claim = ReadClaim
  BY InformerIs DEF ReadClaim
<1>3. cache'.claim = cache.claim \/ (cache'.claim = claim /\ claim' = claim /\ seen' = seen)
  BY <1>1 DEF CacheStep, Server, TypeInv, TypeOK, Snapshot
<1>4. seen' = seen \/ seen'.claim = "never" \/ (seen'.claim = ReadClaim /\ UNCHANGED <<claim, cache>>)
  BY <1>1, <1>2 DEF ReadingStep, Unread
<1> QED
  BY <1>1, <1>2, <1>3, <1>4 DEF ClaimInv, ClaimStep, ReadingStep, ReadClaim, Unread

\* When no administrator deletes units by hand, a unit begins to be deleted only
\* when no RecordSet has core's finalizer (reconcileZone waits for them, and a
\* RecordSet it has not read cannot have the finalizer).
THEOREM DependentsKeepUnit == ~Manual => (Spec => UnitKeptForDependents)
<1> SUFFICES ASSUME ~Manual PROVE Spec => UnitKeptForDependents
  OBVIOUS
<1>1. Init => ClaimInv
  BY DEF Init, ClaimInv, Unread, ReadClaim
<1>2. TypeInv /\ ClaimInv /\ [Next]_vars => ClaimInv'
  BY NextClaim
<1>3. TypeInv /\ ClaimInv /\ [Next]_vars =>
        [unit /= None /\ unit' /= None /\ ~unit.deleting /\ unit'.deleting
          => claim \notin {"held", "deleting"}]_vars
  <2> SUFFICES ASSUME TypeInv, ClaimInv, [Next]_vars,
                      unit /= None, unit' /= None, ~unit.deleting, unit'.deleting
               PROVE  claim \notin {"held", "deleting"}
    OBVIOUS
  <2>1. UnitMarked
    BY UnitSteps DEF UnitStep, UnitCreated, UnitKept, UnitPatched
  <2>2. pc = "decide" /\ seen.claim \notin {"live", "held", "deleting"}
    BY <2>1 DEF UnitMarked, Dependents, Present
  <2>3. seen.claim \in {"never", "gone"}
    BY <2>2 DEF TypeInv, TypeOK, Snapshot, ClaimStates
  <2> QED
    BY <2>2, <2>3 DEF ClaimInv
<1> QED
  BY <1>1, <1>2, <1>3, TypesHold, PTL DEF Spec, UnitKeptForDependents

-----------------------------------------------------------------------------
(* No unit is orphaned.                                                    *)

\* The unit core has read is the one that is there, if any, no further on.
ReadingInv ==
    pc /= "idle" =>
        /\ seen.unit = None /\ pc \notin {"project", "wait"} => unit = None
        /\ seen.unit /= None /\ unit /= None =>
              /\ unit.uid = seen.unit.uid
              /\ seen.unit.deleting => unit.deleting /\ (unit.prov => seen.unit.prov)

LEMMA NextReading ==
    ASSUME "unit" \notin Lag, TypeInv, ReadingInv, [Next]_vars
    PROVE  ReadingInv'
<1>1. UnitStep /\ ReadingStep /\ (unit = None => seen.unit = None \/ unit' = None)
  <2>1. UnitStep /\ ReadingStep
    BY UnitSteps, ReadingSteps
  <2>2. unit = None => seen.unit = None \/ unit' = None
    BY <2>1, NoneIsNot DEF UnitStep, UnitCreated, UnitKept, UnitMarked, UnitPatched
  <2> QED
    BY <2>1, <2>2
<1>2. CASE pc' = "idle"
  BY <1>2 DEF ReadingInv
<1>3. CASE pc = "idle" /\ seen' = Informer /\ UNCHANGED unit
  BY <1>3, InformerIs DEF ReadingInv
<1>4. CASE /\ UNCHANGED seen /\ pc' /= "idle" /\ pc /= "idle"
           /\ pc \in {"project", "wait"} => pc' = pc
  <2>1. CASE unit' = unit \/ unit' = None
    BY <1>1, <1>4, <2>1 DEF ReadingInv
  <2>2. CASE UnitCreated
    BY <1>4, <2>2 DEF ReadingInv, UnitCreated
  <2>3. CASE UnitKept
    BY <1>4, <2>3, NoneIsNot DEF ReadingInv, UnitKept
  <2>4. CASE UnitMarked
    BY <1>4, <2>4, NoneIsNot DEF ReadingInv, UnitMarked
  <2>5. CASE UnitPatched
    BY <1>4, <2>5, NoneIsNot DEF ReadingInv, UnitPatched
  <2> QED
    BY <1>1, <2>1, <2>2, <2>3, <2>4, <2>5 DEF UnitStep
<1> QED
  BY <1>1, <1>2, <1>3, <1>4 DEF ReadingStep

\* When the informer of units does not lag, a deleting Zone is let go only when
\* its unit is gone, or deleting with nothing left for the provider to clean up
\* (reconcileZone), also when core read an older Zone.
THEOREM UnitsNotOrphaned == "unit" \notin Lag => (Spec => NoOrphanedUnit)
<1> SUFFICES ASSUME "unit" \notin Lag PROVE Spec => NoOrphanedUnit
  OBVIOUS
<1>1. Init => ReadingInv
  BY DEF Init, ReadingInv
<1>2. TypeInv /\ ReadingInv /\ [Next]_vars => ReadingInv'
  BY NextReading
<1>3. TypeInv /\ ReadingInv /\ [Next]_vars =>
        [zone /= None /\ zone.deleting /\ zone' = None
          => unit = None \/ (unit.deleting /\ ~unit.prov)]_vars
  <2> SUFFICES ASSUME TypeInv, ReadingInv, [Next]_vars,
                      zone /= None, zone.deleting, zone' = None
               PROVE  unit = None \/ (unit.deleting /\ ~unit.prov)
    OBVIOUS
  <2>1. pc = "decide" /\ DropZoneFinalizer /\ (seen.unit = None \/ CleanupCompleted)
    <3>1. ASSUME NEW prog \in BOOLEAN, zone' = Reported(prog) PROVE FALSE
      BY <3>1, NoneIsNot, ReportedIs DEF TypeInv
    <3>2. EnsureZoneFinalizer => FALSE
      BY NoneIsNot DEF EnsureZoneFinalizer, TypeInv, TypeOK, Zone
    <3> QED
      BY <3>1, <3>2 DEF Next, vars, User, CreateZone, DeleteZone, CreateClaim, DeleteClaim,
       DeleteUnit, ChangePolicy, Environment, Deliver, Propagate,
       Core, CoreBegin, ZoneMissing, SettleClaim, ComposeLive,
       ProjectZone, WaitForClaims, ReportWaiting, ReleaseZoneWithoutUnit, RequestCleanup,
       WaitForCleanup, ReleaseZone, ReleaseUnit, CoreFault,
       Provider, ProviderCrash, ProviderError,
       ProviderBegin, ReconcileFinalizer, RefreshPending, StartSelect,
       SelectHostedZone, PersistCallerReference, CallCreateHostedZone,
       TagNewHostedZone, RecordHostedZone, TagFoundHostedZone,
       RefreshHostedZone, ReconcileRecords,
       DeleteNothing, RetainHostedZone, RefreshDeleting, DeleteConfirmed,
       DeleteRefused, DeleteHostedZone, DeleteSubmitted,
       coreFrame, providerFrame, apiVars, coreVars
  <2> QED
    BY <2>1 DEF ReadingInv, CleanupCompleted
<1> QED
  BY <1>1, <1>2, <1>3, TypesHold, PTL DEF Spec, NoOrphanedUnit

-----------------------------------------------------------------------------
(* No hosted zone is leaked.                                               *)

\* Past its first step the controller works on a unit that holds its finalizer;
\* while it does, that unit is the one that is there and its status says what
\* the controller knows.  A hosted zone belongs to that unit: it is recorded
\* there, or about to be.
WorkInv ==
    /\ pc = "release" => CleanupCompleted
    /\ ppc \notin {"idle", "start"} => pu.prov
    /\ ppc /= "idle" /\ pu.prov =>
          /\ unit /= None /\ unit.uid = pu.uid /\ unit.prov
          /\ unit.hz = pu.hz /\ unit.ref = pu.ref
          /\ pu.deleting => unit.deleting
    /\ unit /= None => unit.ref \in {0, unit.uid}
    /\ ppc \in {"tagNew", "record"} => pid = pu.uid
    /\ ppc = "tagFound" => pid = pu.hz
    /\ ppc = "deleted" => ~Exists(pu.hz)
    /\ \A h \in 1..MaxUnits : Exists(h) =>
          /\ unit /= None /\ unit.uid = h /\ unit.prov
          /\ unit.hz = h \/ ppc \in {"tagNew", "record"}

\* What a step of anyone but the controller may do to the unit.
OutsideStep ==
    \/ unit' = unit
    \/ unit = None /\ unit' \in Unit /\ unit'.ref = 0
    \/ /\ unit \in Unit /\ ~unit.prov
       /\ unit' /= None => unit' \in Unit /\ unit'.uid = unit.uid /\ unit'.ref = unit.ref
    \/ /\ unit \in Unit /\ unit' \in Unit /\ unit.prov /\ unit'.prov
       /\ unit'.uid = unit.uid /\ unit'.hz = unit.hz /\ unit'.ref = unit.ref
       /\ unit.deleting => unit'.deleting

LEMMA MarkOutside ==
    ASSUME unit \in Unit, unit' = MarkDeleted(unit)
    PROVE  OutsideStep
<1>1. CASE unit.fin \/ unit.prov
  <2>1. unit' /= None /\ unit' = [unit EXCEPT !.deleting = TRUE]
    BY <1>1, NoneIsNot DEF MarkDeleted, Unit
  <2> QED
    BY <2>1, MarkIs DEF OutsideStep
<1>2. CASE ~(unit.fin \/ unit.prov)
  BY <1>2 DEF MarkDeleted, OutsideStep
<1> QED
  BY <1>1, <1>2

LEMMA DropOutside ==
    ASSUME TypeInv, ReadingInv, pc /= "idle", CleanupCompleted, DropUnitFinalizer
    PROVE  OutsideStep
<1>1. seen.unit \in Unit /\ seen.unit.deleting /\ ~seen.unit.prov /\ unit \in Unit \cup {None}
  BY DEF CleanupCompleted, TypeInv, TypeOK, Snapshot
<1>2. unit /= None => ~unit.prov
  <2>1. seen.unit /= None
    BY DEF CleanupCompleted
  <2> QED
    BY <1>1, <2>1 DEF ReadingInv
<1>3. seen.unit.prov \in BOOLEAN
  BY <1>1 DEF Unit
<1>4. unit' = unit \/ unit' = None \/ UnitKept
  BY <1>1, DropKept, NoneIsNot
<1> QED
  BY <1>1, <1>2, <1>4, NoneIsNot DEF OutsideStep, UnitKept

LEMMA ApplyOutside ==
    ASSUME "unit" \notin Lag, TypeInv, NEW next, ApplyUnit(next)
    PROVE  OutsideStep
<1>1. CASE unit = None /\ units < MaxUnits /\ unit' = NewUnit(units + 1)
  <2>1. units + 1 \in 1..MaxUnits
    BY <1>1, LifecycleBounds DEF TypeInv, TypeOK
  <2>2. NewUnit(units + 1) \in Unit /\ NewUnit(units + 1).ref = 0
    BY <2>1, NewUnitIs
  <2> QED
    BY <1>1, <2>2 DEF OutsideStep
<1>2. CASE /\ PatchAdmitted
           /\ unit' = [unit EXCEPT
                 !.fin = AppliedFinalizers.fin,
                 !.prov = AppliedFinalizers.prov,
                 !.gen = IF Informer.unit.gen = Generation(seen.zone) THEN unit.gen
                         ELSE Generation(seen.zone),
                 !.item = IF Informer.unit.item = DesiredItem THEN unit.item
                          ELSE DesiredItem]
  <2>1. AppliedFinalizers.prov = unit.prov
    BY InformerIs DEF AppliedFinalizers
  <2>2. unit \in Unit /\ unit.prov \in BOOLEAN
    BY <1>2, CorePatchIs DEF TypeInv, Unit
  <2> QED
    BY <1>2, <2>1, <2>2, CorePatchIs DEF TypeInv, OutsideStep
<1>3. CASE unit' = unit
  BY <1>3 DEF OutsideStep
<1> QED
  BY <1>1, <1>2, <1>3 DEF ApplyUnit

LEMMA OutsideSteps ==
    ASSUME "unit" \notin Lag, TypeInv, ReadingInv, pc = "release" => CleanupCompleted,
           User \/ Environment \/ Core \/ CoreFault \/ UNCHANGED vars
    PROVE  /\ OutsideStep /\ UNCHANGED <<ppc, pu, pid, hosted>>
           /\ (pc = "release" => CleanupCompleted)'
<1>1. UNCHANGED <<ppc, pu, pid, hosted>>
  BY DEF User, CreateZone, DeleteZone, CreateClaim, DeleteClaim, DeleteUnit, ChangePolicy,
     Environment, Deliver, Propagate, Core, CoreBegin, ZoneMissing, EnsureZoneFinalizer,
     SettleClaim, ComposeLive, ProjectZone, WaitForClaims, ReportWaiting, ReleaseZoneWithoutUnit,
     RequestCleanup, WaitForCleanup, ReleaseZone, ReleaseUnit, CoreFault, vars,
     coreFrame, apiVars, providerVars, awsVars
<1>2. OutsideStep
  <2> USE DEF coreFrame, apiVars
  <2>1. CASE DeleteUnit
    BY <2>1, MarkOutside DEF DeleteUnit, TypeInv, TypeOK
  <2>2. CASE RequestCleanup
    <3>1. unit' = unit \/ (unit \in Unit /\ unit' = MarkDeleted(unit))
      BY <2>2 DEF RequestCleanup, TypeInv, TypeOK
    <3> QED
      BY <3>1, MarkOutside DEF OutsideStep
  <2>3. CASE ZoneMissing
    BY <2>3, DropOutside DEF ZoneMissing, OutsideStep
  <2>4. CASE ReleaseUnit
    BY <2>4, DropOutside DEF ReleaseUnit
  <2>5. CASE ComposeLive
    BY <2>5, ApplyOutside DEF ComposeLive
  <2>6. CASE WaitForClaims
    BY <2>6, ApplyOutside DEF WaitForClaims, OutsideStep
  <2>7. CASE unit' = unit
    BY <2>7 DEF OutsideStep
  <2> QED
    BY <2>1, <2>2, <2>3, <2>4, <2>5, <2>6, <2>7 DEF User, CreateZone, DeleteZone, CreateClaim,
       DeleteClaim, ChangePolicy,
       Environment, Deliver, Propagate, Core, CoreBegin, EnsureZoneFinalizer,
       SettleClaim, ProjectZone, ReportWaiting, ReleaseZoneWithoutUnit,
       WaitForCleanup, ReleaseZone, CoreFault, vars
<1>3. (pc = "release" => CleanupCompleted)'
  <2>1. ASSUME pc' = "release" PROVE CleanupCompleted /\ seen' = seen
    <3>1. ASSUME NEW next \in {"project", "wait"}, ApplyUnit(next) PROVE FALSE
      BY <2>1, <3>1 DEF ApplyUnit, CoreGoto
    <3> QED
      BY <2>1, <3>1 DEF User, CreateZone, DeleteZone, CreateClaim, DeleteClaim, DeleteUnit, ChangePolicy,
       Environment, Deliver, Propagate, Core, CoreBegin, ZoneMissing, EnsureZoneFinalizer,
       SettleClaim, ComposeLive, ProjectZone, WaitForClaims, ReportWaiting, ReleaseZoneWithoutUnit,
       RequestCleanup, WaitForCleanup, ReleaseZone, ReleaseUnit, CoreFault, vars, CoreGoto, coreVars
  <2> QED
    BY <2>1 DEF CleanupCompleted
<1> QED
  BY <1>1, <1>2, <1>3

\* A patch of the status arrives: the unit says what the controller wrote.
LEMMA PatchArrives ==
    ASSUME "unit" \notin Lag, TypeInv, WorkInv, ppc /= "idle", pu.prov,
           NEW after \in Unit, PatchZoneStatus(after)
    PROVE  /\ unit \in Unit /\ unit' \in Unit /\ unit' /= None
           /\ unit'.uid = pu.uid /\ unit'.prov /\ (pu.deleting => unit'.deleting)
           /\ unit'.hz = after.hz /\ unit'.ref = after.ref
<1>1. pu \in Unit /\ unit /= None
  BY DEF TypeInv, TypeOK, WorkInv
<1>2. None \notin {unit, Informer.unit}
  BY <1>1, InformerIs
<1>3. /\ unit \in Unit /\ unit' \in Unit
      /\ unit'.uid = unit.uid /\ unit'.deleting = unit.deleting /\ unit'.prov = unit.prov
      /\ unit'.hz = IF after.hz = pu.hz THEN unit.hz ELSE after.hz
      /\ unit'.ref = IF after.ref = pu.ref THEN unit.ref ELSE after.ref
  BY <1>1, <1>2, PatchIs DEF TypeInv
<1> QED
  BY <1>3, NoneIsNot DEF WorkInv

\* What the controller works on, given the finalizer.
LEMMA Working ==
    ASSUME TypeInv, WorkInv, ppc /= "idle", pu.prov
    PROVE  /\ pu \in Unit /\ unit \in Unit
           /\ CallerReference = pu.uid /\ pu.uid \in 1..MaxUnits
           /\ pu.ref \in {0, pu.uid}
<1>1. pu \in Unit /\ unit \in Unit
  BY DEF TypeInv, TypeOK, WorkInv
<1>2. pu.ref \in {0, pu.uid} /\ pu.uid \in 1..MaxUnits
  BY <1>1 DEF WorkInv, Unit
<1> QED
  BY <1>1, <1>2 DEF CallerReference

\* A failed pass reports and forgets.
LEMMA FailWork ==
    ASSUME "unit" \notin Lag, TypeInv, WorkInv, ppc \notin {"idle", "tagNew", "record"}, pu.prov,
           FailProgrammed, UNCHANGED <<hosted, pc, seen>>
    PROVE  WorkInv'
<1> DEFINE w == [pu EXCEPT !.zprog = 0]
<1>1. pu \in Unit
  BY DEF TypeInv, TypeOK
<1>2. w \in Unit /\ w.hz = pu.hz /\ w.ref = pu.ref /\ PatchZoneStatus(w)
  BY <1>1, FailedIs DEF FailProgrammed
<1> HIDE DEF w
<1>3. /\ unit' /= None /\ unit'.uid = pu.uid /\ unit'.prov
      /\ unit'.hz = pu.hz /\ unit'.ref = pu.ref
  BY <1>2, PatchArrives
<1>4. ppc' = "idle"
  BY DEF FailProgrammed, End
<1> QED
  BY <1>3, <1>4 DEF WorkInv, Exists, CleanupCompleted

LEMMA ProviderWork ==
    ASSUME "unit" \notin Lag, Policies = {"Delete"}, TypeInv, WorkInv, Provider
    PROVE  WorkInv'
<1> USE DEF providerFrame, coreVars, awsVars, End, Goto, CleanupCompleted
<1>0. policy = "Delete" /\ WantsFinalizer
  BY DEF TypeInv, TypeOK, WantsFinalizer
<1>a. ppc /= "idle" => pu \in Unit /\ pu.prov \in BOOLEAN
  BY DEF TypeInv, TypeOK, Unit
<1>1. CASE ProviderBegin
  BY <1>1, InformerIs DEF ProviderBegin, WorkInv, Exists
<1>2. CASE ReconcileFinalizer
  <2>1. ~pu.prov /\ unit' = SetFinalizers(pu.fin, TRUE) /\ ppc' = "idle" /\ hosted' = hosted
    BY <1>0, <1>2, <1>a DEF ReconcileFinalizer
  <2>2. pu.fin \in BOOLEAN
    BY <1>2, <1>a DEF ReconcileFinalizer, Unit
  <2>3. \/ unit' = unit
        \/ /\ unit \in Unit /\ unit' /= None /\ unit'.prov /\ unit'.uid = unit.uid
           /\ unit'.hz = unit.hz /\ unit'.ref = unit.ref
    <3>1. CASE unit' = unit
      BY <3>1
    <3>2. CASE unit' /= unit
      <4>1. unit \in Unit /\ unit' = [unit EXCEPT !.fin = pu.fin, !.prov = TRUE]
        BY <2>1, <3>2 DEF SetFinalizers, TypeInv, TypeOK
      <4>2. unit' \in Unit
        BY <2>2, <4>1 DEF Unit
      <4> QED
        BY <4>1, <4>2, NoneIsNot DEF Unit
    <3> QED
      BY <3>1, <3>2
  <2>4. UNCHANGED <<pc, seen>> /\ ppc = "start"
    BY <1>2 DEF ReconcileFinalizer
  <2> QED
    BY <2>1, <2>3, <2>4, NoneIsNot DEF WorkInv, Exists
<1>4. CASE RefreshPending
  <2> DEFINE w == [pu EXCEPT !.pend = ""]
  <2>1. pu \in Unit /\ w \in Unit /\ w.hz = pu.hz /\ w.ref = pu.ref
    BY <1>4, <1>a, SettledIs DEF RefreshPending
  <2>2. /\ ppc = "start" /\ pu.prov /\ UNCHANGED <<hosted, pc, seen>>
        /\ \/ PatchZoneStatus(w) /\ ppc' = "idle"
           \/ FailProgrammed
    BY <1>0, <1>4, <1>a DEF RefreshPending
  <2> HIDE DEF w
  <2>3. ASSUME PatchZoneStatus(w), ppc' = "idle" PROVE WorkInv'
    <3>1. /\ unit' /= None /\ unit'.uid = pu.uid /\ unit'.prov
          /\ unit'.hz = pu.hz /\ unit'.ref = pu.ref
      BY <2>1, <2>2, <2>3, PatchArrives
    <3> QED
      BY <2>2, <2>3, <3>1 DEF WorkInv, Exists
  <2> QED
    BY <2>2, <2>3, FailWork
<1>5. CASE StartSelect
  BY <1>0, <1>5, <1>a DEF StartSelect, WorkInv, Exists
<1>6. CASE SelectHostedZone
  <2>1. ppc = "select" /\ pu.prov /\ UNCHANGED <<hosted, pc, seen>>
    BY <1>6 DEF SelectHostedZone, WorkInv
  <2>2. Selected \in {0, pu.hz}
    BY <2>1, Working, NoneIsNot DEF Selected, WorkInv
  <2> QED
    BY <1>6, <2>1, <2>2, FailWork DEF SelectHostedZone, WorkInv, Exists
<1>7. CASE PersistCallerReference
  <2> DEFINE w == [pu EXCEPT !.ref = CallerReference]
  <2>1. ppc = "create" /\ pu.prov /\ PatchZoneStatus(w) /\ pu' = w /\ ppc' = "call"
        /\ UNCHANGED <<hosted, pc, seen>>
    BY <1>7 DEF PersistCallerReference, WorkInv
  <2>2. pu \in Unit /\ CallerReference = pu.uid /\ CallerReference \in 0..MaxUnits
    BY <2>1, Working, LifecycleBounds
  <2>3. /\ w \in Unit /\ w.uid = pu.uid /\ w.deleting = pu.deleting /\ w.prov = pu.prov
        /\ w.hz = pu.hz /\ w.ref = pu.uid
    BY <2>2, ReferencedIs
  <2> HIDE DEF w
  <2>4. /\ unit' /= None /\ unit'.uid = pu.uid /\ unit'.prov /\ (pu.deleting => unit'.deleting)
        /\ unit'.hz = pu.hz /\ unit'.ref = pu.uid
    BY <2>1, <2>3, PatchArrives
  <2> QED
    BY <2>1, <2>3, <2>4 DEF WorkInv, Exists
<1>8. CASE CallCreateHostedZone
  <2>1. ppc = "call" /\ pu.prov /\ UNCHANGED <<pc, seen>>
    BY <1>8 DEF CallCreateHostedZone, WorkInv
  <2>2. CallerReference = pu.uid /\ pu.uid \in 1..MaxUnits
    BY <2>1, Working
  <2>3. CASE FailProgrammed /\ UNCHANGED awsVars
    BY <2>1, <2>3, FailWork
  <2>4. CASE /\ hosted' = [hosted EXCEPT ![CallerReference] = "empty"]
             /\ ppc' = "tagNew" /\ pid' = CallerReference /\ UNCHANGED <<pu, unit>>
    <3>1. \A h \in 1..MaxUnits : Exists(h)' => Exists(h) \/ h = pu.uid
      BY <2>2, <2>4 DEF Exists, TypeInv, TypeOK
    <3>2. \A h \in 1..MaxUnits : Exists(h)' => unit.uid = h
      BY <2>1, <2>2, <3>1 DEF WorkInv
    <3> QED
      BY <2>1, <2>2, <2>4, <3>2 DEF WorkInv
  <2> QED
    BY <1>8, <2>3, <2>4 DEF CallCreateHostedZone
<1>9. CASE TagNewHostedZone
  BY <1>9 DEF TagNewHostedZone, WorkInv, Exists
<1>10. CASE RecordHostedZone
  <2> DEFINE p == IF insync THEN pu.pend ELSE "CREATE"
             w == [pu EXCEPT !.hz = pid, !.pend = p]
  <2>1. ppc = "record" /\ pu.prov /\ PatchZoneStatus(w) /\ pu' = w /\ ppc' = "refresh"
        /\ UNCHANGED <<hosted, pid, pc, seen>>
    BY <1>10 DEF RecordHostedZone, WorkInv
  <2>2. pid \in 0..MaxUnits /\ p \in {"", "CREATE", "DELETE"} /\ pu \in Unit
    BY <2>1, <1>a DEF TypeInv, TypeOK, Unit
  <2> HIDE DEF p
  <2>3. /\ w \in Unit /\ w.uid = pu.uid /\ w.deleting = pu.deleting /\ w.prov = pu.prov
        /\ w.hz = pid /\ w.ref = pu.ref
    BY <2>2 DEF w, Unit
  <2> HIDE DEF w
  <2>4. /\ unit' /= None /\ unit'.uid = pu.uid /\ unit'.prov /\ (pu.deleting => unit'.deleting)
        /\ unit'.hz = pid /\ unit'.ref = pu.ref
    BY <2>1, <2>3, PatchArrives
  <2> QED
    BY <2>1, <2>3, <2>4 DEF WorkInv, Exists
<1>11. CASE TagFoundHostedZone
  <2> DEFINE r == IF pid = CallerReference THEN pid ELSE pu.ref
             w == [pu EXCEPT !.hz = pid, !.ref = r]
  <2>1. ppc = "tagFound" /\ pu.prov /\ PatchZoneStatus(w) /\ pu' = w /\ ppc' = "refresh"
        /\ UNCHANGED <<hosted, pid, pc, seen>>
    BY <1>11 DEF TagFoundHostedZone, WorkInv
  <2>2. pid \in 0..MaxUnits /\ r \in 0..MaxUnits /\ pu \in Unit
    BY <2>1, <1>a DEF TypeInv, TypeOK, Unit
  <2>5. r \in {0, pu.uid}
    BY <2>1, Working
  <2> HIDE DEF r
  <2>3. /\ w \in Unit /\ w.uid = pu.uid /\ w.deleting = pu.deleting /\ w.prov = pu.prov
        /\ w.hz = pid /\ w.ref = r
    BY <2>2 DEF w, Unit
  <2> HIDE DEF w
  <2>4. /\ unit' /= None /\ unit'.uid = pu.uid /\ unit'.prov /\ (pu.deleting => unit'.deleting)
        /\ unit'.hz = pid /\ unit'.ref = r
    BY <2>1, <2>3, PatchArrives
  <2>6. pid = pu.hz
    BY <2>1 DEF WorkInv
  <2> QED
    BY <2>1, <2>3, <2>4, <2>5, <2>6 DEF WorkInv, Exists
<1>12. CASE RefreshHostedZone
  <2> DEFINE w == [pu EXCEPT !.zprog = pu.gen, !.pend = ""]
  <2>1. ppc = "refresh" /\ pu.prov /\ UNCHANGED <<hosted, pc, seen>>
    BY <1>12 DEF RefreshHostedZone, WorkInv
  <2>2. pu \in Unit /\ pu.gen \in 1..2
    BY <2>1, <1>a DEF Unit
  <2>6. pu.gen \in 0..2
    BY <2>2
  <2>3. /\ w \in Unit /\ w.uid = pu.uid /\ w.deleting = pu.deleting /\ w.prov = pu.prov
        /\ w.hz = pu.hz /\ w.ref = pu.ref
    BY <2>2, <2>6, RefreshedIs
  <2>4. \/ FailProgrammed
        \/ PatchZoneStatus(w) /\ (ppc' = "idle" \/ (ppc' = "records" /\ pu' = w))
    BY <1>12 DEF RefreshHostedZone
  <2> HIDE DEF w
  <2>5. ASSUME PatchZoneStatus(w), ppc' = "idle" \/ (ppc' = "records" /\ pu' = w) PROVE WorkInv'
    <3>1. /\ unit' /= None /\ unit'.uid = pu.uid /\ unit'.prov /\ (pu.deleting => unit'.deleting)
          /\ unit'.hz = pu.hz /\ unit'.ref = pu.ref
      BY <2>1, <2>3, <2>5, PatchArrives
    <3> QED
      BY <2>1, <2>3, <2>5, <3>1 DEF WorkInv, Exists
  <2> QED
    BY <2>1, <2>4, <2>5, FailWork
<1>13. CASE ReconcileRecords
  <2>1. ppc = "records" /\ ppc' = "idle" /\ pu.prov /\ UNCHANGED <<pc, seen>>
    BY <1>13 DEF ReconcileRecords, WorkInv
  <2>2. unit \in Unit
    BY <2>1, Working
  <2>3. /\ unit' /= None /\ unit'.uid = unit.uid /\ unit'.prov = unit.prov
        /\ unit'.hz = unit.hz /\ unit'.ref = unit.ref
    <3>1. CASE unit' = unit
      BY <2>2, <3>1, NoneIsNot
    <3>2. CASE unit' /= unit
      <4>1. unit' = [unit EXCEPT !.done = unit.done \/ unit.item = "del"]
        BY <1>13, <3>2 DEF ReconcileRecords
      <4>2. unit' \in Unit
        BY <2>2, <4>1 DEF Unit
      <4> QED
        BY <2>2, <4>1, <4>2, NoneIsNot DEF Unit
    <3> QED
      BY <3>1, <3>2
  <2>4. \A h \in 1..MaxUnits : Exists(h)' => Exists(h)
    BY <1>13 DEF ReconcileRecords, Exists, TypeInv, TypeOK
  <2> QED
    BY <2>1, <2>2, <2>3, <2>4 DEF WorkInv
<1>14. CASE DeleteNothing
  BY <1>14 DEF DeleteNothing, WorkInv, Exists
<1>15. CASE RetainHostedZone
  BY <1>0, <1>15 DEF RetainHostedZone
<1>16. CASE RefreshDeleting
  <2> DEFINE w == [pu EXCEPT !.pend = ""]
  <2>1. ppc = "start" /\ pu.prov /\ UNCHANGED <<hosted, pc, seen>>
    BY <1>16 DEF RefreshDeleting
  <2>2. /\ w \in Unit /\ w.uid = pu.uid /\ w.deleting = pu.deleting /\ w.prov = pu.prov
        /\ w.hz = pu.hz /\ w.ref = pu.ref
    BY <2>1, <1>a, SettledIs
  <2>3. \/ ppc' = "delete" /\ UNCHANGED <<pu, pid, unit>>
        \/ FailProgrammed
        \/ PatchZoneStatus(w) /\ pu' = w /\ ppc' = "delete"
    BY <1>16 DEF RefreshDeleting
  <2> HIDE DEF w
  <2>4. ASSUME PatchZoneStatus(w), pu' = w, ppc' = "delete" PROVE WorkInv'
    <3>1. /\ unit' /= None /\ unit'.uid = pu.uid /\ unit'.prov /\ (pu.deleting => unit'.deleting)
          /\ unit'.hz = pu.hz /\ unit'.ref = pu.ref
      BY <2>1, <2>2, <2>4, PatchArrives
    <3> QED
      BY <2>1, <2>2, <2>4, <3>1 DEF WorkInv, Exists
  <2>5. CASE ppc' = "delete" /\ UNCHANGED <<pu, pid, unit>>
    BY <2>1, <2>5 DEF WorkInv, Exists
  <2> QED
    BY <2>1, <2>3, <2>4, <2>5, FailWork
<1>17. ASSUME ppc \in {"delete", "deleted"}, ~Exists(pu.hz), DropProviderFinalizer, ppc' = "idle",
              UNCHANGED <<hosted, pc, seen>>
       PROVE  WorkInv'
  <2>1. pu.prov /\ pu \in Unit /\ pu.fin \in BOOLEAN
    BY <1>17, <1>a DEF WorkInv, Unit
  <2>2. unit \in Unit /\ unit.hz = pu.hz
    BY <1>17, <2>1, Working DEF WorkInv
  <2>3. \A h \in 1..MaxUnits : ~Exists(h)
    BY <1>17, <2>2 DEF WorkInv
  <2>4. unit' /= None => unit'.uid = unit.uid /\ unit'.ref = unit.ref
    BY <1>17, <2>1, <2>2, NoneIsNot DEF DropProviderFinalizer, SetFinalizers, Unit
  <2> QED
    BY <1>17, <2>2, <2>3, <2>4, NoneIsNot DEF WorkInv, Exists
<1>18. CASE DeleteConfirmed
  BY <1>17, <1>18 DEF DeleteConfirmed
<1>19. CASE DeleteRefused
  <2>1. ppc = "delete" /\ pu.prov /\ FailProgrammed /\ UNCHANGED <<hosted, pc, seen>>
    BY <1>19 DEF DeleteRefused, WorkInv
  <2> QED
    BY <2>1, FailWork
<1>20. CASE DeleteHostedZone
  <2>1. pu.hz \in 0..MaxUnits /\ pu.hz /= 0
    BY <1>20, <1>a DEF DeleteHostedZone, Unit, Exists
  <2>4. pu.hz \in 1..MaxUnits
    BY <2>1, LifecycleBounds
  <2>2. hosted' = [hosted EXCEPT ![pu.hz] = "gone"]
    BY <1>20 DEF DeleteHostedZone
  <2>3. /\ \A h \in 1..MaxUnits : Exists(h)' => Exists(h)
        /\ ~(hosted'[pu.hz] \in {"empty", "used"})
    BY <2>2, <2>4 DEF Exists, TypeInv, TypeOK
  <2> QED
    BY <1>20, <2>3 DEF DeleteHostedZone, WorkInv, Exists
<1>21. CASE DeleteSubmitted
  <2> DEFINE w == [pu EXCEPT !.pend = "DELETE", !.zprog = 0]
  <2>1. ppc = "deleted" /\ pu.prov /\ ~Exists(pu.hz) /\ UNCHANGED <<hosted, pc, seen>> /\ ppc' = "idle"
    BY <1>21 DEF DeleteSubmitted, WorkInv
  <2>2. w \in Unit /\ w.hz = pu.hz /\ w.ref = pu.ref
    BY <2>1, <1>a, SubmittedIs
  <2>3. DropProviderFinalizer \/ PatchZoneStatus(w)
    BY <1>21 DEF DeleteSubmitted
  <2> HIDE DEF w
  <2>4. ASSUME PatchZoneStatus(w) PROVE WorkInv'
    <3>1. /\ unit' /= None /\ unit'.uid = pu.uid /\ unit'.prov
          /\ unit'.hz = pu.hz /\ unit'.ref = pu.ref
      BY <2>1, <2>2, <2>4, PatchArrives
    <3> QED
      BY <2>1, <3>1 DEF WorkInv, Exists
  <2> QED
    BY <1>17, <2>1, <2>3, <2>4
<1> QED
  BY <1>1, <1>2, <1>4, <1>5, <1>6, <1>7, <1>8, <1>9, <1>10, <1>11, <1>12, <1>13, <1>14,
     <1>15, <1>16, <1>18, <1>19, <1>20, <1>21 DEF Provider

LEMMA NextWork ==
    ASSUME "unit" \notin Lag, MaxProviderFaults = 0, Policies = {"Delete"},
           TypeInv, ReadingInv, WorkInv, [Next]_vars
    PROVE  WorkInv'
<1>1. CASE User \/ Environment \/ Core \/ CoreFault \/ UNCHANGED vars
  <2>1. /\ OutsideStep /\ UNCHANGED <<ppc, pu, pid, hosted>>
        /\ (pc = "release" => CleanupCompleted)'
    BY <1>1, OutsideSteps DEF WorkInv
  <2>2. \A u \in Unit : u /= None
    BY NoneIsNot
  <2> QED
    BY <2>1, <2>2 DEF OutsideStep, WorkInv, Exists
<1>2. ~(ProviderCrash \/ ProviderError)
  <2>1. faults.provider \in 0..0
    BY DEF TypeInv, TypeOK
  <2> QED
    BY <2>1 DEF ProviderCrash, ProviderError, ProviderFails
<1> QED
  BY <1>1, <1>2, ProviderWork DEF Next

\* While the policy is Delete and the controller does not fail, every hosted zone
\* belongs to the unit that is there, for any number of Zones, units and failures
\* of core, deletions by hand included (createHostedZone, reconcileDelete).
THEOREM NoneLeaked ==
    "unit" \notin Lag /\ MaxProviderFaults = 0 => (Spec => []NoLeakedHostedZone)
<1> SUFFICES ASSUME "unit" \notin Lag, MaxProviderFaults = 0 PROVE Spec => []NoLeakedHostedZone
  OBVIOUS
<1>1. CASE Policies = {"Delete"}
  <2>1. Init => ReadingInv /\ WorkInv
    BY DEF Init, ReadingInv, WorkInv, Exists
  <2>2. TypeInv /\ ReadingInv /\ WorkInv /\ [Next]_vars => ReadingInv' /\ WorkInv'
    BY <1>1, NextReading, NextWork
  <2>3. WorkInv => NoLeakedHostedZone
    BY DEF WorkInv, NoLeakedHostedZone
  <2> QED
    BY <2>1, <2>2, <2>3, TypesHold, PTL DEF Spec
<1>2. CASE Policies /= {"Delete"}
  <2>1. NoLeakedHostedZone
    BY <1>2 DEF NoLeakedHostedZone
  <2> QED
    BY <2>1, PTL
<1> QED
  BY <1>1, <1>2

-----------------------------------------------------------------------------
(* A Zone that is reported as Programmed has a hosted zone.                *)

SomeHosted == \E h \in 1..MaxUnits : Exists(h)

\* While the controller works on a unit that holds its finalizer, whatever the
\* policy, the unit there holds it too.
HoldInv ==
    /\ pc = "release" => CleanupCompleted
    /\ ppc \in {"delete", "deleted"} => pu.prov
    /\ ppc \notin {"idle", "start", "delete", "deleted"} => ~pu.deleting
    /\ ppc /= "idle" /\ pu.prov =>
          unit /= None /\ unit.prov /\ (pu.deleting => unit.deleting)

\* The Zone z is kept by core's finalizer, and is deleting if that is known.
Kept(z, deleting) == z /= None /\ z.fin /\ (deleting => z.deleting)

\* As long as there is a unit, or core has read one, core's finalizer keeps the
\* Zone, and a unit is deleting only when its Zone is; but for the last step of
\* a deletion, when no Zone of the name can be programmed yet.
KeepInv ==
    /\ zone /= None /\ zone.deleting => zone.fin
    /\ seen.zone /= None /\ seen.zone.deleting => seen.zone.fin
    /\ pc = "begin" /\ seen.zone /= None /\ seen.zone.fin => Kept(zone, seen.zone.deleting)
    /\ pc \notin {"idle", "begin", "release"} => Kept(zone, seen.zone.deleting)
    /\ pc = "begin" /\ seen.unit /= None => seen.zone /= None /\ seen.zone.fin
    /\ pc \notin {"idle", "release"} /\ seen.unit /= None => Kept(zone, seen.unit.deleting)
    /\ pc /= "release" /\ unit /= None => Kept(zone, unit.deleting)
    /\ unit /= None /\ unit.deleting => unit.fin \/ unit.prov
    /\ seen.unit /= None /\ seen.unit.deleting => seen.unit.fin \/ seen.unit.prov
    /\ pc = "release" /\ zone /= None => ~zone.prog

\* The status of u names a hosted zone or reports Programmed.
Shows(u) == u.hz /= 0 \/ u.zprog /= 0

\* What the controller is about to report.
Late == {"tagNew", "tagFound", "record", "refresh", "records"}
WorkShown == ppc /= "idle" /\ ~pu.deleting /\ (Shows(pu) \/ ppc \in Late) => SomeHosted

\* Whoever shows a hosted zone, there is one.
ShownInv ==
    /\ WorkShown
    /\ unit /= None /\ ~unit.deleting /\ Shows(unit) => SomeHosted
    /\ zone /= None /\ ~zone.deleting /\ zone.prog => SomeHosted
    /\ pc \notin {"idle", "release"} /\ seen.unit /= None /\ seen.unit.zprog /= 0 /\ ~zone.deleting
          => SomeHosted

\* What a step of the controller does to the unit ...
UnitTouched ==
    \/ unit' = unit
    \/ unit' = None
    \/ /\ unit \in Unit /\ unit' \in Unit /\ unit'.deleting = unit.deleting
       /\ unit.deleting /\ (unit.fin \/ unit.prov) => unit'.fin \/ unit'.prov
       /\ Shows(unit)' => Shows(unit) \/ SomeHosted'

\* ... and to its work.
WorkMoved ==
    \/ ppc' = "idle"
    \/ ppc = "idle" /\ ppc' = "start" /\ unit /= None /\ pu' = unit /\ unit' = unit
    \/ /\ ppc /= "idle" /\ pu' \in Unit /\ pu'.prov = pu.prov /\ pu'.deleting = pu.deleting
       /\ \/ unit' = unit
          \/ unit /= None /\ unit' /= None /\ unit'.prov = unit.prov /\ unit'.deleting = unit.deleting
       /\ ppc' \in {"delete", "deleted"} => pu.prov
       /\ ppc' \notin {"start", "delete", "deleted"} => ~pu.deleting
       /\ ~pu.deleting /\ (Shows(pu)' \/ ppc' \in Late) => SomeHosted'

ProviderMove ==
    /\ UNCHANGED <<zone, claim, pc, seen>>
    /\ UnitTouched
    /\ WorkMoved
    /\ \/ SomeHosted => SomeHosted'
       \/ ppc = "delete" /\ UNCHANGED <<unit, pu>> /\ ppc' = "deleted"

LEMMA PatchTouches ==
    ASSUME TypeInv, WorkShown, ppc /= "idle", NEW after \in Unit, PatchZoneStatus(after),
           SomeHosted => SomeHosted',
           pu.deleting => after.hz = pu.hz /\ after.zprog \in {pu.zprog, 0},
           ~pu.deleting /\ Shows(after) => SomeHosted
    PROVE  /\ UnitTouched
           /\ \/ unit' = unit
              \/ unit /= None /\ unit' /= None /\ unit'.prov = unit.prov /\ unit'.deleting = unit.deleting
<1>1. pu \in Unit
  BY DEF TypeInv, TypeOK
<1>2. CASE None \in {unit, Informer.unit}
  BY <1>2 DEF PatchZoneStatus, UnitTouched
<1>3. CASE None \notin {unit, Informer.unit}
  <2>1. /\ unit \in Unit /\ unit' \in Unit
        /\ unit'.uid = unit.uid /\ unit'.deleting = unit.deleting
        /\ unit'.fin = unit.fin /\ unit'.prov = unit.prov
        /\ unit'.hz = IF after.hz = pu.hz THEN unit.hz ELSE after.hz
        /\ unit'.zprog = IF after.zprog = pu.zprog THEN unit.zprog ELSE after.zprog
    BY <1>1, <1>3, PatchIs DEF TypeInv
  <2>2. Shows(unit)' => Shows(unit) \/ SomeHosted'
    <3>1. CASE pu.deleting
      BY <2>1, <3>1 DEF Shows
    <3>2. CASE ~pu.deleting
      BY <2>1, <3>2 DEF Shows
    <3> QED
      BY <3>1, <3>2
  <2> QED
    BY <2>1, <2>2, NoneIsNot DEF UnitTouched
<1> QED
  BY <1>2, <1>3

LEMMA FailTouches ==
    ASSUME TypeInv, WorkShown, ppc /= "idle", FailProgrammed, UNCHANGED hosted
    PROVE  UnitTouched
<1> DEFINE w == [pu EXCEPT !.zprog = 0]
<1>1. pu \in Unit
  BY DEF TypeInv, TypeOK
<1>2. w \in Unit /\ w.hz = pu.hz /\ w.zprog = 0 /\ PatchZoneStatus(w)
  BY <1>1, FailedIs DEF FailProgrammed
<1> HIDE DEF w
<1>3. ~pu.deleting /\ Shows(w) => SomeHosted
  BY <1>2 DEF WorkShown, Shows
<1>4. SomeHosted => SomeHosted'
  BY DEF SomeHosted, Exists
<1> QED
  BY <1>2, <1>3, <1>4, PatchTouches

LEMMA FinalizersTouch ==
    ASSUME TypeInv, NEW fin \in BOOLEAN, NEW prov \in BOOLEAN, unit' = SetFinalizers(fin, prov)
    PROVE  UnitTouched
<1>1. CASE unit' = unit \/ unit' = None
  BY <1>1 DEF UnitTouched
<1>2. CASE unit' /= unit /\ unit' /= None
  <2>1. unit \in Unit /\ unit' = [unit EXCEPT !.fin = fin, !.prov = prov]
        /\ ~(unit.deleting /\ ~fin /\ ~prov)
    BY <1>2 DEF SetFinalizers, TypeInv, TypeOK
  <2>2. unit' \in Unit
    BY <2>1 DEF Unit
  <2> QED
    BY <2>1, <2>2 DEF Unit, UnitTouched, Shows
<1> QED
  BY <1>1, <1>2

LEMMA ProviderMoves ==
    ASSUME "unit" \notin Lag, TypeInv, HoldInv, WorkShown, Provider \/ ProviderCrash \/ ProviderError
    PROVE  ProviderMove
<1> USE DEF providerFrame, coreVars, awsVars, End, Goto
<1>0. ppc /= "idle" => pu \in Unit /\ pu.fin \in BOOLEAN /\ pu.prov \in BOOLEAN
  BY DEF TypeInv, TypeOK, Unit
<1>u. UNCHANGED hosted => (SomeHosted => SomeHosted')
  BY DEF SomeHosted, Exists
<1>f. ASSUME ppc /= "idle", FailProgrammed, UNCHANGED <<zone, claim, pc, seen, hosted>>
      PROVE  ProviderMove
  BY <1>f, <1>u, FailTouches DEF FailProgrammed, ProviderMove, WorkMoved
<1>d. ASSUME ppc /= "idle", DropProviderFinalizer, ppc' = "idle",
             UNCHANGED <<zone, claim, pc, seen, hosted>>
      PROVE  ProviderMove
  BY <1>0, <1>d, <1>u, FinalizersTouch DEF DropProviderFinalizer, ProviderMove, WorkMoved
<1>p. ASSUME ppc /= "idle", NEW w \in Unit, PatchZoneStatus(w),
             w.prov = pu.prov, w.deleting = pu.deleting,
             pu.deleting => w.hz = pu.hz /\ w.zprog \in {pu.zprog, 0},
             ~pu.deleting /\ Shows(w) => SomeHosted,
             \/ ppc' = "idle"
             \/ /\ pu' = w
                /\ ppc' \in {"delete", "deleted"} => pu.prov
                /\ ppc' \notin {"start", "delete", "deleted"} => ~pu.deleting
                /\ ~pu.deleting /\ ppc' \in Late => SomeHosted,
             UNCHANGED <<zone, claim, pc, seen, hosted>>
      PROVE  ProviderMove
  <2>1. SomeHosted <=> SomeHosted'
    BY <1>p DEF SomeHosted, Exists
  <2>2. /\ UnitTouched
        /\ \/ unit' = unit
           \/ unit /= None /\ unit' /= None /\ unit'.prov = unit.prov /\ unit'.deleting = unit.deleting
    BY <1>p, <2>1, PatchTouches
  <2>3. WorkMoved
    BY <1>p, <2>1, <2>2 DEF WorkMoved, Shows
  <2> QED
    BY <1>p, <2>1, <2>2, <2>3 DEF ProviderMove
<1>s. ASSUME ppc /= "idle", UNCHANGED <<unit, pu, zone, claim, pc, seen, hosted>>,
             \/ ppc' = "idle"
             \/ /\ ppc' \in {"delete", "deleted"} => pu.prov
                /\ ppc' \notin {"start", "delete", "deleted"} => ~pu.deleting
                /\ ~pu.deleting /\ ppc' \in Late => SomeHosted
      PROVE  ProviderMove
  <2>1. SomeHosted <=> SomeHosted'
    BY <1>s DEF SomeHosted, Exists
  <2>2. WorkMoved
    BY <1>0, <1>s, <2>1 DEF WorkMoved, WorkShown, Shows
  <2> QED
    BY <1>s, <2>1, <2>2 DEF ProviderMove, UnitTouched
<1>1. CASE ProviderBegin
  BY <1>1, <1>u, InformerIs DEF ProviderBegin, ProviderMove, UnitTouched, WorkMoved
<1>2. CASE ReconcileFinalizer
  <2>1. ppc /= "idle" /\ ppc' = "idle" /\ UNCHANGED <<zone, claim, pc, seen, hosted>>
    BY <1>2 DEF ReconcileFinalizer
  <2>2. UnitTouched
    BY <1>0, <1>2, <2>1, FinalizersTouch DEF ReconcileFinalizer, DropProviderFinalizer
  <2> QED
    BY <2>1, <2>2, <1>u DEF ProviderMove, WorkMoved
<1>4. CASE RefreshPending
  <2> DEFINE w == [pu EXCEPT !.pend = ""]
  <2>1. /\ ppc = "start" /\ ~pu.deleting /\ UNCHANGED <<zone, claim, pc, seen, hosted>>
        /\ \/ PatchZoneStatus(w) /\ ppc' = "idle"
           \/ FailProgrammed
    BY <1>4 DEF RefreshPending
  <2>2. /\ w \in Unit /\ w.prov = pu.prov /\ w.deleting = pu.deleting
        /\ w.hz = pu.hz /\ w.zprog = pu.zprog
    BY <1>0, <2>1, SettledIs
  <2>3. ~pu.deleting /\ Shows(w) => SomeHosted
    BY <2>1, <2>2 DEF WorkShown, Shows
  <2> HIDE DEF w
  <2> QED
    BY <1>f, <1>p, <2>1, <2>2, <2>3
<1>5. CASE StartSelect
  BY <1>5, <1>s DEF StartSelect, Late
<1>6. CASE SelectHostedZone
  <2>1. ppc = "select" /\ UNCHANGED <<zone, claim, pc, seen, hosted>> /\ ~pu.deleting
    BY <1>6 DEF SelectHostedZone, HoldInv
  <2>2. Selected /= 0 => SomeHosted
    <3>1. pu \in Unit /\ CallerReference \in 1..MaxUnits
      BY <1>0, <2>1, ReferenceIs
    <3>2. CASE pu.hz /= 0
      BY <2>1, <3>2 DEF WorkShown, Shows
    <3>3. CASE pu.hz = 0
      BY <3>1, <3>3 DEF Selected, SomeHosted
    <3> QED
      BY <3>2, <3>3
  <2>3. CASE FailProgrammed
    BY <1>f, <2>1, <2>3
  <2>4. CASE /\ UNCHANGED <<pu, unit>>
             /\ ppc' = "create" \/ (ppc' = "tagFound" /\ Selected /= 0)
    BY <1>s, <2>1, <2>2, <2>4 DEF Late
  <2> QED
    BY <1>6, <2>3, <2>4 DEF SelectHostedZone
<1>7. CASE PersistCallerReference
  <2> DEFINE w == [pu EXCEPT !.ref = CallerReference]
  <2>1. ppc = "create" /\ ~pu.deleting /\ PatchZoneStatus(w) /\ pu' = w /\ ppc' = "call"
        /\ UNCHANGED <<zone, claim, pc, seen, hosted>>
    BY <1>7 DEF PersistCallerReference, HoldInv
  <2>2. pu \in Unit /\ CallerReference \in 0..MaxUnits
    BY <1>0, <2>1, ReferenceIs, LifecycleBounds
  <2>3. /\ w \in Unit /\ w.deleting = pu.deleting /\ w.prov = pu.prov
        /\ w.hz = pu.hz /\ w.zprog = pu.zprog
    BY <2>2, ReferencedIs
  <2>4. ~pu.deleting /\ Shows(w) => SomeHosted
    BY <2>1, <2>3 DEF WorkShown, Shows
  <2> HIDE DEF w
  <2> QED
    BY <1>p, <2>1, <2>3, <2>4 DEF Late
<1>8. CASE CallCreateHostedZone
  <2>1. ppc = "call" /\ ~pu.deleting /\ UNCHANGED <<zone, claim, pc, seen>>
    BY <1>8 DEF CallCreateHostedZone, HoldInv
  <2>2. CASE FailProgrammed /\ UNCHANGED awsVars
    BY <1>f, <2>1, <2>2
  <2>3. CASE /\ hosted' = [hosted EXCEPT ![CallerReference] = "empty"]
             /\ ppc' = "tagNew" /\ UNCHANGED <<pu, unit>>
    <3>1. pu \in Unit /\ CallerReference \in 1..MaxUnits
      BY <1>0, <2>1, ReferenceIs
    <3>2. hosted'[CallerReference] = "empty" /\ CallerReference /= 0
      BY <2>3, <3>1 DEF TypeInv, TypeOK
    <3>4. \E h \in 1..MaxUnits : h /= 0 /\ hosted'[h] = "empty"
      BY <3>1, <3>2
    <3>3. SomeHosted'
      BY <3>4 DEF SomeHosted, Exists
    <3> QED
      BY <2>1, <2>3, <3>1, <3>3 DEF ProviderMove, UnitTouched, WorkMoved
  <2> QED
    BY <1>8, <2>2, <2>3 DEF CallCreateHostedZone
<1>9. CASE TagNewHostedZone
  <2>1. ppc = "tagNew" /\ ~pu.deleting
    BY <1>9 DEF TagNewHostedZone, HoldInv
  <2>2. SomeHosted
    BY <2>1 DEF WorkShown, Late
  <2> QED
    BY <1>9, <1>s, <2>1, <2>2 DEF TagNewHostedZone
<1>10. CASE RecordHostedZone
  <2> DEFINE p == IF insync THEN pu.pend ELSE "CREATE"
             w == [pu EXCEPT !.hz = pid, !.pend = p]
  <2>1. ppc = "record" /\ PatchZoneStatus(w) /\ pu' = w /\ ppc' = "refresh"
        /\ UNCHANGED <<zone, claim, pc, seen, hosted>>
    BY <1>10 DEF RecordHostedZone
  <2>2. pid \in 0..MaxUnits /\ p \in {"", "CREATE", "DELETE"} /\ pu \in Unit
    BY <2>1, <1>0 DEF TypeInv, TypeOK, Unit
  <2> HIDE DEF p
  <2>3. w \in Unit /\ w.deleting = pu.deleting /\ w.prov = pu.prov
    BY <2>2 DEF w, Unit
  <2> HIDE DEF w
  <2>4. ~pu.deleting /\ SomeHosted
    BY <2>1 DEF HoldInv, WorkShown, Late
  <2> QED
    BY <1>p, <2>1, <2>3, <2>4
<1>11. CASE TagFoundHostedZone
  <2> DEFINE r == IF pid = CallerReference THEN pid ELSE pu.ref
             w == [pu EXCEPT !.hz = pid, !.ref = r]
  <2>1. ppc = "tagFound" /\ PatchZoneStatus(w) /\ pu' = w /\ ppc' = "refresh"
        /\ UNCHANGED <<zone, claim, pc, seen, hosted>>
    BY <1>11 DEF TagFoundHostedZone
  <2>2. pid \in 0..MaxUnits /\ r \in 0..MaxUnits /\ pu \in Unit
    BY <2>1, <1>0 DEF TypeInv, TypeOK, Unit
  <2> HIDE DEF r
  <2>3. w \in Unit /\ w.deleting = pu.deleting /\ w.prov = pu.prov
    BY <2>2 DEF w, Unit
  <2> HIDE DEF w
  <2>4. ~pu.deleting /\ SomeHosted
    BY <2>1 DEF HoldInv, WorkShown, Late
  <2> QED
    BY <1>p, <2>1, <2>3, <2>4
<1>12. CASE RefreshHostedZone
  <2> DEFINE w == [pu EXCEPT !.zprog = pu.gen, !.pend = ""]
  <2>1. ppc = "refresh" /\ UNCHANGED <<zone, claim, pc, seen, hosted>>
    BY <1>12 DEF RefreshHostedZone
  <2>2. pu \in Unit /\ pu.gen \in 1..2
    BY <2>1, <1>0 DEF Unit
  <2>3. pu.gen \in 0..2
    BY <2>2
  <2>4. w \in Unit /\ w.deleting = pu.deleting /\ w.prov = pu.prov
    BY <2>2, <2>3, RefreshedIs
  <2>5. \/ FailProgrammed
        \/ PatchZoneStatus(w) /\ (ppc' = "idle" \/ (ppc' = "records" /\ pu' = w))
    BY <1>12 DEF RefreshHostedZone
  <2> HIDE DEF w
  <2>6. ~pu.deleting /\ SomeHosted
    BY <2>1 DEF HoldInv, WorkShown, Late
  <2> QED
    BY <1>f, <1>p, <2>1, <2>4, <2>5, <2>6
<1>13. CASE ReconcileRecords
  <2>1. ppc = "records" /\ ppc' = "idle" /\ UNCHANGED <<zone, claim, pc, seen>>
    BY <1>13 DEF ReconcileRecords
  <2>2. UnitTouched
    <3>1. CASE unit' = unit
      BY <3>1 DEF UnitTouched
    <3>2. CASE unit' /= unit
      <4>1. unit \in Unit /\ unit' = [unit EXCEPT !.done = unit.done \/ unit.item = "del"]
        BY <1>13, <3>2 DEF ReconcileRecords, TypeInv, TypeOK
      <4>2. unit' \in Unit
        BY <4>1 DEF Unit
      <4> QED
        BY <4>1, <4>2 DEF Unit, UnitTouched, Shows
    <3> QED
      BY <3>1, <3>2
  <2>3. \A h \in 1..MaxUnits : Exists(h) => Exists(h)'
    BY <1>13 DEF ReconcileRecords, Exists, TypeInv, TypeOK
  <2>4. SomeHosted => SomeHosted'
    BY <2>3 DEF SomeHosted
  <2> QED
    BY <2>1, <2>2, <2>4 DEF ProviderMove, WorkMoved
<1>14. CASE DeleteNothing
  BY <1>14, <1>u DEF DeleteNothing, ProviderMove, UnitTouched, WorkMoved
<1>15. CASE RetainHostedZone
  BY <1>15, <1>d DEF RetainHostedZone
<1>16. CASE RefreshDeleting
  <2> DEFINE w == [pu EXCEPT !.pend = ""]
  <2>1. ppc = "start" /\ pu.deleting /\ pu.prov /\ UNCHANGED <<zone, claim, pc, seen, hosted>>
    BY <1>16 DEF RefreshDeleting
  <2>2. /\ w \in Unit /\ w.prov = pu.prov /\ w.deleting = pu.deleting
        /\ w.hz = pu.hz /\ w.zprog = pu.zprog
    BY <1>0, <2>1, SettledIs
  <2>3. \/ ppc' = "delete" /\ UNCHANGED <<pu, unit>>
        \/ FailProgrammed
        \/ PatchZoneStatus(w) /\ pu' = w /\ ppc' = "delete"
    BY <1>16 DEF RefreshDeleting
  <2> HIDE DEF w
  <2> QED
    BY <1>f, <1>p, <1>s, <2>1, <2>2, <2>3
<1>18. CASE DeleteConfirmed
  BY <1>18, <1>d DEF DeleteConfirmed
<1>19. CASE DeleteRefused
  BY <1>19, <1>f DEF DeleteRefused
<1>20. CASE DeleteHostedZone
  <2>1. ppc = "delete" /\ pu.prov /\ pu.deleting
    BY <1>20 DEF DeleteHostedZone, HoldInv, TypeInv
  <2> QED
    BY <1>0, <1>20, <2>1 DEF DeleteHostedZone, ProviderMove, UnitTouched, WorkMoved
<1>21. CASE DeleteSubmitted
  <2> DEFINE w == [pu EXCEPT !.pend = "DELETE", !.zprog = 0]
  <2>1. ppc = "deleted" /\ ppc' = "idle" /\ pu.deleting /\ UNCHANGED <<zone, claim, pc, seen, hosted>>
    BY <1>21 DEF DeleteSubmitted, TypeInv
  <2>2. /\ w \in Unit /\ w.prov = pu.prov /\ w.deleting = pu.deleting
        /\ w.hz = pu.hz /\ w.zprog = 0
    BY <1>0, <2>1, SubmittedIs
  <2>3. DropProviderFinalizer \/ PatchZoneStatus(w)
    BY <1>21 DEF DeleteSubmitted
  <2> HIDE DEF w
  <2> QED
    BY <1>d, <1>p, <2>1, <2>2, <2>3
<1>22. CASE ProviderCrash
  BY <1>22, <1>u DEF ProviderCrash, ProviderFails, ProviderMove, UnitTouched, WorkMoved
<1>23. CASE ProviderError
  BY <1>23, <1>f DEF ProviderError, ProviderFails
<1> QED
  BY <1>1, <1>2, <1>4, <1>5, <1>6, <1>7, <1>8, <1>9, <1>10, <1>11, <1>12, <1>13, <1>14,
     <1>15, <1>16, <1>18, <1>19, <1>20, <1>21, <1>22, <1>23 DEF Provider

LEMMA NextHold ==
    ASSUME "unit" \notin Lag, TypeInv, ReadingInv, HoldInv, WorkShown, [Next]_vars
    PROVE  HoldInv'
<1>1. CASE User \/ Environment \/ Core \/ CoreFault \/ UNCHANGED vars
  <2>1. /\ OutsideStep /\ UNCHANGED <<ppc, pu, pid, hosted>>
        /\ (pc = "release" => CleanupCompleted)'
    BY <1>1, OutsideSteps DEF HoldInv
  <2>2. \A u \in Unit : u /= None
    BY NoneIsNot
  <2> QED
    BY <2>1, <2>2 DEF OutsideStep, HoldInv
<1>2. CASE ~(User \/ Environment \/ Core \/ CoreFault \/ UNCHANGED vars)
  <2>1. ProviderMove
    BY <1>2, ProviderMoves DEF Next
  <2>2. (pc = "release" => CleanupCompleted)'
    BY <2>1 DEF ProviderMove, HoldInv, CleanupCompleted
  <2>3. CASE ppc' = "idle"
    BY <2>2, <2>3 DEF HoldInv
  <2>4. CASE ppc = "idle" /\ ppc' = "start" /\ unit /= None /\ pu' = unit /\ unit' = unit
    BY <2>2, <2>4 DEF HoldInv
  <2>5. CASE ppc /= "idle"
    <3>1. ppc' = "idle" \/
          /\ pu' \in Unit /\ pu'.prov = pu.prov /\ pu'.deleting = pu.deleting
          /\ \/ unit' = unit
             \/ unit /= None /\ unit' /= None /\ unit'.prov = unit.prov /\ unit'.deleting = unit.deleting
          /\ ppc' \in {"delete", "deleted"} => pu.prov
          /\ ppc' \notin {"start", "delete", "deleted"} => ~pu.deleting
      BY <2>1, <2>5 DEF ProviderMove, WorkMoved
    <3> QED
      BY <2>2, <2>3, <2>5, <3>1 DEF HoldInv
  <2> QED
    BY <2>1, <2>3, <2>4, <2>5 DEF ProviderMove, WorkMoved
<1> QED
  BY <1>1, <1>2

\* A unit whose cleanup is complete goes with core's finalizer.
LEMMA CleanedGoes ==
    ASSUME TypeInv, ReadingInv, KeepInv, pc /= "idle", CleanupCompleted, DropUnitFinalizer
    PROVE  unit' = None
<1>1. seen.unit \in Unit /\ seen.unit.prov = FALSE /\ seen.unit.deleting /\ seen.unit /= None
  BY DEF CleanupCompleted, TypeInv, TypeOK, Snapshot, Unit
<1>2. seen.unit.fin
  BY <1>1 DEF KeepInv
<1>3. unit' = SetFinalizers(FALSE, FALSE)
  BY <1>1, <1>2 DEF DropUnitFinalizer
<1>4. unit /= None => unit.deleting
  BY <1>1 DEF ReadingInv
<1> QED
  BY <1>3, <1>4 DEF SetFinalizers, FinalizersAdmitted

\* At the last step of a deletion the unit has nothing of the provider left.
LEMMA ReleasedUnit ==
    ASSUME TypeInv, ReadingInv, HoldInv, pc = "release", unit /= None
    PROVE  unit.deleting /\ ~unit.prov
  BY DEF ReadingInv, HoldInv, CleanupCompleted

LEMMA MarkedFinalizers ==
    ASSUME NEW u \in Unit, MarkDeleted(u) /= None
    PROVE  MarkDeleted(u).deleting /\ (MarkDeleted(u).fin \/ MarkDeleted(u).prov)
<1>1. u.fin \/ u.prov
  BY DEF MarkDeleted
<1> QED
  BY <1>1, MarkIs

\* What core does to the unit when the Zone, whose finalizer it holds, stays.
UnitApplied ==
    \/ unit' = unit
    \/ unit' \in Unit /\ ~unit'.deleting /\ ~Shows(unit)'
    \/ /\ unit \in Unit /\ unit' \in Unit /\ unit'.deleting = unit.deleting
       /\ unit'.hz = unit.hz /\ unit'.zprog = unit.zprog
       /\ unit.deleting => unit'.fin \/ unit'.prov

LEMMA AppliedUnit ==
    ASSUME "unit" \notin Lag, TypeInv, KeepInv, seen.zone /= None,
           NEW next \in {"project", "wait"}, ApplyUnit(next)
    PROVE  /\ UnitApplied
           /\ \/ pc' = next /\ seen' = seen
              \/ pc' = "idle" /\ seen' = Unread
<1>1. CASE unit = None /\ units < MaxUnits /\ unit' = NewUnit(units + 1) /\ CoreGoto(next)
  <2>1. units + 1 \in 1..MaxUnits
    BY <1>1, LifecycleBounds DEF TypeInv, TypeOK
  <2> QED
    BY <1>1, <2>1, NewUnitIs DEF Shows, CoreGoto, UnitApplied
<1>2. CASE /\ PatchAdmitted
           /\ unit' = [unit EXCEPT
                 !.fin = AppliedFinalizers.fin,
                 !.prov = AppliedFinalizers.prov,
                 !.gen = IF Informer.unit.gen = Generation(seen.zone) THEN unit.gen
                         ELSE Generation(seen.zone),
                 !.item = IF Informer.unit.item = DesiredItem THEN unit.item
                          ELSE DesiredItem]
           /\ CoreGoto(next)
  <2>1. /\ unit \in Unit /\ unit' \in Unit /\ unit'.deleting = unit.deleting
        /\ unit'.hz = unit.hz /\ unit'.zprog = unit.zprog
    BY <1>2, CorePatchIs DEF TypeInv
  <2>2. unit.deleting => AppliedFinalizers.fin = unit.fin /\ AppliedFinalizers.prov = unit.prov
    BY InformerIs DEF AppliedFinalizers
  <2>3. unit'.fin = AppliedFinalizers.fin /\ unit'.prov = AppliedFinalizers.prov
    BY <1>2, <2>1 DEF Unit
  <2>4. unit.deleting => unit'.fin \/ unit'.prov
    BY <2>1, <2>2, <2>3, NoneIsNot DEF KeepInv
  <2> QED
    BY <1>2, <2>1, <2>4 DEF CoreGoto, UnitApplied
<1>3. CASE unit' = unit /\ (CoreGoto(next) \/ CoreGoto("idle"))
  BY <1>3 DEF CoreGoto, UnitApplied
<1> QED
  BY <1>1, <1>2, <1>3 DEF ApplyUnit

LEMMA ReportedKept ==
    ASSUME TypeInv, NEW prog \in BOOLEAN, zone' = Reported(prog)
    PROVE  \/ zone' = zone
           \/ /\ zone \in Zone /\ zone' \in Zone /\ zone'.fin = zone.fin
              /\ zone'.deleting = zone.deleting /\ zone'.prog = prog
  BY DEF Reported, TypeInv, TypeOK, Zone

LEMMA CoreKeeps ==
    ASSUME Lag \cap {"unit", "zone"} = {}, TypeInv, ReadingInv, HoldInv, KeepInv, Core
    PROVE  KeepInv'
<1> USE NoneIsNot DEF KeepInv, Kept, CoreGoto, coreFrame
<1>0. /\ unit \in Unit \cup {None} /\ zone \in Zone \cup {None}
      /\ "unit" \notin Lag /\ "zone" \notin Lag
  BY DEF TypeInv, TypeOK
<1>u. Unread.zone = None /\ Unread.unit = None
  BY DEF Unread
<1>1. CASE CoreBegin
  <2>1. seen'.zone = zone /\ seen'.unit = unit /\ pc = "idle" /\ pc' = "begin"
        /\ UNCHANGED <<zone, unit>>
    BY <1>0, <1>1, InformerIs DEF CoreBegin, apiVars
  <2> QED
    BY <2>1
<1>2. CASE ZoneMissing
  <2>1. pc = "begin" /\ pc' = "idle" /\ seen' = Unread /\ zone' = zone /\ seen.unit = None
    BY <1>2 DEF ZoneMissing
  <2>2. unit' = unit
    BY <1>2, <2>1 DEF ZoneMissing, CleanupCompleted
  <2> QED
    BY <1>u, <2>1, <2>2
<1>3. CASE EnsureZoneFinalizer
  <2>1. pc = "begin" /\ unit' = unit /\ seen.zone /= None
    BY <1>3 DEF EnsureZoneFinalizer
  <2>2. CASE /\ seen.zone.deleting \/ seen.zone.fin
             /\ pc' = "claim" /\ seen' = seen /\ zone' = zone
    BY <2>1, <2>2
  <2>3. CASE /\ ~seen.zone.deleting /\ ~seen.zone.fin /\ zone /= None
             /\ pc' = "claim" /\ seen' = seen /\ zone' = [zone EXCEPT !.fin = TRUE]
    <3>1. zone' /= None /\ zone'.fin /\ zone'.deleting = zone.deleting
      <4>1. zone' \in Zone
        BY <1>0, <2>3 DEF Zone
      <4> QED
        BY <1>0, <2>3, <4>1 DEF Zone
    <3>2. seen.unit = None
      BY <2>1, <2>3
    <3> QED
      BY <2>1, <2>3, <3>1, <3>2
  <2>4. CASE pc' = "idle" /\ seen' = Unread /\ zone' = zone
    BY <1>u, <2>1, <2>4
  <2> QED
    BY <1>3, <2>2, <2>3, <2>4 DEF EnsureZoneFinalizer
<1>4. CASE SettleClaim
  <2>1. /\ pc = "claim" /\ UNCHANGED <<zone, unit>>
        /\ \/ pc' = "decide" /\ seen' = seen
           \/ pc' = "idle" /\ seen' = Unread
    BY <1>4 DEF SettleClaim
  <2> QED
    BY <1>u, <2>1
<1>a. ASSUME pc = "decide", zone' = zone, UnitApplied,
             NEW next \in {"project", "wait"},
             \/ pc' = next /\ seen' = seen
             \/ pc' = "idle" /\ seen' = Unread
      PROVE  KeepInv'
  <2>1. unit' /= None => Kept(zone, unit'.deleting) /\ (unit'.deleting => unit'.fin \/ unit'.prov)
    BY <1>a DEF UnitApplied
  <2> QED
    BY <1>a, <1>u, <2>1
<1>5. CASE ComposeLive
  <2>1. pc = "decide" /\ seen.zone /= None
    BY <1>5 DEF ComposeLive, TypeInv
  <2>2. /\ UnitApplied
        /\ \/ pc' = "project" /\ seen' = seen
           \/ pc' = "idle" /\ seen' = Unread
    BY <1>0, <1>5, <2>1, AppliedUnit DEF ComposeLive
  <2> QED
    BY <1>5, <1>a, <2>1, <2>2 DEF ComposeLive
<1>6. CASE WaitForClaims
  <2>1. pc = "decide" /\ seen.zone /= None
    BY <1>6 DEF WaitForClaims, TypeInv
  <2>2. /\ UnitApplied
        /\ \/ pc' = "wait" /\ seen' = seen
           \/ pc' = "idle" /\ seen' = Unread
    BY <1>0, <1>6, <2>1, AppliedUnit DEF WaitForClaims, UnitApplied
  <2> QED
    BY <1>6, <1>a, <2>1, <2>2 DEF WaitForClaims
<1>r. ASSUME pc \notin {"idle", "begin", "release"}, pc' = "idle", seen' = Unread,
             NEW prog \in BOOLEAN, zone' = Reported(prog) \/ zone' = zone,
             \/ unit' = unit
             \/ unit \in Unit /\ unit' = MarkDeleted(unit) /\ zone.deleting
      PROVE  KeepInv'
  <2>1. /\ zone' /= None /\ zone'.fin = zone.fin /\ zone'.deleting = zone.deleting
    BY <1>r, <1>0, ReportedKept
  <2>2. unit' /= None => Kept(zone, unit'.deleting) /\ (unit'.deleting => unit'.fin \/ unit'.prov)
    BY <1>r, <1>0, MarkedFinalizers
  <2> QED
    BY <1>r, <1>u, <2>1, <2>2
<1>7. CASE ProjectZone
  BY <1>7, <1>r DEF ProjectZone
<1>8. CASE ReportWaiting
  BY <1>8, <1>r DEF ReportWaiting
<1>9. CASE RequestCleanup
  <2>1. pc = "decide" /\ zone.deleting /\ zone /= None
    BY <1>9 DEF RequestCleanup
  <2>2. \/ unit' = unit
        \/ unit \in Unit /\ unit' = MarkDeleted(unit)
    BY <1>0, <1>9 DEF RequestCleanup
  <2> QED
    BY <1>9, <1>r, <2>1, <2>2 DEF RequestCleanup
<1>10. CASE WaitForCleanup
  BY <1>10, <1>r DEF WaitForCleanup
<1>11. CASE ReleaseZoneWithoutUnit
  <2>1. pc = "decide" /\ seen.zone.deleting /\ seen.unit = None /\ pc' = "idle" /\ seen' = Unread
        /\ unit' = unit /\ seen.zone /= None
    BY <1>11 DEF ReleaseZoneWithoutUnit, TypeInv
  <2>2. unit = None
    BY <2>1 DEF ReadingInv
  <2>3. zone' = None
    BY <1>11, <2>1 DEF ReleaseZoneWithoutUnit, DropZoneFinalizer
  <2> QED
    BY <1>u, <2>1, <2>2, <2>3
<1>12. CASE ReleaseZone
  <2>1. pc = "decide" /\ seen.zone.deleting /\ pc' = "release" /\ seen' = seen
        /\ unit' = unit /\ seen.zone /= None
    BY <1>12 DEF ReleaseZone, TypeInv
  <2>3. zone' = None
    BY <1>12, <2>1 DEF ReleaseZone, DropZoneFinalizer
  <2> QED
    BY <2>1, <2>3
<1>13. CASE ReleaseUnit
  <2>1. pc = "release" /\ pc' = "idle" /\ seen' = Unread /\ zone' = zone
    BY <1>13 DEF ReleaseUnit
  <2>2. unit' = None
    BY <1>13, <2>1, CleanedGoes DEF ReleaseUnit, HoldInv
  <2> QED
    BY <1>u, <2>1, <2>2
<1> QED
  BY <1>1, <1>2, <1>3, <1>4, <1>5, <1>6, <1>7, <1>8, <1>9, <1>10, <1>11, <1>12, <1>13 DEF Core

LEMMA UserKeeps ==
    ASSUME Lag \cap {"unit", "zone"} = {}, TypeInv, ReadingInv, HoldInv, KeepInv, User
    PROVE  KeepInv'
<1> USE NoneIsNot DEF KeepInv, Kept, coreVars
<1>0. /\ unit \in Unit \cup {None} /\ zone \in Zone \cup {None} /\ "zone" \notin Lag
  BY DEF TypeInv, TypeOK
<1>1. CASE CreateZone
  <2>1. zone = None /\ zone' /= None /\ ~zone'.deleting /\ ~zone'.prog
        /\ UNCHANGED <<unit, pc, seen>>
    BY <1>1 DEF CreateZone, None
  <2> QED
    BY <2>1
<1>2. CASE DeleteZone
  <2>1. UNCHANGED <<unit, pc, seen>> /\ zone \in Zone
    BY <1>0, <1>2 DEF DeleteZone
  <2>2. CASE zone.fin
    <3>1. zone' \in Zone /\ zone'.fin /\ zone'.deleting /\ zone'.prog = zone.prog
      BY <1>2, <2>1, <2>2 DEF DeleteZone, Zone
    <3> QED
      BY <2>1, <3>1
  <2>3. CASE ~zone.fin
    <3>1. zone' = None
      BY <1>2, <2>3 DEF DeleteZone
    <3> QED
      BY <2>1, <2>3, <3>1
  <2> QED
    BY <2>2, <2>3
<1>3. CASE DeleteUnit
  <2>1. UNCHANGED <<zone, pc, seen>> /\ unit \in Unit /\ ~unit.deleting /\ unit' = MarkDeleted(unit)
    BY <1>0, <1>3 DEF DeleteUnit
  <2>2. pc /= "release"
    BY <2>1, ReleasedUnit
  <2>3. zone /= None /\ zone.fin /\ zone.deleting
    BY <1>0, <1>3, <2>1, <2>2, InformerIs DEF DeleteUnit, UnitDeletionAdmitted
  <2>4. unit' /= None => unit'.deleting /\ (unit'.fin \/ unit'.prov)
    BY <2>1, MarkedFinalizers
  <2> QED
    BY <2>1, <2>2, <2>3, <2>4
<1>4. CASE UNCHANGED <<zone, unit, pc, seen>>
  BY <1>4
<1> QED
  BY <1>1, <1>2, <1>3, <1>4 DEF User, CreateClaim, DeleteClaim, ChangePolicy, apiVars

LEMMA NextKeep ==
    ASSUME Lag \cap {"unit", "zone"} = {}, MaxCoreFaults = 0,
           TypeInv, ReadingInv, HoldInv, KeepInv, WorkShown, [Next]_vars
    PROVE  KeepInv'
<1>1. CASE User \/ Core
  BY <1>1, UserKeeps, CoreKeeps
<1>2. CASE Environment \/ UNCHANGED vars
  BY <1>2 DEF Environment, Deliver, Propagate, vars, apiVars, coreVars, KeepInv, Kept
<1>3. ~CoreFault
  <2>1. faults.core \in 0..0
    BY DEF TypeInv, TypeOK
  <2> QED
    BY <2>1 DEF CoreFault
<1>4. CASE Provider \/ ProviderCrash \/ ProviderError
  <2>1. UnitTouched /\ UNCHANGED <<zone, pc, seen>>
    BY <1>4, ProviderMoves DEF ProviderMove
  <2>2. unit' /= None => unit /= None /\ unit'.deleting = unit.deleting
                         /\ (unit.deleting => unit'.fin \/ unit'.prov)
    BY <2>1, NoneIsNot DEF UnitTouched, KeepInv
  <2> QED
    BY <2>1, <2>2 DEF KeepInv, Kept
<1> QED
  BY <1>1, <1>2, <1>3, <1>4 DEF Next

LEMMA CoreShows ==
    ASSUME Lag \cap {"unit", "zone"} = {}, TypeInv, ReadingInv, HoldInv, KeepInv, ShownInv, Core
    PROVE  ShownInv'
<1> USE NoneIsNot DEF CoreGoto, coreFrame, providerVars, awsVars
<1>0. /\ unit \in Unit \cup {None} /\ zone \in Zone \cup {None}
      /\ "unit" \notin Lag /\ "zone" \notin Lag
  BY DEF TypeInv, TypeOK
<1>u. Unread.unit = None
  BY DEF Unread
<1>w. WorkShown' /\ SomeHosted' = SomeHosted
  BY DEF Core, CoreBegin, ZoneMissing, EnsureZoneFinalizer, SettleClaim, ComposeLive, ProjectZone,
     WaitForClaims, ReportWaiting, ReleaseZoneWithoutUnit, RequestCleanup, WaitForCleanup,
     ReleaseZone, ReleaseUnit, ShownInv, WorkShown, Shows, SomeHosted, Exists
\* The last three parts of the invariant, for a step that starts no reconcile.
<1>s. ASSUME unit' = None \/ UnitApplied \/ (unit \in Unit /\ unit' = MarkDeleted(unit)),
             zone' /= None /\ ~zone'.deleting /\ zone'.prog => ~zone.deleting /\ (zone.prog \/ SomeHosted),
             pc \notin {"idle", "release"} \/ pc' = "idle",
             \/ pc' = "idle" \/ pc' = "release"
             \/ seen' = seen /\ (zone' = zone \/ (~zone'.deleting => ~zone.deleting)),
             zone' /= None => zone /= None
      PROVE  ShownInv'
  <2>1. unit' /= None /\ ~unit'.deleting /\ Shows(unit)' => SomeHosted
    <3>1. CASE unit' = None
      BY <3>1
    <3>2. CASE UnitApplied
      BY <3>2 DEF UnitApplied, ShownInv, Shows
    <3>3. CASE unit \in Unit /\ unit' = MarkDeleted(unit)
      BY <3>3, MarkedFinalizers
    <3> QED
      BY <1>s, <3>1, <3>2, <3>3
  <2>2. zone' /= None /\ ~zone'.deleting /\ zone'.prog => SomeHosted
    BY <1>s DEF ShownInv
  <2>3. pc' \notin {"idle", "release"} /\ seen'.unit /= None /\ seen'.unit.zprog /= 0 /\ ~zone'.deleting
           => SomeHosted
    BY <1>s DEF ShownInv
  <2> QED
    BY <1>w, <2>1, <2>2, <2>3 DEF ShownInv
<1>1. CASE CoreBegin
  <2>1. seen'.zone = zone /\ seen'.unit = unit /\ pc = "idle" /\ pc' = "begin"
        /\ UNCHANGED <<zone, unit>>
    BY <1>0, <1>1, InformerIs DEF CoreBegin, apiVars
  <2>2. seen'.unit /= None /\ seen'.unit.zprog /= 0 /\ ~zone'.deleting => SomeHosted
    BY <2>1 DEF KeepInv, Kept, ShownInv, Shows
  <2>3. ShownInv => /\ unit' /= None /\ ~unit'.deleting /\ Shows(unit)' => SomeHosted
                    /\ zone' /= None /\ ~zone'.deleting /\ zone'.prog => SomeHosted
    BY <2>1 DEF ShownInv, Shows
  <2> QED
    BY <1>w, <2>2, <2>3 DEF ShownInv
<1>2. CASE ZoneMissing
  <2>1. pc = "begin" /\ pc' = "idle" /\ zone' = zone /\ seen.unit = None
    BY <1>2 DEF ZoneMissing, KeepInv
  <2>2. unit' = unit
    BY <1>2, <2>1 DEF ZoneMissing, CleanupCompleted
  <2> QED
    BY <1>s, <2>1, <2>2 DEF UnitApplied, ShownInv
<1>3. CASE EnsureZoneFinalizer
  <2>1. pc = "begin" /\ unit' = unit /\ ((pc' = "claim" /\ seen' = seen) \/ pc' = "idle")
    BY <1>3 DEF EnsureZoneFinalizer
  <2>2. zone' = zone \/ (zone \in Zone /\ zone' = [zone EXCEPT !.fin = TRUE])
    BY <1>0, <1>3 DEF EnsureZoneFinalizer
  <2>3. zone' = zone \/ (/\ zone \in Zone /\ zone' \in Zone /\ zone'.deleting = zone.deleting
                         /\ zone'.prog = zone.prog)
    BY <2>2 DEF Zone
  <2> QED
    BY <1>s, <2>1, <2>3 DEF UnitApplied, ShownInv
<1>4. CASE SettleClaim
  <2>1. /\ pc = "claim" /\ UNCHANGED <<zone, unit>>
        /\ \/ pc' = "decide" /\ seen' = seen
           \/ pc' = "idle"
    BY <1>4 DEF SettleClaim
  <2> QED
    BY <1>s, <2>1 DEF UnitApplied, ShownInv
<1>5. CASE ComposeLive \/ WaitForClaims
  <2>1. pc = "decide" /\ seen.zone /= None /\ zone' = zone
    BY <1>5 DEF ComposeLive, WaitForClaims, TypeInv
  <2>2. /\ UnitApplied
        /\ \/ pc' \in {"project", "wait"} /\ seen' = seen
           \/ pc' = "idle"
    <3>1. ASSUME NEW next \in {"project", "wait"}, ApplyUnit(next)
          PROVE  /\ UnitApplied
                 /\ \/ pc' \in {"project", "wait"} /\ seen' = seen
                    \/ pc' = "idle"
      BY <1>0, <2>1, <3>1, AppliedUnit
    <3> QED
      BY <1>5, <3>1 DEF ComposeLive, WaitForClaims, UnitApplied
  <2> QED
    BY <1>s, <2>1, <2>2 DEF ShownInv
<1>7. CASE ProjectZone
  <2>1. pc = "project" /\ pc' = "idle" /\ unit' = unit
    BY <1>7 DEF ProjectZone
  <2>2. zone' = zone \/ (seen.unit /= None /\ zone' = Reported(seen.unit.zprog = Generation(seen.zone)))
    BY <1>7 DEF ProjectZone
  <2>3. \/ zone' = zone
        \/ /\ zone \in Zone /\ zone'.deleting = zone.deleting
           /\ zone'.prog => seen.unit /= None /\ seen.unit.zprog = Generation(seen.zone)
    BY <2>2, ReportedKept
  <2>4. Generation(seen.zone) /= 0
    BY DEF Generation
  <2>5. zone' /= None /\ ~zone'.deleting /\ zone'.prog => ~zone.deleting /\ (zone.prog \/ SomeHosted)
    BY <2>1, <2>3, <2>4 DEF ShownInv
  <2>6. zone' /= None => zone /= None
    BY <2>3
  <2> QED
    BY <1>s, <2>1, <2>5, <2>6 DEF UnitApplied
<1>8. CASE ReportWaiting \/ WaitForCleanup \/ RequestCleanup
  <2>1. pc' = "idle" /\ (zone' = zone \/ zone' = Reported(FALSE))
    BY <1>8 DEF ReportWaiting, WaitForCleanup, RequestCleanup
  <2>2. zone' = zone \/ (zone \in Zone /\ ~zone'.prog)
    BY <2>1, ReportedKept
  <2>3. UnitApplied \/ (unit \in Unit /\ unit' = MarkDeleted(unit))
    BY <1>0, <1>8 DEF ReportWaiting, WaitForCleanup, RequestCleanup, UnitApplied
  <2> QED
    BY <1>s, <2>1, <2>2, <2>3
<1>9. CASE ReleaseZoneWithoutUnit \/ ReleaseZone
  <2>1. pc = "decide" /\ seen.zone.deleting /\ pc' \in {"idle", "release"} /\ unit' = unit
        /\ seen.zone /= None /\ DropZoneFinalizer
    BY <1>9 DEF ReleaseZoneWithoutUnit, ReleaseZone, TypeInv
  <2>2. zone' = None
    BY <2>1 DEF DropZoneFinalizer, KeepInv, Kept
  <2> QED
    BY <1>s, <2>1, <2>2 DEF UnitApplied
<1>10. CASE ReleaseUnit
  <2>1. pc = "release" /\ pc' = "idle" /\ zone' = zone /\ unit' = None
    BY <1>10, CleanedGoes DEF ReleaseUnit, HoldInv
  <2> QED
    BY <1>s, <2>1 DEF ShownInv
<1> QED
  BY <1>1, <1>2, <1>3, <1>4, <1>5, <1>7, <1>8, <1>9, <1>10 DEF Core

LEMMA NextShown ==
    ASSUME Lag \cap {"unit", "zone"} = {}, MaxCoreFaults = 0,
           TypeInv, ReadingInv, HoldInv, KeepInv, ShownInv, [Next]_vars
    PROVE  ShownInv'
<1> USE NoneIsNot
<1>0. /\ unit \in Unit \cup {None} /\ zone \in Zone \cup {None}
      /\ "unit" \notin Lag /\ "zone" \notin Lag
  BY DEF TypeInv, TypeOK
<1>1. CASE User
  <2>1. WorkShown' /\ SomeHosted' = SomeHosted /\ UNCHANGED <<pc, seen>>
    BY <1>1 DEF User, CreateZone, DeleteZone, CreateClaim, DeleteClaim, DeleteUnit, ChangePolicy,
       ShownInv, WorkShown, Shows, SomeHosted, Exists, providerVars, awsVars, coreVars
  <2>2. unit' = unit \/ (unit \in Unit /\ unit' = MarkDeleted(unit))
    BY <1>0, <1>1 DEF User, CreateZone, DeleteZone, CreateClaim, DeleteClaim, DeleteUnit, ChangePolicy,
       apiVars
  <2>3. unit' /= None /\ ~unit'.deleting /\ Shows(unit)' => SomeHosted
    BY <2>2, MarkedFinalizers DEF ShownInv, Shows
  <2>4. \/ zone' = zone
        \/ zone = None /\ ~zone'.prog
        \/ zone \in Zone /\ (zone' = None \/ zone'.deleting) /\ (zone.fin => zone'.deleting)
    BY <1>0, <1>1 DEF User, CreateZone, DeleteZone, CreateClaim, DeleteClaim, DeleteUnit, ChangePolicy,
       apiVars, Zone
  <2>5. zone' /= None /\ ~zone'.deleting /\ zone'.prog => SomeHosted
    BY <2>4 DEF ShownInv
  <2>6. pc' \notin {"idle", "release"} /\ seen'.unit /= None /\ seen'.unit.zprog /= 0 /\ ~zone'.deleting
           => SomeHosted
    BY <2>1, <2>4 DEF ShownInv, KeepInv, Kept
  <2> QED
    BY <2>1, <2>3, <2>5, <2>6 DEF ShownInv
<1>2. CASE Environment \/ UNCHANGED vars
  BY <1>2 DEF Environment, Deliver, Propagate, vars, apiVars, coreVars, providerVars, awsVars,
     ShownInv, WorkShown, Shows, SomeHosted, Exists
<1>3. CASE Core
  BY <1>3, CoreShows
<1>4. ~CoreFault
  <2>1. faults.core \in 0..0
    BY DEF TypeInv, TypeOK
  <2> QED
    BY <2>1 DEF CoreFault
<1>5. CASE Provider \/ ProviderCrash \/ ProviderError
  <2>1. ProviderMove
    BY <1>0, <1>5, ProviderMoves DEF ShownInv
  <2>2. CASE SomeHosted => SomeHosted'
    <3>1. WorkShown'
      <4>1. CASE ppc' = "idle"
        BY <4>1 DEF WorkShown
      <4>2. CASE ppc = "idle" /\ ppc' = "start" /\ unit /= None /\ pu' = unit /\ unit' = unit
        BY <2>2, <4>2 DEF WorkShown, ShownInv, Shows, Late
      <4>3. CASE /\ ppc /= "idle" /\ pu'.deleting = pu.deleting
                 /\ ~pu.deleting /\ (Shows(pu)' \/ ppc' \in Late) => SomeHosted'
        BY <4>3 DEF WorkShown, Shows
      <4> QED
        BY <2>1, <4>1, <4>2, <4>3 DEF ProviderMove, WorkMoved
    <3>2. (unit /= None /\ ~unit.deleting /\ Shows(unit) => SomeHosted)'
      BY <2>1, <2>2 DEF ProviderMove, UnitTouched, ShownInv, Shows
    <3>3. UNCHANGED <<zone, pc, seen>>
      BY <2>1 DEF ProviderMove
    <3> QED
      BY <2>2, <3>1, <3>2, <3>3 DEF ShownInv
  <2>3. CASE ppc = "delete" /\ UNCHANGED <<unit, pu>> /\ ppc' = "deleted"
    \* A hosted zone may be gone now, but its Zone is deleting.
    <3>1. pu.prov /\ pu.deleting /\ unit /= None /\ unit.prov /\ unit.deleting
      BY <2>3 DEF HoldInv, TypeInv
    <3>2. pc /= "release"
      BY <3>1, ReleasedUnit
    <3>3. zone /= None /\ zone.deleting
      BY <3>1, <3>2 DEF KeepInv, Kept
    <3>4. UNCHANGED <<zone, pc, seen>>
      BY <2>1 DEF ProviderMove
    <3> QED
      BY <2>3, <3>1, <3>3, <3>4 DEF ShownInv, WorkShown
  <2> QED
    BY <2>1, <2>2, <2>3 DEF ProviderMove
<1> QED
  BY <1>1, <1>2, <1>3, <1>4, <1>5 DEF Next

\* A live Zone that core reports as Programmed has a hosted zone, for any number
\* of Zones of its name, whatever fails in the Route 53 controller, however the
\* policy changes and units are deleted by hand, as long as core itself completes
\* its reconciles and reads the current Zone and unit (reconcileZone,
\* projectZoneUnitStatus, patchZoneStatus).
THEOREM ProgrammedMeansHosted ==
    Lag \cap {"unit", "zone"} = {} /\ MaxCoreFaults = 0 => (Spec => []ProgrammedZoneExists)
<1> SUFFICES ASSUME Lag \cap {"unit", "zone"} = {}, MaxCoreFaults = 0
             PROVE  Spec => []ProgrammedZoneExists
  OBVIOUS
<1> DEFINE Inv == TypeInv /\ ReadingInv /\ HoldInv /\ KeepInv /\ ShownInv
<1>1. Init => Inv
  BY InitTyped DEF Init, ReadingInv, HoldInv, KeepInv, ShownInv, WorkShown, Unread
<1>2. Inv /\ [Next]_vars => Inv'
  <2> SUFFICES ASSUME Inv, [Next]_vars PROVE Inv'
    OBVIOUS
  <2>1. "unit" \notin Lag
    OBVIOUS
  <2> QED
    BY <2>1, NextTyped, NextReading, NextHold, NextKeep, NextShown DEF ShownInv
<1>3. Inv => ProgrammedZoneExists
  BY DEF ShownInv, ProgrammedZoneExists, SomeHosted
<1> QED
  BY <1>1, <1>2, <1>3, PTL DEF Spec
=============================================================================
