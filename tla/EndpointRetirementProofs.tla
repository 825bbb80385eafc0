---------------------- MODULE EndpointRetirementProofs ----------------------
(***************************************************************************)
(* Theorems about EndpointRetirement, for any hostnames, targets and       *)
(* Zones, any limits and any number of failures.                           *)
(***************************************************************************)
EXTENDS EndpointRetirement, WellFoundedInduction, TLAPS

-----------------------------------------------------------------------------
(* Types.                                                                  *)

\* A reconcile past its first step has what it read.
TypeInv ==
    /\ TypeOK
    /\ spc \in {"apply", "release"} => sv /= None
    /\ epc \notin {"idle", "read"} => er /= None

\* The source controller's reading; what the endpoint controller reads next.
Seen == Informer.ers

\* None has no field of an ERS, a Service or a RecordSet.
LEMMA NoneIsNot == None \notin ERS /\ None \notin Service /\ None \notin RecordSet
  BY DEF None, ERS, Service, RecordSet

LEMMA InformerTyped ==
    ASSUME TypeOK
    PROVE  /\ Informer.svc \in Service \cup {None}
           /\ Informer.ers \in ERS \cup {None}
           /\ Informer.recs \in RecordSets
           /\ Informer.zones \in [Zones -> ZoneStates]
<1>1. CASE Lag
  BY <1>1 DEF TypeOK, Informer
<1>2. CASE ~Lag
  BY <1>2 DEF TypeOK, Informer, Server
<1> QED
  BY <1>1, <1>2

\* Some Zone comes first among those that accept.
LEMMA FirstZone ==
    ASSUME NEW S \in SUBSET Zones, S /= {}
    PROVE  /\ (CHOOSE z \in S : \A y \in S : z <= y) \in S
           /\ \A y \in S : (CHOOSE z \in S : \A x \in S : z <= x) <= y
<1>1. S \subseteq Nat
  BY RetirementParameters DEF Zones
<1>2. PICK z \in S : \A y \in S : ~(<<y, z>> \in OpToRel(<, Nat))
  BY <1>1, NatLessThanWellFounded, WFMin
<1>3. \A y \in S : ~(y < z)
  BY <1>1, <1>2 DEF OpToRel
<1>4. \A y \in S : z <= y
  BY <1>1, <1>3
<1> QED
  BY <1>4

LEMMA ResolvedTyped ==
    ASSUME NEW zs, NEW ts
    PROVE  ResolvedZone(zs, ts) \in Zones \cup {NoZone}
<1>1. Accepting(zs, ts) \in SUBSET Zones
  BY DEF Accepting
<1> QED
  BY <1>1, FirstZone DEF ResolvedZone

\* Retirements are entries.
LEMMA EntriesTyped ==
    ASSUME NEW e \in ERS, NEW hosts, NEW targets
    PROVE  Retirements(e, hosts, targets) \subseteq Entry
<1> SUFFICES ASSUME NEW n \in Retirements(e, hosts, targets) PROVE n \in Entry
  OBVIOUS
<1>1. /\ e.gen \in Nat /\ e.hosts \subseteq Hosts /\ Addresses(e.targets) \subseteq Addrs
  BY DEF ERS, Addresses
<1>2. CASE n \in {[kind |-> "target", gen |-> e.gen, hosts |-> e.hosts, addrs |-> {a}] :
                     a \in RemovedAddresses(e, hosts, targets)}
  <2>1. PICK a \in RemovedAddresses(e, hosts, targets) :
              n = [kind |-> "target", gen |-> e.gen, hosts |-> e.hosts, addrs |-> {a}]
    BY <1>2
  <2>2. a \in Addrs
    BY <1>1 DEF RemovedAddresses
  <2> QED
    BY <1>1, <2>1, <2>2 DEF Entry
<1>3. CASE n \in {[kind |-> "hostname", gen |-> e.gen, hosts |-> {h},
                   addrs |-> Addresses(e.targets)] : h \in RemovedHosts(e, hosts, targets)}
  <2>1. PICK h \in RemovedHosts(e, hosts, targets) :
              n = [kind |-> "hostname", gen |-> e.gen, hosts |-> {h},
                   addrs |-> Addresses(e.targets)]
    BY <1>3
  <2>2. h \in Hosts
    BY <1>1 DEF RemovedHosts
  <2> QED
    BY <1>1, <2>1, <2>2 DEF Entry
<1> QED
  BY <1>2, <1>3 DEF Retirements

LEMMA IntentTyped ==
    ASSUME NEW e \in ERS, NEW hosts \in SUBSET Hosts, NEW targets \in SUBSET Targets
    PROVE  WithIntent(e, hosts, targets) \in ERS
<1>1. e.retired \cup Retirements(e, hosts, targets) \in SUBSET Entry
  BY EntriesTyped DEF ERS
<1>2. e.gen + 1 \in Nat
  BY DEF ERS
<1> HIDE DEF Entry
<1> QED
  BY <1>1, <1>2 DEF WithIntent, ERS

-----------------------------------------------------------------------------
(* What a step may do to each object, so that later proofs need not visit  *)
(* the actions again.                                                      *)

Created ==
    /\ ers = None /\ sv \in Service
    /\ uids < MaxUids /\ uids' = uids + 1
    /\ ers' = NewERS(uids + 1, sv)
Dropped == ers /= None /\ ~ers.fin /\ ers' = None
Released ==
    /\ epc = "purged" /\ er /= None /\ er.deleting /\ ers = er
    /\ ers' = None
Marked ==
    /\ ers /= None /\ ers.fin /\ ~ers.deleting
    /\ ers' = [ers EXCEPT !.deleting = TRUE, !.gen = ers.gen + 1]
Rewritten ==
    /\ ers /= None /\ ~ers.deleting
    /\ \E hosts \in SUBSET Hosts, targets \in SUBSET Targets :
          ers' = WithIntent(ers, hosts, targets)
Emptied ==
    /\ epc = "captured" /\ er /= None /\ ers = er /\ ~ers.deleting
    /\ ers' = [ers EXCEPT !.retired = {}, !.gen = ers.gen + 1]
    /\ er' = None
Reported ==
    /\ epc = "pruned" \/ (epc = "resolved" /\ NeedsBarrier)
    /\ er /= None /\ ers = er
    /\ ers' = WithStatus(Protection(Informer.zones), AllProgrammed(Informer.recs))
    /\ er' = None
Flagged ==
    /\ ers /= None
    /\ \E fin \in {TRUE, ers.fin}, pend \in BOOLEAN, capt \in Nat, ready \in {0, ers.ready} :
          ers' = [ers EXCEPT !.fin = fin, !.pend = pend, !.capt = capt, !.ready = ready]

ErsChange ==
    \/ Created
    \/ /\ uids' = uids
       /\ Dropped \/ Released \/ Marked \/ Rewritten \/ Emptied \/ Reported \/ Flagged
ErsStep ==
    \/ ErsChange /\ UNCHANGED <<recs, claims, owed, zones>>
    \/ UNCHANGED <<ers, uids>>

\* A user or a source deletes what it read.
LEMMA DeletedIs ==
    ASSUME ers /= None, ~ers.deleting, ers' = Deleted(ers)
    PROVE  Dropped \/ Marked
  BY DEF Deleted, Dropped, Marked

LEMMA PendingIs ==
    ASSUME ers \in ERS, ers' = Pending(ers)
    PROVE  Flagged
<1>1. ers' = [ers EXCEPT !.fin = ers.fin, !.pend = TRUE, !.capt = ers.capt, !.ready = 0]
  BY DEF Pending, ERS
<1>2. ers.capt \in Nat /\ ers /= None
  BY NoneIsNot DEF ERS
<1> QED
  BY <1>1, <1>2 DEF Flagged

LEMMA CleanupIs ==
    ASSUME ers \in ERS \cup {None}, Seen \in ERS \cup {None},
           ers' = RetireOrDelete(Seen).ers
    PROVE  ers' = ers \/ Dropped \/ Marked \/ Rewritten \/ Flagged
<1>1. CASE Seen = None \/ Seen.deleting \/ Seen /= ers
  BY <1>1 DEF RetireOrDelete
<1>2. CASE ~(Seen = None \/ Seen.deleting \/ Seen /= ers)
  <2>1. Seen = ers /\ ers \in ERS /\ ers /= None /\ ~ers.deleting
    BY <1>2
  <2>2. CASE MayDelete(ers)
    <3>1. ers' = Deleted(ers)
      BY <2>1, <2>2 DEF RetireOrDelete
    <3> QED
      BY <2>1, <3>1, DeletedIs
  <2>3. CASE ~MayDelete(ers) /\ Overflow(ers, {}, {})
    <3>1. ers' = Pending(ers)
      BY <2>1, <2>3 DEF RetireOrDelete
    <3> QED
      BY <2>1, <3>1, PendingIs
  <2>4. CASE ~MayDelete(ers) /\ ~Overflow(ers, {}, {})
    <3>1. ers' = ers \/ ers' = WithIntent(ers, {}, {})
      BY <2>1, <2>4 DEF RetireOrDelete
    <3> QED
      BY <2>1, <3>1 DEF Rewritten
  <2> QED
    BY <2>2, <2>3, <2>4
<1> QED
  BY <1>1, <1>2

LEMMA UpdateIs ==
    ASSUME TypeInv, SourceUpdate
    PROVE  ers' = ers \/ Rewritten \/ Flagged
<1>1. ers \in ERS \cup {None} /\ Seen /= None /\ sv \in Service
  BY DEF TypeInv, TypeOK, SourceUpdate, Seen
<1>2. ers' = IF Seen.deleting \/ Seen /= ers THEN ers
             ELSE IF Overflow(Seen, sv.hosts, sv.targets) THEN Pending(Seen)
             ELSE IF Seen.pend THEN [Seen EXCEPT !.pend = FALSE]
             ELSE IF SameIntent(Seen, sv) THEN ers
             ELSE WithIntent(Seen, sv.hosts, sv.targets)
  BY DEF SourceUpdate, Seen
<1>3. CASE Seen.deleting \/ Seen /= ers
  BY <1>2, <1>3
<1>4. CASE ~(Seen.deleting \/ Seen /= ers)
  <2>1. Seen = ers /\ ers \in ERS /\ ers /= None /\ ~ers.deleting
    BY <1>1, <1>4
  <2>2. CASE ers' = Pending(ers)
    BY <2>1, <2>2, PendingIs
  <2>3. CASE ers' = [ers EXCEPT !.pend = FALSE]
    <3>1. ers' = [ers EXCEPT !.fin = ers.fin, !.pend = FALSE, !.capt = ers.capt,
                             !.ready = ers.ready]
      BY <2>1, <2>3 DEF ERS
    <3>2. ers.capt \in Nat
      BY <2>1 DEF ERS
    <3> QED
      BY <2>1, <3>1, <3>2 DEF Flagged
  <2>4. CASE ers' = WithIntent(ers, sv.hosts, sv.targets)
    <3>1. sv.hosts \in SUBSET Hosts /\ sv.targets \in SUBSET Targets
      BY <1>1 DEF Service
    <3> QED
      BY <2>1, <2>4, <3>1 DEF Rewritten
  <2> QED
    BY <1>2, <1>4, <2>1, <2>2, <2>3, <2>4
<1> QED
  BY <1>3, <1>4

LEMMA ErsSteps == TypeInv /\ [Next]_vars => ErsStep
<1> SUFFICES ASSUME TypeInv, [Next]_vars PROVE ErsStep
  OBVIOUS
<1>0. /\ ers \in ERS \cup {None} /\ Seen \in ERS \cup {None}
      /\ ers /= None => ers \in ERS /\ ers.capt \in Nat /\ ers.gen \in Nat
      /\ er \in ERS \cup {None}
  BY InformerTyped DEF TypeInv, TypeOK, Seen, ERS
<1>1. ASSUME UNCHANGED <<recs, claims, owed, zones, uids>>,
             ers' = ers \/ Dropped \/ Released \/ Marked \/ Rewritten \/ Emptied
                 \/ Reported \/ Flagged
      PROVE  ErsStep
  BY <1>1 DEF ErsStep, ErsChange
<1>2. ASSUME NEW hosts, NEW targets, CreateService(hosts, targets) \/ EditService(hosts, targets)
      PROVE  ErsStep
  BY <1>2 DEF CreateService, EditService, ErsStep
<1>3. CASE DeleteService
  BY <1>3 DEF DeleteService, countVars, ErsStep
<1>4. CASE DeleteERS
  <2>1. Dropped \/ Marked
    BY <1>4, DeletedIs DEF DeleteERS
  <2> QED
    BY <1>1, <1>4, <2>1 DEF DeleteERS
<1>5. ASSUME NEW z, NEW s, MoveZone(z, s)
      PROVE  ErsStep
  BY <1>5 DEF MoveZone, ErsStep
<1>6. ASSUME NEW z, UpgradeProvider(z)
      PROVE  ErsStep
  BY <1>6 DEF UpgradeProvider, ErsStep
<1>7. CASE SourceBegin
  BY <1>7 DEF SourceBegin, apiVars, ErsStep
<1>8. CASE SourceCleanup
  <2>1. ers' = RetireOrDelete(Seen).ers
    BY <1>8 DEF SourceCleanup, Seen
  <2>2. ers' = ers \/ Dropped \/ Marked \/ Rewritten \/ Flagged
    BY <1>0, <2>1, CleanupIs
  <2> QED
    BY <1>1, <1>8, <2>2 DEF SourceCleanup, sourceFrame
<1>9. CASE SourceRelease \/ SourceAddFinalizer \/ SourceFault
  BY <1>9 DEF SourceRelease, SourceAddFinalizer, SourceFault, apiVars, ErsStep
<1>10. CASE SourceCreate
  <2>1. sv \in Service
    BY <1>10 DEF SourceCreate, TypeInv, TypeOK
  <2>2. Created \/ UNCHANGED <<ers, uids>>
    BY <1>10, <2>1 DEF SourceCreate, Created
  <2> QED
    BY <1>10, <2>2 DEF SourceCreate, sourceFrame, ErsStep, ErsChange
<1>11. CASE SourceUpdate
  BY <1>1, <1>11, UpdateIs DEF SourceUpdate, sourceFrame
<1>12. CASE EndpointBegin
  BY <1>12 DEF EndpointBegin, apiVars, countVars, ErsStep
<1>13. CASE EndpointCleanup \/ EndpointCapture \/ EndpointCaptureError \/ EndpointPurge
            \/ EndpointResolve \/ EndpointApply \/ EndpointPrune \/ EndpointFault
  BY <1>13 DEF EndpointCleanup, EndpointCapture, EndpointCaptureError, EndpointPurge,
               EndpointResolve, EndpointApply, EndpointPrune, EndpointFault,
               endpointFrame, countVars, ErsStep
<1>14. CASE EndpointAddFinalizer
  <2>1. ers' = ers \/ (ers /= None /\ ers' = [ers EXCEPT !.fin = TRUE])
    BY <1>14 DEF EndpointAddFinalizer
  <2>2. ers' = ers \/ Flagged
    <3> SUFFICES ASSUME ers /= None, ers' = [ers EXCEPT !.fin = TRUE] PROVE Flagged
      BY <2>1
    <3>1. ers' = [ers EXCEPT !.fin = TRUE, !.pend = ers.pend, !.capt = ers.capt,
                             !.ready = ers.ready]
      BY <1>0 DEF ERS
    <3>2. ers.pend \in BOOLEAN
      BY <1>0 DEF ERS
    <3> QED
      BY <1>0, <3>1, <3>2 DEF Flagged
  <2> QED
    BY <1>1, <1>14, <2>2 DEF EndpointAddFinalizer, endpointFrame, countVars
<1>15. CASE EndpointCaptureFailed
  <2>1. ers' = ers \/ Flagged
    <3> SUFFICES ASSUME ers = er, ers' = [ers EXCEPT !.capt = 0, !.ready = 0] PROVE Flagged
      BY <1>15 DEF EndpointCaptureFailed
    <3>0. ers /= None /\ ers \in ERS
      BY <1>0, <1>15 DEF EndpointCaptureFailed, TypeInv
    <3>1. ers' = [ers EXCEPT !.fin = ers.fin, !.pend = ers.pend, !.capt = 0, !.ready = 0]
      BY <3>0 DEF ERS
    <3>2. ers.pend \in BOOLEAN
      BY <3>0 DEF ERS
    <3> QED
      BY <3>0, <3>1, <3>2 DEF Flagged
  <2> QED
    BY <1>1, <1>15, <2>1 DEF EndpointCaptureFailed, endpointFrame, countVars
<1>16. CASE EndpointPruneEntries
  <2>1. ers' = ers \/ Emptied
    BY <1>0, <1>16 DEF EndpointPruneEntries, EndpointGoto, Emptied, TypeInv
  <2> QED
    BY <1>1, <1>16, <2>1 DEF EndpointPruneEntries, endpointFrame, countVars
<1>17. CASE EndpointAcknowledge
  <2>1. ers' = ers \/ Flagged
    <3> SUFFICES ASSUME ers = er, ers' = [ers EXCEPT !.capt = er.gen, !.ready = 0] PROVE Flagged
      BY <1>17 DEF EndpointAcknowledge
    <3>0. ers /= None /\ ers \in ERS
      BY <1>0, <1>17 DEF EndpointAcknowledge, TypeInv
    <3>1. ers' = [ers EXCEPT !.fin = ers.fin, !.pend = ers.pend, !.capt = ers.gen, !.ready = 0]
      BY <3>0 DEF ERS
    <3>2. ers.pend \in BOOLEAN
      BY <3>0 DEF ERS
    <3> QED
      BY <1>0, <3>0, <3>1, <3>2 DEF Flagged
  <2> QED
    BY <1>1, <1>17, <2>1 DEF EndpointAcknowledge, endpointFrame, countVars
<1>18. CASE EndpointRelease
  <2>0. er /= None
    BY <1>18 DEF EndpointRelease, TypeInv
  <2>1. ers' = ers \/ Released \/ Flagged
    <3> SUFFICES ASSUME ers = er, ers' = [ers EXCEPT !.ready = 0] PROVE Flagged
      BY <1>18, <2>0 DEF EndpointRelease, Released
    <3>0. ers /= None /\ ers \in ERS
      BY <1>0, <2>0
    <3>1. ers' = [ers EXCEPT !.fin = ers.fin, !.pend = ers.pend, !.capt = ers.capt, !.ready = 0]
      BY <3>0 DEF ERS
    <3>2. ers.pend \in BOOLEAN
      BY <3>0 DEF ERS
    <3> QED
      BY <1>0, <3>0, <3>1, <3>2 DEF Flagged
  <2> QED
    BY <1>1, <1>18, <2>1 DEF EndpointRelease, endpointFrame, countVars
<1>19. CASE EndpointBarrier
  <2>1. ers' = ers \/ Reported
    BY <1>19 DEF EndpointBarrier, EndpointGoto, Reported, TypeInv
  <2> QED
    BY <1>1, <1>19, <2>1 DEF EndpointBarrier, endpointFrame, countVars
<1>20. CASE EndpointStatus
  <2>1. ers' = ers \/ Reported
    BY <1>20 DEF EndpointStatus, EndpointGoto, Reported, TypeInv
  <2> QED
    BY <1>1, <1>20, <2>1 DEF EndpointStatus, endpointFrame, countVars
<1>21. ASSUME NEW n, ProgramRecord(n)
       PROVE  ErsStep
  BY <1>21 DEF ProgramRecord, countVars, ErsStep
<1>22. ASSUME NEW k, Deliver(k)
       PROVE  ErsStep
  BY <1>22 DEF Deliver, apiVars, countVars, ErsStep
<1>23. CASE UNCHANGED vars
  BY <1>23 DEF vars, ErsStep
<1> QED
  BY <1>2, <1>3, <1>4, <1>5, <1>6, <1>7, <1>8, <1>9, <1>10, <1>11, <1>12, <1>13, <1>14,
     <1>15, <1>16, <1>17, <1>18, <1>19, <1>20, <1>21, <1>22, <1>23
  DEF Next, User, Source, Endpoint, Core, Deliveries

\* The endpoint controller's reconcile.
Begun == epc = "idle" /\ epc' = "read" /\ er' = Seen /\ plan' = plan /\ UNCHANGED apiVars
Ended == epc' = "idle" /\ er' = None /\ plan' = NoPlan
CaptureDone ==
    /\ epc = "read" /\ MustCapture
    /\ \A p \in ToCapture : ~CaptureError(p)
    /\ claims' = claims \cup {ClaimOf(p) : p \in Duties}
    /\ epc' = "captured" /\ UNCHANGED <<er, plan, ers>>
CaptureBroke == epc = "read" /\ MustCapture /\ epc' = "failed" /\ UNCHANGED <<er, plan, ers>>
PurgeDone == epc = "captured" /\ epc' = "purged" /\ UNCHANGED <<er, plan, ers, claims>>
PlanMade ==
    /\ epc = "read" /\ er /= None /\ er.fin /\ ~MustCapture
    /\ epc' = "resolved"
    /\ plan' = [h \in Hosts |->
                   IF h \in er.hosts
                   THEN [zone |-> ResolvedZone(Informer.zones, er.targets),
                         sup |-> Supported(Informer.zones,
                                           ResolvedZone(Informer.zones, er.targets))]
                   ELSE [zone |-> NoZone, sup |-> FALSE]]
    /\ UNCHANGED <<er, ers, recs, claims>>
ApplyDone ==
    /\ epc = "resolved" /\ ~NeedsBarrier
    /\ WriteRecords(DesiredNames)
    /\ epc' = "applied" /\ UNCHANGED <<er, plan, ers, claims>>
PruneDone ==
    /\ epc = "applied" /\ epc' = "pruned"
    /\ recs' = Purged(Listed \ DesiredNames)
    /\ UNCHANGED <<er, plan, ers, claims>>

EndpointStep ==
    \/ UNCHANGED endpointVars
    \/ Begun \/ Ended \/ CaptureDone \/ CaptureBroke \/ PurgeDone \/ PlanMade
    \/ ApplyDone \/ PruneDone

LEMMA EndpointSteps == [Next]_vars => EndpointStep
<1> SUFFICES ASSUME [Next]_vars PROVE EndpointStep
  OBVIOUS
<1>1. ASSUME NEW hosts, NEW targets, CreateService(hosts, targets) \/ EditService(hosts, targets)
      PROVE  UNCHANGED endpointVars
  BY <1>1 DEF CreateService, EditService
<1>2. CASE DeleteService \/ DeleteERS
  BY <1>2 DEF DeleteService, DeleteERS, EndpointStep
<1>3. ASSUME NEW z, NEW s, MoveZone(z, s) \/ UpgradeProvider(z)
      PROVE  UNCHANGED endpointVars
  BY <1>3 DEF MoveZone, UpgradeProvider
<1>4. CASE Source \/ SourceFault
  BY <1>4 DEF Source, SourceFault, SourceBegin, SourceCleanup, SourceRelease,
              SourceAddFinalizer, SourceCreate, SourceUpdate, sourceFrame, EndpointStep
<1>5. CASE EndpointBegin
  BY <1>5 DEF EndpointBegin, Begun, Seen, EndpointStep
<1>6. CASE \/ EndpointCleanup \/ EndpointAddFinalizer \/ EndpointCaptureFailed
           \/ EndpointPruneEntries \/ EndpointAcknowledge \/ EndpointRelease
           \/ EndpointBarrier \/ EndpointStatus \/ EndpointFault
  <2>1. EndpointGoto("idle")
    BY <1>6 DEF EndpointCleanup, EndpointAddFinalizer, EndpointCaptureFailed,
                EndpointPruneEntries, EndpointAcknowledge, EndpointRelease,
                EndpointBarrier, EndpointStatus, EndpointFault
  <2> QED
    BY <2>1 DEF EndpointGoto, Ended, EndpointStep
<1>7. CASE EndpointCapture
  BY <1>7 DEF EndpointCapture, EndpointGoto, CaptureDone, EndpointStep
<1>8. CASE EndpointCaptureError
  BY <1>8 DEF EndpointCaptureError, EndpointGoto, CaptureBroke, EndpointStep
<1>9. CASE EndpointPurge
  BY <1>9 DEF EndpointPurge, EndpointGoto, PurgeDone, EndpointStep
<1>10. CASE EndpointResolve
  BY <1>10 DEF EndpointResolve, PlanMade, EndpointStep
<1>11. CASE EndpointApply
  BY <1>11 DEF EndpointApply, EndpointGoto, ApplyDone, EndpointStep
<1>12. CASE EndpointPrune
  BY <1>12 DEF EndpointPrune, EndpointGoto, PruneDone, EndpointStep
<1>13. ASSUME NEW n, ProgramRecord(n)
       PROVE  UNCHANGED endpointVars
  BY <1>13 DEF ProgramRecord
<1>14. ASSUME NEW k, Deliver(k)
       PROVE  UNCHANGED endpointVars
  BY <1>14 DEF Deliver
<1>15. CASE UNCHANGED vars
  BY <1>15 DEF vars, endpointVars, EndpointStep
<1> QED
  BY <1>1, <1>2, <1>3, <1>4, <1>5, <1>6, <1>7, <1>8, <1>9, <1>10, <1>11, <1>12, <1>13,
     <1>14, <1>15
  DEF Next, User, Endpoint, Core, Deliveries, EndpointStep

\* The RecordWithdrawals, the generated RecordSets and what is owed.
ClaimsMade ==
    /\ epc = "read" /\ MustCapture
    /\ UNCHANGED <<ers, recs, owed>>
    /\ \E some \in SUBSET Duties : claims' = claims \cup {ClaimOf(p) : p \in some}
RecordsWritten ==
    /\ epc = "resolved" /\ ~NeedsBarrier
    /\ UNCHANGED <<ers, claims>>
    /\ \E names \in SUBSET DesiredNames : WriteRecords(names)
RecordsPurged ==
    /\ epc \in {"read", "captured", "applied"}
    /\ UNCHANGED <<ers, claims, owed>>
    /\ \E some \in SUBSET Listed :
          /\ epc = "applied" => some \cap DesiredNames = {}
          /\ recs' = Purged(some)
RecordsStep ==
    \/ UNCHANGED <<recs, claims, owed>>
    \/ ClaimsMade
    \/ RecordsWritten
    \/ RecordsPurged
    \/ UNCHANGED <<claims, owed>> /\ \E n \in Names : ProgramRecord(n)

LEMMA RecordsSteps == [Next]_vars => RecordsStep
<1> SUFFICES ASSUME [Next]_vars PROVE RecordsStep
  OBVIOUS
<1>1. ASSUME NEW hosts, NEW targets, CreateService(hosts, targets) \/ EditService(hosts, targets)
      PROVE  RecordsStep
  BY <1>1 DEF CreateService, EditService, RecordsStep
<1>2. CASE DeleteService \/ DeleteERS
  BY <1>2 DEF DeleteService, DeleteERS, RecordsStep
<1>3. ASSUME NEW z, NEW s, MoveZone(z, s) \/ UpgradeProvider(z)
      PROVE  RecordsStep
  BY <1>3 DEF MoveZone, UpgradeProvider, RecordsStep
<1>4. CASE Source \/ SourceFault
  BY <1>4 DEF Source, SourceFault, SourceBegin, SourceCleanup, SourceRelease, apiVars,
              SourceAddFinalizer, SourceCreate, SourceUpdate, sourceFrame, RecordsStep
<1>5. CASE \/ EndpointBegin \/ EndpointAddFinalizer \/ EndpointCaptureFailed
           \/ EndpointPruneEntries \/ EndpointAcknowledge \/ EndpointRelease
           \/ EndpointBarrier \/ EndpointStatus \/ EndpointResolve
  BY <1>5 DEF EndpointBegin, EndpointAddFinalizer, EndpointCaptureFailed, apiVars,
              EndpointPruneEntries, EndpointAcknowledge, EndpointRelease,
              EndpointBarrier, EndpointStatus, EndpointResolve, RecordsStep
<1>6. CASE EndpointCleanup \/ EndpointPurge
  BY <1>6 DEF EndpointCleanup, EndpointPurge, RecordsPurged, RecordsStep
<1>7. CASE EndpointCapture
  BY <1>7 DEF EndpointCapture, ClaimsMade, RecordsStep
<1>8. CASE EndpointCaptureError
  <2>1. PICK before \in SUBSET {p \in Duties : ~CaptureError(p)} :
              claims' = claims \cup {ClaimOf(p) : p \in before}
    BY <1>8 DEF EndpointCaptureError
  <2>2. before \in SUBSET Duties
    OBVIOUS
  <2> QED
    BY <1>8, <2>1, <2>2 DEF EndpointCaptureError, ClaimsMade, RecordsStep
<1>9. CASE EndpointApply
  BY <1>9 DEF EndpointApply, RecordsWritten, RecordsStep
<1>10. CASE EndpointPrune
  <2>1. Listed \ DesiredNames \in SUBSET Listed /\ (Listed \ DesiredNames) \cap DesiredNames = {}
    OBVIOUS
  <2> QED
    BY <1>10, <2>1 DEF EndpointPrune, RecordsPurged, RecordsStep
<1>11. CASE EndpointFault
  <2>1. UNCHANGED ers
    BY <1>11 DEF EndpointFault
  <2>2. CASE /\ epc = "read" /\ MustCapture
             /\ \E some \in SUBSET {p \in Duties : ~CaptureError(p)} :
                   claims' = claims \cup {ClaimOf(p) : p \in some}
             /\ UNCHANGED <<recs, owed>>
    <3>1. PICK some \in SUBSET {p \in Duties : ~CaptureError(p)} :
                claims' = claims \cup {ClaimOf(p) : p \in some}
      BY <2>2
    <3>2. some \in SUBSET Duties
      OBVIOUS
    <3> QED
      BY <2>1, <2>2, <3>1, <3>2 DEF ClaimsMade, RecordsStep
  <2>3. CASE /\ epc = "resolved" /\ ~NeedsBarrier
             /\ \E some \in SUBSET DesiredNames : WriteRecords(some)
             /\ UNCHANGED claims
    BY <2>1, <2>3 DEF RecordsWritten, RecordsStep
  <2>4. CASE /\ epc \in {"captured", "applied"}
             /\ \E some \in SUBSET Listed :
                   recs' = Purged(some \ (IF epc = "applied" THEN DesiredNames ELSE {}))
             /\ UNCHANGED <<claims, owed>>
    <3>1. PICK some \in SUBSET Listed :
                recs' = Purged(some \ (IF epc = "applied" THEN DesiredNames ELSE {}))
      BY <2>4
    <3> DEFINE others == some \ (IF epc = "applied" THEN DesiredNames ELSE {})
    <3>2. others \in SUBSET Listed /\ (epc = "applied" => others \cap DesiredNames = {})
      OBVIOUS
    <3> QED
      BY <2>1, <2>4, <3>1, <3>2 DEF RecordsPurged, RecordsStep
  <2> QED
    BY <1>11, <2>2, <2>3, <2>4 DEF EndpointFault, RecordsStep
<1>12. ASSUME NEW n \in Names, ProgramRecord(n)
       PROVE  RecordsStep
  BY <1>12 DEF ProgramRecord, RecordsStep
<1>13. ASSUME NEW k, Deliver(k)
       PROVE  RecordsStep
  BY <1>13 DEF Deliver, apiVars, RecordsStep
<1>14. CASE UNCHANGED vars
  BY <1>14 DEF vars, RecordsStep
<1> QED
  BY <1>1, <1>2, <1>3, <1>4, <1>5, <1>6, <1>7, <1>8, <1>9, <1>10, <1>11, <1>12, <1>13, <1>14
  DEF Next, User, Endpoint, Core, Deliveries

\* The Zones, the informers and the bounds.
LEMMA ZoneSteps ==
    [Next]_vars =>
        \/ UNCHANGED <<zones, moves>>
        \/ /\ moves < MaxZoneMoves /\ moves' = moves + 1
           /\ \E z \in Zones :
                 \/ \E s \in {"absent", "rejects", "accepts"} :
                       zones' = [zones EXCEPT ![z].is = s]
                 \/ zones' = [zones EXCEPT ![z].sup = TRUE]
<1> SUFFICES ASSUME [Next]_vars, ~UNCHANGED <<zones, moves>>
             PROVE  /\ moves < MaxZoneMoves /\ moves' = moves + 1
                    /\ \E z \in Zones :
                          \/ \E s \in {"absent", "rejects", "accepts"} :
                                zones' = [zones EXCEPT ![z].is = s]
                          \/ zones' = [zones EXCEPT ![z].sup = TRUE]
  OBVIOUS
<1>1. \/ \E z \in Zones, s \in {"absent", "rejects", "accepts"} : MoveZone(z, s)
      \/ \E z \in Zones : UpgradeProvider(z)
  <2>1. ASSUME NEW hosts, NEW targets, CreateService(hosts, targets) \/ EditService(hosts, targets)
        PROVE  FALSE
    BY <2>1 DEF CreateService, EditService
  <2>2. ~(DeleteService \/ DeleteERS)
    BY DEF DeleteService, DeleteERS, countVars
  <2>3. ~(Source \/ SourceFault)
    BY DEF Source, SourceFault, SourceBegin, SourceCleanup, SourceRelease, apiVars,
           SourceAddFinalizer, SourceCreate, SourceUpdate, sourceFrame
  <2>4. ~(Endpoint \/ EndpointFault)
    BY DEF Endpoint, EndpointBegin, EndpointCleanup, EndpointAddFinalizer, EndpointCapture,
           EndpointCaptureError, EndpointCaptureFailed, EndpointPruneEntries, EndpointPurge,
           EndpointAcknowledge, EndpointRelease, EndpointResolve, EndpointBarrier,
           EndpointApply, EndpointPrune, EndpointStatus, EndpointFault, endpointFrame,
           apiVars, countVars
  <2>5. ~(Core \/ Deliveries)
    BY DEF Core, Deliveries, ProgramRecord, Deliver, apiVars, countVars
  <2>6. ~UNCHANGED vars
    BY DEF vars
  <2> QED
    BY <2>1, <2>2, <2>3, <2>4, <2>5, <2>6 DEF Next, User
<1> QED
  BY <1>1 DEF MoveZone, UpgradeProvider

Delivered ==
    /\ Lag
    /\ \/ cache' = [cache EXCEPT !.svc = svc]
       \/ cache' = [cache EXCEPT !.ers = ers]
       \/ cache' = [cache EXCEPT !.recs = recs]
       \/ cache' = [cache EXCEPT !.zones = zones]
    /\ UNCHANGED <<apiVars, countVars, sourceVars, endpointVars, faults, owed>>

LEMMA CacheSteps == TypeOK /\ [Next]_vars => cache' = cache \/ Delivered
<1> SUFFICES ASSUME TypeOK, [Next]_vars, cache' /= cache PROVE Delivered
  OBVIOUS
<1>1. \E k \in {"svc", "ers", "recs", "zones"} : Deliver(k)
  <2>1. ASSUME NEW hosts, NEW targets, CreateService(hosts, targets) \/ EditService(hosts, targets)
        PROVE  FALSE
    BY <2>1 DEF CreateService, EditService
  <2>2. ~(DeleteService \/ DeleteERS)
    BY DEF DeleteService, DeleteERS
  <2>3. ASSUME NEW z, NEW s, MoveZone(z, s) \/ UpgradeProvider(z)
        PROVE  FALSE
    BY <2>3 DEF MoveZone, UpgradeProvider
  <2>4. ~(Source \/ SourceFault)
    BY DEF Source, SourceFault, SourceBegin, SourceCleanup, SourceRelease,
           SourceAddFinalizer, SourceCreate, SourceUpdate, sourceFrame
  <2>5. ~(Endpoint \/ EndpointFault)
    BY DEF Endpoint, EndpointBegin, EndpointCleanup, EndpointAddFinalizer, EndpointCapture,
           EndpointCaptureError, EndpointCaptureFailed, EndpointPruneEntries, EndpointPurge,
           EndpointAcknowledge, EndpointRelease, EndpointResolve, EndpointBarrier,
           EndpointApply, EndpointPrune, EndpointStatus, EndpointFault, endpointFrame
  <2>6. ~Core
    BY DEF Core, ProgramRecord
  <2>7. ~UNCHANGED vars
    BY DEF vars
  <2> QED
    BY <2>1, <2>2, <2>3, <2>4, <2>5, <2>6, <2>7 DEF Next, User, Deliveries
<1>2. PICK k \in {"svc", "ers", "recs", "zones"} : Deliver(k)
  BY <1>1
<1>3. /\ Server["svc"] = svc /\ Server["ers"] = ers
      /\ Server["recs"] = recs /\ Server["zones"] = zones
  BY DEF Server
<1>4. /\ Lag /\ cache' = [cache EXCEPT ![k] = Server[k]]
      /\ UNCHANGED <<apiVars, countVars, sourceVars, endpointVars, faults, owed>>
  BY <1>2 DEF Deliver
<1> QED
  BY <1>3, <1>4 DEF Delivered

\* An informer shows what it showed, or what is.
LEMMA SeenSteps == TypeOK /\ [Next]_vars => Seen' = Seen \/ Seen' = ers'
<1> SUFFICES ASSUME TypeOK, [Next]_vars PROVE Seen' = Seen \/ Seen' = ers'
  OBVIOUS
<1>1. CASE ~Lag
  BY <1>1 DEF Seen, Informer, Server
<1>2. CASE Lag
  <2>1. Seen = cache.ers /\ Seen' = cache'.ers
    BY <1>2 DEF Seen, Informer
  <2>2. CASE cache' = cache
    BY <2>1, <2>2
  <2>3. CASE Delivered
    <3>1. cache'.ers = cache.ers \/ cache'.ers = ers
      BY <2>3 DEF Delivered, TypeOK
    <3>2. ers' = ers
      BY <2>3 DEF Delivered, apiVars
    <3> QED
      BY <2>1, <3>1, <3>2
  <2> QED
    BY <2>2, <2>3, CacheSteps
<1> QED
  BY <1>1, <1>2

LEMMA CounterSteps ==
    [Next]_vars => /\ edits' = edits \/ (edits < MaxEdits /\ edits' = edits + 1)
                   /\ faults' = faults \/ (faults < MaxFaults /\ faults' = faults + 1)
<1> SUFFICES ASSUME [Next]_vars
             PROVE  /\ edits' = edits \/ (edits < MaxEdits /\ edits' = edits + 1)
                    /\ faults' = faults \/ (faults < MaxFaults /\ faults' = faults + 1)
  OBVIOUS
<1>1. ASSUME NEW hosts, NEW targets, CreateService(hosts, targets) \/ EditService(hosts, targets)
      PROVE  edits < MaxEdits /\ edits' = edits + 1 /\ faults' = faults
  BY <1>1 DEF CreateService, EditService
<1>2. CASE DeleteService \/ DeleteERS
  BY <1>2 DEF DeleteService, DeleteERS, countVars
<1>3. ASSUME NEW z, NEW s, MoveZone(z, s) \/ UpgradeProvider(z)
      PROVE  UNCHANGED <<edits, faults>>
  BY <1>3 DEF MoveZone, UpgradeProvider
<1>4. CASE Source \/ SourceFault
  BY <1>4 DEF Source, SourceFault, SourceBegin, SourceCleanup, SourceRelease, Fault,
         SourceAddFinalizer, SourceCreate, SourceUpdate, sourceFrame
<1>5. CASE Endpoint \/ EndpointFault
  BY <1>5 DEF Endpoint, EndpointBegin, EndpointCleanup, EndpointAddFinalizer,
         EndpointCapture, EndpointCaptureError, EndpointCaptureFailed, EndpointPruneEntries,
         EndpointPurge, EndpointAcknowledge, EndpointRelease, EndpointResolve,
         EndpointBarrier, EndpointApply, EndpointPrune, EndpointStatus, EndpointFault,
         endpointFrame, countVars, Fault
<1>6. CASE Core \/ Deliveries
  BY <1>6 DEF Core, Deliveries, ProgramRecord, Deliver, countVars
<1>7. CASE UNCHANGED vars
  BY <1>7 DEF vars
<1> QED
  BY <1>1, <1>2, <1>3, <1>4, <1>5, <1>6, <1>7 DEF Next, User

-----------------------------------------------------------------------------
(* Every step keeps the types.                                             *)

LEMMA StatusTyped ==
    ASSUME TypeOK, er \in ERS, ers = er, NEW zs, NEW ready \in BOOLEAN
    PROVE  WithStatus(Protection(zs), ready) \in ERS
<1>1. Protection(zs) \in {"True", "False", "Unknown"}
  BY DEF Protection
<1>2. Bound \in [Hosts -> Zones \cup {NoZone}]
  BY DEF Bound, TypeOK
<1>3. er.gen \in Nat /\ 0 \in Nat
  BY DEF ERS
<1> DEFINE p == Protection(zs)
           r == IF ready /\ ~er.pend THEN er.gen ELSE 0
<1>4. WithStatus(p, ready) = [er EXCEPT !.prot = p, !.protGen = er.gen, !.capt = er.gen,
                                        !.ready = r, !.bind = Bound]
  BY DEF WithStatus
<1>5. p \in {"True", "False", "Unknown"} /\ r \in Nat
  BY <1>1, <1>3
<1> HIDE DEF p, r
<1> QED
  BY <1>2, <1>3, <1>4, <1>5 DEF ERS, p

LEMMA ErsTyped ==
    ASSUME TypeInv, [Next]_vars
    PROVE  ers' \in ERS \cup {None} /\ uids' \in 0 .. MaxUids
<1>0. ers \in ERS \cup {None} /\ er \in ERS \cup {None} /\ uids \in 0 .. MaxUids /\ MaxUids \in Nat
  BY RetirementParameters DEF TypeInv, TypeOK
<1>9. uids' \in 0 .. MaxUids
  BY <1>0, ErsSteps DEF ErsStep, ErsChange, Created
<1> SUFFICES ers' \in ERS \cup {None}
  BY <1>9
<1>1. CASE Created
  <2>1. uids + 1 \in 1 .. MaxUids
    BY <1>0, <1>1 DEF Created
  <2>2. [h \in Hosts |-> NoZone] \in [Hosts -> Zones \cup {NoZone}]
    OBVIOUS
  <2>3. sv.hosts \in SUBSET Hosts /\ sv.targets \in SUBSET Targets
    BY <1>1 DEF Created, Service
  <2>4. NewERS(uids + 1, sv) \in ERS
    BY <2>1, <2>2, <2>3 DEF NewERS, ERS
  <2> QED
    BY <1>1, <2>1, <2>4 DEF Created
<1>2. CASE Dropped \/ Released
  BY <1>0, <1>2 DEF Dropped, Released
<1>3. CASE Marked
  <2>1. ers \in ERS /\ ers.gen + 1 \in Nat
    BY <1>0, <1>3 DEF Marked, ERS
  <2>2. [ers EXCEPT !.deleting = TRUE, !.gen = ers.gen + 1] \in ERS
    BY <2>1 DEF ERS
  <2> QED
    BY <1>3, <2>2 DEF Marked
<1>4. CASE Rewritten
  BY <1>0, <1>4, IntentTyped DEF Rewritten
<1>5. CASE Emptied
  <2>1. ers \in ERS /\ ers.gen + 1 \in Nat
    BY <1>0, <1>5 DEF Emptied, ERS
  <2>2. [ers EXCEPT !.retired = {}, !.gen = ers.gen + 1] \in ERS
    BY <2>1 DEF ERS
  <2> QED
    BY <1>5, <2>2 DEF Emptied
<1>6. CASE Reported
  <2>1. AllProgrammed(Informer.recs) \in BOOLEAN
    BY DEF AllProgrammed
  <2> QED
    BY <1>0, <1>6, <2>1, StatusTyped DEF Reported, TypeInv
<1>7. CASE Flagged
  <2>1. PICK fin \in {TRUE, ers.fin}, pend \in BOOLEAN, capt \in Nat, ready \in {0, ers.ready} :
              ers' = [ers EXCEPT !.fin = fin, !.pend = pend, !.capt = capt, !.ready = ready]
    BY <1>7 DEF Flagged
  <2>2. ers \in ERS /\ fin \in BOOLEAN /\ ready \in Nat
    <3>1. ers \in ERS
      BY <1>0, <1>7 DEF Flagged
    <3>2. ers.fin \in BOOLEAN /\ ers.ready \in Nat
      BY <3>1 DEF ERS
    <3>3. fin = TRUE \/ fin = ers.fin
      OBVIOUS
    <3>4. fin \in BOOLEAN
      BY <3>2, <3>3
    <3>5. ready \in Nat
      BY <3>2
    <3> QED
      BY <3>1, <3>4, <3>5
  <2>3. [ers EXCEPT !.fin = fin, !.pend = pend, !.capt = capt, !.ready = ready] \in ERS
    BY <2>2 DEF ERS
  <2> QED
    BY <2>1, <2>3
<1>8. CASE UNCHANGED ers
  BY <1>0, <1>8
<1> QED
  BY <1>1, <1>2, <1>3, <1>4, <1>5, <1>6, <1>7, <1>8, ErsSteps DEF ErsStep, ErsChange

\* What is captured: pairs of an entry, or of an ERS that is deleting.
LEMMA CapturedPairs ==
    ASSUME NEW p \in ToCapture
    PROVE  \/ \E e \in er.retired : \E h \in e.hosts, a \in e.addrs : p = <<h, a, e.gen>>
           \/ /\ er.deleting
              /\ \E h \in er.hosts, a \in er.targets \cap Addrs : p = <<h, a, er.gen>>
<1>1. CASE p \in UNION {{<<h, a, e.gen>> : h \in e.hosts, a \in e.addrs} : e \in er.retired}
  <2>1. PICK e \in er.retired : p \in {<<h, a, e.gen>> : h \in e.hosts, a \in e.addrs}
    BY <1>1
  <2> QED
    BY <2>1
<1>2. CASE /\ er.deleting
           /\ p \in {<<h, a, er.gen>> : h \in er.hosts, a \in Addresses(er.targets)}
  BY <1>2 DEF Addresses
<1> DEFINE live == {<<h, a, er.gen>> : h \in er.hosts, a \in Addresses(er.targets)}
           parked == UNION {{<<h, a, e.gen>> : h \in e.hosts, a \in e.addrs} : e \in er.retired}
<1>3. ToCapture = parked \cup (IF er.deleting /\ Protected(er) THEN live ELSE {})
  BY DEF ToCapture
<1> HIDE DEF live, parked
<1>4. p \in parked \/ (er.deleting /\ p \in live)
  BY <1>3
<1> QED
  BY <1>1, <1>2, <1>4 DEF live, parked

LEMMA ClaimsTyped ==
    ASSUME TypeOK, er \in ERS, NEW p \in Duties
    PROVE  ClaimOf(p) \in Claim
<1>1. p \in ToCapture /\ ClaimOf(p).zone /= NoZone
  BY DEF Duties, Supported
<1>2. /\ er.uid \in 1 .. MaxUids /\ er.gen \in Nat /\ er.hosts \subseteq Hosts
      /\ er.retired \subseteq Entry /\ er.bind \in [Hosts -> Zones \cup {NoZone}]
  BY DEF ERS
<1>3. PICK h \in Hosts, a \in Addrs, g \in Nat : p = <<h, a, g>>
  BY <1>1, <1>2, CapturedPairs DEF Entry
<1>4. WithdrawalZone(h, a).zone \in Zones \cup {NoZone}
  BY <1>2, ResolvedTyped DEF WithdrawalZone
<1>5. /\ p[1] = h /\ p[2] = a /\ p[3] = g
      /\ ClaimOf(p).zone = WithdrawalZone(h, a).zone
  BY <1>3 DEF ClaimOf
<1>6. WithdrawalZone(h, a).zone \in Zones
  BY <1>1, <1>4, <1>5
<1> QED
  BY <1>2, <1>5, <1>6 DEF ClaimOf, Claim

LEMMA RecordsTyped ==
    ASSUME TypeInv, [Next]_vars
    PROVE  /\ recs' \in RecordSets
           /\ claims' \subseteq Claim
           /\ owed' \in [Pairs -> [uid : 0 .. MaxUids, gen : Nat]]
<1>0. /\ recs \in RecordSets /\ claims \subseteq Claim
      /\ owed \in [Pairs -> [uid : 0 .. MaxUids, gen : Nat]]
      /\ er \in ERS \cup {None}
  BY DEF TypeInv, TypeOK
<1>1. CASE UNCHANGED <<recs, claims, owed>>
  BY <1>0, <1>1
<1>2. CASE ClaimsMade
  <2>1. er \in ERS
    BY <1>0, <1>2 DEF ClaimsMade, MustCapture
  <2>2. PICK some \in SUBSET Duties : claims' = claims \cup {ClaimOf(p) : p \in some}
    BY <1>2 DEF ClaimsMade
  <2>3. \A p \in some : ClaimOf(p) \in Claim
    BY <2>1, ClaimsTyped DEF TypeInv
  <2> QED
    BY <1>0, <1>2, <2>2, <2>3 DEF ClaimsMade
<1>3. CASE RecordsWritten
  <2>1. er \in ERS
    BY <1>0, <1>3 DEF RecordsWritten, TypeInv
  <2>2. er.uid \in 0 .. MaxUids /\ er.gen \in Nat /\ er.targets \in SUBSET Targets
    BY <2>1, RetirementParameters DEF ERS
  <2>3. PICK names : WriteRecords(names)
    BY <1>3 DEF RecordsWritten
  <2>4. ASSUME NEW r \in RecordSet \cup {None}
        PROVE  Written(r) \in RecordSet
    BY <2>2, <2>4 DEF Written, RecordSet
  <2>5. recs' \in RecordSets
    BY <1>0, <2>3, <2>4 DEF WriteRecords, RecordSets
  <2>6. [uid |-> er.uid, gen |-> er.gen] \in [uid : 0 .. MaxUids, gen : Nat]
    BY <2>2
  <2>7. owed' \in [Pairs -> [uid : 0 .. MaxUids, gen : Nat]]
    BY <1>0, <2>3, <2>6 DEF WriteRecords
  <2> QED
    BY <1>0, <1>3, <2>5, <2>7 DEF RecordsWritten
<1>4. CASE RecordsPurged
  <2>1. ASSUME NEW names PROVE Purged(names) \in RecordSets
    BY <1>0 DEF Purged, RecordSets, RecordSet
  <2> QED
    BY <1>0, <1>4, <2>1 DEF RecordsPurged
<1>5. CASE UNCHANGED <<claims, owed>> /\ \E n \in Names : ProgramRecord(n)
  <2>1. PICK n \in Names : ProgramRecord(n)
    BY <1>5
  <2>2. recs[n] \in RecordSet
    BY <1>0, <2>1 DEF ProgramRecord, RecordSets
  <2>3. [recs[n] EXCEPT !.programmed = TRUE] \in RecordSet
    BY <2>2 DEF RecordSet
  <2>4. recs' \in RecordSets
    BY <1>0, <2>1, <2>3 DEF ProgramRecord, RecordSets
  <2> QED
    BY <1>0, <1>5, <2>4
<1> QED
  BY <1>1, <1>2, <1>3, <1>4, <1>5, RecordsSteps DEF RecordsStep

LEMMA EndpointTyped ==
    ASSUME TypeInv, [Next]_vars
    PROVE  /\ epc' \in EndpointPhases
           /\ er' \in ERS \cup {None}
           /\ plan' \in [Hosts -> [zone : Zones \cup {NoZone}, sup : BOOLEAN]]
           /\ epc' \notin {"idle", "read"} => er' /= None
<1>0. /\ epc \in EndpointPhases /\ er \in ERS \cup {None} /\ Seen \in ERS \cup {None}
      /\ plan \in [Hosts -> [zone : Zones \cup {NoZone}, sup : BOOLEAN]]
      /\ epc \notin {"idle", "read"} => er /= None
  BY InformerTyped DEF TypeInv, TypeOK, Seen
<1>1. CASE UNCHANGED endpointVars
  BY <1>0, <1>1 DEF endpointVars
<1>2. CASE Begun
  BY <1>0, <1>2 DEF Begun, EndpointPhases
<1>3. CASE Ended
  <2>1. NoPlan \in [Hosts -> [zone : Zones \cup {NoZone}, sup : BOOLEAN]]
    BY DEF NoPlan
  <2> QED
    BY <1>3, <2>1 DEF Ended, EndpointPhases
<1>4. CASE CaptureDone \/ CaptureBroke
  BY <1>0, <1>4 DEF CaptureDone, CaptureBroke, MustCapture, EndpointPhases
<1>5. CASE PurgeDone
  BY <1>0, <1>5 DEF PurgeDone, EndpointPhases
<1>6. CASE PlanMade
  <2> DEFINE z == ResolvedZone(Informer.zones, er.targets)
             s == Supported(Informer.zones, z)
  <2>1. plan' = [h \in Hosts |-> IF h \in er.hosts THEN [zone |-> z, sup |-> s]
                                 ELSE [zone |-> NoZone, sup |-> FALSE]]
    BY <1>6 DEF PlanMade
  <2>2. z \in Zones \cup {NoZone}
    BY ResolvedTyped
  <2>3. s \in BOOLEAN
    BY <2>2, InformerTyped DEF TypeInv, Supported, ZoneStates
  <2> HIDE DEF z, s
  <2>4. plan' \in [Hosts -> [zone : Zones \cup {NoZone}, sup : BOOLEAN]]
    BY <2>1, <2>2, <2>3
  <2> QED
    BY <1>0, <1>6, <2>4 DEF PlanMade, EndpointPhases
<1>7. CASE ApplyDone \/ PruneDone
  BY <1>0, <1>7 DEF ApplyDone, PruneDone, EndpointPhases
<1> QED
  BY <1>1, <1>2, <1>3, <1>4, <1>5, <1>6, <1>7, EndpointSteps DEF EndpointStep

LEMMA ZonesTyped ==
    ASSUME TypeOK, [Next]_vars
    PROVE  zones' \in [Zones -> ZoneStates] /\ moves' \in 0 .. MaxZoneMoves
<1>0. zones \in [Zones -> ZoneStates] /\ moves \in 0 .. MaxZoneMoves /\ MaxZoneMoves \in Nat
  BY RetirementParameters DEF TypeOK
<1>1. CASE UNCHANGED <<zones, moves>>
  BY <1>0, <1>1
<1>2. CASE /\ moves < MaxZoneMoves /\ moves' = moves + 1
           /\ \E z \in Zones :
                 \/ \E s \in {"absent", "rejects", "accepts"} :
                       zones' = [zones EXCEPT ![z].is = s]
                 \/ zones' = [zones EXCEPT ![z].sup = TRUE]
  <2>1. moves' \in 0 .. MaxZoneMoves
    BY <1>0, <1>2
  <2>2. ASSUME NEW z \in Zones, NEW s \in {"absent", "rejects", "accepts"}
        PROVE  /\ [zones EXCEPT ![z].is = s] \in [Zones -> ZoneStates]
               /\ [zones EXCEPT ![z].sup = TRUE] \in [Zones -> ZoneStates]
    BY <1>0 DEF ZoneStates
  <2>3. PICK z \in Zones :
           \/ \E s \in {"absent", "rejects", "accepts"} : zones' = [zones EXCEPT ![z].is = s]
           \/ zones' = [zones EXCEPT ![z].sup = TRUE]
    BY <1>2
  <2>4. CASE zones' = [zones EXCEPT ![z].sup = TRUE]
    <3>1. "absent" \in {"absent", "rejects", "accepts"}
      OBVIOUS
    <3>2. [zones EXCEPT ![z].sup = TRUE] \in [Zones -> ZoneStates]
      BY <2>2, <3>1
    <3> QED
      BY <2>1, <2>4, <3>2
  <2>5. CASE \E s \in {"absent", "rejects", "accepts"} : zones' = [zones EXCEPT ![z].is = s]
    <3>1. PICK s \in {"absent", "rejects", "accepts"} : zones' = [zones EXCEPT ![z].is = s]
      BY <2>5
    <3>2. [zones EXCEPT ![z].is = s] \in [Zones -> ZoneStates]
      BY <2>2
    <3> QED
      BY <2>1, <3>1, <3>2
  <2> QED
    BY <2>3, <2>4, <2>5
<1> QED
  BY <1>1, <1>2, ZoneSteps

LEMMA CacheTyped ==
    ASSUME TypeOK, [Next]_vars
    PROVE  cache' \in [svc : Service \cup {None}, ers : ERS \cup {None},
                       recs : RecordSets, zones : [Zones -> ZoneStates]]
<1> HIDE DEF Service, ERS, RecordSets, ZoneStates
<1> QED
  BY CacheSteps DEF TypeOK, Delivered

LEMMA SourceTyped ==
    ASSUME TypeInv, [Next]_vars
    PROVE  /\ svc' \in Service \cup {None}
           /\ spc' \in SourcePhases
           /\ sv' \in Service \cup {None}
           /\ spc' \in {"apply", "release"} => sv' /= None
<1> DEFINE Goal == /\ svc' \in Service \cup {None}
                   /\ spc' \in SourcePhases
                   /\ sv' \in Service \cup {None}
                   /\ spc' \in {"apply", "release"} => sv' /= None
<1>0. /\ svc \in Service \cup {None} /\ sv \in Service \cup {None} /\ spc \in SourcePhases
      /\ Informer.svc \in Service \cup {None}
      /\ spc \in {"apply", "release"} => sv /= None
  BY InformerTyped DEF TypeInv, TypeOK
<1>1. ASSUME NEW next \in SourcePhases, SourceGoto(next), svc' \in Service \cup {None},
             next \in {"apply", "release"} => sv /= None
      PROVE  Goal
  BY <1>0, <1>1 DEF SourceGoto, SourcePhases
<1>2. ASSUME UNCHANGED sourceVars, svc' \in Service \cup {None}
      PROVE  Goal
  BY <1>0, <1>2 DEF sourceVars
<1>3. ASSUME NEW s \in Service, NEW hosts \in SUBSET Hosts, NEW targets \in SUBSET Targets,
             NEW b \in BOOLEAN
      PROVE  /\ [s EXCEPT !.hosts = hosts, !.targets = targets] \in Service
             /\ [s EXCEPT !.deleting = TRUE] \in Service
             /\ [s EXCEPT !.fin = b] \in Service
  BY <1>3 DEF Service
<1>4. ASSUME NEW hosts \in SUBSET Hosts, NEW targets \in SUBSET Targets,
             CreateService(hosts, targets) \/ EditService(hosts, targets)
      PROVE  Goal
  <2>1. [hosts |-> hosts, targets |-> targets, deleting |-> FALSE, fin |-> FALSE] \in Service
    BY DEF Service
  <2>2. ASSUME CreateService(hosts, targets) PROVE svc' \in Service \cup {None}
    BY <2>1, <2>2 DEF CreateService
  <2>3. ASSUME EditService(hosts, targets) PROVE svc' \in Service \cup {None}
    <3>1. svc \in Service /\ svc' = [svc EXCEPT !.hosts = hosts, !.targets = targets]
      BY <1>0, <2>3 DEF EditService
    <3> QED
      BY <1>3, <3>1
  <2>4. svc' \in Service \cup {None}
    BY <1>4, <2>2, <2>3
  <2> QED
    BY <1>2, <1>4, <2>4 DEF CreateService, EditService
<1>5. CASE DeleteService
  <2>1. svc' \in Service \cup {None}
    BY <1>0, <1>3, <1>5 DEF DeleteService
  <2> QED
    BY <1>2, <1>5, <2>1 DEF DeleteService
<1>6. CASE DeleteERS
  BY <1>0, <1>2, <1>6 DEF DeleteERS
<1>7. ASSUME NEW z, NEW s, MoveZone(z, s) \/ UpgradeProvider(z)
      PROVE  Goal
  BY <1>0, <1>2, <1>7 DEF MoveZone, UpgradeProvider
<1>8. CASE SourceBegin
  BY <1>0, <1>8 DEF SourceBegin, apiVars, SourcePhases
<1>9. CASE SourceCleanup
  <2>1. PICK next \in {"release", "idle"} : SourceGoto(next) /\ (next = "release" => sv /= None)
    BY <1>9 DEF SourceCleanup
  <2> QED
    BY <1>0, <1>1, <1>9, <2>1 DEF SourceCleanup, SourcePhases
<1>10. CASE SourceRelease
  <2>0. sv /= None
    BY <1>0, <1>10 DEF SourceRelease
  <2>1. svc' = svc \/ svc' = None \/ (svc \in Service /\ svc' = [svc EXCEPT !.fin = FALSE])
    BY <1>0, <1>10, <2>0 DEF SourceRelease
  <2>2. svc' \in Service \cup {None}
    BY <1>0, <1>3, <2>1
  <2> QED
    BY <1>0, <1>1, <1>10, <2>2 DEF SourceRelease, SourcePhases
<1>11. CASE SourceAddFinalizer
  <2>0. sv \in Service /\ sv /= None
    BY <1>0, <1>11 DEF SourceAddFinalizer, Wanted
  <2>1. svc' = svc \/ (svc \in Service /\ svc' = [svc EXCEPT !.fin = TRUE])
    BY <2>0, <1>11 DEF SourceAddFinalizer
  <2>2. svc' \in Service \cup {None}
    BY <1>0, <1>3, <2>1
  <2>3. [sv EXCEPT !.fin = TRUE] \in Service
    BY <1>3, <2>0
  <2>4. CASE SourceGoto("apply") \/ SourceGoto("idle")
    BY <1>1, <2>0, <2>2, <2>4 DEF SourcePhases
  <2>5. CASE spc' = "apply" /\ sv' = [sv EXCEPT !.fin = TRUE]
    BY <2>2, <2>3, <2>5, NoneIsNot DEF SourcePhases
  <2> QED
    BY <1>11, <2>4, <2>5 DEF SourceAddFinalizer
<1>12. CASE SourceCreate
  BY <1>0, <1>1, <1>12 DEF SourceCreate, SourcePhases
<1>13. CASE SourceUpdate
  <2>1. PICK next \in {"apply", "idle"} : SourceGoto(next)
    BY <1>13 DEF SourceUpdate
  <2>2. sv /= None
    BY <1>0, <1>13 DEF SourceUpdate
  <2> QED
    BY <1>0, <1>1, <1>13, <2>1, <2>2 DEF SourceUpdate, SourcePhases
<1>14. CASE SourceFault
  BY <1>0, <1>1, <1>14 DEF SourceFault, apiVars, SourcePhases
<1>15. CASE Endpoint \/ EndpointFault
  <2>1. UNCHANGED <<svc, sourceVars>>
    BY <1>15 DEF Endpoint, EndpointBegin, EndpointCleanup, EndpointAddFinalizer,
         EndpointCapture, EndpointCaptureError, EndpointCaptureFailed, EndpointPruneEntries,
         EndpointPurge, EndpointAcknowledge, EndpointRelease, EndpointResolve,
         EndpointBarrier, EndpointApply, EndpointPrune, EndpointStatus, EndpointFault,
         endpointFrame, apiVars
  <2> QED
    BY <1>0, <1>2, <2>1
<1>16. CASE Core \/ Deliveries
  BY <1>0, <1>2, <1>16 DEF Core, Deliveries, ProgramRecord, Deliver, apiVars
<1>17. CASE UNCHANGED vars
  BY <1>0, <1>2, <1>17 DEF vars, sourceVars
<1> QED
  BY <1>4, <1>5, <1>6, <1>7, <1>8, <1>9, <1>10, <1>11, <1>12, <1>13, <1>14, <1>15, <1>16,
     <1>17
  DEF Next, User, Source

LEMMA InitType == Init => TypeInv
<1> SUFFICES ASSUME Init PROVE TypeInv
  OBVIOUS
<1>1. Legacy \in Service
  BY RetirementParameters DEF Legacy, Service
<1>2. NewERS(1, Legacy) \in ERS /\ 1 \in 0 .. MaxUids
  <2>1. 1 \in 1 .. MaxUids /\ 1 \in 0 .. MaxUids
    BY RetirementParameters
  <2>2. [h \in Hosts |-> NoZone] \in [Hosts -> Zones \cup {NoZone}]
    OBVIOUS
  <2>3. Legacy.hosts \in SUBSET Hosts /\ Legacy.targets \in SUBSET Targets
    BY <1>1 DEF Service
  <2> QED
    BY <2>1, <2>2, <2>3 DEF NewERS, ERS
<1>3. [NewERS(1, Legacy) EXCEPT !.fin = FALSE] \in ERS
  BY <1>2 DEF ERS
<1>4. /\ svc \in Service \cup {None} /\ ers \in ERS \cup {None}
      /\ uids \in 0 .. MaxUids
  <2>1. 0 \in 0 .. MaxUids
    BY RetirementParameters
  <2>2. uids = 0 \/ uids = 1
    BY DEF Init
  <2>3. svc \in Service \cup {None} /\ ers \in ERS \cup {None}
    BY <1>1, <1>3 DEF Init
  <2> QED
    BY <1>2, <2>1, <2>2, <2>3
<1>5. zones \in [Zones -> ZoneStates]
  BY ZonesAtFirst DEF Init
<1>6. NoPlan \in [Hosts -> [zone : Zones \cup {NoZone}, sup : BOOLEAN]]
  BY DEF NoPlan
<1>7. NoRecords \in RecordSets
  BY DEF NoRecords, RecordSets
<1>8. owed \in [Pairs -> [uid : 0 .. MaxUids, gen : Nat]]
  BY RetirementParameters DEF Init, NoDuty
<1> HIDE DEF Service, ERS, RecordSets, ZoneStates, NoPlan, NoRecords
<1>9. cache \in [svc : Service \cup {None}, ers : ERS \cup {None},
                 recs : RecordSets, zones : [Zones -> ZoneStates]]
  BY <1>4, <1>5, <1>7 DEF Init, Server
<1> QED
  BY <1>4, <1>5, <1>6, <1>7, <1>8, <1>9, RetirementParameters
  DEF Init, TypeInv, TypeOK, SourcePhases, EndpointPhases

LEMMA NextType == TypeInv /\ [Next]_vars => TypeInv'
<1> SUFFICES ASSUME TypeInv, [Next]_vars PROVE TypeInv'
  OBVIOUS
<1>1. TypeOK
  BY DEF TypeInv
<1>2. edits' \in 0 .. MaxEdits /\ faults' \in 0 .. MaxFaults
  BY <1>1, CounterSteps, RetirementParameters DEF TypeOK
<1>3. TypeOK'
  BY <1>1, <1>2, ErsTyped, RecordsTyped, EndpointTyped, ZonesTyped, CacheTyped, SourceTyped
  DEF TypeOK
<1> QED
  BY <1>3, EndpointTyped, SourceTyped DEF TypeInv

\* Every reachable state is well typed: no write of either controller, on whatever
\* copy it is based, makes an ERS, a RecordSet or a RecordWithdrawal out of nothing
\* (endpointrecordset and service controllers).
THEOREM TypeCorrect == Spec => []TypeOK
<1>1. Spec => []TypeInv
  BY InitType, NextType, PTL DEF Spec
<1> QED
  BY <1>1, PTL DEF TypeInv

-----------------------------------------------------------------------------
(* The copies that controllers hold of an ERS.                             *)

\* y is the same ERS as x, and not older.
Follows(x, y) ==
    (x /= None /\ y /= None /\ x.uid = y.uid) =>
        /\ x.gen <= y.gen
        /\ x.deleting => y.deleting
        /\ x.fin => y.fin

\* A copy with the finalizer that is not deleting is of an ERS that still is.
KnownAs(x, e, u) ==
    /\ Follows(x, e)
    /\ x /= None => /\ x.uid <= u
                    /\ (x.fin /\ ~x.deleting) => (e /= None /\ e.uid = x.uid)

Versions ==
    /\ ers /= None => ers.uid = uids
    /\ KnownAs(Seen, ers, uids)
    /\ KnownAs(er, ers, uids)
    /\ Follows(er, Seen)

\* The retired entries, the protection and the readiness are of generations that
\* there have been.
Dated(x) ==
    x /= None => /\ x.gen >= 1
                 /\ \A n \in x.retired : n.gen < x.gen
                 /\ x.protGen <= x.gen /\ x.ready <= x.gen
Dates == Dated(ers) /\ Dated(Seen) /\ Dated(er)

Grown ==
    /\ ers /= None /\ ers' /= None /\ uids' = uids
    /\ ers'.uid = ers.uid
    /\ Follows(ers, ers')
Vanished == ers /= None /\ ers' = None /\ uids' = uids /\ (~ers.fin \/ Released)

LEMMA FieldTypes ==
    ASSUME NEW e \in ERS
    PROVE  /\ e /= None /\ e.uid \in Nat /\ e.gen \in Nat
           /\ e.protGen \in Nat /\ e.ready \in Nat /\ e.retired \subseteq Entry
           /\ e.hosts \subseteq Hosts /\ e.targets \subseteq Targets
           /\ e.bind \in [Hosts -> Zones \cup {NoZone}]
           /\ e.prot \in {"none", "True", "False", "Unknown"}
  BY NoneIsNot DEF ERS

\* What each kind of write leaves alone.
LEMMA WriteIs ==
    ASSUME TypeInv, ers /= None,
           Marked \/ Rewritten \/ Emptied \/ Reported \/ Flagged
    PROVE  /\ ers \in ERS
           /\ ers'.uid = ers.uid
           /\ ers.deleting => ers'.deleting
           /\ ers.fin => ers'.fin
           /\ ers'.gen = ers.gen \/ ers'.gen = ers.gen + 1
           /\ ~Reported => (ers'.prot = ers.prot /\ ers'.protGen = ers.protGen
                               /\ ers'.bind = ers.bind)
           /\ ~Rewritten => (ers'.hosts = ers.hosts /\ ers'.targets = ers.targets)
           /\ (~Rewritten /\ ~Emptied) => ers'.retired = ers.retired
<1>0. ers \in ERS
  BY DEF TypeInv, TypeOK
<1>1. CASE Marked
  BY <1>0, <1>1 DEF Marked, ERS
<1>2. CASE Rewritten
  BY <1>0, <1>2 DEF Rewritten, WithIntent, ERS
<1>3. CASE Emptied
  BY <1>0, <1>3 DEF Emptied, ERS
<1>4. CASE Reported
  BY <1>0, <1>4 DEF Reported, WithStatus, ERS
<1>5. CASE Flagged
  <2>1. PICK fin \in {TRUE, ers.fin}, pend \in BOOLEAN, capt \in Nat, ready \in {0, ers.ready} :
              ers' = [ers EXCEPT !.fin = fin, !.pend = pend, !.capt = capt, !.ready = ready]
    BY <1>5 DEF Flagged
  <2> QED
    BY <1>0, <2>1 DEF ERS
<1> QED
  BY <1>1, <1>2, <1>3, <1>4, <1>5

LEMMA ErsGrows ==
    ASSUME TypeInv, [Next]_vars
    PROVE  UNCHANGED <<ers, uids>> \/ Created \/ Grown \/ Vanished
<1>1. CASE Marked \/ Rewritten \/ Emptied \/ Reported \/ Flagged
  <2>1. ers /= None
    BY <1>1 DEF Marked, Rewritten, Emptied, Reported, Flagged
  <2>2. ers' /= None
    BY <1>1, <2>1, NoneIsNot DEF Marked, Rewritten, Emptied, Reported, Flagged, WithStatus,
       WithIntent, None, TypeInv, TypeOK, ERS
  <2>3. uids' = uids
    BY <1>1, <2>1, ErsSteps DEF ErsStep, ErsChange, Created
  <2> QED
    BY <1>1, <2>1, <2>2, <2>3, WriteIs, FieldTypes DEF Grown, Follows
<1>2. CASE uids' = uids /\ (Dropped \/ Released)
  BY <1>2 DEF Dropped, Released, Vanished
<1> QED
  BY <1>1, <1>2, ErsSteps DEF ErsStep, ErsChange

LEMMA CopyStays ==
    ASSUME TypeInv, [Next]_vars, ers /= None => ers.uid = uids,
           NEW x \in ERS \cup {None}, KnownAs(x, ers, uids), Follows(er, x)
    PROVE  KnownAs(x, ers', uids')
<1>0. ers \in ERS \cup {None} /\ ers' \in ERS \cup {None} /\ uids \in Nat
  BY ErsTyped, RetirementParameters DEF TypeInv, TypeOK
<1> SUFFICES ASSUME x /= None PROVE KnownAs(x, ers', uids')
  BY DEF KnownAs, Follows
<1>1. x.uid \in Nat /\ x.gen \in Nat
  BY FieldTypes
<1>2. CASE UNCHANGED <<ers, uids>>
  BY <1>2
<1>3. CASE Created
  <2>1. ers'.uid = uids + 1 /\ uids' = uids + 1 /\ ers = None
    BY <1>3 DEF Created, NewERS
  <2> QED
    BY <1>0, <1>1, <2>1 DEF KnownAs, Follows
<1>4. CASE Grown
  <2>1. ers.gen \in Nat /\ ers'.gen \in Nat
    BY <1>0, <1>4, FieldTypes DEF Grown
  <2> QED
    BY <1>1, <1>4, <2>1 DEF KnownAs, Follows, Grown
<1>5. CASE Vanished
  <2>1. ~(x.fin /\ ~x.deleting)
    BY <1>5 DEF KnownAs, Follows, Vanished, Released
  <2> QED
    BY <1>5, <2>1 DEF KnownAs, Follows, Vanished
<1> QED
  BY <1>2, <1>3, <1>4, <1>5, ErsGrows

\* A reconcile goes on with its copy, takes what is seen, or ends.
LEMMA CopyIs ==
    ASSUME [Next]_vars
    PROVE  er' = er \/ er' = None \/ (er' = Seen /\ ers' = ers /\ claims' = claims)
  BY EndpointSteps DEF EndpointStep, endpointVars, Begun, Ended, CaptureDone, CaptureBroke,
     PurgeDone, PlanMade, ApplyDone, PruneDone, apiVars

LEMMA InitVersions == Init => Versions
<1> SUFFICES ASSUME Init PROVE Versions
  OBVIOUS
<1>1. Seen = ers /\ er = None
  BY DEF Init, Seen, Informer, Server
<1>2. ers /= None => ers.uid = uids
  BY DEF Init, NewERS
<1>3. uids \in {0, 1}
  BY DEF Init
<1>4. Follows(ers, ers)
  BY DEF Init, NewERS, Follows
<1> QED
  BY <1>1, <1>2, <1>3, <1>4 DEF Versions, KnownAs, Follows

LEMMA NextVersions == TypeInv /\ Versions /\ [Next]_vars => Versions'
<1> SUFFICES ASSUME TypeInv, Versions, [Next]_vars PROVE Versions'
  OBVIOUS
<1>0. /\ ers \in ERS \cup {None} /\ ers' \in ERS \cup {None} /\ uids \in Nat
      /\ Seen \in ERS \cup {None} /\ er \in ERS \cup {None} /\ uids' \in Nat
  BY ErsTyped, InformerTyped, RetirementParameters DEF TypeInv, TypeOK, Seen
<1>1. ers' /= None => ers'.uid = uids'
  <2>1. CASE Created
    BY <2>1 DEF Created, NewERS
  <2> QED
    BY <2>1, ErsGrows DEF Versions, Grown, Vanished
<1>2. \A x \in ERS : Follows(x, x)
  BY FieldTypes DEF Follows
<1>3. KnownAs(ers', ers', uids')
  BY <1>0, <1>1, <1>2 DEF KnownAs, Follows
<1>4. KnownAs(Seen, ers', uids')
  BY <1>0, CopyStays DEF Versions
<1>5. KnownAs(er, ers', uids')
  <2>1. Follows(er, er)
    BY <1>0, <1>2 DEF Follows
  <2> QED
    BY <1>0, <2>1, CopyStays DEF Versions
<1>6. Seen' = Seen \/ Seen' = ers'
  BY SeenSteps DEF TypeInv
<1>7. er' = er \/ er' = None \/ er' = Seen
  BY CopyIs
<1>8. KnownAs(Seen', ers', uids')
  BY <1>3, <1>4, <1>6
<1>9. KnownAs(er', ers', uids')
  BY <1>4, <1>5, <1>7 DEF KnownAs, Follows
<1>10. Follows(er', Seen')
  <2>1. CASE er' = er
    BY <1>5, <1>6, <2>1 DEF Versions, KnownAs
  <2>2. CASE er' = None
    BY <2>2 DEF Follows
  <2>3. CASE er' = Seen
    <3>1. Follows(Seen, Seen)
      BY <1>0, <1>2 DEF Follows
    <3> QED
      BY <1>4, <1>6, <2>3, <3>1 DEF KnownAs
  <2> QED
    BY <1>7, <2>1, <2>2, <2>3
<1> QED
  BY <1>1, <1>8, <1>9, <1>10 DEF Versions

\* Entries are made for the generation that ends.
LEMMA EntriesDated ==
    ASSUME NEW e, NEW hosts, NEW targets, NEW n \in Retirements(e, hosts, targets)
    PROVE  n.gen = e.gen
<1>1. CASE n \in {[kind |-> "target", gen |-> e.gen, hosts |-> e.hosts, addrs |-> {a}] :
                     a \in RemovedAddresses(e, hosts, targets)}
  BY <1>1
<1>2. CASE n \in {[kind |-> "hostname", gen |-> e.gen, hosts |-> {h},
                   addrs |-> Addresses(e.targets)] : h \in RemovedHosts(e, hosts, targets)}
  BY <1>2
<1> QED
  BY <1>1, <1>2 DEF Retirements

LEMMA ErsDated ==
    ASSUME TypeInv, [Next]_vars, Dated(ers)
    PROVE  Dated(ers')
<1>0. ers \in ERS \cup {None}
  BY DEF TypeInv, TypeOK
<1>1. CASE UNCHANGED ers \/ Dropped \/ Released
  BY <1>1 DEF Dropped, Released, Dated
<1>2. CASE Created
  <2>1. ers' = NewERS(uids + 1, sv)
    BY <1>2 DEF Created
  <2>2. ers'.gen = 1 /\ ers'.retired = {} /\ ers'.protGen = 0 /\ ers'.ready = 0
    BY <2>1 DEF NewERS
  <2> QED
    BY <2>2 DEF Dated
<1>3. CASE Marked
  <2>1. ers \in ERS /\ ers /= None
    BY <1>0, <1>3 DEF Marked
  <2>2. /\ ers'.gen = ers.gen + 1 /\ ers'.retired = ers.retired
        /\ ers'.protGen = ers.protGen /\ ers'.ready = ers.ready
    BY <1>3, <2>1 DEF Marked, ERS
  <2>3. \A n \in ers.retired : n.gen \in Nat
    BY <2>1, FieldTypes DEF Entry
  <2> QED
    BY <2>1, <2>2, <2>3, FieldTypes DEF Dated
<1>4. CASE Rewritten
  <2>0. PICK hosts \in SUBSET Hosts, targets \in SUBSET Targets :
              ers' = WithIntent(ers, hosts, targets)
    BY <1>4 DEF Rewritten
  <2>1. ers \in ERS /\ ers /= None
    BY <1>0, <1>4 DEF Rewritten
  <2>2. /\ ers'.gen = ers.gen + 1
        /\ ers'.retired = ers.retired \cup Retirements(ers, hosts, targets)
        /\ ers'.protGen = ers.protGen /\ ers'.ready = ers.ready
    BY <2>0, <2>1 DEF WithIntent, ERS
  <2>3. \A n \in ers.retired : n.gen \in Nat
    BY <2>1, FieldTypes DEF Entry
  <2>4. \A n \in Retirements(ers, hosts, targets) : n.gen = ers.gen
    BY EntriesDated
  <2>5. \A n \in ers'.retired : n.gen < ers'.gen
    BY <2>1, <2>2, <2>3, <2>4, FieldTypes DEF Dated
  <2> QED
    BY <2>1, <2>2, <2>5, FieldTypes DEF Dated
<1>5. CASE Emptied
  <2>1. ers \in ERS /\ ers /= None
    BY <1>0, <1>5 DEF Emptied
  <2>2. /\ ers'.gen = ers.gen + 1 /\ ers'.retired = {}
        /\ ers'.protGen = ers.protGen /\ ers'.ready = ers.ready
    BY <1>5, <2>1 DEF Emptied, ERS
  <2> QED
    BY <2>1, <2>2, FieldTypes DEF Dated
<1>6. CASE Reported
  <2>1. ers \in ERS /\ ers /= None /\ er = ers
    BY <1>0, <1>6 DEF Reported
  <2>2. /\ ers'.gen = ers.gen /\ ers'.retired = ers.retired
        /\ ers'.protGen = ers.gen /\ ers'.ready \in {0, ers.gen}
    BY <1>6, <2>1 DEF Reported, WithStatus, ERS
  <2> QED
    BY <2>1, <2>2, FieldTypes DEF Dated
<1>7. CASE Flagged
  <2>0. PICK fin \in {TRUE, ers.fin}, pend \in BOOLEAN, capt \in Nat, ready \in {0, ers.ready} :
              ers' = [ers EXCEPT !.fin = fin, !.pend = pend, !.capt = capt, !.ready = ready]
    BY <1>7 DEF Flagged
  <2>1. ers \in ERS /\ ers /= None
    BY <1>0, <1>7 DEF Flagged
  <2>2. /\ ers'.gen = ers.gen /\ ers'.retired = ers.retired
        /\ ers'.protGen = ers.protGen /\ ers'.ready \in {0, ers.ready}
    BY <2>0, <2>1 DEF ERS
  <2> QED
    BY <2>1, <2>2, FieldTypes DEF Dated
<1> QED
  BY <1>1, <1>2, <1>3, <1>4, <1>5, <1>6, <1>7, ErsSteps DEF ErsStep, ErsChange

LEMMA InitDates == Init => Dates
<1> SUFFICES ASSUME Init PROVE Dates
  OBVIOUS
<1>1. Seen = ers /\ er = None
  BY DEF Init, Seen, Informer, Server
<1>2. ers /= None => /\ ers.gen = 1 /\ ers.retired = {} /\ ers.protGen = 0 /\ ers.ready = 0
  BY DEF Init, NewERS
<1> QED
  BY <1>1, <1>2 DEF Dates, Dated

LEMMA NextDates == TypeInv /\ Dates /\ [Next]_vars => Dates'
<1> SUFFICES ASSUME TypeInv, Dates, [Next]_vars PROVE Dates'
  OBVIOUS
<1>1. Dated(ers')
  BY ErsDated DEF Dates
<1>2. Dated(Seen')
  BY <1>1, SeenSteps DEF Dates, TypeInv
<1>3. Dated(er')
  BY CopyIs DEF Dates, Dated
<1> QED
  BY <1>1, <1>2, <1>3 DEF Dates

-----------------------------------------------------------------------------
(* The Zones, when what they accept is left alone.                         *)

\* A Provider may gain support for withdrawals, if the informers show what is.
Steady == ~Lag /\ \A z \in Zones : zones'[z].is = zones[z].is
AcceptanceStays == [][Steady]_zones

\* The Zone that any publication resolves to.
Accepters == {z \in Zones : zones[z].is = "accepts"}
Home == IF Accepters = {} THEN NoZone
        ELSE CHOOSE z \in Accepters : \A y \in Accepters : z <= y
HomeSupports == Supported(zones, Home)

\* What has been read and reported of the Zones is what they are.
Settled(x) ==
    x /= None => /\ \A h \in Hosts : x.bind[h] \in {NoZone, Home}
                 /\ (Lag /\ HomeSupports) => x.prot /= "False"
ZonesKnown ==
    /\ Informer.zones = zones
    /\ Settled(ers) /\ Settled(Seen) /\ Settled(er)
    /\ \A h \in Hosts : /\ plan[h].zone \in {NoZone, Home}
                        /\ plan[h].sup => HomeSupports

LEMMA ResolvedIs ==
    ASSUME NEW ts
    PROVE  ResolvedZone(zones, ts) = IF Converts(ts) THEN Home ELSE NoZone
<1>1. CASE Converts(ts)
  <2>1. Accepting(zones, ts) = Accepters
    BY <1>1 DEF Accepting, Accepters
  <2> QED
    BY <1>1, <2>1 DEF ResolvedZone, Home
<1>2. CASE ~Converts(ts)
  <2>1. Accepting(zones, ts) = {}
    BY <1>2 DEF Accepting
  <2> QED
    BY <1>2, <2>1 DEF ResolvedZone
<1> QED
  BY <1>1, <1>2

LEMMA HomeIs == Home = NoZone \/ (Home \in Zones /\ zones[Home].is = "accepts")
<1>1. Accepters \in SUBSET Zones
  BY DEF Accepters
<1>2. Accepters /= {} => Home \in Accepters
  BY <1>1, FirstZone DEF Home
<1> QED
  BY <1>2 DEF Home, Accepters

LEMMA ZonesStay ==
    ASSUME TypeOK, [Next]_vars, [Steady]_zones
    PROVE  /\ Home' = Home
           /\ HomeSupports => HomeSupports'
           /\ Lag => zones' = zones /\ (HomeSupports' <=> HomeSupports)
<1>1. \A z \in Zones : zones'[z].is = zones[z].is
  BY DEF Steady
<1>2. Accepters' = Accepters
  BY <1>1 DEF Accepters
<1>3. Home' = Home
  BY <1>2 DEF Home
<1>4. Lag => zones' = zones
  BY DEF Steady
<1>5. \A z \in Zones : zones[z].sup => zones'[z].sup
  <2>1. zones \in [Zones -> ZoneStates]
    BY DEF TypeOK
  <2>2. ASSUME NEW y \in Zones, NEW s, zones' = [zones EXCEPT ![y].is = s],
               NEW z \in Zones, zones[z].sup
        PROVE  zones'[z].sup
    BY <2>1, <2>2 DEF ZoneStates
  <2>3. ASSUME NEW y \in Zones, zones' = [zones EXCEPT ![y].sup = TRUE],
               NEW z \in Zones, zones[z].sup
        PROVE  zones'[z].sup
    BY <2>1, <2>3 DEF ZoneStates
  <2> QED
    BY <2>2, <2>3, ZoneSteps
<1>6. HomeSupports => HomeSupports'
  BY <1>3, <1>5, HomeIs DEF HomeSupports, Supported
<1> QED
  BY <1>3, <1>4, <1>6 DEF HomeSupports, Supported

\* A home that supports withdrawals is reported True, and no home is Unknown.
LEMMA ReportSettled ==
    ASSUME ZonesKnown, TypeOK, er \in ERS, HomeSupports
    PROVE  Protection(Informer.zones) /= "False"
<1> SUFFICES ASSUME er.hosts /= {}, \A h \in er.hosts : plan[h].zone /= NoZone
             PROVE  \E h \in er.hosts : Supported(Informer.zones, plan[h].zone)
  BY DEF Protection
<1>1. PICK h \in er.hosts : TRUE
  OBVIOUS
<1>2. h \in Hosts
  BY FieldTypes
<1>3. plan[h].zone = Home
  BY <1>1, <1>2 DEF ZonesKnown
<1> QED
  BY <1>1, <1>3 DEF ZonesKnown, HomeSupports

LEMMA InitZones == Init => ZonesKnown
<1> SUFFICES ASSUME Init PROVE ZonesKnown
  OBVIOUS
<1>1. Seen = ers /\ er = None /\ Informer.zones = zones
  BY DEF Init, Seen, Informer, Server
<1>2. ers /= None => ers.bind = [h \in Hosts |-> NoZone] /\ ers.prot = "none"
  BY DEF Init, NewERS
<1>3. plan = NoPlan
  BY DEF Init
<1> QED
  BY <1>1, <1>2, <1>3 DEF ZonesKnown, Settled, NoPlan

LEMMA NextZones ==
    ASSUME TypeInv, ZonesKnown, [Next]_vars, [Steady]_zones
    PROVE  ZonesKnown'
<1>0. TypeOK /\ ers \in ERS \cup {None} /\ er \in ERS \cup {None}
  BY DEF TypeInv, TypeOK
<1>1. /\ Home' = Home
      /\ HomeSupports => HomeSupports'
      /\ Lag => zones' = zones /\ (HomeSupports' <=> HomeSupports)
  BY <1>0, ZonesStay
<1>2. Informer'.zones = zones'
  <2>1. CASE Lag
    <3>1. cache.zones = zones /\ Informer' = cache'
      BY <2>1 DEF ZonesKnown, Informer
    <3>2. cache'.zones = cache.zones \/ cache'.zones = zones
      BY <1>0, CacheSteps DEF Delivered, TypeOK
    <3> QED
      BY <1>1, <2>1, <3>1, <3>2
  <2>2. CASE ~Lag
    BY <2>2 DEF Informer, Server
  <2> QED
    BY <2>1, <2>2
<1>3. Settled(ers')
  <2>1. CASE UNCHANGED ers \/ Dropped \/ Released
    BY <2>1 DEF Dropped, Released, Settled, ZonesKnown
  <2>2. CASE Created
    <3>1. ers'.bind = [h \in Hosts |-> NoZone] /\ ers'.prot = "none"
      BY <2>2 DEF Created, NewERS
    <3> QED
      BY <3>1 DEF Settled
  <2>3. CASE ~Reported /\ (Marked \/ Rewritten \/ Emptied \/ Flagged)
    <3>1. ers /= None
      BY <2>3 DEF Marked, Rewritten, Emptied, Flagged
    <3> QED
      BY <2>3, <3>1, WriteIs DEF Settled, ZonesKnown
  <2>4. CASE Reported
    <3>1. ers \in ERS /\ er = ers /\ er /= None
      BY <1>0, <2>4 DEF Reported
    <3>2. ers'.bind = Bound /\ ers'.prot = Protection(Informer.zones)
      BY <2>4, <3>1 DEF Reported, WithStatus, ERS
    <3>3. \A h \in Hosts : Bound[h] \in {NoZone, Home}
      BY DEF Bound, ZonesKnown
    <3> QED
      BY <1>0, <3>1, <3>2, <3>3, ReportSettled DEF Settled
  <2> QED
    BY <2>1, <2>2, <2>3, <2>4, ErsSteps DEF ErsStep, ErsChange
<1>4. Settled(Seen')
  BY <1>0, <1>3, SeenSteps DEF ZonesKnown
<1>5. Settled(er')
  BY CopyIs DEF ZonesKnown, Settled
<1>6. \A h \in Hosts : /\ plan'[h].zone \in {NoZone, Home}
                       /\ plan'[h].sup => HomeSupports
  <2>1. CASE plan' = plan
    BY <2>1 DEF ZonesKnown
  <2>2. CASE plan' = NoPlan
    BY <2>2 DEF NoPlan
  <2>3. CASE PlanMade
    <3> DEFINE z == ResolvedZone(Informer.zones, er.targets)
               s == Supported(Informer.zones, z)
    <3>1. plan' = [h \in Hosts |-> IF h \in er.hosts THEN [zone |-> z, sup |-> s]
                                   ELSE [zone |-> NoZone, sup |-> FALSE]]
      BY <2>3 DEF PlanMade
    <3>2. z \in {NoZone, Home}
      BY ResolvedIs DEF ZonesKnown
    <3>3. s => HomeSupports
      BY <3>2 DEF ZonesKnown, HomeSupports, Supported
    <3> HIDE DEF z, s
    <3> QED
      BY <3>1, <3>2, <3>3
  <2> QED
    BY <2>1, <2>2, <2>3, EndpointSteps
    DEF EndpointStep, endpointVars, Begun, Ended, CaptureDone, CaptureBroke,
        PurgeDone, ApplyDone, PruneDone
<1> QED
  BY <1>1, <1>2, <1>3, <1>4, <1>5, <1>6 DEF ZonesKnown, Settled

-----------------------------------------------------------------------------
(* No pair is lost while what the Zones accept is left alone.              *)

\* The ERS e holds the pair, as it is or in an entry of generation g or later.
Retired(e, h, a, g) == \E n \in e.retired : h \in n.hosts /\ a \in n.addrs /\ n.gen >= g
HeldBy(e, h, a, g) == (h \in e.hosts /\ a \in e.targets) \/ Retired(e, h, a, g)

\* An ERS that is deleting is retired as a protected one.
Fading(x) == (x /= None /\ x.deleting) => Protected(x)
AllFading == Fading(ers) /\ Fading(Seen) /\ Fading(er)

\* A copy that would be published without the barrier is of an ERS from which the
\* sources drop nothing without a retired entry.
Watched == ~Lag \/ HomeSupports
ProtectedWith(x) ==
    (x /= None /\ ers /= None /\ x.uid = ers.uid /\ Protected(x)) => Protected(ers)
StaysProtected == Watched => ProtectedWith(er)

\* What such a copy would publish is still held when it does.
HoldsFor(e, x) ==
    (x /= None /\ x.fin /\ ~x.deleting /\ Protected(x)) =>
        \A h \in x.hosts, a \in x.targets \cap Addrs : HeldBy(e, h, a, x.gen)
PairsHeld == Watched => HoldsFor(ers, Seen) /\ HoldsFor(ers, er)

\* What a copy would publish has not been captured.
EarlierThan(x, cs) ==
    (x /= None /\ ~x.deleting) => \A c \in cs : c.uid = x.uid => c.gen < x.gen
ClaimsEarlier ==
    /\ \A c \in claims : c.uid <= uids
    /\ EarlierThan(ers, claims) /\ EarlierThan(Seen, claims) /\ EarlierThan(er, claims)

\* Past its capture, a reconcile has a RecordWithdrawal for every pair, if it had to.
Owing == \E p \in Pairs : owed[p] /= NoDuty
MustClaim == (Lag /\ HomeSupports) \/ Owing
ClaimedAs(u, h, a, g) == \E c \in claims : c.uid = u /\ c.host = h /\ c.addr = a /\ c.gen = g
Captures ==
    (MustClaim /\ epc \in {"captured", "purged"}) =>
        /\ \A n \in er.retired : \A h \in n.hosts, a \in n.addrs :
              ClaimedAs(er.uid, h, a, n.gen)
        /\ er.deleting => \A h \in er.hosts, a \in er.targets \cap Addrs :
                             ClaimedAs(er.uid, h, a, er.gen)

\* Records are written from a copy with the finalizer that is not deleting.
Publishing ==
    epc \in {"resolved", "applied", "pruned"} => er.fin /\ ~er.deleting

\* Only in a Zone that supports withdrawals is anything owed, and never by an
\* ERS that could go, or shrink, without its controller.
OwedKnown ==
    \A p \in Pairs : owed[p] /= NoDuty =>
        /\ HomeSupports
        /\ owed[p].uid <= uids
        /\ (ers /= None /\ ers.uid = owed[p].uid) =>
              ers.fin /\ owed[p].gen <= ers.gen /\ Protected(ers)

DutySupport ==
    /\ AllFading /\ StaysProtected /\ PairsHeld /\ ClaimsEarlier
    /\ Captures /\ Publishing /\ OwedKnown
DutyInv ==
    /\ TypeInv /\ Versions /\ Dates /\ ZonesKnown
    /\ DutySupport /\ DutyKept

LEMMA ClaimsStay == [Next]_vars => claims \subseteq claims'
  BY RecordsSteps DEF RecordsStep, ClaimsMade, RecordsWritten, RecordsPurged

LEMMA UidsGrow == ASSUME TypeInv, [Next]_vars PROVE uids' \in Nat /\ uids \in Nat /\ uids <= uids'
  BY ErsTyped, ErsGrows, RetirementParameters DEF TypeInv, TypeOK, Created, Grown, Vanished

LEMMA WatchedStays ==
    ASSUME TypeOK, [Next]_vars, [Steady]_zones PROVE Watched' <=> Watched
  BY ZonesStay DEF Watched

\* No write takes the protection of an ERS away, as long as reports do not.
LEMMA ProtectionStays ==
    ASSUME TypeInv, Dates, ZonesKnown, [Next]_vars,
           ers \in ERS, UNCHANGED ers \/ Grown, Protected(ers), Reported => HomeSupports
    PROVE  Protected(ers')
<1>0. /\ ers /= None /\ ers.gen \in Nat /\ ers.protGen \in Nat /\ ers.protGen <= ers.gen
  BY FieldTypes DEF Dates, Dated
<1>1. CASE Reported
  <2>1. er \in ERS
    BY <1>0, <1>1 DEF Reported
  <2>2. ers'.prot = Protection(Informer.zones)
    BY <1>1 DEF Reported, WithStatus, ERS
  <2>3. Protection(Informer.zones) /= "False"
    BY <1>1, <2>1, ReportSettled DEF TypeInv
  <2> QED
    BY <2>2, <2>3 DEF Protected
<1>2. CASE ~Reported /\ (Marked \/ Rewritten \/ Emptied \/ Flagged)
  <2>1. /\ ers'.prot = ers.prot /\ ers'.protGen = ers.protGen
        /\ ers'.gen = ers.gen \/ ers'.gen = ers.gen + 1
    BY <1>0, <1>2, WriteIs
  <2> QED
    BY <1>0, <2>1 DEF Protected
<1>3. CASE UNCHANGED ers
  BY <1>3
<1>4. ~Created /\ ((Dropped \/ Released) => UNCHANGED ers)
  BY <1>0 DEF Created, Dropped, Released, Grown
<1> QED
  BY <1>1, <1>2, <1>3, <1>4, ErsSteps DEF ErsStep, ErsChange

LEMMA NextFading ==
    ASSUME TypeInv, Dates, Publishing, AllFading, [Next]_vars PROVE AllFading'
<1>0. ers \in ERS \cup {None}
  BY DEF TypeInv, TypeOK
<1>1. Fading(ers')
  <2>1. CASE UNCHANGED ers \/ Dropped \/ Released
    BY <2>1 DEF Dropped, Released, Fading, AllFading
  <2>2. CASE Created
    <3>1. ~ers'.deleting
      BY <2>2 DEF Created, NewERS
    <3> QED
      BY <3>1 DEF Fading
  <2>3. CASE Reported
    <3>1. ers \in ERS /\ er = ers /\ ~er.deleting
      BY <1>0, <2>3 DEF Reported, Publishing
    <3>2. ers'.deleting = ers.deleting
      BY <2>3, <3>1 DEF Reported, WithStatus, ERS
    <3> QED
      BY <3>1, <3>2 DEF Fading
  <2>4. CASE ~Reported /\ (Rewritten \/ Emptied)
    <3>1. ers \in ERS /\ ~ers.deleting
      BY <1>0, <2>4 DEF Rewritten, Emptied
    <3>2. ers'.deleting = ers.deleting
      BY <2>4, <3>1 DEF Rewritten, Emptied, WithIntent, ERS
    <3> QED
      BY <3>1, <3>2 DEF Fading
  <2>5. CASE ~Reported /\ Flagged
    <3>1. ers \in ERS
      BY <1>0, <2>5 DEF Flagged
    <3>2. PICK fin \in {TRUE, ers.fin}, pend \in BOOLEAN, capt \in Nat, ready \in {0, ers.ready} :
                ers' = [ers EXCEPT !.fin = fin, !.pend = pend, !.capt = capt, !.ready = ready]
      BY <2>5 DEF Flagged
    <3>3. /\ ers'.deleting = ers.deleting /\ ers'.prot = ers.prot
          /\ ers'.protGen = ers.protGen /\ ers'.gen = ers.gen
      BY <3>1, <3>2 DEF ERS
    <3> QED
      BY <3>1, <3>3, FieldTypes DEF Fading, AllFading, Protected
  <2>6. CASE ~Reported /\ Marked
    <3>1. ers \in ERS /\ ers /= None
      BY <1>0, <2>6 DEF Marked
    <3>2. ers'.protGen = ers.protGen /\ ers'.gen = ers.gen + 1
      BY <2>6, <3>1 DEF Marked, ERS
    <3>3. ers.gen \in Nat /\ ers.protGen \in Nat /\ ers.protGen <= ers.gen
      BY <3>1, FieldTypes DEF Dates, Dated
    <3>4. ers'.protGen /= ers'.gen
      BY <3>2, <3>3
    <3> QED
      BY <3>4 DEF Fading, Protected
  <2> QED
    BY <2>1, <2>2, <2>3, <2>4, <2>5, <2>6, ErsSteps DEF ErsStep, ErsChange
<1>2. Fading(Seen')
  BY <1>1, SeenSteps DEF AllFading, TypeInv
<1>3. Fading(er')
  BY CopyIs DEF AllFading, Fading
<1> QED
  BY <1>1, <1>2, <1>3 DEF AllFading

LEMMA SeenProtected ==
    ASSUME ZonesKnown, Watched PROVE ProtectedWith(Seen)
<1>1. CASE ~Lag
  BY <1>1 DEF Seen, Informer, Server, ProtectedWith
<1>2. CASE Lag
  BY <1>2 DEF Watched, ZonesKnown, Settled, ProtectedWith, Protected
<1> QED
  BY <1>1, <1>2

LEMMA NextStaysProtected ==
    ASSUME TypeInv, Versions, Dates, ZonesKnown, StaysProtected,
           [Next]_vars, [Steady]_zones
    PROVE  StaysProtected'
<1>0. /\ ers \in ERS \cup {None} /\ er \in ERS \cup {None} /\ uids \in Nat
  BY RetirementParameters DEF TypeInv, TypeOK
<1> SUFFICES ASSUME Watched,
                    er' /= None, ers' /= None, er'.uid = ers'.uid, Protected(er')
             PROVE  Protected(ers')
  BY WatchedStays DEF StaysProtected, ProtectedWith, TypeInv
<1>1. CASE er' = Seen /\ ers' = ers
  BY <1>1, SeenProtected DEF ProtectedWith
<1>2. CASE er' = er
  <2>1. er \in ERS /\ er.uid \in Nat /\ er.uid <= uids
    BY <1>0, <1>2, FieldTypes DEF Versions, KnownAs
  <2>2. ~Created
    <3> SUFFICES ASSUME Created PROVE FALSE
      OBVIOUS
    <3>1. ers'.uid = uids + 1
      BY DEF Created, NewERS
    <3> QED
      BY <1>0, <1>2, <2>1, <3>1
  <2>3. ers \in ERS /\ ers /= None /\ (UNCHANGED ers \/ Grown) /\ ers'.uid = ers.uid
    BY <1>0, <2>2, ErsGrows DEF Grown, Vanished
  <2>4. Protected(ers)
    BY <1>2, <2>3 DEF StaysProtected, ProtectedWith
  <2>5. ~Reported
    BY <1>2 DEF Reported
  <2> QED
    BY <2>3, <2>4, <2>5, ProtectionStays
<1> QED
  BY <1>1, <1>2, CopyIs

\* New claims are the read ERS's, and not later than it.
LEMMA ClaimsAdded ==
    ASSUME TypeInv, Dates, [Next]_vars, claims' /= claims
    PROVE  /\ er \in ERS /\ ers' = ers
           /\ \A c \in claims' : c \in claims \/
                 /\ c.uid = er.uid /\ c.gen \in Nat
                 /\ c.gen < er.gen \/ (er.deleting /\ c.gen = er.gen)
<1>1. ClaimsMade
  BY RecordsSteps DEF RecordsStep, RecordsWritten, RecordsPurged
<1>2. er \in ERS
  BY <1>1 DEF ClaimsMade, MustCapture, TypeInv, TypeOK
<1>3. PICK some \in SUBSET Duties : claims' = claims \cup {ClaimOf(p) : p \in some}
  BY <1>1 DEF ClaimsMade
<1>4. ASSUME NEW p \in Duties
      PROVE  p[3] \in Nat /\ (p[3] < er.gen \/ (er.deleting /\ p[3] = er.gen))
  <2>1. p \in ToCapture
    BY DEF Duties
  <2>2. CASE \E n \in er.retired : \E h \in n.hosts, a \in n.addrs : p = <<h, a, n.gen>>
    <3>1. PICK n \in er.retired : p[3] = n.gen
      BY <2>2
    <3>2. n.gen \in Nat /\ n.gen < er.gen
      BY <1>2, FieldTypes DEF Entry, Dates, Dated
    <3> QED
      BY <3>1, <3>2
  <2>3. CASE er.deleting /\ \E h \in er.hosts, a \in er.targets \cap Addrs : p = <<h, a, er.gen>>
    BY <1>2, <2>3, FieldTypes
  <2> QED
    BY <2>1, <2>2, <2>3, CapturedPairs
<1>5. \A p \in Duties : ClaimOf(p).uid = er.uid /\ ClaimOf(p).gen = p[3]
  BY DEF ClaimOf
<1>6. \A c \in claims' : c \in claims \/ \E p \in Duties : c = ClaimOf(p)
  BY <1>3
<1> QED
  BY <1>1, <1>2, <1>4, <1>5, <1>6 DEF ClaimsMade

LEMMA CopyStaysEarlier ==
    ASSUME TypeInv, Dates, [Next]_vars, NEW x \in ERS \cup {None},
           Follows(er, x), EarlierThan(x, claims)
    PROVE  EarlierThan(x, claims')
<1>1. CASE claims' = claims
  BY <1>1
<1>2. CASE claims' /= claims
  <2> SUFFICES ASSUME x /= None, ~x.deleting, NEW c \in claims', c.uid = x.uid
               PROVE  c.gen < x.gen
    BY DEF EarlierThan
  <2>1. CASE c \in claims
    BY <2>1 DEF EarlierThan
  <2>2. CASE c \notin claims
    <3>1. /\ er \in ERS /\ c.uid = er.uid /\ c.gen \in Nat
          /\ c.gen < er.gen \/ (er.deleting /\ c.gen = er.gen)
      BY <1>2, <2>2, ClaimsAdded
    <3>2. er /= None /\ x \in ERS /\ er.gen \in Nat /\ x.gen \in Nat
      BY <3>1, FieldTypes
    <3> QED
      BY <3>1, <3>2 DEF Follows
  <2> QED
    BY <2>1, <2>2
<1> QED
  BY <1>1, <1>2

LEMMA NextClaimsEarlier ==
    ASSUME TypeInv, Versions, Dates, ClaimsEarlier, [Next]_vars
    PROVE  ClaimsEarlier'
<1>0. /\ ers \in ERS \cup {None} /\ Seen \in ERS \cup {None} /\ er \in ERS \cup {None}
      /\ ers' \in ERS \cup {None}
      /\ \A c \in claims : c.uid \in Nat /\ c.gen \in Nat
  BY InformerTyped, ErsTyped, RetirementParameters DEF TypeInv, TypeOK, Seen, Claim
<1>1. \A c \in claims' : c.uid <= uids'
  <2> SUFFICES ASSUME NEW c \in claims' PROVE c.uid <= uids'
    OBVIOUS
  <2>1. CASE c \in claims
    BY <1>0, <2>1, UidsGrow DEF ClaimsEarlier
  <2>2. CASE c \notin claims
    <3>1. er \in ERS /\ c.uid = er.uid
      BY <2>2, ClaimsAdded
    <3> QED
      BY <3>1, UidsGrow, FieldTypes DEF Versions, KnownAs
  <2> QED
    BY <2>1, <2>2
<1>2. EarlierThan(Seen, claims')
  BY <1>0, CopyStaysEarlier DEF Versions, ClaimsEarlier
<1>3. EarlierThan(er, claims')
  <2>1. Follows(er, er)
    BY <1>0, FieldTypes DEF Follows
  <2> QED
    BY <1>0, <2>1, CopyStaysEarlier DEF ClaimsEarlier
<1>4. EarlierThan(ers', claims')
  <2>1. CASE claims' /= claims
    <3>1. ers' = ers
      BY <2>1, ClaimsAdded
    <3>2. EarlierThan(ers, claims')
      BY <1>0, CopyStaysEarlier DEF Versions, KnownAs, ClaimsEarlier
    <3> QED
      BY <3>1, <3>2
  <2>2. CASE claims' = claims
    <3>1. CASE UNCHANGED ers \/ Vanished
      BY <2>2, <3>1 DEF Vanished, EarlierThan, ClaimsEarlier
    <3>2. CASE Created
      <4>1. ers'.uid = uids + 1
        BY <3>2 DEF Created, NewERS
      <4> QED
        BY <1>0, <2>2, <4>1, UidsGrow DEF EarlierThan, ClaimsEarlier
    <3>3. CASE Grown
      <4>1. ers.gen \in Nat /\ ers'.gen \in Nat
        BY <1>0, <3>3, FieldTypes DEF Grown
      <4> QED
        BY <1>0, <2>2, <3>3, <4>1 DEF EarlierThan, ClaimsEarlier, Grown, Follows
    <3> QED
      BY <3>1, <3>2, <3>3, ErsGrows
  <2> QED
    BY <2>1, <2>2
<1>5. EarlierThan(Seen', claims')
  BY <1>2, <1>4, SeenSteps DEF TypeInv
<1>6. EarlierThan(er', claims')
  BY <1>2, <1>3, CopyIs DEF EarlierThan
<1> QED
  BY <1>1, <1>4, <1>5, <1>6 DEF ClaimsEarlier

LEMMA NextPublishing == ASSUME TypeInv, Publishing, [Next]_vars PROVE Publishing'
<1>1. CASE PlanMade
  BY <1>1 DEF PlanMade, MustCapture, Publishing
<1> QED
  BY <1>1, EndpointSteps
  DEF EndpointStep, endpointVars, Begun, Ended, CaptureDone, CaptureBroke, PurgeDone,
      ApplyDone, PruneDone, Publishing

\* A reconcile whose Zone supports withdrawals finds it for every pair.
LEMMA PairZone ==
    ASSUME ZonesKnown, HomeSupports, er \in ERS, NEW h \in Hosts, NEW a \in Addrs
    PROVE  /\ WithdrawalZone(h, a).zone = Home
           /\ Home /= NoZone
           /\ Supported(Informer.zones, Home)
<1>1. Home /= NoZone /\ Supported(Informer.zones, Home)
  BY DEF ZonesKnown, HomeSupports, Supported
<1>2. Converts({a})
  BY DEF Converts
<1>3. ResolvedZone(Informer.zones, {a}) = Home
  BY <1>2, ResolvedIs DEF ZonesKnown
<1>4. er.bind[h] \in {NoZone, Home}
  BY FieldTypes DEF ZonesKnown, Settled
<1> QED
  BY <1>1, <1>3, <1>4 DEF WithdrawalZone

LEMMA NextCaptures ==
    ASSUME TypeInv, ZonesKnown, OwedKnown, AllFading, Captures, [Next]_vars, [Steady]_zones
    PROVE  Captures'
<1>0. TypeOK /\ er \in ERS \cup {None} /\ (Lag => (HomeSupports' <=> HomeSupports))
  BY ZonesStay DEF TypeInv, TypeOK
<1>1. ASSUME epc /= "resolved"
      PROVE  MustClaim' => MustClaim
  <2>1. owed' = owed
    BY <1>1, RecordsSteps DEF RecordsStep, ClaimsMade, RecordsWritten, RecordsPurged
  <2> QED
    BY <1>0, <2>1 DEF MustClaim, Owing
<1>2. MustClaim => HomeSupports
  BY DEF MustClaim, Owing, OwedKnown
<1>3. CASE epc \in {"captured", "purged"} /\ er' = er
  BY <1>3, <1>1, ClaimsStay DEF Captures, ClaimedAs
<1>4. CASE CaptureDone
  <2>1. er \in ERS /\ er' = er
    BY <1>0, <1>4 DEF CaptureDone, MustCapture
  <2>2. ASSUME HomeSupports, NEW h \in Hosts, NEW a \in Addrs, NEW g \in Nat,
               <<h, a, g>> \in ToCapture
        PROVE  \E c \in claims' : c.uid = er.uid /\ c.host = h /\ c.addr = a /\ c.gen = g
    <3> DEFINE p == <<h, a, g>>
    <3>1. p[1] = h /\ p[2] = a /\ p[3] = g
      OBVIOUS
    <3>2. ClaimOf(p).uid = er.uid /\ ClaimOf(p).host = h /\ ClaimOf(p).addr = a
             /\ ClaimOf(p).gen = g /\ ClaimOf(p).zone = Home
      BY <2>1, <2>2, <3>1, PairZone DEF ClaimOf
    <3>3. ~CaptureError(p)
      BY <1>4, <2>2 DEF CaptureDone
    <3>4. ~WithdrawalZone(p[1], p[2]).err
      BY <3>3 DEF CaptureError
    <3>5. p \in Duties
      BY <2>1, <2>2, <3>2, <3>4, PairZone DEF Duties
    <3>6. ClaimOf(p) \in claims'
      BY <1>4, <3>5 DEF CaptureDone
    <3> QED
      BY <3>2, <3>6
  <2>3. ASSUME HomeSupports, NEW n \in er.retired, NEW h \in n.hosts, NEW a \in n.addrs
        PROVE  \E c \in claims' : c.uid = er.uid /\ c.host = h /\ c.addr = a /\ c.gen = n.gen
    <3>1. h \in Hosts /\ a \in Addrs /\ n.gen \in Nat
      BY <2>1, FieldTypes DEF Entry
    <3>2. <<h, a, n.gen>> \in {<<h1, a1, n.gen>> : h1 \in n.hosts, a1 \in n.addrs}
      OBVIOUS
    <3>3. <<h, a, n.gen>> \in ToCapture
      BY <3>2 DEF ToCapture
    <3> QED
      BY <2>2, <2>3, <3>1, <3>3
  <2>4. ASSUME HomeSupports, er.deleting, NEW h \in er.hosts, NEW a \in er.targets \cap Addrs
        PROVE  \E c \in claims' : c.uid = er.uid /\ c.host = h /\ c.addr = a /\ c.gen = er.gen
    <3>1. h \in Hosts /\ a \in Addrs /\ er.gen \in Nat
      BY <2>1, FieldTypes
    <3>2. Protected(er)
      BY <2>1, <2>4, FieldTypes DEF AllFading, Fading
    <3>3. <<h, a, er.gen>> \in ToCapture
      BY <2>4, <3>2 DEF ToCapture, Addresses
    <3> QED
      BY <2>2, <2>4, <3>1, <3>3
  <2> QED
    BY <1>4, <1>1, <1>2, <2>1, <2>3, <2>4 DEF Captures, ClaimedAs, CaptureDone
<1>5. CASE epc' \notin {"captured", "purged"}
  BY <1>5 DEF Captures
<1> QED
  BY <1>3, <1>4, <1>5, EndpointSteps
  DEF EndpointStep, endpointVars, Begun, Ended, CaptureBroke, PurgeDone, PlanMade,
      ApplyDone, PruneDone

\* What is held stays held, or is captured before its entry goes.
LEMMA HeldStays ==
    ASSUME TypeInv, [Next]_vars, UNCHANGED ers \/ Grown, ers \in ERS, Protected(ers),
           NEW h \in Hosts, NEW a \in Addrs, NEW g \in Nat, g <= ers.gen,
           HeldBy(ers, h, a, g)
    PROVE  \/ HeldBy(ers', h, a, g)
           \/ Emptied /\ Retired(ers, h, a, g)
<1>0. ers /= None /\ ers.gen \in Nat
  BY FieldTypes
<1>1. CASE UNCHANGED ers
  BY <1>1
<1>2. CASE Marked \/ Flagged \/ Reported
  <2>1. /\ ers'.hosts = ers.hosts /\ ers'.targets = ers.targets
        /\ ers'.retired = ers.retired
    <3>1. CASE Reported
      BY <3>1 DEF Reported, WithStatus, ERS
    <3>2. CASE Marked
      BY <3>2 DEF Marked, ERS
    <3>3. CASE Flagged
      <4>1. PICK fin \in {TRUE, ers.fin}, pend \in BOOLEAN, capt \in Nat, ready \in {0, ers.ready} :
                  ers' = [ers EXCEPT !.fin = fin, !.pend = pend, !.capt = capt, !.ready = ready]
        BY <3>3 DEF Flagged
      <4> QED
        BY <4>1 DEF ERS
    <3> QED
      BY <1>2, <3>1, <3>2, <3>3
  <2> QED
    BY <2>1 DEF HeldBy, Retired
<1>3. CASE Emptied
  <2>1. ers'.hosts = ers.hosts /\ ers'.targets = ers.targets
    BY <1>3 DEF Emptied, ERS
  <2> QED
    BY <1>3, <2>1 DEF HeldBy, Retired
<1>4. CASE Rewritten
  <2>1. PICK hosts \in SUBSET Hosts, targets \in SUBSET Targets :
              ers' = WithIntent(ers, hosts, targets)
    BY <1>4 DEF Rewritten
  <2>2. /\ ers'.hosts = hosts /\ ers'.targets = targets
        /\ ers'.retired = ers.retired \cup Retirements(ers, hosts, targets)
    BY <2>1 DEF WithIntent, ERS
  <2>4. CASE h \in ers.hosts /\ a \in ers.targets /\ a \notin targets
    <3> DEFINE n == [kind |-> "target", gen |-> ers.gen, hosts |-> ers.hosts, addrs |-> {a}]
    <3>1. a \in RemovedAddresses(ers, hosts, targets) /\ Addresses(ers.targets) /= {}
             /\ ers.hosts /= {}
      BY <2>4 DEF RemovedAddresses, Addresses
    <3>2. n \in Retirements(ers, hosts, targets)
      BY <3>1 DEF Retirements
    <3>3. n.hosts = ers.hosts /\ n.addrs = {a} /\ n.gen = ers.gen
      OBVIOUS
    <3> HIDE DEF n
    <3> QED
      BY <1>0, <2>2, <2>4, <3>2, <3>3 DEF HeldBy, Retired
  <2>5. CASE h \in ers.hosts /\ a \in ers.targets /\ h \notin hosts
    <3> DEFINE n == [kind |-> "hostname", gen |-> ers.gen, hosts |-> {h},
                     addrs |-> Addresses(ers.targets)]
    <3>1. h \in RemovedHosts(ers, hosts, targets) /\ Addresses(ers.targets) /= {}
             /\ ers.hosts /= {} /\ a \in Addresses(ers.targets)
      BY <2>5 DEF RemovedHosts, Addresses
    <3>2. n \in Retirements(ers, hosts, targets)
      BY <3>1 DEF Retirements
    <3>3. n.hosts = {h} /\ n.addrs = Addresses(ers.targets) /\ n.gen = ers.gen
      OBVIOUS
    <3> HIDE DEF n
    <3> QED
      BY <1>0, <2>2, <3>1, <3>2, <3>3 DEF HeldBy, Retired
  <2> QED
    BY <2>2, <2>4, <2>5 DEF HeldBy, Retired
<1>5. (~Created /\ ~Dropped /\ ~Released) \/ UNCHANGED ers
  BY <1>0 DEF Created, Dropped, Released, Grown
<1> QED
  BY <1>1, <1>2, <1>3, <1>4, <1>5, ErsSteps DEF ErsStep, ErsChange

\* A claim for the pair, of generation g or later.
LEMMA EmptiedClaims ==
    ASSUME MustClaim, Captures, Emptied,
           NEW h, NEW a, NEW g, Retired(ers, h, a, g)
    PROVE  \E c \in claims : c.uid = ers.uid /\ c.host = h /\ c.addr = a /\ c.gen >= g
<1>1. PICK n \in ers.retired : h \in n.hosts /\ a \in n.addrs /\ n.gen >= g
  BY DEF Retired
<1>2. epc = "captured" /\ er = ers
  BY DEF Emptied
<1>3. ClaimedAs(er.uid, h, a, n.gen)
  BY <1>1, <1>2 DEF Captures
<1> QED
  BY <1>1, <1>2, <1>3 DEF ClaimedAs

LEMMA CopyStaysHeld ==
    ASSUME TypeInv, Versions, Dates, Captures, [Next]_vars,
           NEW x \in ERS \cup {None}, KnownAs(x, ers, uids), Follows(er, x),
           EarlierThan(x, claims), HoldsFor(ers, x), ProtectedWith(x),
           (Lag /\ HomeSupports) \/ UNCHANGED er
    PROVE  HoldsFor(ers', x)
<1> SUFFICES ASSUME x /= None, x.fin, ~x.deleting, Protected(x),
                    NEW h \in x.hosts, NEW a \in x.targets \cap Addrs
             PROVE  HeldBy(ers', h, a, x.gen)
  BY DEF HoldsFor
<1>0. x \in ERS /\ x.gen \in Nat /\ h \in Hosts /\ a \in Addrs
  BY FieldTypes
<1>1. ers /= None /\ ers.uid = x.uid /\ x.gen <= ers.gen
  BY DEF KnownAs, Follows
<1>2. ers \in ERS /\ Protected(ers)
  BY <1>1 DEF TypeInv, TypeOK, ProtectedWith
<1>3. HeldBy(ers, h, a, x.gen)
  BY DEF HoldsFor
<1>4. UNCHANGED ers \/ Grown
  <2>1. KnownAs(x, ers', uids')
    BY CopyStays DEF Versions
  <2>2. ers' /= None
    BY <2>1 DEF KnownAs
  <2> QED
    BY <1>1, <2>2, ErsGrows DEF Created, Vanished
<1>5. ASSUME Emptied, Retired(ers, h, a, x.gen)
      PROVE  FALSE
  <2>0. MustClaim
    BY <1>5 DEF MustClaim, Emptied
  <2>1. PICK c \in claims : c.uid = ers.uid /\ c.gen >= x.gen
    BY <1>5, <2>0, EmptiedClaims
  <2>2. c.gen < x.gen
    BY <1>1, <2>1 DEF EarlierThan
  <2>3. c.gen \in Nat
    BY DEF TypeInv, TypeOK, Claim
  <2> QED
    BY <1>0, <2>1, <2>2, <2>3
<1> DEFINE g == x.gen
<1>6. g \in Nat /\ g <= ers.gen /\ HeldBy(ers, h, a, g)
  BY <1>0, <1>1, <1>3
<1> HIDE DEF g
<1>7. \/ HeldBy(ers', h, a, g)
      \/ Emptied /\ Retired(ers, h, a, g)
  BY <1>0, <1>2, <1>4, <1>6, HeldStays
<1> QED
  BY <1>5, <1>7 DEF g

LEMMA NextPairsHeld ==
    ASSUME TypeInv, Versions, Dates, ZonesKnown, Captures, ClaimsEarlier, StaysProtected,
           PairsHeld, [Next]_vars, [Steady]_zones
    PROVE  PairsHeld'
<1>0. /\ Seen \in ERS \cup {None} /\ er \in ERS \cup {None}
      /\ ers' \in ERS \cup {None}
  BY InformerTyped, ErsTyped DEF TypeInv, TypeOK, Seen
<1> SUFFICES ASSUME Watched
             PROVE  HoldsFor(ers', Seen') /\ HoldsFor(ers', er')
  BY WatchedStays DEF PairsHeld, TypeInv
<1>1. HoldsFor(ers', ers')
  <2>1. ers' /= None => ers'.gen \in Nat
    BY <1>0, FieldTypes
  <2> QED
    BY <2>1 DEF HoldsFor, HeldBy
<1>2. ASSUME Lag PROVE HoldsFor(ers', Seen')
  <2>1. HoldsFor(ers', Seen)
    BY <1>0, <1>2, SeenProtected, CopyStaysHeld DEF Versions, ClaimsEarlier, PairsHeld, Watched
  <2> QED
    BY <1>1, <2>1, SeenSteps DEF TypeInv
<1>3. ASSUME ~Lag PROVE HoldsFor(ers', Seen')
  <2>1. Seen' = ers'
    BY <1>3 DEF Seen, Informer, Server
  <2> QED
    BY <1>1, <2>1
<1>4. HoldsFor(ers', er')
  <2>1. CASE er' = None
    BY <2>1 DEF HoldsFor
  <2>2. CASE er' = Seen /\ ers' = ers
    BY <2>2 DEF PairsHeld
  <2>3. CASE er' = er
    <3>1. Follows(er, er)
      BY <1>0, FieldTypes DEF Follows
    <3> QED
      BY <1>0, <2>3, <3>1, CopyStaysHeld
      DEF Versions, ClaimsEarlier, PairsHeld, StaysProtected
  <2> QED
    BY <2>1, <2>2, <2>3, CopyIs
<1> QED
  BY <1>2, <1>3, <1>4

\* What writing records makes owed.
LEMMA OwedNow ==
    ASSUME TypeInv, Versions, ZonesKnown, Publishing, [Next]_vars, NEW p \in Pairs,
           owed'[p] /= owed[p]
    PROVE  /\ HomeSupports
           /\ er \in ERS /\ er.fin /\ ~er.deleting /\ Protected(er)
           /\ owed'[p].uid = er.uid /\ owed'[p].gen = er.gen
           /\ p[1] \in er.hosts /\ p[2] \in er.targets
           /\ UNCHANGED <<ers, claims>>
<1>1. RecordsWritten
  BY RecordsSteps DEF RecordsStep, ClaimsMade, RecordsPurged
<1>2. PICK names \in SUBSET DesiredNames : WriteRecords(names)
  BY <1>1 DEF RecordsWritten
<1>3. /\ p[2] \in er.targets /\ plan[p[1]].sup
      /\ \E n \in names : n[2] = p[1]
      /\ owed'[p] = [uid |-> er.uid, gen |-> er.gen]
  BY <1>2 DEF WriteRecords
<1>4. owed'[p].uid = er.uid /\ owed'[p].gen = er.gen
  BY <1>3
<1>5. p[1] \in er.hosts
  BY <1>3 DEF DesiredNames
<1>6. er \in ERS
  BY <1>1 DEF RecordsWritten, TypeInv, TypeOK
<1>7. p[1] \in Hosts
  BY <1>5, <1>6, FieldTypes
<1>8. HomeSupports
  BY <1>3, <1>7 DEF ZonesKnown
<1>9. Protected(er)
  BY <1>1, <1>3, <1>5 DEF RecordsWritten, NeedsBarrier, Protected
<1> QED
  BY <1>1, <1>3, <1>4, <1>5, <1>6, <1>8, <1>9 DEF RecordsWritten, Publishing

LEMMA NextOwedKnown ==
    ASSUME TypeInv, Versions, Dates, ZonesKnown, Publishing, StaysProtected, OwedKnown,
           [Next]_vars, [Steady]_zones
    PROVE  OwedKnown'
<1> SUFFICES ASSUME NEW p \in Pairs, owed'[p] /= NoDuty
             PROVE  /\ HomeSupports
                    /\ owed'[p].uid <= uids'
                    /\ (ers' /= None /\ ers'.uid = owed'[p].uid)
                          => ers'.fin /\ owed'[p].gen <= ers'.gen /\ Protected(ers')
  BY ZonesStay DEF OwedKnown, TypeInv
<1>0. /\ ers \in ERS \cup {None} /\ ers' \in ERS \cup {None}
      /\ owed[p].uid \in Nat /\ owed[p].gen \in Nat
  BY ErsTyped, RetirementParameters DEF TypeInv, TypeOK
<1>1. CASE owed'[p] = owed[p]
  <2>1. HomeSupports /\ owed[p].uid <= uids
    BY <1>1 DEF OwedKnown
  <2>2. CASE UNCHANGED ers
    BY <1>0, <1>1, <2>1, <2>2, UidsGrow DEF OwedKnown
  <2>3. CASE Created
    <3>1. ers'.uid = uids + 1
      BY <2>3 DEF Created, NewERS
    <3> QED
      BY <1>0, <1>1, <2>1, <3>1, UidsGrow
  <2>4. CASE Grown
    <3>1. ers.gen \in Nat /\ ers'.gen \in Nat
      BY <1>0, <2>4, FieldTypes DEF Grown
    <3>2. ers \in ERS
      BY <1>0, <2>4 DEF Grown
    <3>3. ers.uid = owed[p].uid => Protected(ers')
      BY <1>1, <2>1, <2>4, <3>2, ProtectionStays DEF OwedKnown, Grown
    <3> QED
      BY <1>0, <1>1, <2>1, <2>4, <3>1, <3>3, UidsGrow DEF OwedKnown, Grown, Follows
  <2>5. CASE Vanished
    BY <1>0, <1>1, <2>1, <2>5, UidsGrow DEF Vanished
  <2> QED
    BY <2>2, <2>3, <2>4, <2>5, ErsGrows
<1>2. CASE owed'[p] /= owed[p]
  <2>1. /\ HomeSupports /\ er \in ERS /\ er.fin /\ ers' = ers /\ Protected(er)
        /\ owed'[p].uid = er.uid /\ owed'[p].gen = er.gen
    BY <1>2, OwedNow
  <2>2. er.uid <= uids /\ er.uid \in Nat /\ er /= None
    BY <2>1, FieldTypes DEF Versions, KnownAs
  <2> QED
    BY <2>1, <2>2, UidsGrow
    DEF Versions, KnownAs, Follows, StaysProtected, Watched, ProtectedWith
<1> QED
  BY <1>1, <1>2

LEMMA NextDutyKept ==
    ASSUME TypeInv, Versions, Dates, ZonesKnown, DutySupport, DutyKept, [Next]_vars
    PROVE  DutyKept'
<1> SUFFICES ASSUME NEW h \in Hosts, NEW a \in Addrs, owed'[h, a] /= NoDuty
             PROVE  \/ Parked(owed[h, a], h, a)'
                    \/ Claimed(owed[h, a], h, a)'
  BY DEF DutyKept
<1> DEFINE p == <<h, a>>
           d == owed[p]
<1>0. p \in Pairs /\ p[1] = h /\ p[2] = a
  BY DEF Pairs
<1>1. CASE owed'[p] /= d
  <2>1. /\ HomeSupports /\ er \in ERS /\ er /= None /\ er.fin /\ ~er.deleting /\ ers' = ers
        /\ Protected(er)
        /\ owed'[p].uid = er.uid /\ owed'[p].gen = er.gen
        /\ h \in er.hosts /\ a \in er.targets
    <3>1. Publishing /\ owed'[p] /= owed[p]
      BY <1>1 DEF DutySupport
    <3>2. /\ HomeSupports /\ er \in ERS /\ er.fin /\ ~er.deleting /\ ers' = ers
          /\ Protected(er)
          /\ owed'[p].uid = er.uid /\ owed'[p].gen = er.gen
          /\ p[1] \in er.hosts /\ p[2] \in er.targets
      BY <1>0, <3>1, OwedNow
    <3>3. er /= None
      BY <3>2, FieldTypes
    <3> HIDE DEF p
    <3> QED
      BY <1>0, <3>2, <3>3
  <2>2. ers /= None /\ ers.uid = er.uid
    BY <2>1 DEF Versions, KnownAs
  <2>3. HeldBy(ers, h, a, er.gen)
    BY <2>1 DEF DutySupport, PairsHeld, Watched, HoldsFor
  <2> QED
    BY <2>1, <2>2, <2>3 DEF Parked, HeldBy, Retired
<1>2. CASE owed'[p] = d
  <2>1. d /= NoDuty /\ (Parked(d, h, a) \/ Claimed(d, h, a))
    BY <1>2 DEF DutyKept
  <2>2. /\ MustClaim /\ d.gen \in Nat
        /\ (ers /= None /\ ers.uid = d.uid) =>
              ers.fin /\ d.gen <= ers.gen /\ Protected(ers)
    BY <1>0, <2>1 DEF DutySupport, OwedKnown, TypeInv, TypeOK, MustClaim, Owing
  <2> HIDE DEF d
  <2>3. CASE Claimed(d, h, a)
    BY <1>2, <2>3, ClaimsStay DEF Claimed
  <2>4. CASE Parked(d, h, a)
    <3>1. ers /= None /\ ers.uid = d.uid /\ HeldBy(ers, h, a, d.gen)
      BY <2>4 DEF Parked, HeldBy, Retired
    <3>2. ers \in ERS /\ ers.fin /\ d.gen <= ers.gen /\ Protected(ers)
      BY <2>2, <3>1 DEF TypeInv, TypeOK
    <3>3. CASE UNCHANGED ers \/ Grown
      <4> DEFINE g == d.gen
      <4> HIDE DEF g
      <4>1. g \in Nat /\ g <= ers.gen /\ HeldBy(ers, h, a, g)
        BY <2>2, <3>1, <3>2 DEF g
      <4>2. \/ HeldBy(ers', h, a, g)
            \/ Emptied /\ Retired(ers, h, a, g)
        BY <2>2, <3>2, <3>3, <4>1, HeldStays
      <4>3. CASE HeldBy(ers', h, a, g)
        <5>1. ers' /= None /\ ers'.uid = d.uid
          BY <3>1, <3>3 DEF Grown
        <5> QED
          BY <1>2, <4>3, <5>1 DEF Parked, HeldBy, Retired, g
      <4>4. CASE Emptied /\ Retired(ers, h, a, g)
        <5>0. Captures
          BY DEF DutySupport
        <5>1. PICK c \in claims : c.uid = ers.uid /\ c.host = h /\ c.addr = a /\ c.gen >= g
          <6>1. PICK n \in ers.retired : h \in n.hosts /\ a \in n.addrs /\ n.gen >= g
            BY <4>4 DEF Retired
          <6>2. epc = "captured" /\ er = ers
            BY <4>4 DEF Emptied
          <6>3. ClaimedAs(er.uid, h, a, n.gen)
            BY <2>2, <5>0, <6>1, <6>2 DEF Captures
          <6> QED
            BY <6>1, <6>2, <6>3 DEF ClaimedAs
        <5>2. c \in claims'
          BY ClaimsStay
        <5> QED
          BY <1>2, <3>1, <5>1, <5>2 DEF Claimed, g
      <4> QED
        BY <4>2, <4>3, <4>4
    <3>4. CASE Vanished
      <4>1. epc = "purged" /\ er = ers /\ er.deleting
        BY <3>2, <3>4 DEF Vanished, Released
      <4>2. PICK g : g >= d.gen /\ ClaimedAs(er.uid, h, a, g)
        <5>1. CASE h \in ers.hosts /\ a \in ers.targets
          BY <2>2, <3>2, <4>1, <5>1 DEF DutySupport, Captures
        <5>2. CASE Retired(ers, h, a, d.gen)
          BY <2>2, <4>1, <5>2 DEF Retired, DutySupport, Captures
        <5> QED
          BY <3>1, <5>1, <5>2 DEF HeldBy, Retired
      <4>3. PICK c \in claims : c.uid = d.uid /\ c.host = h /\ c.addr = a /\ c.gen >= d.gen
        BY <3>1, <4>1, <4>2 DEF ClaimedAs
      <4>4. c \in claims'
        BY ClaimsStay
      <4> QED
        BY <1>2, <4>3, <4>4 DEF Claimed
    <3> QED
      BY <3>1, <3>3, <3>4, ErsGrows DEF Created
  <2> QED
    BY <2>1, <2>3, <2>4
<1> QED
  BY <1>1, <1>2


LEMMA InitDuty == Init => DutySupport /\ DutyKept
<1> SUFFICES ASSUME Init PROVE DutySupport /\ DutyKept
  OBVIOUS
<1>1. Seen = ers /\ er = None /\ epc = "idle" /\ claims = {}
  BY DEF Init, Seen, Informer, Server
<1>2. \A p \in Pairs : owed[p] = NoDuty
  BY DEF Init
<1>3. StaysProtected /\ PairsHeld /\ ClaimsEarlier /\ Captures /\ Publishing
  BY <1>1 DEF PairsHeld, HoldsFor, HeldBy, ClaimsEarlier, EarlierThan, Captures, Publishing,
         StaysProtected, ProtectedWith
<1>4. OwedKnown
  BY <1>2 DEF OwedKnown
<1>5. DutyKept
  BY <1>2 DEF DutyKept, Pairs
<1>6. AllFading
  <2>1. ers /= None => ~ers.deleting
    BY DEF Init, NewERS
  <2> QED
    BY <1>1, <2>1 DEF AllFading, Fading
<1> QED
  BY <1>3, <1>4, <1>5, <1>6 DEF DutySupport

LEMMA DutyStays == Spec /\ AcceptanceStays => []DutyInv
<1>1. Init => DutyInv
  BY InitType, InitVersions, InitDates, InitZones, InitDuty DEF DutyInv
<1>2. ASSUME DutyInv, [Next]_vars, [Steady]_zones PROVE DutyInv'
  <2>1. TypeInv' /\ Versions' /\ Dates' /\ ZonesKnown'
    BY <1>2, NextType, NextVersions, NextDates, NextZones DEF DutyInv
  <2>2. DutySupport'
    BY <1>2, NextPairsHeld, NextClaimsEarlier, NextCaptures, NextPublishing, NextOwedKnown,
       NextFading, NextStaysProtected
    DEF DutyInv, DutySupport
  <2>3. DutyKept'
    BY <1>2, NextDutyKept DEF DutyInv
  <2> QED
    BY <2>1, <2>2, <2>3 DEF DutyInv
<1> QED
  BY <1>1, <1>2, PTL DEF Spec, AcceptanceStays

\* As long as no Zone changes what it accepts, a pair that was published where
\* withdrawals are supported is still in the intent or in a retired entry of its
\* ERS, or in a RecordWithdrawal: whatever copies the source and endpoint
\* controllers work from, wherever their calls fail, whoever deletes what in
\* between, and, if informers do not lag, whenever a Provider gains support.
THEOREM DutyIsKept == Spec /\ AcceptanceStays => []DutyInvariant
<1>1. DutyInv => DutyInvariant
  BY DEF DutyInv, DutyInvariant, TypeInv
<1> QED
  BY <1>1, DutyStays, PTL

-----------------------------------------------------------------------------
(* The duty of each pair goes through the states of WithdrawalDuty.        *)

LEMMA DutyMoves ==
    ASSUME DutyInv, DutyInv', [Next]_vars, NEW h \in Hosts, NEW a \in Addrs
    PROVE  \/ DutyOf(h, a)' = DutyOf(h, a)
           \/ <<DutyOf(h, a), DutyOf(h, a)'>> \in
                  {<<"none", "owed">>, <<"owed", "captured">>, <<"captured", "owed">>}
<1>0. <<h, a>> \in Pairs
  BY DEF Pairs
<1>1. owed[h, a] /= NoDuty => DutyOf(h, a) \in {"owed", "captured"}
  BY DEF DutyInv, DutyKept, DutyOf
<1>2. DutyOf(h, a)' =
         IF owed'[h, a] = NoDuty THEN "none"
         ELSE IF Claimed(owed[h, a], h, a)' THEN "captured" ELSE "owed"
  BY DEF DutyInv, DutyKept, DutyOf
<1>3. CASE owed'[h, a] = owed[h, a]
  <2>1. Claimed(owed[h, a], h, a) => Claimed(owed[h, a], h, a)'
    BY <1>3, ClaimsStay DEF Claimed
  <2>2. owed[h, a] = NoDuty => DutyOf(h, a) = "none"
    BY DEF DutyOf
  <2>3. Claimed(owed[h, a], h, a) /\ owed[h, a] /= NoDuty => DutyOf(h, a) = "captured"
    BY DEF DutyOf
  <2> QED
    BY <1>1, <1>2, <1>3, <2>1, <2>2, <2>3
<1>4. CASE owed'[h, a] /= owed[h, a]
  <2> DEFINE d == owed'[h, a]
  <2>1. /\ er \in ERS /\ ~er.deleting
        /\ d.uid = er.uid /\ d.gen = er.gen
        /\ claims' = claims
    BY <1>0, <1>4, OwedNow DEF DutyInv, DutySupport
  <2>2. ~Claimed(owed[h, a], h, a)'
    <3>1. er /= None /\ er.gen \in Nat
      BY <2>1, FieldTypes
    <3>2. \A c \in claims : c.uid = er.uid => c.gen < er.gen
      BY <2>1, <3>1 DEF DutyInv, DutySupport, ClaimsEarlier, EarlierThan
    <3>3. \A c \in claims : c.gen \in Nat
      BY DEF DutyInv, TypeInv, TypeOK, Claim
    <3>4. Claimed(owed[h, a], h, a)' =>
             \E c \in claims' : c.uid = d.uid /\ c.gen >= d.gen
      BY DEF Claimed
    <3> HIDE DEF d
    <3>5. ASSUME NEW c \in claims, c.uid = d.uid, c.gen >= d.gen
          PROVE  FALSE
      <4>1. c.gen < er.gen /\ c.gen \in Nat
        BY <2>1, <3>2, <3>3, <3>5
      <4>2. c.gen >= er.gen
        BY <2>1, <3>5
      <4> QED
        BY <3>1, <4>1, <4>2
    <3> QED
      BY <2>1, <3>4, <3>5
  <2>3. owed'[h, a] /= NoDuty
    <3>1. er.uid \in 1 .. MaxUids
      BY <2>1 DEF ERS
    <3>2. er.uid /= 0
      BY <3>1, RetirementParameters
    <3> HIDE DEF d
    <3>3. d /= NoDuty
      BY <2>1, <3>2 DEF NoDuty
    <3> QED
      BY <3>3 DEF d
  <2>4. DutyOf(h, a)' = "owed"
    BY <1>2, <2>2, <2>3
  <2>5. owed[h, a] = NoDuty => DutyOf(h, a) = "none"
    BY DEF DutyOf
  <2> QED
    BY <1>1, <2>4, <2>5
<1> QED
  BY <1>3, <1>4

\* As long as no Zone changes what it accepts (AcceptanceStays), this specification
\* implements WithdrawalDuty: whatever the steps of the controllers, a pair is
\* published, then captured, then perhaps published again, and nothing else ever
\* happens to it.
THEOREM DutyIsImplemented == Spec /\ AcceptanceStays => ImplementsDuty
<1> DEFINE duty == [p \in Pairs |-> DutyOf(p[1], p[2])]
<1>1. Init => Duty!Init
  <2> SUFFICES ASSUME Init PROVE Duty!Init
    OBVIOUS
  <2>1. \A p \in Pairs : \E h \in Hosts, a \in Addrs : p = <<h, a>>
    BY DEF Pairs
  <2>2. \A h \in Hosts, a \in Addrs : owed[h, a] = NoDuty
    BY DEF Init, Pairs
  <2>3. \A h \in Hosts, a \in Addrs : DutyOf(h, a) = "none"
    BY <2>2 DEF DutyOf
  <2> QED
    BY <2>1, <2>3 DEF Duty!Init
<1>2. ASSUME DutyInv, DutyInv', [Next]_vars
      PROVE  [Duty!Next]_duty
  <2> DEFINE new == [p \in Pairs |-> DutyOf(p[1], p[2])']
  <2>1. ASSUME NEW p \in Pairs
        PROVE  duty[p] = DutyOf(p[1], p[2]) /\ new[p] = DutyOf(p[1], p[2])'
    OBVIOUS
  <2>2. \A p \in Pairs : \E h \in Hosts, a \in Addrs : p[1] = h /\ p[2] = a
    BY DEF Pairs
  <2>3. new \in [Pairs -> Duty!DutyStates]
    BY <1>2, <2>2 DEF DutyInv, DutyKept, DutyOf, Duty!DutyStates
  <2>4. \A p \in Pairs : new[p] = duty[p] \/ <<duty[p], new[p]>> \in Duty!Advances
    BY <1>2, <2>1, <2>2, DutyMoves DEF Duty!Advances
  <2>5. duty' = new
    OBVIOUS
  <2> QED
    BY <2>3, <2>4, <2>5 DEF Duty!Next
<1> QED
  BY <1>1, <1>2, DutyStays, PTL DEF Spec, Duty!Spec, ImplementsDuty

-----------------------------------------------------------------------------
(* Ready, when the informers show what is.                                 *)

\* A record that is to be deleted is not programmed any more.
DeletingIsNot ==
    \A n \in Names : (recs[n] /= None /\ recs[n].deleting) => ~recs[n].programmed

Published(n, ts) == (recs[n] /= None /\ ~recs[n].deleting) => recs[n].targets = ts

\* What is reported on is what is published.
Reconciled ==
    (ers /= None /\ ers.protGen = ers.gen) => \A n \in Names : Published(n, ers.targets)
\* What an applied copy asks for is published, and nothing else once it is pruned.
Applied ==
    epc \in {"applied", "pruned"} =>
        \A n \in DesiredNames : recs[n] /= None => recs[n].targets = er.targets
Pruned ==
    epc = "pruned" =>
        \A n \in Names : (recs[n] /= None /\ ~recs[n].deleting) => n \in DesiredNames
\* A report of the ERS is not older than the copy of a reconcile.
ReportedOn ==
    (epc /= "idle" /\ er /= None /\ ers /= None /\ ers.protGen = ers.gen)
        => ers.targets = er.targets

ReadyInv ==
    /\ TypeInv /\ Dates
    /\ DeletingIsNot /\ Reconciled /\ Applied /\ Pruned /\ ReportedOn

\* What becomes of a record: it is written from the copy, or it keeps its targets.
LEMMA RecordFate ==
    ASSUME TypeInv, DeletingIsNot, [Next]_vars, NEW n \in Names, recs'[n] /= None
    PROVE  /\ \/ epc = "resolved" /\ er /= None /\ ers' = ers /\ recs'[n].targets = er.targets
              \/ /\ recs[n] /= None /\ recs'[n].targets = recs[n].targets
                 /\ recs[n].deleting => recs'[n].deleting
           /\ recs'[n].deleting => ~recs'[n].programmed
<1>0. /\ recs \in RecordSets /\ recs[n] \in RecordSet \cup {None}
      /\ (recs[n] /= None /\ recs[n].deleting) => ~recs[n].programmed
  BY DEF TypeInv, TypeOK, RecordSets, DeletingIsNot
<1>1. CASE recs' = recs
  BY <1>0, <1>1
<1>2. CASE RecordsWritten
  <2>1. PICK names \in SUBSET DesiredNames : WriteRecords(names)
    BY <1>2 DEF RecordsWritten
  <2>2. recs'[n] = IF n \in names THEN Written(recs[n]) ELSE recs[n]
    BY <2>1 DEF WriteRecords
  <2>3. CASE n \notin names
    BY <1>0, <2>2, <2>3
  <2>4. CASE n \in names
    <3>1. CASE recs[n] = None
      <4>1. recs'[n] = [targets |-> er.targets, deleting |-> FALSE, programmed |-> FALSE]
        BY <2>2, <2>4, <3>1 DEF Written
      <4>2. recs'[n].targets = er.targets /\ ~recs'[n].deleting
        BY <4>1
      <4> QED
        BY <1>2, <4>2 DEF RecordsWritten, TypeInv
    <3>2. CASE recs[n] /= None /\ recs[n].targets = er.targets
      BY <1>0, <2>2, <2>4, <3>2 DEF Written
    <3>3. CASE recs[n] /= None /\ recs[n].targets /= er.targets
      <4>1. recs[n] \in RecordSet
               /\ recs'[n] = [recs[n] EXCEPT !.targets = er.targets, !.programmed = FALSE]
        BY <1>0, <2>2, <2>4, <3>3 DEF Written
      <4>2. recs'[n].targets = er.targets /\ ~recs'[n].programmed
        BY <4>1 DEF RecordSet
      <4> QED
        BY <1>2, <4>2 DEF RecordsWritten, TypeInv
    <3> QED
      BY <3>1, <3>2, <3>3
  <2> QED
    BY <2>3, <2>4
<1>3. CASE RecordsPurged
  <2>1. PICK some : recs' = Purged(some)
    BY <1>3 DEF RecordsPurged
  <2>2. recs'[n] = IF n \in some /\ recs[n] /= None
                   THEN [recs[n] EXCEPT !.deleting = TRUE, !.programmed = FALSE]
                   ELSE recs[n]
    BY <2>1 DEF Purged
  <2>3. CASE n \in some /\ recs[n] /= None
    <3>1. recs[n] \in RecordSet
             /\ recs'[n] = [recs[n] EXCEPT !.deleting = TRUE, !.programmed = FALSE]
      BY <1>0, <2>2, <2>3
    <3>2. recs'[n].targets = recs[n].targets /\ recs'[n].deleting /\ ~recs'[n].programmed
      BY <3>1 DEF RecordSet
    <3> QED
      BY <2>3, <3>2
  <2>4. CASE ~(n \in some /\ recs[n] /= None)
    BY <1>0, <2>2, <2>4
  <2> QED
    BY <2>3, <2>4
<1>4. ASSUME NEW m \in Names, ProgramRecord(m)
      PROVE  /\ recs[n] /= None /\ recs'[n].targets = recs[n].targets
             /\ recs[n].deleting => recs'[n].deleting
             /\ recs'[n].deleting => ~recs'[n].programmed
  <2>1. CASE m = n
    <3>1. ~recs[n].deleting /\ recs' = [recs EXCEPT ![n].programmed = TRUE]
      BY <1>0, <1>4, <2>1 DEF ProgramRecord, RecordSets
    <3>2. recs[n] /= None /\ recs[n] \in RecordSet
      BY <1>0, <1>4, <2>1 DEF ProgramRecord
    <3>3. recs'[n] = [recs[n] EXCEPT !.programmed = TRUE]
      BY <1>0, <3>1 DEF RecordSets
    <3>4. recs'[n].targets = recs[n].targets /\ recs'[n].deleting = recs[n].deleting
      BY <3>2, <3>3 DEF RecordSet
    <3> QED
      BY <3>1, <3>2, <3>4
  <2>2. CASE m /= n
    <3>1. recs'[n] = recs[n]
      BY <1>0, <1>4, <2>2 DEF ProgramRecord, RecordSets
    <3> QED
      BY <1>0, <3>1
  <2> QED
    BY <2>1, <2>2
<1>5. CASE ClaimsMade
  BY <1>1, <1>5 DEF ClaimsMade
<1> QED
  BY <1>1, <1>2, <1>3, <1>4, <1>5, RecordsSteps DEF RecordsStep

\* A new generation has no report yet, and a report comes from a reconcile that ends.
LEMMA ReportAges ==
    ASSUME TypeInv, Dates, [Next]_vars, ers' /= None, ers'.protGen = ers'.gen, ers' /= ers
    PROVE  /\ ers \in ERS /\ ers /= None /\ ers'.targets = ers.targets
           /\ Reported \/ ers.protGen = ers.gen
<1>0. ers \in ERS \cup {None}
  BY DEF TypeInv, TypeOK
<1>1. ~Created
  <2> SUFFICES ASSUME Created PROVE FALSE
    OBVIOUS
  <2>1. ers'.gen = 1 /\ ers'.protGen = 0
    BY DEF Created, NewERS
  <2> QED
    BY <2>1
<1>2. ~Dropped /\ ~Released
  BY DEF Dropped, Released
<1>3. ers /= None /\ (Marked \/ Rewritten \/ Emptied \/ Reported \/ Flagged)
  BY <1>1, <1>2, ErsSteps
  DEF ErsStep, ErsChange, Marked, Rewritten, Emptied, Reported, Flagged
<1>4. ers \in ERS /\ ers.gen \in Nat /\ ers.protGen \in Nat /\ ers.protGen <= ers.gen
  BY <1>0, <1>3, FieldTypes DEF Dates, Dated
<1>5. CASE Marked \/ Rewritten \/ Emptied
  <2>1. ers'.gen = ers.gen + 1
    BY <1>4, <1>5 DEF Marked, Rewritten, Emptied, WithIntent, ERS
  <2>2. CASE Reported
    BY <1>3, <1>4, <2>1, <2>2 DEF Reported, WithStatus, ERS
  <2>3. CASE ~Reported
    BY <1>3, <1>4, <2>1, <2>3, WriteIs
  <2> QED
    BY <2>2, <2>3
<1>6. CASE Reported
  BY <1>3, <1>4, <1>6 DEF Reported, WithStatus, ERS
<1>7. CASE Flagged
  <2>1. PICK fin \in {TRUE, ers.fin}, pend \in BOOLEAN, capt \in Nat, ready \in {0, ers.ready} :
              ers' = [ers EXCEPT !.fin = fin, !.pend = pend, !.capt = capt, !.ready = ready]
    BY <1>7 DEF Flagged
  <2> QED
    BY <1>3, <1>4, <2>1 DEF ERS
<1> QED
  BY <1>3, <1>5, <1>6, <1>7

LEMMA NextDeletingIsNot ==
    ASSUME TypeInv, DeletingIsNot, [Next]_vars PROVE DeletingIsNot'
  BY RecordFate DEF DeletingIsNot

LEMMA NextReportedOn ==
    ASSUME ~Lag, TypeInv, Dates, ReportedOn, [Next]_vars PROVE ReportedOn'
<1> SUFFICES ASSUME epc' /= "idle", er' /= None, ers' /= None, ers'.protGen = ers'.gen
             PROVE  ers'.targets = er'.targets
  BY DEF ReportedOn
<1>0. Seen = ers
  BY DEF Seen, Informer, Server
<1>1. CASE Begun
  BY <1>0, <1>1 DEF Begun, apiVars
<1>2. CASE er' = er /\ epc /= "idle" /\ ers' = ers
  BY <1>2 DEF ReportedOn
<1>3. CASE er' = er /\ epc /= "idle" /\ ers' /= ers /\ ~Reported
  BY <1>3, ReportAges DEF ReportedOn
<1>4. CASE er' = er /\ epc /= "idle" /\ ers' /= ers /\ Reported
  BY <1>4, ReportAges DEF Reported
<1>5. CASE UNCHANGED endpointVars
  BY <1>2, <1>3, <1>4, <1>5 DEF endpointVars
<1> QED
  BY <1>1, <1>2, <1>5, EndpointSteps
  DEF EndpointStep, Ended, CaptureDone, CaptureBroke, PurgeDone, PlanMade, ApplyDone,
      PruneDone

LEMMA NextApplied ==
    ASSUME TypeInv, DeletingIsNot, Applied, [Next]_vars PROVE Applied'
<1> SUFFICES ASSUME epc' \in {"applied", "pruned"}, NEW n \in DesiredNames', recs'[n] /= None
             PROVE  recs'[n].targets = er'.targets
  BY DEF Applied
<1>1. UNCHANGED endpointVars \/ ApplyDone \/ PruneDone
  BY EndpointSteps
  DEF EndpointStep, Begun, Ended, CaptureDone, CaptureBroke, PurgeDone, PlanMade
<1>2. er' = er /\ plan' = plan /\ DesiredNames' = DesiredNames
  BY <1>1 DEF endpointVars, ApplyDone, PruneDone, DesiredNames
<1>3. n \in Names /\ n \in DesiredNames
  BY <1>2 DEF DesiredNames
<1>4. CASE epc \in {"applied", "pruned"}
  BY <1>2, <1>3, <1>4, RecordFate DEF Applied
<1>5. CASE ApplyDone
  <2>1. recs'[n] = Written(recs[n])
    BY <1>3, <1>5 DEF ApplyDone, WriteRecords
  <2>2. recs[n] \in RecordSet \cup {None}
    BY <1>3 DEF TypeInv, TypeOK, RecordSets
  <2>3. recs'[n].targets = er.targets
    BY <2>1, <2>2 DEF Written, RecordSet
  <2> QED
    BY <1>2, <2>3
<1> QED
  BY <1>1, <1>4, <1>5 DEF endpointVars, PruneDone

LEMMA NextPruned ==
    ASSUME ~Lag, TypeInv, DeletingIsNot, Pruned, [Next]_vars PROVE Pruned'
<1> SUFFICES ASSUME epc' = "pruned", NEW n \in Names, recs'[n] /= None, ~recs'[n].deleting
             PROVE  n \in DesiredNames'
  BY DEF Pruned, Names
<1>1. UNCHANGED endpointVars \/ PruneDone
  BY EndpointSteps
  DEF EndpointStep, Begun, Ended, CaptureDone, CaptureBroke, PurgeDone, PlanMade, ApplyDone
<1>2. DesiredNames' = DesiredNames
  BY <1>1 DEF endpointVars, PruneDone, DesiredNames
<1>3. CASE UNCHANGED endpointVars
  BY <1>2, <1>3, RecordFate DEF Pruned, endpointVars
<1>4. CASE PruneDone
  <2> SUFFICES ASSUME n \notin DesiredNames PROVE FALSE
    BY <1>2
  <2>1. recs[n] \in RecordSet \cup {None}
    BY DEF TypeInv, TypeOK, RecordSets
  <2>2. recs[n] /= None => n \in Listed \ DesiredNames
    BY DEF Listed, Informer, Server
  <2>3. recs'[n] = IF recs[n] /= None
                   THEN [recs[n] EXCEPT !.deleting = TRUE, !.programmed = FALSE] ELSE recs[n]
    BY <1>4, <2>2 DEF PruneDone, Purged
  <2> QED
    BY <2>1, <2>3 DEF RecordSet
<1> QED
  BY <1>1, <1>3, <1>4

\* What a reconcile is about to report is published, and nothing else.
LEMMA ReportPublished ==
    ASSUME Reconciled, Applied, Pruned, Reported, NEW n \in Names
    PROVE  Published(n, ers.targets)
<1>1. er = ers /\ ers /= None
  BY DEF Reported
<1>2. CASE epc = "pruned"
  BY <1>1, <1>2 DEF Applied, Pruned, Published
<1>3. CASE NeedsBarrier
  BY <1>1, <1>3 DEF NeedsBarrier, Reconciled
<1> QED
  BY <1>2, <1>3 DEF Reported

LEMMA NextReconciled ==
    ASSUME TypeInv, Dates, DeletingIsNot, Reconciled, Applied, Pruned, ReportedOn,
           [Next]_vars
    PROVE  Reconciled'
<1> SUFFICES ASSUME ers' /= None, ers'.protGen = ers'.gen, NEW n \in Names
             PROVE  Published(n, ers.targets)'
  BY DEF Reconciled, Names
<1> SUFFICES ASSUME recs'[n] /= None, ~recs'[n].deleting
             PROVE  recs'[n].targets = ers'.targets
  BY DEF Published
<1>1. CASE ers' = ers
  <2>1. CASE epc = "resolved" /\ er /= None /\ recs'[n].targets = er.targets
    BY <1>1, <2>1 DEF ReportedOn
  <2> QED
    BY <1>1, <2>1, RecordFate DEF Reconciled, Published
<1>2. CASE ers' /= ers
  <2>1. ers'.targets = ers.targets /\ Published(n, ers.targets)
    BY <1>2, ReportAges, ReportPublished DEF Reconciled
  <2>2. recs[n] /= None /\ recs'[n].targets = recs[n].targets /\ ~recs[n].deleting
    BY <1>2, RecordFate
  <2> QED
    BY <2>1, <2>2 DEF Published
<1> QED
  BY <1>1, <1>2

LEMMA InitReady == Init => ReadyInv
<1> SUFFICES ASSUME Init PROVE ReadyInv
  OBVIOUS
<1>1. \A n \in Names : recs[n] = None
  BY DEF Init, NoRecords
<1>2. epc = "idle"
  BY DEF Init
<1> QED
  BY <1>1, <1>2, InitType, InitDates
  DEF ReadyInv, DeletingIsNot, Reconciled, Published, Applied, Pruned, ReportedOn

LEMMA NextReady == ASSUME ~Lag, ReadyInv, [Next]_vars PROVE ReadyInv'
  BY NextType, NextDates, NextDeletingIsNot, NextReconciled, NextApplied, NextPruned,
     NextReportedOn
  DEF ReadyInv

\* Ready becomes True only by the report of a reconcile.
LEMMA ReadyStep ==
    ASSUME ~Lag, ReadyInv, [Next]_vars, HasReady(ers)', ~HasReady(ers), NEW h \in ers.hosts
    PROVE  \E n \in Names : /\ n[2] = h
                            /\ recs[n] /= None
                            /\ recs[n].targets = ers.targets
                            /\ recs[n].programmed
<1>0. ers' /= None /\ ers'.ready = ers'.gen /\ ers' /= ers /\ TypeInv /\ Dates
  BY DEF HasReady, ReadyInv
<1>1. ~Created
  <2> SUFFICES ASSUME Created PROVE FALSE
    OBVIOUS
  <2>1. ers'.gen = 1 /\ ers'.ready = 0
    BY DEF Created, NewERS
  <2> QED
    BY <1>0, <2>1
<1>2. ers /= None /\ (Marked \/ Rewritten \/ Emptied \/ Reported \/ Flagged)
  BY <1>0, <1>1, ErsSteps
  DEF ErsStep, ErsChange, Dropped, Released, Marked, Rewritten, Emptied, Reported, Flagged
<1>3. /\ ers \in ERS /\ ers.gen \in Nat /\ ers.ready \in Nat
      /\ ers.gen >= 1 /\ ers.ready <= ers.gen /\ ers.ready /= ers.gen
  BY <1>0, <1>2, FieldTypes DEF TypeInv, TypeOK, Dates, Dated, HasReady
<1>4. ~(Marked \/ Rewritten \/ Emptied)
  <2> SUFFICES ASSUME Marked \/ Rewritten \/ Emptied PROVE FALSE
    OBVIOUS
  <2>1. ers'.gen = ers.gen + 1 /\ ers'.ready = ers.ready
    BY <1>3 DEF Marked, Rewritten, Emptied, WithIntent, ERS
  <2> QED
    BY <1>0, <1>3, <2>1
<1>5. ~Flagged
  <2> SUFFICES ASSUME Flagged PROVE FALSE
    OBVIOUS
  <2>1. PICK fin \in {TRUE, ers.fin}, pend \in BOOLEAN, capt \in Nat, ready \in {0, ers.ready} :
              ers' = [ers EXCEPT !.fin = fin, !.pend = pend, !.capt = capt, !.ready = ready]
    BY DEF Flagged
  <2>2. ers'.gen = ers.gen /\ ers'.ready \in {0, ers.ready}
    BY <1>3, <2>1 DEF ERS
  <2> QED
    BY <1>0, <1>3, <2>2
<1>6. Reported /\ er = ers
  BY <1>2, <1>4, <1>5 DEF Reported
<1>7. AllProgrammed(Informer.recs)
  <2>1. /\ ers'.gen = ers.gen
        /\ ers'.ready = IF AllProgrammed(Informer.recs) /\ ~er.pend THEN er.gen ELSE 0
    BY <1>3, <1>6 DEF Reported, WithStatus, ERS
  <2> QED
    BY <1>0, <1>3, <2>1
<1> DEFINE n == <<plan[h].zone, h, TypeFor(er.targets)>>
<1>8. n \in DesiredNames /\ n[2] = h
  <2>1. h \in Hosts /\ plan[h].zone /= NoZone
    BY <1>3, <1>6, <1>7, FieldTypes DEF AllProgrammed
  <2>2. plan[h].zone \in Zones
    BY <1>0, <2>1 DEF TypeInv, TypeOK
  <2>3. n \in Names
    BY <2>1, <2>2 DEF Names, TypeFor
  <2> QED
    BY <1>6, <2>3 DEF DesiredNames
<1> HIDE DEF n
<1>9. n \in Names /\ Informer.recs[n] /= None /\ Informer.recs[n].programmed
  BY <1>7, <1>8 DEF AllProgrammed, DesiredNames
<1>11. Informer.recs = recs
  BY DEF Informer, Server
<1>10. Published(n, ers.targets)
  BY <1>6, <1>9, ReportPublished DEF ReadyInv
<1> QED
  BY <1>8, <1>9, <1>10, <1>11 DEF ReadyInv, DeletingIsNot, Published

\* When no informer lags, an ERS becomes Ready at its generation only when every
\* one of its hostnames has a programmed RecordSet of exactly its live targets,
\* whatever the Zones, the Service, the users and the failures do: the report of
\* a reconcile describes what that reconcile published, and a report made before
\* anything is written what an earlier one of the same generation did.
THEOREM ReadyMeansProgrammed == ~Lag => (Spec => ReadyIsProgrammed)
<1> SUFFICES ASSUME ~Lag PROVE Spec => ReadyIsProgrammed
  OBVIOUS
<1>1. Spec => []ReadyInv
  BY InitReady, NextReady, PTL DEF Spec
<1>2. ASSUME ReadyInv, [Next]_vars
      PROVE  [HasReady(ers)' /\ ~HasReady(ers) =>
                 \A h \in ers.hosts : \E n \in Names :
                     /\ n[2] = h
                     /\ recs[n] /= None
                     /\ recs[n].targets = ers.targets
                     /\ recs[n].programmed]_vars
  BY <1>2, ReadyStep
<1> QED
  BY <1>1, <1>2, PTL DEF Spec, ReadyIsProgrammed
=============================================================================
