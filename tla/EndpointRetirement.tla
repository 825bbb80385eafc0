------------------------ MODULE EndpointRetirement ------------------------
(***************************************************************************)
(* A Service, the EndpointRecordSet (ERS) its source controller keeps, and *)
(* the RecordSets and RecordWithdrawals the endpoint controller derives    *)
(* from the ERS.  A hostname/address pair that was published in a Zone     *)
(* whose Provider supports withdrawals may leave the ERS only through a    *)
(* RecordWithdrawal: removed pairs are parked in retired entries until the *)
(* endpoint controller has captured them.                                  *)
(*                                                                         *)
(* Every write to the ERS but one carries an optimistic lock, and an       *)
(* object's value stands for its resourceVersion: a locked write succeeds  *)
(* when the object still is the one that was read.  IPv4 and IPv6          *)
(* addresses are not told apart, so a hostname has at most one generated   *)
(* RecordSet of addresses in a Zone and one of a hostname.                 *)
(***************************************************************************)
EXTENDS Naturals, FiniteSets

CONSTANTS
    Hosts,         \* the hostnames a Service may ask for
    Targets,       \* what its load balancer may answer with
    Addrs,         \* those of the targets that are IP addresses
    NumZones,      \* Zones every hostname is below, the longest name first
    FirstZones,    \* the states the Zones may be in at first
    MaxUids,       \* bound: EndpointRecordSets ever created
    MaxEdits,      \* bound: changes of the Service
    MaxZoneMoves,  \* bound: changes of the Zones and their Provider
    MaxRetired,    \* MaxRetiredTargets and MaxRetiredHostnames, made small
    MaxFaults,     \* bound: failed calls and crashes
    Lag            \* may the informer caches lag the API server?

ASSUME RetirementParameters ==
    /\ Addrs \subseteq Targets
    /\ NumZones \in Nat \ {0}
    /\ {MaxUids, MaxEdits, MaxZoneMoves, MaxRetired, MaxFaults} \subseteq Nat
    /\ MaxUids > 0
    /\ Lag \in BOOLEAN

Zones == 1 .. NumZones

\* is: whether capability, conversion and policy accept record sets for it.
\* sup: does its Provider support withdrawals?
ZoneStates == [is : {"absent", "rejects", "accepts"}, sup : BOOLEAN]
ASSUME ZonesAtFirst == FirstZones \subseteq [Zones -> ZoneStates]

None == [none |-> TRUE]
NoZone == 0

Service == [hosts : SUBSET Hosts, targets : SUBSET Targets, deleting : BOOLEAN,
            fin : BOOLEAN]

\* RetiredTarget: one address and a snapshot of the hostnames.
\* RetiredHostname: one hostname and a snapshot of the addresses.
Entry == [kind : {"target", "hostname"}, gen : Nat, hosts : SUBSET Hosts,
          addrs : SUBSET Addrs]

\* prot, protGen: the WithdrawalProtected condition.  capt, ready: the
\* generation at which WithdrawalCaptured and Ready are True, or 0.
\* pend: WithdrawalCapturePending.  bind: the Zones of status.hostnames.
ERS == [uid : 1 .. MaxUids, gen : Nat, deleting : BOOLEAN, fin : BOOLEAN,
        hosts : SUBSET Hosts, targets : SUBSET Targets, retired : SUBSET Entry,
        prot : {"none", "True", "False", "Unknown"}, protGen : Nat,
        capt : Nat, ready : Nat, pend : BOOLEAN,
        bind : [Hosts -> Zones \cup {NoZone}]]

\* A generated RecordSet is named after the ERS, its Zone, hostname and type.
Names == Zones \X Hosts \X {"A", "CNAME"}
RecordSet == [targets : SUBSET Targets, deleting : BOOLEAN, programmed : BOOLEAN]
RecordSets == [Names -> RecordSet \cup {None}]
NoRecords == [n \in Names |-> None]

Claim == [uid : 1 .. MaxUids, gen : Nat, zone : Zones, host : Hosts, addr : Addrs]

SourcePhases == {"idle", "read", "apply", "release"}
EndpointPhases == {"idle", "read", "failed", "captured", "purged", "resolved",
                   "applied", "pruned"}

VARIABLES
    svc,     \* API server: the Service
    ers,     \* API server: the EndpointRecordSet
    recs,    \* API server: the generated RecordSets
    claims,  \* API server: the RecordWithdrawals
    zones,   \* API server: the Zones and what their Provider supports
    uids,    \* EndpointRecordSets created so far
    edits,   \* changes of the Service so far
    moves,   \* changes of the Zones so far
    cache,   \* the informers: [svc, ers, recs, zones]
    spc,     \* Service controller: where in Reconcile it is
    sv,      \* Service controller: the Service it read
    epc,     \* endpoint controller: where in Reconcile it is
    er,      \* endpoint controller: the ERS it read
    plan,    \* endpoint controller: the Zone and support each hostname resolved to
    faults,  \* failed calls and crashes so far
    owed     \* history: the ERS and generation that last published a pair

apiVars == <<svc, ers, recs, claims, zones>>
countVars == <<uids, edits, moves>>
sourceVars == <<spc, sv>>
endpointVars == <<epc, er, plan>>
vars == <<svc, ers, recs, claims, zones, uids, edits, moves, cache, spc, sv, epc, er,
          plan, faults, owed>>

NoPlan == [h \in Hosts |-> [zone |-> NoZone, sup |-> FALSE]]
NoDuty == [uid |-> 0, gen |-> 0]
Pairs == Hosts \X Addrs

TypeOK ==
    /\ svc \in Service \cup {None}
    /\ ers \in ERS \cup {None}
    /\ recs \in RecordSets
    /\ claims \subseteq Claim
    /\ zones \in [Zones -> ZoneStates]
    /\ uids \in 0 .. MaxUids
    /\ edits \in 0 .. MaxEdits
    /\ moves \in 0 .. MaxZoneMoves
    /\ cache \in [svc : Service \cup {None}, ers : ERS \cup {None},
                  recs : RecordSets, zones : [Zones -> ZoneStates]]
    /\ spc \in SourcePhases
    /\ sv \in Service \cup {None}
    /\ epc \in EndpointPhases
    /\ er \in ERS \cup {None}
    /\ plan \in [Hosts -> [zone : Zones \cup {NoZone}, sup : BOOLEAN]]
    /\ faults \in 0 .. MaxFaults
    /\ owed \in [Pairs -> [uid : 0 .. MaxUids, gen : Nat]]

Server == [svc |-> svc, ers |-> ers, recs |-> recs, zones |-> zones]
Informer == IF Lag THEN cache ELSE Server
Fault == faults < MaxFaults /\ faults' = faults + 1

-----------------------------------------------------------------------------
(* Retirement: what every source does when its intent shrinks.             *)

\* Protected: closed until a current-generation False.
Protected(e) == e.prot /= "False" \/ e.protGen /= e.gen

\* MUTANT of Captured: the acknowledgment is expected of a later generation.
MutantCaptured(e) == e.capt > e.gen

Captured(e) == e.capt = e.gen

\* retireOnly, hasRetirements
RetireOnly(e) == e.hosts = {} \/ e.targets = {}
HasRetirements(e) == e.retired /= {}

\* addresses: a hostname target carries no obligation.
Addresses(ts) == ts \cap Addrs

\* Append: what leaves the ERS when its intent becomes hosts and targets.  An
\* address leaves with every hostname, too, and a hostname with every address.
RemovedAddresses(e, hosts, targets) ==
    {a \in Addresses(e.targets) : a \notin targets \/ hosts = {}}
RemovedHosts(e, hosts, targets) ==
    {h \in e.hosts : h \notin hosts \/ Addresses(targets) = {}}

\* The new entries are snapshots of the old associations.
Retirements(e, hosts, targets) ==
    IF ~Protected(e) \/ e.hosts = {} \/ Addresses(e.targets) = {} THEN {}
    ELSE {[kind |-> "target", gen |-> e.gen, hosts |-> e.hosts, addrs |-> {a}] :
             a \in RemovedAddresses(e, hosts, targets)}
         \cup
         {[kind |-> "hostname", gen |-> e.gen, hosts |-> {h},
           addrs |-> Addresses(e.targets)] :
             h \in RemovedHosts(e, hosts, targets)}

OfKind(entries, k) == {n \in entries : n.kind = k}

\* Above the limits the old intent is retained.
Overflow(e, hosts, targets) ==
    \E k \in {"target", "hostname"} :
        /\ OfKind(Retirements(e, hosts, targets), k) /= {}
        /\ Cardinality(OfKind(e.retired, k))
               + Cardinality(OfKind(Retirements(e, hosts, targets), k)) > MaxRetired

\* The spec the source writes: a new generation.
WithIntent(e, hosts, targets) ==
    [e EXCEPT !.hosts = hosts, !.targets = targets, !.gen = e.gen + 1,
              !.retired = @ \cup Retirements(e, hosts, targets)]

\* RetireOrDelete: without protection, after a current acknowledgment, or with
\* nothing to retire.
MayDelete(e) ==
    \/ ~Protected(e)
    \/ RetireOnly(e) /\ Captured(e)
    \/ ~Overflow(e, {}, {}) /\ e.retired \cup Retirements(e, {}, {}) = {}

\* deleteExact, with UID and resourceVersion preconditions.  A deletion that
\* waits for a finalizer is a new generation.
Deleted(e) == IF e.fin THEN [e EXCEPT !.deleting = TRUE, !.gen = e.gen + 1] ELSE None

\* ReportPending: the old spec stays, and overflow is visible.
Pending(e) == [e EXCEPT !.pend = TRUE, !.ready = 0]

\* RetireOrDelete, of the ERS as the informer has it, e: the locked write fails
\* when it is not the current one.  "done" lets the caller go on.
RetireOrDelete(e) ==
    IF e = None \/ e.deleting THEN [ers |-> ers, done |-> TRUE]
    ELSE IF e /= ers THEN [ers |-> ers, done |-> FALSE]
    ELSE IF MayDelete(e) THEN [ers |-> Deleted(e), done |-> TRUE]
    ELSE IF Overflow(e, {}, {})
         THEN [ers |-> Pending(e), done |-> FALSE]
    ELSE IF e.hosts /= {} \/ e.targets /= {}
         THEN [ers |-> WithIntent(e, {}, {}), done |-> FALSE]
    ELSE [ers |-> ers, done |-> FALSE]

-----------------------------------------------------------------------------
(* Users, the load balancer, and the platform.                             *)

CreateService(hosts, targets) ==
    /\ svc = None
    /\ edits < MaxEdits
    /\ edits' = edits + 1
    /\ svc' = [hosts |-> hosts, targets |-> targets, deleting |-> FALSE, fin |-> FALSE]
    /\ UNCHANGED <<ers, recs, claims, zones, uids, moves, cache, sourceVars,
                   endpointVars, faults, owed>>

\* The hostnames annotation or status.loadBalancer.ingress changes; a Service
\* that is no LoadBalancer has no targets.
EditService(hosts, targets) ==
    /\ svc /= None
    /\ ~svc.deleting
    /\ <<hosts, targets>> /= <<svc.hosts, svc.targets>>
    /\ edits < MaxEdits
    /\ edits' = edits + 1
    /\ svc' = [svc EXCEPT !.hosts = hosts, !.targets = targets]
    /\ UNCHANGED <<ers, recs, claims, zones, uids, moves, cache, sourceVars,
                   endpointVars, faults, owed>>

DeleteService ==
    /\ svc /= None
    /\ ~svc.deleting
    /\ svc' = IF svc.fin THEN [svc EXCEPT !.deleting = TRUE] ELSE None
    /\ UNCHANGED <<ers, recs, claims, zones, countVars, cache, sourceVars,
                   endpointVars, faults, owed>>

\* A user deletes the ERS itself.
DeleteERS ==
    /\ ers /= None
    /\ ~ers.deleting
    /\ edits < MaxEdits
    /\ edits' = edits + 1
    /\ ers' = Deleted(ers)
    /\ UNCHANGED <<svc, recs, claims, zones, uids, moves, cache, sourceVars,
                   endpointVars, faults, owed>>

\* A Zone, its capability or its policy changes.  A Zone stays while a RecordSet
\* or a RecordWithdrawal refers to it.
MoveZone(z, s) ==
    /\ moves < MaxZoneMoves
    /\ zones[z].is /= s
    /\ s = "absent" => /\ \A n \in Names : n[1] = z => recs[n] = None
                       /\ \A c \in claims : c.zone /= z
    /\ moves' = moves + 1
    /\ zones' = [zones EXCEPT ![z].is = s]
    /\ UNCHANGED <<svc, ers, recs, claims, uids, edits, cache, sourceVars,
                   endpointVars, faults, owed>>

\* The Provider of a Zone gains withdrawal support; it does not lose it.
UpgradeProvider(z) ==
    /\ moves < MaxZoneMoves
    /\ ~zones[z].sup
    /\ moves' = moves + 1
    /\ zones' = [zones EXCEPT ![z].sup = TRUE]
    /\ UNCHANGED <<svc, ers, recs, claims, uids, edits, cache, sourceVars,
                   endpointVars, faults, owed>>

\* Core and the provider program a generated RecordSet, or end its deletion.
ProgramRecord(n) ==
    /\ recs[n] /= None
    /\ IF recs[n].deleting THEN recs' = [recs EXCEPT ![n] = None]
       ELSE /\ ~recs[n].programmed
            /\ zones[n[1]].is /= "absent"
            /\ recs' = [recs EXCEPT ![n].programmed = TRUE]
    /\ UNCHANGED <<svc, ers, claims, zones, countVars, cache, sourceVars,
                   endpointVars, faults, owed>>

\* An informer delivers the newest version of one kind.
Deliver(k) ==
    /\ Lag
    /\ cache[k] /= Server[k]
    /\ cache' = [cache EXCEPT ![k] = Server[k]]
    /\ UNCHANGED <<apiVars, countVars, sourceVars, endpointVars, faults, owed>>

-----------------------------------------------------------------------------
(* The Service controller.                                                 *)

sourceFrame == <<recs, claims, zones, edits, moves, cache, endpointVars, owed>>

SourceGoto(next) ==
    /\ spc' = next
    /\ sv' = IF next = "idle" THEN None ELSE sv

\* endpointRecordSetForService is not nil.
Wanted(s) == s /= None /\ ~s.deleting /\ s.hosts /= {} /\ s.targets /= {}

SourceBegin ==
    /\ spc = "idle"
    /\ spc' = "read"
    /\ sv' = Informer.svc
    /\ UNCHANGED <<apiVars, uids, faults, sourceFrame>>

\* cleanupForService, then the Service's finalizer.
SourceCleanup ==
    /\ spc = "read"
    /\ ~Wanted(sv)
    /\ LET out == RetireOrDelete(Informer.ers)
       IN  /\ ers' = out.ers
           /\ SourceGoto(IF out.done /\ sv /= None /\ sv.fin THEN "release" ELSE "idle")
    /\ UNCHANGED <<svc, uids, faults, sourceFrame>>

SourceRelease ==
    /\ spc = "release"
    /\ svc' = IF svc /= sv THEN svc
              ELSE IF svc.deleting THEN None ELSE [svc EXCEPT !.fin = FALSE]
    /\ SourceGoto("idle")
    /\ UNCHANGED <<ers, uids, faults, sourceFrame>>

\* The finalizer comes before the ERS; an Update that conflicts is an error.
SourceAddFinalizer ==
    /\ spc = "read"
    /\ Wanted(sv)
    /\ svc' = IF ~sv.fin /\ svc = sv THEN [svc EXCEPT !.fin = TRUE] ELSE svc
    /\ IF sv.fin THEN SourceGoto("apply")
       ELSE IF svc = sv THEN spc' = "apply" /\ sv' = [sv EXCEPT !.fin = TRUE]
       ELSE SourceGoto("idle")
    /\ UNCHANGED <<ers, uids, faults, sourceFrame>>

NewERS(u, s) ==
    [uid |-> u, gen |-> 1, deleting |-> FALSE, fin |-> TRUE, hosts |-> s.hosts,
     targets |-> s.targets, retired |-> {}, prot |-> "none", protGen |-> 0, capt |-> 0,
     ready |-> 0, pend |-> FALSE, bind |-> [h \in Hosts |-> NoZone]]

\* applyEndpointRecordSet: Create carries the endpoint finalizer.
SourceCreate ==
    /\ spc = "apply"
    /\ Informer.ers = None
    /\ IF ers = None /\ uids < MaxUids
       THEN ers' = NewERS(uids + 1, sv) /\ uids' = uids + 1
       ELSE UNCHANGED <<ers, uids>>
    /\ SourceGoto("idle")
    /\ UNCHANGED <<svc, faults, sourceFrame>>

\* endpointRecordSetNeedsUpdate: the retired entries are not compared.
SameIntent(e, s) == e.hosts = s.hosts /\ e.targets = s.targets

\* ReportPending, ClearPending, Update: locked writes, one per step.
SourceUpdate ==
    /\ spc = "apply"
    /\ Informer.ers /= None
    /\ LET e == Informer.ers
           over == Overflow(e, sv.hosts, sv.targets)
       IN  /\ ers' = IF e.deleting \/ e /= ers THEN ers
                     ELSE IF over THEN Pending(e)
                     ELSE IF e.pend THEN [e EXCEPT !.pend = FALSE]
                     ELSE IF SameIntent(e, sv) THEN ers
                     ELSE WithIntent(e, sv.hosts, sv.targets)
           /\ SourceGoto(IF ~e.deleting /\ e = ers /\ ~over /\ e.pend THEN "apply" ELSE "idle")
    /\ UNCHANGED <<svc, uids, faults, sourceFrame>>

SourceFault ==
    /\ spc /= "idle"
    /\ Fault
    /\ SourceGoto("idle")
    /\ UNCHANGED <<apiVars, uids, sourceFrame>>

-----------------------------------------------------------------------------
(* The endpoint controller.                                                *)

endpointFrame == <<svc, zones, countVars, cache, sourceVars>>

EndpointGoto(next) ==
    /\ epc' = next
    /\ er' = IF next = "idle" THEN None ELSE er
    /\ plan' = IF next = "idle" THEN NoPlan ELSE plan

EndpointBegin ==
    /\ epc = "idle"
    /\ epc' = "read"
    /\ er' = Informer.ers
    /\ UNCHANGED <<apiVars, countVars, cache, sourceVars, plan, faults, owed>>

\* Delete of RecordSets: those the API server still has wait for core, and
\* their status is not current any more.
Purged(names) ==
    [n \in Names |-> IF n \in names /\ recs[n] /= None
                     THEN [recs[n] EXCEPT !.deleting = TRUE, !.programmed = FALSE]
                     ELSE recs[n]]
Listed == {n \in Names : Informer.recs[n] /= None}

\* cleanupForEndpointRecordSet, when the ERS is gone.
EndpointCleanup ==
    /\ epc = "read"
    /\ er = None
    /\ recs' = Purged(Listed)
    /\ EndpointGoto("idle")
    /\ UNCHANGED <<ers, claims, faults, owed, endpointFrame>>

\* The finalizer is added by an unlocked patch, which the API server refuses
\* on an object that is deleting.
EndpointAddFinalizer ==
    /\ epc = "read"
    /\ er /= None
    /\ ~er.fin
    /\ ers' = IF er.deleting \/ ers = None \/ ers.deleting THEN ers
              ELSE [ers EXCEPT !.fin = TRUE]
    /\ EndpointGoto("idle")
    /\ UNCHANGED <<recs, claims, faults, owed, endpointFrame>>

\* MUTANT of Supported: a pair without a Zone is taken for a protected one.
\* withdrawalSupported
Supported(zs, z) == z /= NoZone /\ zs[z].sup

\* convertEndpoint of the providers: addresses only, or a single hostname.
Converts(ts) == ts /= {} /\ (ts \subseteq Addrs \/ Cardinality(ts) = 1)
TypeFor(ts) == IF ts \subseteq Addrs THEN "A" ELSE "CNAME"

\* recordSetsForHostname: the longest Zone whose capability, conversion and
\* policy accept the record sets.
Accepting(zs, ts) == {z \in Zones : zs[z].is = "accepts" /\ Converts(ts)}
ResolvedZone(zs, ts) ==
    IF Accepting(zs, ts) = {} THEN NoZone
    ELSE CHOOSE z \in Accepting(zs, ts) : \A y \in Accepting(zs, ts) : z <= y

\* unpublishedWithoutZone: the two lists are read from the API server.
UnpublishedWithoutZone ==
    /\ er.prot /= "True"
    /\ \A h \in Hosts : er.bind[h] = NoZone
    /\ \A z \in Zones : zones[z].is = "absent"
    /\ recs = NoRecords

\* withdrawalZone of a pair: the retained binding, else what the publication
\* would resolve to; a Zone, NoZone, or an error.
WithdrawalZone(h, a) ==
    LET z == ResolvedZone(Informer.zones, {a})
    IN  IF er.bind[h] /= NoZone
        THEN [zone |-> er.bind[h], err |-> Informer.zones[er.bind[h]].is = "absent"]
        ELSE [zone |-> z, err |-> z = NoZone /\ ~UnpublishedWithoutZone]

\* MUTANT of ToCapture: a deletion forgets what is still live.
MutantToCapture == UNION {{<<h, a, e.gen>> : h \in e.hosts, a \in e.addrs} : e \in er.retired}

\* captureWithdrawals: every pair of every entry, and the live ones of an ERS
\* that is deleting.
ToCapture ==
    (UNION {{<<h, a, e.gen>> : h \in e.hosts, a \in e.addrs} : e \in er.retired})
    \cup
    (IF er.deleting /\ Protected(er)
     THEN {<<h, a, er.gen>> : h \in er.hosts, a \in Addresses(er.targets)} ELSE {})

ClaimOf(p) == [uid |-> er.uid, gen |-> p[3], zone |-> WithdrawalZone(p[1], p[2]).zone,
               host |-> p[1], addr |-> p[2]]

\* ensureWithdrawal: the name is made of UID, generation and pair; a claim of
\* that name for another Zone is a collision.
Collides(p) ==
    \E c \in claims : /\ [c EXCEPT !.zone = ClaimOf(p).zone] = ClaimOf(p)
                      /\ c.zone /= ClaimOf(p).zone

Duties == {p \in ToCapture : /\ ~WithdrawalZone(p[1], p[2]).err
                             /\ Supported(Informer.zones, ClaimOf(p).zone)}
CaptureError(p) == WithdrawalZone(p[1], p[2]).err \/ (p \in Duties /\ Collides(p))

\* reconcileDeletion, reconcileRetirements
MustCapture ==
    /\ er /= None
    /\ er.fin
    /\ er.deleting \/ HasRetirements(er)

EndpointCapture ==
    /\ epc = "read"
    /\ MustCapture
    /\ \A p \in ToCapture : ~CaptureError(p)
    /\ claims' = claims \cup {ClaimOf(p) : p \in Duties}
    /\ EndpointGoto("captured")
    /\ UNCHANGED <<ers, recs, faults, owed, endpointFrame>>

\* Some pair has no Zone or collides: the pairs before it are captured.
EndpointCaptureError ==
    /\ epc = "read"
    /\ MustCapture
    /\ \E p \in ToCapture : CaptureError(p)
    /\ \E before \in SUBSET {p \in Duties : ~CaptureError(p)} :
          claims' = claims \cup {ClaimOf(p) : p \in before}
    /\ EndpointGoto("failed")
    /\ UNCHANGED <<ers, recs, faults, owed, endpointFrame>>

\* captureFailed
EndpointCaptureFailed ==
    /\ epc = "failed"
    /\ ers' = IF ers = er THEN [ers EXCEPT !.capt = 0, !.ready = 0] ELSE ers
    /\ EndpointGoto("idle")
    /\ UNCHANGED <<recs, claims, faults, owed, endpointFrame>>

\* reconcileRetirements, of an ERS that is still active: the patch fails when a
\* source has appended an entry meanwhile.
EndpointPruneEntries ==
    /\ epc = "captured"
    /\ ~er.deleting
    /\ ~RetireOnly(er)
    /\ ers' = IF ers = er THEN [ers EXCEPT !.retired = {}, !.gen = @ + 1] ELSE ers
    /\ EndpointGoto("idle")
    /\ UNCHANGED <<recs, claims, faults, owed, endpointFrame>>

\* deleteGeneratedRecordSets
EndpointPurge ==
    /\ epc = "captured"
    /\ er.deleting \/ RetireOnly(er)
    /\ recs' = Purged(Listed)
    /\ EndpointGoto("purged")
    /\ UNCHANGED <<ers, claims, faults, owed, endpointFrame>>

\* reconcileRetirements, of an ERS that only retires: the acknowledgment.
EndpointAcknowledge ==
    /\ epc = "purged"
    /\ ~er.deleting
    /\ ers' = IF ers = er THEN [ers EXCEPT !.capt = er.gen, !.ready = 0] ELSE ers
    /\ EndpointGoto("idle")
    /\ UNCHANGED <<recs, claims, faults, owed, endpointFrame>>

\* reconcileDeletion: the finalizer goes when the list is empty.
EndpointRelease ==
    /\ epc = "purged"
    /\ er.deleting
    /\ ers' = IF ers = er THEN IF Listed = {} THEN None ELSE [ers EXCEPT !.ready = 0]
              ELSE ers
    /\ EndpointGoto("idle")
    /\ UNCHANGED <<recs, claims, faults, owed, endpointFrame>>

\* buildStatusAndRecordSets
EndpointResolve ==
    /\ epc = "read"
    /\ er /= None
    /\ er.fin
    /\ ~MustCapture
    /\ LET z == ResolvedZone(Informer.zones, er.targets)
       IN  plan' = [h \in Hosts |->
                       IF h \in er.hosts
                       THEN [zone |-> z, sup |-> Supported(Informer.zones, z)]
                       ELSE [zone |-> NoZone, sup |-> FALSE]]
    /\ epc' = "resolved"
    /\ er' = er
    /\ UNCHANGED <<ers, recs, claims, faults, owed, endpointFrame>>

\* annotateWithdrawalStatus: True is sticky, and wins over Unknown.
Protection(zs) ==
    IF er.prot = "True" \/ \E h \in er.hosts : Supported(zs, plan[h].zone) THEN "True"
    ELSE IF er.hosts = {} \/ \E h \in er.hosts : plan[h].zone = NoZone THEN "Unknown"
    ELSE "False"

\* MUTANT of NeedsBarrier: records are written before the sources are told.
MutantNeedsBarrier == FALSE

\* protectionNeedsBarrier, with the first of the two annotations.
NeedsBarrier ==
    /\ er.prot = "False"
    /\ er.protGen = er.gen
    /\ \/ \E h \in er.hosts : plan[h].sup
       \/ \E h \in er.hosts : plan[h].zone = NoZone

Bound == [h \in Hosts |-> IF h \in er.hosts THEN plan[h].zone ELSE NoZone]
WithStatus(prot, ready) ==
    [ers EXCEPT !.prot = prot, !.protGen = er.gen, !.capt = er.gen,
                !.ready = IF ready /\ ~er.pend THEN er.gen ELSE 0, !.bind = Bound]

\* The desired RecordSets, by name.
DesiredNames == {n \in Names : /\ n[2] \in er.hosts
                               /\ n[1] = plan[n[2]].zone
                               /\ n[3] = TypeFor(er.targets)}

\* MUTANT of AllProgrammed: what is there is taken for programmed.
MutantAllProgrammed(rs) ==
    /\ er.hosts /= {}
    /\ \A h \in er.hosts : plan[h].zone /= NoZone
    /\ \A n \in DesiredNames : rs[n] /= None

\* aggregateGeneratedCondition over the RecordSets rs: each is there, and its
\* status is current and says Programmed.
AllProgrammed(rs) ==
    /\ er.hosts /= {}
    /\ \A h \in er.hosts : plan[h].zone /= NoZone
    /\ \A n \in DesiredNames : rs[n] /= None /\ rs[n].programmed

EndpointBarrier ==
    /\ epc = "resolved"
    /\ NeedsBarrier
    /\ ers' = IF ers = er THEN WithStatus(Protection(Informer.zones),
                                          AllProgrammed(Informer.recs)) ELSE ers
    /\ EndpointGoto("idle")
    /\ UNCHANGED <<recs, claims, faults, owed, endpointFrame>>

\* Create, or Update of what is there; a new spec is a new generation.
Written(r) ==
    IF r = None THEN [targets |-> er.targets, deleting |-> FALSE, programmed |-> FALSE]
    ELSE IF r.targets = er.targets THEN r
    ELSE [r EXCEPT !.targets = er.targets, !.programmed = FALSE]

\* The pairs are owed from now on: those in a Zone that accepts them, as far as the
\* controller knows of its Provider's support.
WriteRecords(names) ==
    /\ recs' = [n \in Names |-> IF n \in names THEN Written(recs[n]) ELSE recs[n]]
    /\ owed' = [p \in Pairs |->
                  IF /\ p[2] \in er.targets
                     /\ plan[p[1]].sup
                     /\ \E n \in names : n[2] = p[1] /\ zones[n[1]].is = "accepts"
                  THEN [uid |-> er.uid, gen |-> er.gen] ELSE owed[p]]

\* applyRecordSets: first every desired RecordSet is written.
EndpointApply ==
    /\ epc = "resolved"
    /\ ~NeedsBarrier
    /\ WriteRecords(DesiredNames)
    /\ EndpointGoto("applied")
    /\ UNCHANGED <<ers, claims, faults, endpointFrame>>

\* Then the others that are listed are deleted.
EndpointPrune ==
    /\ epc = "applied"
    /\ recs' = Purged(Listed \ DesiredNames)
    /\ EndpointGoto("pruned")
    /\ UNCHANGED <<ers, claims, faults, owed, endpointFrame>>

\* refreshGeneratedRecordSetStatus, the second annotation, patchStatus
EndpointStatus ==
    /\ epc = "pruned"
    /\ ers' = IF ers = er THEN WithStatus(Protection(Informer.zones),
                                          AllProgrammed(Informer.recs)) ELSE ers
    /\ EndpointGoto("idle")
    /\ UNCHANGED <<recs, claims, faults, owed, endpointFrame>>

\* A call fails or the process stops; what was already written stays.
EndpointFault ==
    /\ epc /= "idle"
    /\ Fault
    /\ \/ epc = "read" /\ MustCapture
          /\ \E some \in SUBSET {p \in Duties : ~CaptureError(p)} :
                claims' = claims \cup {ClaimOf(p) : p \in some}
          /\ UNCHANGED <<recs, owed>>
       \/ epc = "resolved" /\ ~NeedsBarrier
          /\ \E some \in SUBSET DesiredNames : WriteRecords(some)
          /\ UNCHANGED claims
       \/ /\ epc \in {"captured", "applied"}
          /\ \E some \in SUBSET Listed :
                recs' = Purged(some \ (IF epc = "applied" THEN DesiredNames ELSE {}))
          /\ er.deleting \/ RetireOnly(er) \/ epc = "applied"
          /\ UNCHANGED <<claims, owed>>
       \/ UNCHANGED <<recs, claims, owed>>
    /\ EndpointGoto("idle")
    /\ UNCHANGED <<ers, endpointFrame>>

-----------------------------------------------------------------------------

\* Nothing, or the Service and the ERS of an earlier release, which has no
\* finalizer yet.
Legacy == [hosts |-> Hosts, targets |-> Addrs, deleting |-> FALSE, fin |-> TRUE]

Init ==
    /\ \/ svc = None /\ ers = None
       \/ svc = Legacy /\ ers = [NewERS(1, Legacy) EXCEPT !.fin = FALSE]
    /\ recs = NoRecords
    /\ claims = {}
    /\ zones \in FirstZones
    /\ uids = IF ers = None THEN 0 ELSE 1
    /\ edits = 0
    /\ moves = 0
    /\ cache = Server
    /\ spc = "idle"
    /\ sv = None
    /\ epc = "idle"
    /\ er = None
    /\ plan = NoPlan
    /\ faults = 0
    /\ owed = [p \in Pairs |-> NoDuty]

User ==
    \/ \E hosts \in SUBSET Hosts, targets \in SUBSET Targets :
          CreateService(hosts, targets) \/ EditService(hosts, targets)
    \/ DeleteService
    \/ DeleteERS
    \/ \E z \in Zones, s \in {"absent", "rejects", "accepts"} : MoveZone(z, s)
    \/ \E z \in Zones : UpgradeProvider(z)

Source ==
    \/ SourceBegin
    \/ SourceCleanup
    \/ SourceRelease
    \/ SourceAddFinalizer
    \/ SourceCreate
    \/ SourceUpdate

Endpoint ==
    \/ EndpointBegin
    \/ EndpointCleanup
    \/ EndpointAddFinalizer
    \/ EndpointCapture
    \/ EndpointCaptureError
    \/ EndpointCaptureFailed
    \/ EndpointPruneEntries
    \/ EndpointPurge
    \/ EndpointAcknowledge
    \/ EndpointRelease
    \/ EndpointResolve
    \/ EndpointBarrier
    \/ EndpointApply
    \/ EndpointPrune
    \/ EndpointStatus

Core == \E n \in Names : ProgramRecord(n)
Deliveries == \E k \in {"svc", "ers", "recs", "zones"} : Deliver(k)

Next == User \/ Source \/ Endpoint \/ Core \/ Deliveries \/ SourceFault \/ EndpointFault

Spec == Init /\ [][Next]_vars

\* A reconcile that has work is started and goes on, watches deliver, and core
\* gets on with the generated RecordSets; nobody has to change anything.
Fairness ==
    /\ WF_vars(Source)
    /\ WF_vars(Endpoint)
    /\ \A n \in Names : WF_vars(ProgramRecord(n))
    /\ \A k \in {"svc", "ers", "recs", "zones"} : WF_vars(Deliver(k))

FairSpec == Spec /\ Fairness

-----------------------------------------------------------------------------
(* Properties.                                                             *)

Parked(d, h, a) ==
    /\ ers /= None
    /\ ers.uid = d.uid
    /\ \/ h \in ers.hosts /\ a \in ers.targets
       \/ \E e \in ers.retired : h \in e.hosts /\ a \in e.addrs /\ e.gen >= d.gen

Claimed(d, h, a) ==
    \E c \in claims : /\ c.uid = d.uid
                      /\ c.host = h
                      /\ c.addr = a
                      /\ c.gen >= d.gen

\* A pair published in a Zone that supports withdrawals is still in the intent
\* of the ERS that published it, or in one of its retired entries, or there is
\* a RecordWithdrawal for it: readers never see neither.
DutyKept ==
    \A h \in Hosts, a \in Addrs :
        owed[h, a] /= NoDuty => Parked(owed[h, a], h, a) \/ Claimed(owed[h, a], h, a)

\* DutyKept in well-typed states.
DutyInvariant == TypeOK /\ DutyKept

DutyOf(h, a) ==
    IF owed[h, a] = NoDuty THEN "none"
    ELSE IF Claimed(owed[h, a], h, a) THEN "captured"
    ELSE IF Parked(owed[h, a], h, a) THEN "owed"
    ELSE "lost"

Duty == INSTANCE WithdrawalDuty WITH
            duty <- [p \in Pairs |-> DutyOf(p[1], p[2])]

\* The pairs go through the states of WithdrawalDuty and no others: a captured
\* pair is owed again only when a newer intent publishes it, and no pair is
\* released in any other way.
ImplementsDuty == Duty!Spec

HasReady(e) == e /= None /\ e.ready = e.gen

\* When Ready becomes True at the current generation, every hostname has a
\* generated RecordSet of exactly the live targets, and it is programmed.
ReadyIsProgrammed ==
    [][HasReady(ers)' /\ ~HasReady(ers) =>
          \A h \in ers.hosts : \E n \in Names :
              /\ n[2] = h
              /\ recs[n] /= None
              /\ recs[n].targets = ers.targets
              /\ recs[n].programmed]_vars

Gone == svc = None /\ ers = None /\ recs = NoRecords

\* When the Service is gone for good and the Zones are left alone, its ERS, its
\* finalizer and every generated RecordSet go too, however the capture, the
\* acknowledgment and the deletions interleave.
CleanupCompletes ==
    <>[](svc = None \/ svc.deleting) /\ [](moves = 0) => <>[]Gone
=============================================================================
