----------------------- MODULE CloudflareZoneUnitProofs -----------------------
(***************************************************************************)
(* Proofs about CloudflareZoneUnit: the types and the single zone, that    *)
(* writes touch only records of the claim they are made for, and that a    *)
(* completed deletion leaves nothing behind.                               *)
(*                                                                         *)
(* Base is the type invariant; Owning says who made the records that the   *)
(* ledger and the pass name.  Kinds sorts the steps by what they write, so *)
(* that each later invariant is shown for the kinds and not once more for  *)
(* every action.                                                           *)
(***************************************************************************)
EXTENDS CloudflareZoneUnit, FiniteSetTheorems, FunctionTheorems, WellFoundedInduction, TLAPS

-----------------------------------------------------------------------------
(* Values.                                                                 *)

LEMMA SmallestIn ==
    ASSUME NEW S \in SUBSET Nat, S # {}
    PROVE  Min(S) \in S
<1>1. PICK x \in S : \A y \in S : ~(<<y, x>> \in OpToRel(<, Nat))
  BY NatLessThanWellFounded, WFMin
<1>2. \A y \in S : ~(y < x)
  BY <1>1 DEF OpToRel
<1>3. \A y \in S : x <= y
  BY <1>2
<1> QED
  BY <1>3 DEF Min

LEMMA LargestIn ==
    ASSUME NEW n \in Nat, NEW S \in SUBSET (0..n), S # {}
    PROVE  Max(S) \in S
<1> DEFINE T == {n - x : x \in S}
<1>1. T \in SUBSET Nat /\ T # {}
  <2>1. \A x \in S : n - x \in Nat
    OBVIOUS
  <2>2. PICK x \in S : TRUE
    OBVIOUS
  <2> QED
    BY <2>1, <2>2
<1>2. PICK x \in T : \A y \in T : ~(<<y, x>> \in OpToRel(<, Nat))
  BY <1>1, NatLessThanWellFounded, WFMin
<1>3. \A y \in T : ~(y < x)
  BY <1>1, <1>2 DEF OpToRel
<1>4. PICK m \in S : x = n - m
  BY <1>2
<1>5. \A y \in S : m >= y
  <2> TAKE y \in S
  <2>1. n - y \in T
    OBVIOUS
  <2>2. ~(n - y < n - m)
    BY <1>3, <1>4, <2>1
  <2> QED
    BY <2>2
<1> QED
  BY <1>5 DEF Max

Patches == UNION {[D -> Values] : D \in SUBSET RecordIds}
Batches == [posts : SUBSET Values, patches : Patches, deletes : SUBSET RecordIds]
Stages == {"idle", "zone", "finalizer", "select", "create", "apply", "delete",
           "release", "prune", "items", "look", "ready", "fence", "batch", "ledger"}
Items == Item \cup {NoItem}
Pass == [at : Stages, unit : Unit, zone : ZoneStatus, c : Claims \cup {0},
         rest : SUBSET Claims, ids : SUBSET RecordIds, batch : Batches,
         add : SUBSET RecordIds, drop : SUBSET RecordIds]
Budget == [claim : [Claims -> Items], uids : 0..MaxUids, edits : 0..MaxEdits,
           faults : 0..MaxFaults, tampered : BOOLEAN, records : 0..MaxRecords,
           zones : 0..MaxZones]
Cloud == [zones : SUBSET ZoneIds, records : [RecordIds -> Record \cup {Gone}]]

\* A pass that works on one item.
Working(p) == p.at \in {"look", "ready", "fence", "batch", "ledger"}
PassOK(p) ==
    /\ p \in Pass
    /\ Working(p) => /\ p.c \in Claims /\ Source(p) # NoItem
                     /\ p.batch.posts \subseteq Source(p).want
    /\ p.at \notin {"fence", "batch"} => p.batch = NoBatch
    /\ p.at # "ledger" => p.add = {} /\ p.drop = {}
    /\ p.at = "items" => p.rest # {}
    /\ \A c \in p.rest : p.unit.item[c] # NoItem

\* Generations: item i of the unit against the last one, b, that core wrote
\* for the claim, with n edits made.
GenerationOK(i, b, n, live) ==
    /\ i # NoItem => SourceMatches(i, b)
    /\ i # NoItem /\ ~i.deleting => b.gen <= n + 1
    /\ i = NoItem /\ ~b.deleting /\ live => b.gen <= n

Base ==
    /\ unit \in Unit
    /\ seen \in [unit : Unit, current : BOOLEAN, lags : 0..MaxLags]
    /\ seen.current => seen.unit = unit
    /\ cloud \in Cloud /\ class \in Classes /\ PassOK(pass) /\ budget \in Budget
    /\ \A c \in Claims : GenerationOK(unit.item[c], budget.claim[c], budget.edits, unit.live)

LEMMA Parameters ==
    /\ MaxLags \in Nat /\ MaxRecords \in Nat /\ MaxZones \in Nat
    /\ MaxUids \in Nat /\ MaxEdits \in Nat /\ MaxFaults \in Nat
    /\ Claims \subseteq Nat \ {0}
<1> DEFINE bounds == {MaxLags, MaxRecords, MaxZones, MaxUids, MaxEdits, MaxFaults}
<1>1. bounds \subseteq Nat /\ Claims \subseteq Nat \ {0}
  BY CloudflareAssumption
<1>2. \A n \in bounds : n \in Nat
  BY <1>1
<1> QED
  BY <1>1, <1>2

USE Parameters DEF RecordIds, ZoneIds

LEMMA NoUnitTyped == NoUnit \in Unit /\ NoZoneStatus \in ZoneStatus /\ NoEntry \in Entry
  BY DEF NoUnit, Unit, NoZoneStatus, ZoneStatus, NoEntry, Entry, NoItem, Generations, Reasons

LEMMA NoBatchTyped == NoBatch \in Batches
<1>1. <<>> \in [{} -> Values]
  OBVIOUS
<1>2. <<>> \in Patches
  BY <1>1 DEF Patches
<1> QED
  BY <1>2 DEF NoBatch, Batches

LEMMA IdleOK == Idle \in Pass /\ PassOK(Idle)
<1>1. Idle \in Pass
  BY NoUnitTyped, NoBatchTyped DEF Idle, Pass, Stages
<1> QED
  BY <1>1 DEF Idle, PassOK, Working

LEMMA EntryPut ==
    ASSUME NEW u \in Unit, NEW c \in Claims, NEW e \in Entry
    PROVE  /\ [u EXCEPT !.entry[c] = e] \in Unit
           /\ [u EXCEPT !.entry[c] = e].entry = [u.entry EXCEPT ![c] = e]
           /\ [u EXCEPT !.entry[c] = e].item = u.item
           /\ [u EXCEPT !.entry[c] = e].live = u.live
           /\ [u EXCEPT !.entry[c] = e].deleting = u.deleting
  BY DEF Unit

LEMMA ItemPut ==
    ASSUME NEW u \in Unit, NEW c \in Claims, NEW i \in Items
    PROVE  /\ [u EXCEPT !.item[c] = i] \in Unit
           /\ [u EXCEPT !.item[c] = i].item = [u.item EXCEPT ![c] = i]
           /\ [u EXCEPT !.item[c] = i].entry = u.entry
           /\ [u EXCEPT !.item[c] = i].live = u.live
           /\ [u EXCEPT !.item[c] = i].deleting = u.deleting
  BY DEF Unit, Items

LEMMA ZonePut ==
    ASSUME NEW u \in Unit, NEW z \in ZoneStatus
    PROVE  /\ [u EXCEPT !.zone = z] \in Unit
           /\ [u EXCEPT !.zone = z].entry = u.entry
           /\ [u EXCEPT !.zone = z].item = u.item
           /\ [u EXCEPT !.zone = z].live = u.live
           /\ [u EXCEPT !.zone = z].deleting = u.deleting
  BY DEF Unit

\* What a write leaves: the cache has the new unit, or stays behind.
LEMMA Written ==
    ASSUME Base, NEW u \in Unit, WriteUnit(u)
    PROVE  /\ unit' = u
           /\ seen' \in [unit : Unit, current : BOOLEAN, lags : 0..MaxLags]
           /\ seen'.current => seen'.unit = u
           /\ \/ seen.current /\ seen'.unit \in {u, unit}
              \/ seen' = seen /\ ~seen.current
<1>1. /\ unit \in Unit /\ (seen.current => seen.unit = unit)
      /\ seen \in [unit : Unit, current : BOOLEAN, lags : 0..MaxLags]
  BY DEF Base
<1>2. CASE seen.current /\ seen' = [seen EXCEPT !.unit = u]
  BY <1>1, <1>2 DEF WriteUnit
<1>3. CASE seen.current /\ seen.lags < MaxLags
           /\ seen' = [seen EXCEPT !.current = FALSE, !.lags = @ + 1]
  <2>1. seen.lags + 1 \in 0..MaxLags
    BY <1>1, <1>3
  <2> QED
    BY <1>1, <1>3, <2>1 DEF WriteUnit
<1>4. CASE ~seen.current /\ UNCHANGED seen
  BY <1>1, <1>4 DEF WriteUnit
<1> QED
  BY <1>2, <1>3, <1>4 DEF WriteUnit

\* The three outcomes of patchStatus.
Refused == pass' = Idle /\ UNCHANGED <<unit, seen>>
Unpatched(c, i, e, next) ==
    /\ pass' = next /\ UNCHANGED <<unit, seen>>
    /\ SourceMatches(seen.unit.item[c], i) /\ e = seen.unit.entry[c]
Patched(c, i, e, next) ==
    /\ pass' = next /\ seen.current /\ seen.unit = unit
    /\ SourceMatches(unit.item[c], i)
    /\ unit' \in Unit
    /\ unit'.entry = [unit.entry EXCEPT ![c] = e]
    /\ unit'.item = unit.item /\ unit'.live = unit.live /\ unit'.deleting = unit.deleting
    /\ seen'.unit \in {unit', unit}
    /\ seen' \in [unit : Unit, current : BOOLEAN, lags : 0..MaxLags]
    /\ seen'.current => seen'.unit = unit'

LEMMA PatchCases ==
    ASSUME Base, NEW c \in Claims, NEW i, NEW e \in Entry, NEW next, PatchEntry(c, i, e, next)
    PROVE  Refused \/ Unpatched(c, i, e, next) \/ Patched(c, i, e, next)
<1>1. CASE ~(SourceMatches(seen.unit.item[c], i) /\ (e = seen.unit.entry[c] \/ seen.current))
  BY <1>1 DEF PatchEntry, Refused
<1>2. CASE SourceMatches(seen.unit.item[c], i) /\ e = seen.unit.entry[c]
  BY <1>2 DEF PatchEntry, Unpatched
<1>3. CASE SourceMatches(seen.unit.item[c], i) /\ e # seen.unit.entry[c] /\ seen.current
  <2>1. pass' = next /\ WriteUnit([unit EXCEPT !.entry[c] = e])
    BY <1>3 DEF PatchEntry
  <2>2. unit \in Unit /\ seen.unit = unit
    BY <1>3 DEF Base
  <2>3. [unit EXCEPT !.entry[c] = e] \in Unit
    BY <2>2, EntryPut
  <2>4. /\ unit' = [unit EXCEPT !.entry[c] = e]
        /\ seen' \in [unit : Unit, current : BOOLEAN, lags : 0..MaxLags]
        /\ seen'.current => seen'.unit = unit'
        /\ seen'.unit \in {unit', unit}
    BY <2>1, <2>3, <1>3, Written
  <2> QED
    BY <1>3, <2>1, <2>2, <2>3, <2>4, EntryPut DEF Patched
<1> QED
  BY <1>1, <1>2, <1>3

-----------------------------------------------------------------------------
(* Every step leaves a well-typed state; the steps of the zone leave the   *)
(* items, the ledger and the records alone.                                *)

UnitLeft ==
    /\ unit' \in Unit
    /\ seen' \in [unit : Unit, current : BOOLEAN, lags : 0..MaxLags]
    /\ seen'.current => seen'.unit = unit'

\* Parts of the unit that a write of its zone status or finalizer keeps.
SameUnit(u, v) == u.item = v.item /\ u.entry = v.entry /\ u.live = v.live /\ u.deleting = v.deleting

QuietUnit == UnitLeft /\ SameUnit(unit', unit) /\ SameUnit(seen'.unit, seen.unit)

Ending(p) == p.at \in {"delete", "release"}
QuietPass ==
    /\ PassOK(pass')
    /\ \/ pass' = Idle \/ pass' = pass
       \/ /\ ~Working(pass') /\ pass'.unit = pass.unit /\ pass.at # "idle"
          /\ Ending(pass') => Ending(pass)
       \/ /\ ~Working(pass') /\ pass'.unit = seen.unit
          /\ Ending(pass') => seen.unit.deleting

BooksKept ==
    /\ budget' \in Budget
    /\ budget'.claim = budget.claim /\ budget'.uids = budget.uids
    /\ budget'.edits = budget.edits /\ budget'.tampered = budget.tampered
    /\ budget'.records = budget.records

Quiet ==
    /\ QuietUnit /\ QuietPass /\ BooksKept
    /\ cloud' \in Cloud /\ class' \in Classes /\ cloud'.records = cloud.records

LEMMA BaseKept ==
    ASSUME Base, UnitLeft, unit'.item = unit.item, unit'.live => unit.live,
           cloud' \in Cloud, class' \in Classes, PassOK(pass'), BooksKept
    PROVE  Base'
<1>1. \A c \in Claims : GenerationOK(unit'.item[c], budget'.claim[c], budget'.edits, unit'.live)
  BY DEF Base, BooksKept, GenerationOK
<1> QED
  BY <1>1 DEF Base, BooksKept, UnitLeft

LEMMA QuietBase == ASSUME Base, Quiet PROVE Base'
  BY BaseKept DEF Quiet, QuietUnit, QuietPass, SameUnit

LEMMA NothingWritten == ASSUME Base, UNCHANGED <<unit, seen>> PROVE QuietUnit
  BY DEF Base, QuietUnit, UnitLeft, SameUnit

LEMMA BooksUnspent == ASSUME Base, UNCHANGED budget PROVE BooksKept
  BY DEF Base, BooksKept

LEMMA BooksSpent ==
    ASSUME Base, NEW n \in 0..MaxFaults, NEW z \in 0..MaxZones,
           budget' = [budget EXCEPT !.faults = n, !.zones = z]
    PROVE  BooksKept
  BY DEF Base, BooksKept, Budget

LEMMA FaultSpent ==
    ASSUME Base, budget.faults < MaxFaults, Spend("faults")
    PROVE  BooksKept
<1>1. budget \in Budget
  BY DEF Base
<1>2. budget.faults + 1 \in 0..MaxFaults
  <2>1. budget.faults \in 0..MaxFaults
    BY <1>1 DEF Budget
  <2>2. MaxFaults \in Nat
    OBVIOUS
  <2> QED
    BY <2>1, <2>2
<1>3. budget' = [budget EXCEPT !.faults = budget.faults + 1]
  BY DEF Spend
<1> QED
  BY <1>1, <1>2, <1>3 DEF BooksKept, Budget

LEMMA FinalizerPut ==
    ASSUME NEW u \in Unit, NEW f \in BOOLEAN
    PROVE  [u EXCEPT !.finalizer = f] \in Unit /\ SameUnit([u EXCEPT !.finalizer = f], u)
  BY DEF Unit, SameUnit

\* A write that keeps items and ledger keeps those of the cache.
LEMMA QuietWrite ==
    ASSUME Base, NEW u \in Unit, SameUnit(u, unit), WriteUnit(u)
    PROVE  QuietUnit
  BY Written DEF Base, QuietUnit, UnitLeft, SameUnit

LEMMA Merged ==
    ASSUME NEW z \in ZoneStatus, NEW old, NEW u \in ZoneStatus
    PROVE  [f \in DOMAIN z |-> IF z[f] = old[f] THEN u[f] ELSE z[f]] \in ZoneStatus
  BY DEF ZoneStatus

LEMMA ZoneWritten ==
    ASSUME Base, NEW z \in ZoneStatus, NEW next, WriteZone(z, next)
    PROVE  QuietUnit /\ (pass' = next \/ pass' = Idle)
<1> DEFINE merged == [f \in DOMAIN z |-> IF z[f] = seen.unit.zone[f] THEN unit.zone[f] ELSE z[f]]
<1>1. CASE UNCHANGED <<unit, seen>> /\ (pass' = next \/ pass' = Idle)
  BY <1>1, NothingWritten
<1>2. CASE pass' = next /\ WriteUnit([unit EXCEPT !.zone = merged])
  <2>1. unit \in Unit /\ unit.zone \in ZoneStatus
    BY DEF Base, Unit
  <2>2. merged \in ZoneStatus
    BY <2>1, Merged
  <2>3. [unit EXCEPT !.zone = merged] \in Unit /\ SameUnit([unit EXCEPT !.zone = merged], unit)
    BY <2>1, <2>2, ZonePut DEF SameUnit
  <2> QED
    BY <1>2, <2>3, QuietWrite
<1> QED
  BY <1>1, <1>2 DEF WriteZone

LEMMA PassTyped ==
    ASSUME Base
    PROVE  /\ pass \in Pass /\ pass.unit \in Unit /\ pass.zone \in ZoneStatus
           /\ pass.rest \subseteq Claims /\ pass.at \in Stages
           /\ \A c \in Claims : pass.unit.item[c] \in Items /\ pass.unit.entry[c] \in Entry
           /\ \A c \in Claims : seen.unit.item[c] \in Items /\ seen.unit.entry[c] \in Entry
           /\ \A c \in Claims : unit.item[c] \in Items /\ unit.entry[c] \in Entry
           /\ \A c \in Claims : budget.claim[c] \in Items
  BY DEF Base, PassOK, Pass, Unit, Budget, Items

\* The pass goes on with its zone.
LEMMA ZonePassOK ==
    ASSUME Base, ~Working(pass), NEW s \in {"finalizer", "select", "create", "apply", "release"}, NEW z \in ZoneStatus
    PROVE  /\ PassOK([pass EXCEPT !.at = s]) /\ ~Working([pass EXCEPT !.at = s])
           /\ PassOK([pass EXCEPT !.at = s, !.zone = z]) /\ ~Working([pass EXCEPT !.at = s, !.zone = z])
           /\ [pass EXCEPT !.at = s].unit = pass.unit /\ [pass EXCEPT !.at = s].at = s
           /\ [pass EXCEPT !.at = s, !.zone = z].unit = pass.unit
           /\ [pass EXCEPT !.at = s, !.zone = z].at = s
  BY DEF Base, PassOK, Pass, Stages, Working, Source

LEMMA ZonePassId ==
    ASSUME Base, ~Working(pass), NEW s \in {"finalizer", "select", "create", "apply", "release"}, NEW id \in 0..MaxZones
    PROVE  /\ PassOK([pass EXCEPT !.at = s, !.zone.id = id]) /\ ~Working([pass EXCEPT !.at = s, !.zone.id = id])
           /\ [pass EXCEPT !.at = s, !.zone.id = id].unit = pass.unit
           /\ [pass EXCEPT !.at = s, !.zone.id = id].at = s
  BY DEF Base, PassOK, Pass, ZoneStatus, Stages, Working, Source

\* A step that writes the zone status and goes on, or ends the pass.
LEMMA ZoneGoesOn ==
    ASSUME Base, NEW z \in ZoneStatus, NEW next, WriteZone(z, next), pass.at # "idle",
           \/ next = Idle
           \/ PassOK(next) /\ ~Working(next) /\ next.unit = pass.unit /\ ~Ending(next)
    PROVE  QuietUnit /\ QuietPass
  BY ZoneWritten, IdleOK DEF QuietPass

LEMMA CloudLeft ==
    ASSUME Base, UNCHANGED <<cloud, class>>
    PROVE  cloud' \in Cloud /\ class' \in Classes /\ cloud'.records = cloud.records
  BY DEF Base

LEMMA RefuseZoneQuiet == ASSUME Base, RefuseZone PROVE Quiet
<1> DEFINE z == IF class = "refused" THEN [pass.zone EXCEPT !.accepted = FALSE]
                ELSE [pass.zone EXCEPT !.accepted = TRUE, !.programmed = FALSE]
<1>1. z \in ZoneStatus
  BY PassTyped DEF ZoneStatus
<1>2. WriteZone(z, Idle) /\ pass.at # "idle" /\ UNCHANGED <<cloud, class, budget>>
  BY DEF RefuseZone
<1> HIDE DEF z
<1>3. QuietUnit /\ QuietPass
  BY <1>1, <1>2, ZoneGoesOn
<1> QED
  BY <1>2, <1>3, CloudLeft, BooksUnspent DEF Quiet

LEMMA AcceptZoneQuiet == ASSUME Base, AcceptZone PROVE Quiet
<1> DEFINE z == [pass.zone EXCEPT !.accepted = TRUE]
           next == [pass EXCEPT !.at = "finalizer", !.zone = z]
<1>1. z \in ZoneStatus
  BY PassTyped DEF ZoneStatus
<1>2. WriteZone(z, next) /\ pass.at # "idle" /\ UNCHANGED <<cloud, class, budget>>
  BY DEF AcceptZone
<1>3. PassOK(next) /\ ~Working(next) /\ next.unit = pass.unit /\ ~Ending(next)
  BY <1>1, ZonePassOK DEF Ending, AcceptZone, Working
<1> HIDE DEF z, next
<1>4. QuietUnit /\ QuietPass
  BY <1>1, <1>2, <1>3, ZoneGoesOn
<1> QED
  BY <1>2, <1>4, CloudLeft, BooksUnspent DEF Quiet

LEMMA SetFinalizerQuiet == ASSUME Base, SetFinalizer PROVE Quiet
<1>1. pass.at # "idle" /\ ~Working(pass) /\ UNCHANGED <<cloud, class, budget>>
  BY DEF SetFinalizer, Working
<1>2. QuietUnit
  <2>1. CASE UNCHANGED <<unit, seen>>
    BY <2>1, NothingWritten
  <2>2. CASE WriteUnit([unit EXCEPT !.finalizer = ~Retain])
    <3>1. [unit EXCEPT !.finalizer = ~Retain] \in Unit /\ SameUnit([unit EXCEPT !.finalizer = ~Retain], unit)
      BY FinalizerPut DEF Base, Retain
    <3> QED
      BY <2>2, <3>1, QuietWrite
  <2> QED
    BY <2>1, <2>2 DEF SetFinalizer
<1>3. pass' = [pass EXCEPT !.at = "select"] \/ pass' = Idle
  BY DEF SetFinalizer
<1>4. QuietPass
  BY <1>1, <1>3, ZonePassOK, IdleOK, PassTyped DEF QuietPass, Ending
<1> QED
  BY <1>1, <1>2, <1>4, CloudLeft, BooksUnspent DEF Quiet

LEMMA SelectZoneQuiet == ASSUME Base, SelectZone PROVE Quiet
<1>1. pass.at # "idle" /\ ~Working(pass) /\ UNCHANGED <<cloud, class, budget>>
  BY DEF SelectZone, Working
<1>2. QuietUnit /\ QuietPass
  <2>1. CASE Selected # {} /\ pass' = [pass EXCEPT !.at = "apply", !.zone.id = CHOOSE id \in Selected : TRUE]
             /\ UNCHANGED <<unit, seen>>
    <3>1. Selected \subseteq 0..MaxZones
      <4>1. cloud.zones \subseteq 0..MaxZones
        BY DEF Base, Cloud
      <4> QED
        BY <4>1 DEF Selected, CloudHas
    <3>2. PICK id \in 0..MaxZones : pass' = [pass EXCEPT !.at = "apply", !.zone.id = id]
      BY <2>1, <3>1
    <3>3. PassOK(pass') /\ ~Working(pass') /\ pass'.unit = pass.unit /\ pass'.at = "apply"
      BY <1>1, <3>2, ZonePassId
    <3> QED
      BY <1>1, <2>1, <3>3, NothingWritten DEF QuietPass, Ending
  <2>2. CASE LET z == [pass.zone EXCEPT !.intent = TRUE]
             IN  WriteZone(z, [pass EXCEPT !.at = "create", !.zone = z])
    <3> DEFINE z == [pass.zone EXCEPT !.intent = TRUE]
               next == [pass EXCEPT !.at = "create", !.zone = z]
    <3>1. z \in ZoneStatus
      BY PassTyped DEF ZoneStatus
    <3>2. PassOK(next) /\ ~Working(next) /\ next.unit = pass.unit /\ ~Ending(next)
      BY <1>1, <3>1, ZonePassOK DEF Ending
    <3>3. WriteZone(z, next)
      BY <2>2
    <3> HIDE DEF z, next
    <3> QED
      BY <1>1, <3>1, <3>2, <3>3, ZoneGoesOn
  <2>3. CASE WriteZone([pass.zone EXCEPT !.programmed = FALSE], Idle)
    <3>1. [pass.zone EXCEPT !.programmed = FALSE] \in ZoneStatus
      BY PassTyped DEF ZoneStatus
    <3> QED
      BY <1>1, <2>3, <3>1, ZoneGoesOn
  <2> QED
    BY <2>1, <2>2, <2>3 DEF SelectZone
<1> QED
  BY <1>1, <1>2, CloudLeft, BooksUnspent DEF Quiet

LEMMA CreateZoneQuiet == ASSUME Base, CreateZone PROVE Quiet
<1>1. PICK made, answered \in BOOLEAN :
         /\ answered => made
         /\ IF made THEN cloud' = [cloud EXCEPT !.zones = @ \cup {budget.zones + 1}]
            ELSE UNCHANGED cloud
         /\ answered \/ budget.faults < MaxFaults
         /\ budget' = [budget EXCEPT !.zones = IF made THEN @ + 1 ELSE @,
                                     !.faults = IF answered THEN @ ELSE @ + 1]
         /\ IF answered
            THEN /\ pass' = [pass EXCEPT !.at = "apply", !.zone.id = budget.zones + 1]
                 /\ UNCHANGED <<unit, seen>>
            ELSE WriteZone([pass.zone EXCEPT !.programmed = FALSE], Idle)
  BY DEF CreateZone
<1>2. /\ pass.at # "idle" /\ ~Working(pass) /\ class' = class /\ budget.zones < MaxZones
      /\ budget \in Budget /\ cloud \in Cloud /\ MaxZones \in Nat /\ MaxFaults \in Nat /\ class \in Classes
  BY DEF CreateZone, Base, Working
<1>3. budget.zones \in 0..MaxZones /\ budget.faults \in 0..MaxFaults
  BY <1>2 DEF Budget
<1>4. budget.zones + 1 \in 1..MaxZones
  BY <1>2, <1>3
<1>5. cloud' \in Cloud /\ cloud'.records = cloud.records
  BY <1>1, <1>2, <1>4 DEF Cloud
<1>6. BooksKept
  <2>1. budget' = [budget EXCEPT !.faults = IF answered THEN budget.faults ELSE budget.faults + 1,
                                 !.zones = IF made THEN budget.zones + 1 ELSE budget.zones]
    BY <1>1, <1>2 DEF Budget
  <2>2. /\ (IF answered THEN budget.faults ELSE budget.faults + 1) \in 0..MaxFaults
        /\ (IF made THEN budget.zones + 1 ELSE budget.zones) \in 0..MaxZones
    BY <1>1, <1>2, <1>3, <1>4
  <2> QED
    BY <2>1, <2>2, BooksSpent
<1>7. QuietUnit /\ QuietPass
  <2>1. CASE answered
    <3>1. /\ pass' = [pass EXCEPT !.at = "apply", !.zone.id = budget.zones + 1]
          /\ UNCHANGED <<unit, seen>>
      BY <1>1, <2>1
    <3>2. budget.zones + 1 \in 0..MaxZones
      BY <1>4
    <3> QED
      BY <1>2, <3>1, <3>2, NothingWritten, ZonePassId DEF QuietPass, Ending
  <2>2. CASE ~answered
    <3>1. [pass.zone EXCEPT !.programmed = FALSE] \in ZoneStatus
      BY PassTyped DEF ZoneStatus
    <3> QED
      BY <1>1, <1>2, <2>2, <3>1, ZoneGoesOn
  <2> QED
    BY <2>1, <2>2
<1> QED
  BY <1>2, <1>5, <1>6, <1>7 DEF Quiet

LEMMA PruneStageOK ==
    ASSUME Base
    PROVE  /\ PassOK([Idle EXCEPT !.at = "prune", !.unit = pass.unit])
           /\ ~Working([Idle EXCEPT !.at = "prune", !.unit = pass.unit])
           /\ ~Ending([Idle EXCEPT !.at = "prune", !.unit = pass.unit])
           /\ [Idle EXCEPT !.at = "prune", !.unit = pass.unit].unit = pass.unit
<1>1. [Idle EXCEPT !.at = "prune", !.unit = pass.unit] \in Pass
  BY IdleOK, PassTyped DEF Pass, Stages
<1>2. /\ [Idle EXCEPT !.at = "prune", !.unit = pass.unit].at = "prune"
      /\ [Idle EXCEPT !.at = "prune", !.unit = pass.unit].rest = {}
      /\ [Idle EXCEPT !.at = "prune", !.unit = pass.unit].add = {}
      /\ [Idle EXCEPT !.at = "prune", !.unit = pass.unit].drop = {}
      /\ [Idle EXCEPT !.at = "prune", !.unit = pass.unit].batch = NoBatch
      /\ [Idle EXCEPT !.at = "prune", !.unit = pass.unit].unit = pass.unit
  BY DEF Idle
<1> QED
  BY <1>1, <1>2 DEF PassOK, Working, Ending

LEMMA ApplyZoneQuiet == ASSUME Base, ApplyZone PROVE Quiet
<1>1. PICK initializing \in BOOLEAN :
         /\ initializing => budget.faults < MaxFaults
         /\ budget' = [budget EXCEPT !.faults = IF initializing THEN @ + 1 ELSE @]
         /\ WriteZone([pass.zone EXCEPT !.intent = FALSE, !.programmed = ~initializing],
                      IF initializing THEN Idle ELSE [Idle EXCEPT !.at = "prune", !.unit = pass.unit])
  BY DEF ApplyZone
<1>2. pass.at # "idle" /\ UNCHANGED <<cloud, class>> /\ budget \in Budget
  BY DEF ApplyZone, Base
<1>3. [pass.zone EXCEPT !.intent = FALSE, !.programmed = ~initializing] \in ZoneStatus
  BY PassTyped DEF ZoneStatus
<1>4. QuietUnit /\ QuietPass
  BY <1>1, <1>2, <1>3, ZoneGoesOn, PruneStageOK
<1>5. BooksKept
  <2>1. budget.zones \in 0..MaxZones /\ budget.faults \in 0..MaxFaults /\ MaxFaults \in Nat
    BY <1>2 DEF Budget
  <2>2. (IF initializing THEN budget.faults + 1 ELSE budget.faults) \in 0..MaxFaults
    BY <1>1, <2>1
  <2>3. budget' = [budget EXCEPT !.faults = IF initializing THEN budget.faults + 1 ELSE budget.faults,
                                 !.zones = budget.zones]
    BY <1>1, <1>2 DEF Budget
  <2> QED
    BY <2>1, <2>2, <2>3, BooksSpent
<1> QED
  BY <1>2, <1>4, <1>5, CloudLeft DEF Quiet

LEMMA BeginQuiet == ASSUME Base, Begin PROVE Quiet
<1> DEFINE next == [Idle EXCEPT !.at = IF seen.unit.deleting THEN "delete" ELSE "zone",
                                !.unit = seen.unit, !.zone = seen.unit.zone]
<1>1. pass' = next /\ UNCHANGED <<unit, seen, cloud, class, budget>>
  BY DEF Begin
<1>2. seen.unit \in Unit /\ seen.unit.zone \in ZoneStatus
  BY DEF Base, Unit
<1>3. next \in Pass
  BY <1>2, IdleOK DEF Pass, Stages
<1>4. /\ next.at = (IF seen.unit.deleting THEN "delete" ELSE "zone") /\ next.rest = {}
      /\ next.add = {} /\ next.drop = {} /\ next.batch = NoBatch
      /\ next.unit = seen.unit
  BY DEF Idle
<1> HIDE DEF next
<1>5. QuietPass
  BY <1>1, <1>3, <1>4 DEF QuietPass, PassOK, Working, Ending
<1> QED
  BY <1>1, <1>5, NothingWritten, CloudLeft, BooksUnspent DEF Quiet

LEMMA CrashQuiet == ASSUME Base, Crash PROVE Quiet
  BY NothingWritten, CloudLeft, FaultSpent, IdleOK DEF Crash, Quiet, QuietPass

LEMMA ChangeClassQuiet == ASSUME Base, ChangeClass PROVE Quiet
<1>1. QuietPass
  BY DEF ChangeClass, QuietPass, Base
<1> QED
  BY <1>1, NothingWritten, FaultSpent DEF ChangeClass, Quiet, Base

\* reconcileDelete leaves the records alone, or removes them with the zone.
Wiped ==
    /\ pass.at = "delete" /\ pass.unit.finalizer
    /\ cloud' \in Cloud /\ \A r \in RecordIds : cloud'.records[r] = Gone
    /\ pass' = [pass EXCEPT !.at = "release"]
    /\ UNCHANGED <<unit, seen, class, budget>>

LEMMA DeleteZoneCases == ASSUME Base, DeleteZone PROVE Quiet \/ Wiped
<1>1. pass.at = "delete" /\ UNCHANGED <<class, budget>>
  BY DEF DeleteZone
<1>2. CASE pass' = Idle /\ UNCHANGED <<unit, seen, cloud>>
  BY <1>1, <1>2, NothingWritten, CloudLeft, BooksUnspent, IdleOK DEF Quiet, QuietPass
<1>3. CASE WriteZone([pass.zone EXCEPT !.accepted = FALSE], Idle) /\ UNCHANGED cloud
  <2>1. [pass.zone EXCEPT !.accepted = FALSE] \in ZoneStatus
    BY PassTyped DEF ZoneStatus
  <2> QED
    BY <1>1, <1>3, <2>1, ZoneGoesOn, CloudLeft, BooksUnspent DEF Quiet
<1>4. CASE WriteZone([pass.zone EXCEPT !.programmed = FALSE], Idle) /\ UNCHANGED cloud
  <2>1. [pass.zone EXCEPT !.programmed = FALSE] \in ZoneStatus
    BY PassTyped DEF ZoneStatus
  <2> QED
    BY <1>1, <1>4, <2>1, ZoneGoesOn, CloudLeft, BooksUnspent DEF Quiet
<1>5. CASE pass' = [pass EXCEPT !.at = "release"] /\ UNCHANGED <<unit, seen, cloud>>
  <2>1. PassOK(pass') /\ ~Working(pass') /\ pass'.unit = pass.unit
    BY <1>1, <1>5, PassTyped, ZonePassOK DEF Working
  <2>2. QuietPass
    BY <1>1, <2>1 DEF QuietPass, Ending
  <2> QED
    BY <1>1, <1>5, <2>2, NothingWritten, CloudLeft, BooksUnspent DEF Quiet
<1>6. CASE /\ pass.unit.finalizer
           /\ pass' = [pass EXCEPT !.at = "release"] /\ UNCHANGED <<unit, seen>>
           /\ cloud' = [zones |-> cloud.zones \ {pass.unit.zone.id},
                        records |-> [r \in RecordIds |-> Gone]]
  BY <1>1, <1>6 DEF Base, Cloud, Wiped
<1> QED
  BY <1>1, <1>2, <1>3, <1>4, <1>5, <1>6 DEF DeleteZone

LEMMA WipedBase == ASSUME Base, Wiped PROVE Base'
<1>1. PassOK(pass')
  BY PassTyped, ZonePassOK DEF Wiped, Working
<1>2. UnitLeft /\ BooksKept
  BY NothingWritten, BooksUnspent DEF Wiped, QuietUnit
<1> QED
  BY <1>1, <1>2, BaseKept DEF Wiped, Base

\* The last finalizer of a deleted unit takes the unit.
UnitGone ==
    /\ unit' = NoUnit /\ UnitLeft
    /\ \/ seen.current /\ seen'.unit \in {NoUnit, unit}
       \/ seen' = seen /\ ~seen.current
    /\ pass' \in {pass, Idle}
    /\ \/ unit.deleting
       \/ \A c \in Claims : unit.item[c] = NoItem
    /\ budget' \in Budget /\ budget'.claim = budget.claim /\ budget'.uids = budget.uids
    /\ budget'.tampered = budget.tampered /\ budget'.records = budget.records
    /\ budget'.edits >= budget.edits
    /\ UNCHANGED <<cloud, class>>

UnitMarked ==
    /\ unit'.live = unit.live /\ unit'.item = unit.item /\ unit'.entry = unit.entry
    /\ unit'.deleting /\ UnitLeft
    /\ \/ seen.current /\ seen'.unit \in {unit', unit}
       \/ seen' = seen /\ ~seen.current
    /\ \A c \in Claims : unit.item[c] = NoItem
    /\ budget' \in Budget /\ budget'.claim = budget.claim /\ budget'.uids = budget.uids
    /\ budget'.tampered = budget.tampered /\ budget'.records = budget.records
    /\ budget'.edits >= budget.edits
    /\ UNCHANGED <<cloud, class, pass>>

LEMMA EditSpent ==
    ASSUME Base, Edits
    PROVE  /\ [budget EXCEPT !.edits = @ + 1] \in Budget
           /\ [budget EXCEPT !.edits = @ + 1].claim = budget.claim
           /\ [budget EXCEPT !.edits = @ + 1].uids = budget.uids
           /\ [budget EXCEPT !.edits = @ + 1].tampered = budget.tampered
           /\ [budget EXCEPT !.edits = @ + 1].records = budget.records
           /\ [budget EXCEPT !.edits = @ + 1].edits = budget.edits + 1
           /\ budget.edits \in Nat
<1>1. budget \in Budget /\ MaxEdits \in Nat
  BY DEF Base
<1>2. budget.edits + 1 \in 0..MaxEdits /\ budget.edits \in Nat
  <2>1. budget.edits \in 0..MaxEdits
    BY <1>1 DEF Budget
  <2> QED
    BY <1>1, <2>1 DEF Edits
<1> QED
  BY <1>1, <1>2 DEF Budget

LEMMA ReleaseUnitCases == ASSUME Base, ReleaseUnit PROVE Quiet \/ UnitGone
<1>1. pass' = Idle /\ UNCHANGED <<cloud, class, budget>>
  BY DEF ReleaseUnit
<1>2. CASE UNCHANGED <<unit, seen>>
  BY <1>1, <1>2, NothingWritten, CloudLeft, BooksUnspent, IdleOK DEF Quiet, QuietPass
<1>3. CASE unit.deleting /\ WriteUnit(NoUnit)
  <2>1. budget' \in Budget /\ budget'.edits >= budget.edits
    BY <1>1 DEF Base, Budget
  <2> QED
    BY <1>1, <1>3, <2>1, Written, NoUnitTyped DEF UnitGone, UnitLeft
<1>4. CASE WriteUnit([unit EXCEPT !.finalizer = FALSE])
  <2>1. [unit EXCEPT !.finalizer = FALSE] \in Unit /\ SameUnit([unit EXCEPT !.finalizer = FALSE], unit)
    BY FinalizerPut DEF Base
  <2> QED
    BY <1>1, <1>4, <2>1, QuietWrite, CloudLeft, BooksUnspent, IdleOK DEF Quiet, QuietPass
<1> QED
  BY <1>2, <1>3, <1>4 DEF ReleaseUnit

LEMMA DeleteUnitCases == ASSUME Base, DeleteUnit PROVE UnitMarked \/ UnitGone
<1>1. /\ UNCHANGED <<cloud, class, pass>> /\ Edits /\ budget' = [budget EXCEPT !.edits = @ + 1]
      /\ \A c \in Claims : unit.item[c] = NoItem
  BY DEF DeleteUnit, Spend
<1>2. /\ budget' \in Budget /\ budget'.claim = budget.claim /\ budget'.uids = budget.uids
      /\ budget'.tampered = budget.tampered /\ budget'.records = budget.records
      /\ budget'.edits >= budget.edits
  BY <1>1, EditSpent
<1>3. CASE WriteUnit([unit EXCEPT !.deleting = TRUE])
  <2>1. /\ [unit EXCEPT !.deleting = TRUE] \in Unit
        /\ [unit EXCEPT !.deleting = TRUE].live = unit.live
        /\ [unit EXCEPT !.deleting = TRUE].item = unit.item
        /\ [unit EXCEPT !.deleting = TRUE].entry = unit.entry
        /\ [unit EXCEPT !.deleting = TRUE].deleting
    BY DEF Base, Unit
  <2> QED
    BY <1>1, <1>2, <1>3, <2>1, Written DEF UnitMarked, UnitLeft
<1>4. CASE WriteUnit(NoUnit)
  BY <1>1, <1>2, <1>4, Written, NoUnitTyped DEF UnitGone, UnitLeft
<1> QED
  BY <1>3, <1>4 DEF DeleteUnit

LEMMA UnitGoneBase == ASSUME Base, UnitGone PROVE Base'
<1>1. \A c \in Claims : GenerationOK(unit'.item[c], budget'.claim[c], budget'.edits, unit'.live)
  BY DEF UnitGone, NoUnit, GenerationOK, NoItem
<1>2. PassOK(pass')
  BY IdleOK DEF UnitGone, Base
<1> QED
  BY <1>1, <1>2 DEF Base, UnitGone, UnitLeft

LEMMA UnitMarkedBase == ASSUME Base, UnitMarked PROVE Base'
<1>1. \A c \in Claims : GenerationOK(unit'.item[c], budget'.claim[c], budget'.edits, unit'.live)
  <2> TAKE c \in Claims
  <2>1. /\ GenerationOK(unit.item[c], budget.claim[c], budget.edits, unit.live)
        /\ unit.item[c] = NoItem /\ unit'.item[c] = NoItem /\ budget'.claim[c] = budget.claim[c]
        /\ unit'.live = unit.live /\ budget'.edits >= budget.edits
    BY DEF Base, UnitMarked
  <2>2. budget.edits \in Nat /\ budget'.edits \in Nat /\ budget.claim[c].gen \in Nat
    BY PassTyped DEF Base, UnitMarked, Budget, Items, Item, NoItem, Generations
  <2> QED
    BY <2>1, <2>2 DEF GenerationOK
<1> QED
  BY <1>1 DEF Base, UnitMarked, UnitLeft

-----------------------------------------------------------------------------
(* Core's steps.                                                           *)

LEMMA ItemShape ==
    ASSUME NEW i \in Items
    PROVE  /\ i = [uid |-> i.uid, gen |-> i.gen, want |-> i.want, adopt |-> i.adopt,
                   allowed |-> i.allowed, deleting |-> i.deleting]
           /\ i.uid \in 0..MaxUids /\ i.gen \in Generations /\ i.adopt \subseteq RecordIds
           /\ i.allowed \in BOOLEAN /\ i.deleting \in BOOLEAN /\ i.gen \in Nat
           /\ i # NoItem => i \in Item /\ i.uid # 0
           /\ i.uid = 0 => i = NoItem
<1>1. CASE i \in Item
  BY <1>1 DEF Item, NoItem, Generations
<1>2. CASE i = NoItem
  BY <1>2 DEF NoItem, Generations
<1> QED
  BY <1>1, <1>2 DEF Items

LEMMA MatchFields ==
    ASSUME NEW i \in Items, NEW j \in Items
    PROVE  SourceMatches(i, j) <=>
               /\ i.uid = j.uid /\ i.gen = j.gen /\ i.want = j.want
               /\ i.adopt = j.adopt /\ i.deleting = j.deleting
<1>1. [i EXCEPT !.allowed = j.allowed] =
        [uid |-> i.uid, gen |-> i.gen, want |-> i.want, adopt |-> i.adopt,
         allowed |-> j.allowed, deleting |-> i.deleting]
  BY ItemShape
<1>2. j = [uid |-> j.uid, gen |-> j.gen, want |-> j.want, adopt |-> j.adopt,
           allowed |-> j.allowed, deleting |-> j.deleting]
  BY ItemShape
<1> QED
  BY <1>1, <1>2 DEF SourceMatches

CacheStep ==
    \/ seen.current /\ seen'.unit \in {unit', unit}
    \/ seen' = seen /\ ~seen.current

\* Core writes item i of claim c, and remembers b as the last of the claim.
ItemStep(c, i, b) ==
    /\ UnitLeft /\ CacheStep /\ unit.live
    /\ unit'.item = [unit.item EXCEPT ![c] = i] /\ unit'.entry = unit.entry
    /\ unit'.live = unit.live /\ unit'.deleting = unit.deleting
    /\ budget' \in Budget /\ budget'.claim = [budget.claim EXCEPT ![c] = b]
    /\ budget'.tampered = budget.tampered /\ budget'.records = budget.records
    /\ budget'.uids >= budget.uids /\ budget'.edits >= budget.edits
    /\ UNCHANGED <<cloud, class, pass>>

Adds(c, i) ==
    /\ ItemStep(c, i, i) /\ i \in Item /\ ~i.deleting
    /\ unit.item[c] = NoItem /\ ~unit.deleting
    /\ \A d \in Claims \ {c} : TypeOf[d] = TypeOf[c] => unit.item[d] = NoItem
    /\ budget'.uids >= i.uid
    /\ \/ i.uid > budget.uids /\ i.gen = 1
       \/ /\ i.uid = budget.claim[c].uid /\ i.gen = budget.claim[c].gen + 1
          /\ i.adopt = budget.claim[c].adopt /\ ~budget.claim[c].deleting

Edited(c, i) ==
    /\ ItemStep(c, i, i) /\ i \in Item
    /\ unit.item[c] # NoItem /\ ~unit.item[c].deleting
    /\ i.uid = unit.item[c].uid /\ i.adopt = unit.item[c].adopt
    /\ i.gen = unit.item[c].gen + 1

Toggled(c, i) ==
    /\ ItemStep(c, i, budget.claim[c]) /\ i \in Item
    /\ unit.item[c] # NoItem /\ SourceMatches(i, unit.item[c])

Dropped(c) ==
    /\ ItemStep(c, NoItem, budget.claim[c])
    /\ unit.item[c] # NoItem

LEMMA ItemWritten ==
    ASSUME Base, NEW c \in Claims, NEW i \in Items, WriteItem(c, i)
    PROVE  /\ UnitLeft /\ CacheStep
           /\ unit'.item = [unit.item EXCEPT ![c] = i] /\ unit'.entry = unit.entry
           /\ unit'.live = unit.live /\ unit'.deleting = unit.deleting
<1>1. unit \in Unit
  BY DEF Base
<1>2. [unit EXCEPT !.item[c] = i] \in Unit
  BY <1>1, ItemPut
<1>3. WriteUnit([unit EXCEPT !.item[c] = i])
  BY DEF WriteItem
<1>4. /\ unit' = [unit EXCEPT !.item[c] = i]
      /\ seen' \in [unit : Unit, current : BOOLEAN, lags : 0..MaxLags]
      /\ seen'.current => seen'.unit = unit'
      /\ \/ seen.current /\ seen'.unit \in {unit', unit}
         \/ seen' = seen /\ ~seen.current
  BY <1>2, <1>3, Written
<1> QED
  BY <1>1, <1>2, <1>4, ItemPut DEF UnitLeft, CacheStep

LEMMA LargerOf ==
    ASSUME NEW a \in Nat, NEW b \in Nat
    PROVE  Max({a, b}) \in {a, b} /\ Max({a, b}) >= a /\ Max({a, b}) >= b
<1>1. \E x \in {a, b} : \A y \in {a, b} : x >= y
  BY SMT
<1> QED
  BY <1>1 DEF Max

\* The changes of the books.
LEMMA BooksAdded ==
    ASSUME Base, NEW c \in Claims, NEW b \in Items, NEW m \in 0..MaxUids,
           budget' = [budget EXCEPT !.claim[c] = b, !.uids = m]
    PROVE  /\ budget' \in Budget /\ budget'.claim = [budget.claim EXCEPT ![c] = b]
           /\ budget'.tampered = budget.tampered /\ budget'.records = budget.records
           /\ budget'.uids = m /\ budget'.edits = budget.edits
  BY DEF Base, Budget

LEMMA BooksEdited ==
    ASSUME Base, NEW c \in Claims, NEW b \in Items, NEW n \in 0..MaxEdits,
           budget' = [budget EXCEPT !.edits = n, !.claim[c] = b]
    PROVE  /\ budget' \in Budget /\ budget'.claim = [budget.claim EXCEPT ![c] = b]
           /\ budget'.tampered = budget.tampered /\ budget'.records = budget.records
           /\ budget'.uids = budget.uids /\ budget'.edits = n
  BY DEF Base, Budget

LEMMA BooksAsked ==
    ASSUME Base, NEW c \in Claims, NEW b \in Items,
           budget' = [budget EXCEPT !.claim[c] = b]
    PROVE  /\ budget' \in Budget /\ budget'.claim = [budget.claim EXCEPT ![c] = b]
           /\ budget'.tampered = budget.tampered /\ budget'.records = budget.records
           /\ budget'.uids = budget.uids /\ budget'.edits = budget.edits
  BY DEF Base, Budget

LEMMA BudgetRange ==
    ASSUME Base
    PROVE  /\ budget.edits \in 0..MaxEdits /\ budget.uids \in 0..MaxUids
           /\ budget.faults \in 0..MaxFaults /\ budget.records \in 0..MaxRecords
           /\ budget.edits \in Nat /\ budget.uids \in Nat /\ budget.records \in Nat
           /\ budget.zones \in 0..MaxZones
  BY DEF Base, Budget

LEMMA GenerationFacts ==
    ASSUME Base, NEW c \in Claims
    PROVE  /\ GenerationOK(unit.item[c], budget.claim[c], budget.edits, unit.live)
           /\ unit.item[c] # NoItem =>
                /\ unit.item[c].uid = budget.claim[c].uid /\ unit.item[c].gen = budget.claim[c].gen
                /\ unit.item[c].adopt = budget.claim[c].adopt
                /\ unit.item[c].deleting = budget.claim[c].deleting
                /\ unit.item[c].want = budget.claim[c].want
           /\ budget.edits \in 0..MaxEdits /\ budget.uids \in 0..MaxUids
  BY PassTyped, MatchFields DEF Base, GenerationOK, Budget

LEMMA AddItemAdds ==
    ASSUME Base, NEW c \in Claims, AddItem(c)
    PROVE  \E i \in Item : Adds(c, i)
<1>1. PICK uid \in {budget.claim[c].uid, budget.uids + 1} \cap 1..MaxUids, want \in Contents,
           ids \in {{}} \cup (IF Adopting THEN {LiveOf(TypeOf[c])} ELSE {}) :
         LET new == uid # budget.claim[c].uid
             i == [uid |-> uid, gen |-> IF new THEN 1 ELSE budget.claim[c].gen + 1,
                   want |-> want, adopt |-> IF new THEN ids ELSE budget.claim[c].adopt,
                   allowed |-> TRUE, deleting |-> FALSE]
         IN  /\ new \/ (ids = {} /\ ~budget.claim[c].deleting)
             /\ WriteItem(c, i)
             /\ budget' = [budget EXCEPT !.claim[c] = i, !.uids = Max({@, uid})]
  BY DEF AddItem
<1> DEFINE new == uid # budget.claim[c].uid
           i == [uid |-> uid, gen |-> IF new THEN 1 ELSE budget.claim[c].gen + 1,
                 want |-> want, adopt |-> IF new THEN ids ELSE budget.claim[c].adopt,
                 allowed |-> TRUE, deleting |-> FALSE]
<1>2. /\ unit.live /\ ~unit.deleting /\ unit.item[c] = NoItem
      /\ \A d \in Claims \ {c} : TypeOf[d] = TypeOf[c] => unit.item[d] = NoItem
      /\ UNCHANGED <<cloud, class, pass>>
  BY DEF AddItem
<1>3. budget.claim[c] \in Items /\ budget.claim[c].gen \in Nat /\ budget.claim[c].adopt \subseteq RecordIds
  BY PassTyped, ItemShape
<1>4. ids \subseteq RecordIds
  BY DEF LiveOf
<1>5. ~new => budget.claim[c].gen + 1 <= MaxEdits + 2
  BY <1>1, <1>2, <1>3, GenerationFacts DEF GenerationOK
<1>6. i \in Item
  BY <1>1, <1>3, <1>4, <1>5 DEF Item, Generations
<1>7. uid \in Nat /\ budget.uids \in 0..MaxUids
  BY GenerationFacts
<1>8. Max({budget.uids, uid}) \in 0..MaxUids /\ Max({budget.uids, uid}) >= uid /\ Max({budget.uids, uid}) >= budget.uids
  BY <1>7, LargerOf
<1>9. budget \in Budget
  BY DEF Base
<1>10. WriteItem(c, i) /\ budget' = [budget EXCEPT !.claim[c] = i, !.uids = Max({budget.uids, uid})]
  BY <1>1, <1>9 DEF Budget
<1>11. /\ i.uid = uid /\ ~i.deleting
       /\ ~new => /\ i.gen = budget.claim[c].gen + 1 /\ i.adopt = budget.claim[c].adopt
                  /\ ~budget.claim[c].deleting
       /\ new => uid = budget.uids + 1 /\ i.gen = 1
  BY <1>1
<1>12. i \in Items
  BY <1>6 DEF Items
<1>13. budget.edits >= budget.edits
  BY <1>9 DEF Budget
<1> HIDE DEF i, new
<1> DEFINE m == Max({budget.uids, uid})
<1>18. m \in 0..MaxUids /\ m >= uid /\ m >= budget.uids /\ budget' = [budget EXCEPT !.claim[c] = i, !.uids = m]
  BY <1>8, <1>10
<1> HIDE DEF m
<1>19. /\ budget' \in Budget /\ budget'.claim = [budget.claim EXCEPT ![c] = i]
       /\ budget'.tampered = budget.tampered /\ budget'.records = budget.records
       /\ budget'.uids = m /\ budget'.edits = budget.edits
  BY <1>12, <1>18, BooksAdded
<1>14. ItemStep(c, i, i)
  <2>1. /\ UnitLeft /\ CacheStep
        /\ unit'.item = [unit.item EXCEPT ![c] = i] /\ unit'.entry = unit.entry
        /\ unit'.live = unit.live /\ unit'.deleting = unit.deleting
    BY <1>2, <1>10, <1>12, <1>13, <1>18, <1>19, ItemWritten
  <2> QED
    BY <1>2, <1>10, <1>12, <1>13, <1>18, <1>19, <2>1 DEF ItemStep
<1>15. budget'.uids >= i.uid
  BY <1>11, <1>18, <1>19
<1>16. uid = budget.claim[c].uid \/ uid = budget.uids + 1
  OBVIOUS
<1>17. \/ i.uid > budget.uids /\ i.gen = 1
       \/ /\ i.uid = budget.claim[c].uid /\ i.gen = budget.claim[c].gen + 1
          /\ i.adopt = budget.claim[c].adopt /\ ~budget.claim[c].deleting
  BY <1>7, <1>11 DEF new
<1>20. Adds(c, i)
  BY <1>2, <1>6, <1>11, <1>14, <1>15, <1>17 DEF Adds
<1> QED
  BY <1>6, <1>20

LEMMA AddsBase == ASSUME Base, NEW c \in Claims, NEW i \in Item, Adds(c, i) PROVE Base'
<1>1. \A d \in Claims : GenerationOK(unit'.item[d], budget'.claim[d], budget'.edits, unit'.live)
  <2> TAKE d \in Claims
  <2>1. CASE d # c
    <3>1. unit'.item[d] = unit.item[d] /\ budget'.claim[d] = budget.claim[d] /\ unit'.live = unit.live
      BY <2>1, PassTyped DEF Adds, ItemStep, Base, Unit, Budget
    <3>2. budget'.edits \in Nat /\ budget.edits \in Nat /\ budget'.edits >= budget.edits /\ budget.claim[d].gen \in Nat
      BY PassTyped, ItemShape DEF Adds, ItemStep, Base, Budget
    <3> QED
      BY <3>1, <3>2, GenerationFacts DEF GenerationOK
  <2>2. CASE d = c
    <3>1. unit'.item[d] = i /\ budget'.claim[d] = i
      BY <2>2 DEF Adds, ItemStep, Base, Unit, Budget
    <3>2. i \in Items /\ i # NoItem /\ i.gen \in Nat
      BY DEF Items, Item, NoItem, Generations
    <3>3. SourceMatches(i, i)
      BY <3>2, MatchFields
    <3>4. budget'.edits \in Nat /\ budget.edits \in Nat /\ budget'.edits >= budget.edits
      BY DEF Adds, ItemStep, Base, Budget
    <3>5. CASE i.gen = 1
      BY <3>1, <3>2, <3>3, <3>4, <3>5 DEF GenerationOK
    <3>6. CASE i.gen = budget.claim[c].gen + 1 /\ ~budget.claim[c].deleting
      <4>1. budget.claim[c].gen <= budget.edits
        BY <3>6, GenerationFacts DEF GenerationOK, Adds, ItemStep
      <4>2. budget.claim[c].gen \in Nat
        BY PassTyped, ItemShape
      <4> QED
        BY <3>1, <3>2, <3>3, <3>4, <3>6, <4>1, <4>2 DEF GenerationOK
    <3> QED
      BY <3>5, <3>6 DEF Adds
  <2> QED
    BY <2>1, <2>2
<1> QED
  BY <1>1 DEF Adds, ItemStep, UnitLeft, Base

LEMMA EditItemEdits ==
    ASSUME Base, NEW c \in Claims, EditItem(c)
    PROVE  \E i \in Item : Edited(c, i) /\ budget'.uids = budget.uids /\ ~i.deleting
                          /\ budget'.edits = budget.edits + 1
<1>1. PICK want \in Contents :
         /\ WriteItem(c, [unit.item[c] EXCEPT !.want = want, !.gen = @ + 1])
         /\ budget' = [budget EXCEPT !.edits = @ + 1,
                          !.claim[c] = [unit.item[c] EXCEPT !.want = want, !.gen = @ + 1]]
  BY DEF EditItem
<1>2. /\ unit.live /\ unit.item[c] # NoItem /\ ~unit.item[c].deleting /\ budget.edits < MaxEdits
      /\ UNCHANGED <<cloud, class, pass>> /\ unit.item[c] \in Items
  BY PassTyped DEF EditItem, Edits
<1>3. unit.item[c] \in Item /\ budget.edits \in 0..MaxEdits /\ unit.item[c].gen <= budget.edits + 1
  BY <1>2, ItemShape, GenerationFacts DEF GenerationOK
<1> DEFINE i == [unit.item[c] EXCEPT !.want = want, !.gen = @ + 1]
<1>4. unit.item[c].gen + 1 \in Generations
  BY <1>2, <1>3 DEF Item, Generations
<1>5. /\ i \in Item /\ i.uid = unit.item[c].uid /\ i.adopt = unit.item[c].adopt
      /\ i.gen = unit.item[c].gen + 1 /\ ~i.deleting
  BY <1>2, <1>3, <1>4 DEF Item
<1>6. i \in Items
  BY <1>5 DEF Items
<1>7. /\ WriteItem(c, i)
      /\ budget' = [budget EXCEPT !.edits = budget.edits + 1, !.claim[c] = i]
  <2>1. budget \in Budget
    BY DEF Base
  <2> QED
    BY <1>1, <2>1 DEF Budget
<1>8. budget.edits + 1 \in 0..MaxEdits /\ budget.uids \in Nat
  BY <1>2, <1>3, BudgetRange
<1> HIDE DEF i
<1> DEFINE n == budget.edits + 1
<1>9. n \in 0..MaxEdits /\ n >= budget.edits /\ budget' = [budget EXCEPT !.edits = n, !.claim[c] = i]
  BY <1>3, <1>7, <1>8
<1> HIDE DEF n
<1>10. /\ budget' \in Budget /\ budget'.claim = [budget.claim EXCEPT ![c] = i]
       /\ budget'.tampered = budget.tampered /\ budget'.records = budget.records
       /\ budget'.uids = budget.uids /\ budget'.edits = n
  BY <1>6, <1>9, BooksEdited
<1>11. ItemStep(c, i, i)
  <2>1. /\ UnitLeft /\ CacheStep
        /\ unit'.item = [unit.item EXCEPT ![c] = i] /\ unit'.entry = unit.entry
        /\ unit'.live = unit.live /\ unit'.deleting = unit.deleting
    BY <1>2, <1>6, <1>7, <1>8, <1>9, <1>10, ItemWritten
  <2> QED
    BY <1>2, <1>6, <1>7, <1>8, <1>9, <1>10, <2>1 DEF ItemStep
<1> QED
  BY <1>2, <1>5, <1>10, <1>11 DEF Edited, n

LEMMA RequestDeletionEdits ==
    ASSUME Base, NEW c \in Claims, RequestDeletion(c)
    PROVE  \E i \in Item : Edited(c, i) /\ budget'.uids = budget.uids /\ i.deleting
<1> DEFINE i == [unit.item[c] EXCEPT !.deleting = TRUE, !.gen = @ + 1]
<1>1. WriteItem(c, i) /\ budget' = [budget EXCEPT !.claim[c] = i]
  BY DEF RequestDeletion
<1>2. /\ unit.live /\ unit.item[c] # NoItem /\ ~unit.item[c].deleting
      /\ UNCHANGED <<cloud, class, pass>> /\ unit.item[c] \in Items
  BY PassTyped DEF RequestDeletion
<1>3. unit.item[c] \in Item /\ budget.edits \in 0..MaxEdits /\ unit.item[c].gen <= budget.edits + 1
  BY <1>2, ItemShape, GenerationFacts DEF GenerationOK
<1>4. unit.item[c].gen + 1 \in Generations
  BY <1>2, <1>3 DEF Item, Generations
<1>5. /\ i \in Item /\ i.uid = unit.item[c].uid /\ i.adopt = unit.item[c].adopt
      /\ i.gen = unit.item[c].gen + 1 /\ i.deleting
  BY <1>2, <1>3, <1>4 DEF Item
<1>6. i \in Items
  BY <1>5 DEF Items
<1> HIDE DEF i
<1>7. /\ budget' \in Budget /\ budget'.claim = [budget.claim EXCEPT ![c] = i]
      /\ budget'.tampered = budget.tampered /\ budget'.records = budget.records
      /\ budget'.uids = budget.uids /\ budget'.edits = budget.edits
  BY <1>1, <1>6, BooksAsked
<1>8. budget.uids \in Nat /\ budget.edits \in Nat
  BY BudgetRange
<1>9. ItemStep(c, i, i)
  <2>1. /\ UnitLeft /\ CacheStep
        /\ unit'.item = [unit.item EXCEPT ![c] = i] /\ unit'.entry = unit.entry
        /\ unit'.live = unit.live /\ unit'.deleting = unit.deleting
    BY <1>1, <1>2, <1>6, <1>7, <1>8, ItemWritten
  <2> QED
    BY <1>1, <1>2, <1>6, <1>7, <1>8, <2>1 DEF ItemStep
<1> QED
  BY <1>2, <1>5, <1>7, <1>9 DEF Edited

LEMMA DecideItemCases ==
    ASSUME Base, NEW c \in Claims, DecideItem(c)
    PROVE  /\ budget'.uids = budget.uids /\ budget'.edits = budget.edits + 1
           /\ (\E i \in Item : Toggled(c, i)) \/ Dropped(c)
<1>1. PICK i \in {[unit.item[c] EXCEPT !.allowed = ~@], NoItem} : WriteItem(c, i)
  BY DEF DecideItem
<1>2. /\ unit.live /\ unit.item[c] # NoItem /\ Edits /\ budget' = [budget EXCEPT !.edits = @ + 1]
      /\ UNCHANGED <<cloud, class, pass>> /\ unit.item[c] \in Items
  BY PassTyped DEF DecideItem, Spend
<1>3. unit.item[c] \in Item
  BY <1>2, ItemShape
<1>4. [unit.item[c] EXCEPT !.allowed = ~@] \in Item
  BY <1>3 DEF Item
<1>5. i \in Items
  BY <1>4 DEF Items
<1>6. /\ budget' \in Budget /\ budget'.claim = budget.claim
      /\ budget'.tampered = budget.tampered /\ budget'.records = budget.records
      /\ budget'.uids = budget.uids /\ budget'.edits = budget.edits + 1
      /\ budget.edits \in Nat /\ budget.uids \in Nat
  BY <1>2, EditSpent, BudgetRange
<1>7. budget'.claim = [budget.claim EXCEPT ![c] = budget.claim[c]]
  BY <1>6 DEF Base, Budget
<1>8. ItemStep(c, i, budget.claim[c])
  <2>1. /\ UnitLeft /\ CacheStep
        /\ unit'.item = [unit.item EXCEPT ![c] = i] /\ unit'.entry = unit.entry
        /\ unit'.live = unit.live /\ unit'.deleting = unit.deleting
    BY <1>1, <1>2, <1>5, <1>6, <1>7, ItemWritten
  <2> QED
    BY <1>1, <1>2, <1>5, <1>6, <1>7, <2>1 DEF ItemStep
<1>9. CASE i = NoItem
  BY <1>2, <1>6, <1>8, <1>9 DEF Dropped
<1>10. CASE i = [unit.item[c] EXCEPT !.allowed = ~@]
  <2>1. SourceMatches(i, unit.item[c])
    <3>1. /\ i.uid = unit.item[c].uid /\ i.gen = unit.item[c].gen /\ i.want = unit.item[c].want
          /\ i.adopt = unit.item[c].adopt /\ i.deleting = unit.item[c].deleting
      BY <1>3, <1>10 DEF Item
    <3> QED
      BY <1>2, <1>5, <3>1, MatchFields
  <2>2. i \in Item
    BY <1>4, <1>10
  <2>3. Toggled(c, i)
    BY <1>2, <1>8, <2>1, <2>2 DEF Toggled
  <2> QED
    BY <1>6, <2>2, <2>3
<1> QED
  BY <1>1, <1>9, <1>10

LEMMA RemoveItemDrops ==
    ASSUME Base, NEW c \in Claims, RemoveItem(c)
    PROVE  Dropped(c) /\ budget' = budget /\ Completed(unit, c)
<1>1. unit.live /\ Completed(unit, c) /\ WriteItem(c, NoItem) /\ UNCHANGED <<cloud, class, pass, budget>>
  BY DEF RemoveItem
<1>2. NoItem \in Items /\ unit.item[c] # NoItem
  BY <1>1 DEF Items, Completed, NoItem
<1>3. budget' \in Budget /\ budget'.claim = [budget.claim EXCEPT ![c] = budget.claim[c]]
  BY <1>1 DEF Base, Budget
<1>4. budget.uids \in Nat /\ budget.edits \in Nat
  BY BudgetRange
<1>5. ItemStep(c, NoItem, budget.claim[c])
  <2>1. /\ UnitLeft /\ CacheStep
        /\ unit'.item = [unit.item EXCEPT ![c] = NoItem] /\ unit'.entry = unit.entry
        /\ unit'.live = unit.live /\ unit'.deleting = unit.deleting
    BY <1>1, <1>2, <1>3, <1>4, ItemWritten
  <2> QED
    BY <1>1, <1>2, <1>3, <1>4, <2>1 DEF ItemStep
<1> QED
  BY <1>1, <1>2, <1>5 DEF Dropped

\* A step of core on claim c leaves the generations of the other claims.
LEMMA OtherGenerations ==
    ASSUME Base, NEW c \in Claims, NEW i \in Items, NEW b \in Items, ItemStep(c, i, b),
           GenerationOK(i, b, budget'.edits, TRUE)
    PROVE  Base'
<1>1. \A d \in Claims : GenerationOK(unit'.item[d], budget'.claim[d], budget'.edits, unit'.live)
  <2> TAKE d \in Claims
  <2>1. CASE d # c
    <3>1. unit'.item[d] = unit.item[d] /\ budget'.claim[d] = budget.claim[d] /\ unit'.live = unit.live
      BY <2>1, PassTyped DEF ItemStep, Base, Unit, Budget
    <3>2. budget'.edits \in Nat /\ budget.edits \in Nat /\ budget'.edits >= budget.edits
      BY DEF ItemStep, Base, Budget
    <3>3. budget.claim[d].gen \in Nat
      BY PassTyped, ItemShape
    <3> QED
      BY <3>1, <3>2, <3>3, GenerationFacts DEF GenerationOK
  <2>2. CASE d = c
    <3>1. unit'.item[d] = i /\ budget'.claim[d] = b
      BY <2>2 DEF ItemStep, Base, Unit, Budget
    <3> QED
      BY <3>1 DEF GenerationOK
  <2> QED
    BY <2>1, <2>2
<1> QED
  BY <1>1 DEF ItemStep, UnitLeft, Base

LEMMA EditedBase ==
    ASSUME Base, NEW c \in Claims, NEW i \in Item, Edited(c, i),
           i.deleting \/ budget'.edits = budget.edits + 1
    PROVE  Base'
<1>1. i \in Items /\ i # NoItem /\ unit.item[c] \in Items
  BY PassTyped DEF Items, Item, NoItem
<1>2. SourceMatches(i, i)
  BY <1>1, MatchFields
<1>3. i.gen = budget.claim[c].gen + 1 /\ budget.claim[c].gen <= budget.edits + 1
  BY GenerationFacts DEF Edited, GenerationOK
<1>4. GenerationOK(i, i, budget'.edits, TRUE)
  <2>1. budget.edits \in Nat /\ budget.claim[c].gen \in Nat
    BY BudgetRange, PassTyped, ItemShape
  <2> QED
    BY <1>1, <1>2, <1>3, <2>1 DEF GenerationOK
<1> QED
  BY <1>1, <1>4, OtherGenerations DEF Edited

LEMMA ToggledBase ==
    ASSUME Base, NEW c \in Claims, NEW i \in Item, Toggled(c, i) PROVE Base'
<1>1. i \in Items /\ i # NoItem /\ unit.item[c] \in Items /\ budget.claim[c] \in Items
  BY PassTyped DEF Items, Item, NoItem
<1>2. SourceMatches(i, budget.claim[c])
  BY <1>1, MatchFields, GenerationFacts DEF Toggled
<1>3. ~budget.claim[c].deleting => budget.claim[c].gen <= budget.edits + 1
  BY GenerationFacts DEF GenerationOK, Toggled
<1>4. i.deleting = budget.claim[c].deleting
  BY <1>1, <1>2, MatchFields
<1>5. budget.edits \in Nat /\ budget.claim[c].gen \in Nat /\ budget'.edits \in Nat /\ budget'.edits >= budget.edits
  BY BudgetRange, PassTyped, ItemShape DEF Toggled, ItemStep, Budget
<1>6. GenerationOK(i, budget.claim[c], budget'.edits, TRUE)
  BY <1>1, <1>2, <1>3, <1>4, <1>5 DEF GenerationOK
<1> QED
  BY <1>1, <1>6, OtherGenerations DEF Toggled

LEMMA DroppedBase ==
    ASSUME Base, NEW c \in Claims, Dropped(c),
           budget.claim[c].deleting \/ budget'.edits = budget.edits + 1
    PROVE  Base'
<1>1. NoItem \in Items /\ budget.claim[c] \in Items
  BY PassTyped DEF Items
<1>2. ~budget.claim[c].deleting => budget.claim[c].gen <= budget.edits + 1
  BY GenerationFacts DEF GenerationOK, Dropped
<1>3. GenerationOK(NoItem, budget.claim[c], budget'.edits, TRUE)
  BY <1>2 DEF GenerationOK
<1> QED
  BY <1>1, <1>3, OtherGenerations DEF Dropped

\* Every step of core on a claim is one of these.
CoreKinds(c) ==
    \/ \E i \in Item : Adds(c, i) \/ Toggled(c, i)
    \/ \E i \in Item : Edited(c, i) /\ budget'.uids = budget.uids
    \/ Dropped(c)

LEMMA CoreStep ==
    ASSUME Base, NEW c \in Claims, Core(c)
    PROVE  Base' /\ CoreKinds(c)
<1>1. CASE AddItem(c)
  BY <1>1, AddItemAdds, AddsBase DEF CoreKinds
<1>2. CASE EditItem(c)
  BY <1>2, EditItemEdits, EditedBase DEF CoreKinds
<1>3. CASE RequestDeletion(c)
  BY <1>3, RequestDeletionEdits, EditedBase DEF CoreKinds
<1>4. CASE DecideItem(c)
  BY <1>4, DecideItemCases, ToggledBase, DroppedBase DEF CoreKinds
<1>5. CASE RemoveItem(c)
  <2>1. unit.item[c] # NoItem /\ unit.item[c].deleting
    BY <1>5, RemoveItemDrops DEF Dropped, Completed
  <2>2. budget.claim[c].deleting
    BY <2>1, GenerationFacts
  <2> QED
    BY <1>5, <2>2, RemoveItemDrops, DroppedBase DEF CoreKinds
<1> QED
  BY <1>1, <1>2, <1>3, <1>4, <1>5 DEF Core

Delivered ==
    /\ seen' \in [unit : Unit, current : BOOLEAN, lags : 0..MaxLags]
    /\ seen'.unit = unit
    /\ UNCHANGED <<unit, cloud, class, pass, budget>>

LEMMA DeliverStep == ASSUME Base, Deliver PROVE Base' /\ Delivered
<1>1. Delivered
  BY DEF Base, Deliver, Delivered
<1> QED
  BY <1>1 DEF Base, Delivered

\* What others do to the records.
ForeignAdds ==
    /\ Fresh \in RecordIds
    /\ \E t \in Types, v \in Values :
          cloud'.records = [cloud.records EXCEPT ![Fresh] =
                               [type |-> t, value |-> v, maker |-> Foreign]]
    /\ budget'.records = Fresh /\ budget'.tampered = budget.tampered
ForeignRemoves ==
    /\ \A r \in RecordIds : cloud'.records[r] \in {cloud.records[r], Gone}
    /\ budget'.records = budget.records /\ budget'.tampered
Outside ==
    /\ UNCHANGED <<unit, seen, class, pass>> /\ cloud' \in Cloud /\ budget' \in Budget
    /\ budget'.claim = budget.claim /\ budget'.uids = budget.uids /\ budget'.edits = budget.edits
    /\ budget'.zones = budget.zones /\ (cloud'.zones = {} \/ cloud'.zones = cloud.zones)
    /\ ForeignAdds \/ ForeignRemoves

LEMMA ForeignRecord ==
    ASSUME Base, NEW t \in Types, NEW v \in Values
    PROVE  [type |-> t, value |-> v, maker |-> Foreign] \in Record
  BY DEF Record, Makers, Foreign

LEMMA ForeignStep == ASSUME Base, ForeignAct PROVE Base' /\ Outside
<1>1. /\ UNCHANGED <<unit, seen, class, pass>> /\ budget.faults < MaxFaults
      /\ cloud \in Cloud /\ budget \in Budget /\ budget.faults + 1 \in 0..MaxFaults
  BY BudgetRange DEF ForeignAct, Base
<1>2. ASSUME /\ Fresh \in RecordIds
             /\ \E t \in Types, v \in Values :
                   cloud' = [cloud EXCEPT !.records[Fresh] =
                               [type |-> t, value |-> v, maker |-> Foreign]]
             /\ budget' = [budget EXCEPT !.faults = @ + 1, !.records = @ + 1]
      PROVE  Outside
  <2>1. PICK t \in Types, v \in Values :
           cloud' = [cloud EXCEPT !.records[Fresh] = [type |-> t, value |-> v, maker |-> Foreign]]
    BY <1>2
  <2> DEFINE rec == [type |-> t, value |-> v, maker |-> Foreign]
  <2>2. rec \in Record
    BY ForeignRecord
  <2>3. cloud' = [cloud EXCEPT !.records[Fresh] = rec]
    BY <2>1
  <2>4. cloud' \in Cloud /\ cloud'.zones = cloud.zones /\ cloud'.records = [cloud.records EXCEPT ![Fresh] = rec]
    <3> HIDE DEF rec
    <3> QED
      BY <1>1, <2>2, <2>3 DEF Cloud
  <2>5. /\ budget' \in Budget /\ budget'.claim = budget.claim /\ budget'.uids = budget.uids
        /\ budget'.edits = budget.edits /\ budget'.zones = budget.zones
        /\ budget'.records = Fresh /\ budget'.tampered = budget.tampered
    <3>1. budget.records + 1 \in 0..MaxRecords
      BY <1>2 DEF Fresh
    <3>2. budget' = [budget EXCEPT !.faults = budget.faults + 1, !.records = budget.records + 1]
      BY <1>1, <1>2 DEF Budget
    <3> QED
      BY <1>1, <3>1, <3>2 DEF Budget, Fresh
  <2>6. ForeignAdds
    BY <1>2, <2>4, <2>5 DEF ForeignAdds
  <2> QED
    BY <1>1, <2>4, <2>5, <2>6 DEF Outside
<1>3. ASSUME /\ cloud' \in Cloud /\ (cloud'.zones = {} \/ cloud'.zones = cloud.zones)
             /\ \A r \in RecordIds : cloud'.records[r] \in {cloud.records[r], Gone}
             /\ budget' = [budget EXCEPT !.faults = @ + 1, !.tampered = TRUE]
      PROVE  Outside
  <2>1. /\ budget' \in Budget /\ budget'.claim = budget.claim /\ budget'.uids = budget.uids
        /\ budget'.edits = budget.edits /\ budget'.zones = budget.zones
        /\ budget'.records = budget.records /\ budget'.tampered
    <3>1. budget' = [budget EXCEPT !.faults = budget.faults + 1, !.tampered = TRUE]
      BY <1>3
    <3> QED
      BY <1>1, <3>1 DEF Budget
  <2> QED
    BY <1>1, <1>3, <2>1 DEF Outside, ForeignRemoves
<1>4. ASSUME /\ \E r \in Live : cloud' = [cloud EXCEPT !.records[r] = Gone]
             /\ budget' = [budget EXCEPT !.faults = @ + 1, !.tampered = TRUE]
      PROVE  Outside
  <2>1. PICK r \in RecordIds : cloud' = [cloud EXCEPT !.records[r] = Gone]
    BY <1>4 DEF Live
  <2>2. cloud' \in Cloud /\ cloud'.zones = cloud.zones /\ cloud'.records = [cloud.records EXCEPT ![r] = Gone]
    BY <1>1, <2>1 DEF Cloud
  <2>3. \A s \in RecordIds : cloud'.records[s] \in {cloud.records[s], Gone}
    BY <1>1, <2>2 DEF Cloud
  <2> QED
    BY <1>3, <1>4, <2>2, <2>3
<1>5. ASSUME /\ cloud' = [zones |-> {}, records |-> [r \in RecordIds |-> Gone]]
             /\ budget' = [budget EXCEPT !.faults = @ + 1, !.tampered = TRUE]
      PROVE  Outside
  BY <1>3, <1>5 DEF Cloud
<1>6. Outside
  BY <1>2, <1>4, <1>5 DEF ForeignAct
<1>7. UnitLeft
  BY <1>1 DEF Base, UnitLeft
<1>8. \A c \in Claims : GenerationOK(unit'.item[c], budget'.claim[c], budget'.edits, unit'.live)
  BY <1>1, <1>6 DEF Base, Outside
<1> QED
  BY <1>1, <1>6, <1>7, <1>8 DEF Base, Outside, UnitLeft

-----------------------------------------------------------------------------
(* The steps that work on the ledger, by what they write.                  *)

Frame == UNCHANGED <<cloud, class>> /\ BooksKept

\* A status patch of entry e of claim c was tried.
Outcome(c, e, next) ==
    /\ c \in Claims /\ e \in Entry /\ PassOK(next)
    /\ \/ Refused
       \/ Unpatched(c, pass.unit.item[c], e, next)
       \/ Patched(c, pass.unit.item[c], e, next)

\* The entry a patch of claim c starts from.
Start(c) == Current(c, pass.unit.item[c])

Pruned ==
    /\ pass.at = "prune" /\ pass' = Idle /\ Frame /\ UnitLeft
    /\ seen.current /\ seen.unit = unit /\ seen'.unit \in {unit', unit}
    /\ unit'.item = unit.item /\ unit'.live = unit.live /\ unit'.deleting = unit.deleting
    /\ unit'.entry = [c \in Claims |-> IF c \in Prunable(unit) THEN NoEntry ELSE unit.entry[c]]

Accepted ==
    /\ pass.at = "items" /\ Frame
    /\ \E c \in pass.rest, accepted \in BOOLEAN :
          \E next \in {Idle, [pass EXCEPT !.at = "look", !.c = c, !.rest = @ \ {c},
                                          !.ids = Rebased(c, pass.unit.item[c]).ids]} :
              Outcome(c, [Start(c) EXCEPT !.accepted = accepted], next)

Reported(why) ==
    /\ Working(pass)
    /\ Outcome(pass.c, [Start(pass.c) EXCEPT !.why = why, !.whyGen = Source(pass).gen], Continue)

\* The records the ledger may be set to: those that the RecordSet adopts,
\* those of the pre-upgrade receipt, or known ones that need no change.
Settled ==
    \/ LiveOf(Type) = Source(pass).adopt /\ Shows(LiveOf(Type), Source(pass).want)
    \/ LegacyBound
    \/ LiveOf(Type) \subseteq pass.ids /\ Operations(Type, LiveOf(Type), Source(pass).want) = NoBatch

Looking(deleting) == pass.at = "look" /\ Source(pass).deleting = deleting

SetsReady ==
    /\ Looking(FALSE) /\ Frame /\ Settled
    /\ Outcome(pass.c, [Start(pass.c) EXCEPT !.ids = LiveOf(Type)], [pass EXCEPT !.at = "ready"])

PlansNormal ==
    /\ Looking(FALSE) /\ Frame /\ UNCHANGED <<unit, seen>>
    /\ LiveOf(Type) \subseteq pass.ids
    /\ Operations(Type, LiveOf(Type), Source(pass).want) # NoBatch
    /\ pass' = [pass EXCEPT !.at = "fence", !.batch = Operations(Type, LiveOf(Type), Source(pass).want)]
    /\ PassOK(pass')

Completes ==
    /\ Looking(TRUE) /\ Frame /\ (Live = {} \/ Source(pass).adopt # {})
    /\ Outcome(pass.c, [Start(pass.c) EXCEPT !.why = "Programmed", !.whyGen = Source(pass).gen,
                                             !.completed = TRUE], Continue)

BindsLegacy ==
    /\ Looking(TRUE) /\ Frame /\ LegacyBound
    /\ Outcome(pass.c, [Start(pass.c) EXCEPT !.ids = LiveOf(Type)], [pass EXCEPT !.ids = LiveOf(Type)])

DropsOdd ==
    /\ Looking(TRUE) /\ Frame
    /\ \E r \in RecordIds \ Live :
          Outcome(pass.c, [Start(pass.c) EXCEPT !.ids = Rebased(pass.c, Source(pass)).ids \ {r}], Continue)

PlansDeletion ==
    /\ Looking(TRUE) /\ Frame /\ UNCHANGED <<unit, seen>> /\ PassOK(pass')
    /\ \E ids \in {pass.ids, Source(pass).adopt} :
          /\ pass' = [pass EXCEPT !.at = "fence", !.batch = [NoBatch EXCEPT !.deletes = ids \cap Live]]
          /\ \A r \in ids \cap Live : cloud.records[r].type = Type

Permitted ==
    /\ pass.at = "fence" /\ Frame /\ UNCHANGED <<unit, seen>> /\ PassOK(pass')
    /\ seen.current /\ seen.unit.item[pass.c] = Source(pass)
    /\ pass' = [pass EXCEPT !.at = "batch"]

Sent ==
    /\ pass.at = "batch" /\ Appliable /\ Posted \subseteq RecordIds
    /\ cloud' = [cloud EXCEPT !.records = Applied] /\ cloud' \in Cloud /\ class' = class
    /\ budget' \in Budget
    /\ budget'.claim = budget.claim /\ budget'.uids = budget.uids
    /\ budget'.edits = budget.edits /\ budget'.tampered = budget.tampered
    /\ budget'.records = budget.records + Cardinality(Posted)
    /\ budget'.zones = budget.zones

Answered ==
    /\ Sent /\ UNCHANGED <<unit, seen>> /\ PassOK(pass')
    /\ pass' = [pass EXCEPT !.at = "ledger", !.batch = NoBatch,
                            !.add = Posted \cup DOMAIN pass.batch.patches,
                            !.drop = pass.batch.deletes]

Lost == Sent /\ Reported("Error")

AlreadyGone ==
    /\ pass.at = "batch" /\ Source(pass).deleting /\ Frame /\ UNCHANGED <<unit, seen>> /\ PassOK(pass')
    /\ pass' = [pass EXCEPT !.at = "ledger", !.batch = NoBatch, !.drop = pass.batch.deletes]

LedgerAdds ==
    /\ pass.at = "ledger" /\ Frame
    /\ \E r \in pass.add :
          Outcome(pass.c, [Start(pass.c) EXCEPT !.ids = Rebased(pass.c, Source(pass)).ids \cup {r}],
                  [pass EXCEPT !.add = @ \ {r}])

LedgerDrops ==
    /\ pass.at = "ledger" /\ Frame
    /\ \E r \in pass.drop :
          Outcome(pass.c, [Start(pass.c) EXCEPT !.ids = Rebased(pass.c, Source(pass)).ids \ {r}],
                  [pass EXCEPT !.drop = @ \ {r}])

ReportsOther == Frame /\ \E why \in Reasons \ {"Programmed"} : Reported(why)
ReportsReady == Frame /\ pass.at = "ready" /\ Reported("Programmed")

RecordKinds ==
    \/ Quiet \/ Pruned \/ Accepted \/ ReportsOther \/ ReportsReady
    \/ SetsReady \/ PlansNormal \/ Completes \/ BindsLegacy \/ DropsOdd \/ PlansDeletion
    \/ Permitted \/ Answered \/ Lost \/ AlreadyGone \/ LedgerAdds \/ LedgerDrops

LEMMA RebasedTyped ==
    ASSUME Base, NEW c \in Claims, NEW i \in Items
    PROVE  /\ Rebased(c, i) \in Entry /\ Current(c, i) \in Entry
           /\ Rebased(c, i).uid = i.uid /\ Current(c, i).uid = i.uid
           /\ Current(c, i).ids = Rebased(c, i).ids /\ Current(c, i).why = Rebased(c, i).why
           /\ Current(c, i).whyGen = Rebased(c, i).whyGen
           /\ Current(c, i).completed = Rebased(c, i).completed
<1>1. seen.unit.entry[c] \in Entry /\ i.uid \in 0..MaxUids /\ i.gen \in Generations
  BY PassTyped, ItemShape
<1>2. [NoEntry EXCEPT !.uid = i.uid] \in Entry /\ [NoEntry EXCEPT !.uid = i.uid].uid = i.uid
  BY <1>1, NoUnitTyped DEF Entry
<1>3. Rebased(c, i) \in Entry /\ Rebased(c, i).uid = i.uid
  BY <1>1, <1>2 DEF Rebased, StatusMatchesItem
<1> QED
  BY <1>1, <1>3 DEF Current, Entry

\* What a patch of the entry of claim c starts from.
LEMMA StartTyped ==
    ASSUME Base, NEW c \in Claims
    PROVE  /\ Start(c) \in Entry /\ Start(c).uid = pass.unit.item[c].uid
           /\ Start(c).ids = Rebased(c, pass.unit.item[c]).ids
           /\ Start(c).ids \subseteq RecordIds
  BY PassTyped, RebasedTyped DEF Start, Entry

\* Fields of a patched entry.
LEMMA EntryFields ==
    ASSUME NEW e \in Entry, NEW why \in Reasons, NEW gen \in Generations,
           NEW ids \in SUBSET RecordIds, NEW accepted \in BOOLEAN
    PROVE  /\ [e EXCEPT !.accepted = accepted] \in Entry
           /\ [e EXCEPT !.why = why, !.whyGen = gen] \in Entry
           /\ [e EXCEPT !.why = why, !.whyGen = gen, !.completed = TRUE] \in Entry
           /\ [e EXCEPT !.ids = ids] \in Entry
  BY DEF Entry

LEMMA WorkingFacts ==
    ASSUME Base, Working(pass)
    PROVE  /\ pass.c \in Claims /\ Source(pass) \in Item /\ Source(pass) # NoItem
           /\ Source(pass) = pass.unit.item[pass.c] /\ Source(pass).gen \in Generations
           /\ Source(pass).adopt \subseteq RecordIds /\ Source(pass).uid # 0
           /\ Source(pass).deleting \in BOOLEAN /\ Source(pass).want \in Contents
           /\ Source(pass) \in Items
<1>1. pass.c \in Claims /\ Source(pass) # NoItem /\ Source(pass) = pass.unit.item[pass.c]
  BY DEF Base, PassOK, Source
<1>2. Source(pass) \in Items
  BY <1>1, PassTyped
<1> QED
  BY <1>1, <1>2, ItemShape DEF Item

LEMMA ContinueOK ==
    ASSUME Base
    PROVE  /\ PassOK(Continue) /\ ~Working(Continue) /\ ~Ending(Continue)
           /\ Continue = Idle \/ Continue.unit = pass.unit
           /\ Continue # Idle => Continue.at = "items" /\ Continue.rest \subseteq pass.rest
<1>1. CASE pass.rest = {}
  <2>1. Idle.at = "idle"
    BY DEF Idle
  <2> QED
    BY <1>1, <2>1, IdleOK DEF Continue, Working, Ending
<1>2. CASE pass.rest # {}
  <2> DEFINE next == [Idle EXCEPT !.at = "items", !.unit = pass.unit, !.rest = pass.rest]
  <2>1. next \in Pass
    BY IdleOK, PassTyped DEF Pass, Stages
  <2>2. next.at = "items" /\ next.unit = pass.unit /\ next.rest = pass.rest /\ next.add = {} /\ next.drop = {} /\ next.batch = NoBatch
    BY DEF Idle
  <2>3. \A c \in pass.rest : pass.unit.item[c] # NoItem
    BY DEF Base, PassOK
  <2> HIDE DEF next
  <2>4. PassOK(next) /\ ~Working(next) /\ ~Ending(next)
    BY <1>2, <2>1, <2>2, <2>3 DEF PassOK, Working, Ending
  <2>5. Continue = next
    BY <1>2 DEF Continue, next
  <2> QED
    BY <2>2, <2>4, <2>5
<1> QED
  BY <1>1, <1>2

LEMMA ReportStep ==
    ASSUME Base, Working(pass), NEW why \in Reasons, Report(why)
    PROVE  Reported(why)
<1> DEFINE e == [Start(pass.c) EXCEPT !.why = why, !.whyGen = Source(pass).gen]
<1>1. pass.c \in Claims /\ Source(pass) = pass.unit.item[pass.c] /\ Source(pass).gen \in Generations
  BY WorkingFacts
<1>2. Start(pass.c) \in Entry
  BY <1>1, StartTyped
<1>3. e \in Entry
  BY <1>1, <1>2 DEF Entry
<1>4. PatchEntry(pass.c, pass.unit.item[pass.c], e, Continue)
  BY <1>1 DEF Report, Start
<1> HIDE DEF e
<1>5. Outcome(pass.c, e, Continue)
  BY <1>1, <1>3, <1>4, PatchCases, ContinueOK DEF Outcome
<1> QED
  BY <1>5 DEF Reported, e

LEMMA BindStep ==
    ASSUME Base, Working(pass), NEW ids \in SUBSET RecordIds, NEW next, PassOK(next), Bind(ids, next)
    PROVE  Outcome(pass.c, [Start(pass.c) EXCEPT !.ids = ids], next)
<1> DEFINE e == [Start(pass.c) EXCEPT !.ids = ids]
<1>1. pass.c \in Claims /\ Source(pass) = pass.unit.item[pass.c]
  BY WorkingFacts
<1>2. Start(pass.c) \in Entry
  BY <1>1, StartTyped
<1>3. e \in Entry
  BY <1>2 DEF Entry
<1>4. PatchEntry(pass.c, pass.unit.item[pass.c], e, next)
  BY <1>1 DEF Bind, Start
<1> HIDE DEF e
<1>5. Outcome(pass.c, e, next)
  BY <1>1, <1>3, <1>4, PatchCases DEF Outcome
<1> QED
  BY <1>5 DEF e

LEMMA FrameUnspent == ASSUME Base, UNCHANGED <<cloud, class, budget>> PROVE Frame
  BY BooksUnspent DEF Frame

LEMMA PruneKinds == ASSUME Base, Prune PROVE RecordKinds
<1>1. pass.at = "prune" /\ Frame
  BY FrameUnspent DEF Prune
<1>2. CASE pass' = Idle /\ UNCHANGED <<unit, seen>>
  <2>1. QuietPass
    BY <1>2, IdleOK DEF QuietPass
  <2>2. cloud' \in Cloud /\ class' \in Classes /\ cloud'.records = cloud.records /\ BooksKept
    BY <1>1, CloudLeft DEF Frame
  <2>3. QuietUnit
    BY <1>2, NothingWritten
  <2> QED
    BY <2>1, <2>2, <2>3 DEF Quiet, RecordKinds
<1>3. CASE pass' = Idle /\ seen.current
           /\ WriteUnit([unit EXCEPT !.entry =
                      [c \in Claims |-> IF c \in Prunable(unit) THEN NoEntry ELSE @[c]]])
  <2> DEFINE f == [c \in Claims |-> IF c \in Prunable(unit) THEN NoEntry ELSE unit.entry[c]]
             u == [unit EXCEPT !.entry = f]
  <2>1. unit \in Unit /\ seen.unit = unit
    BY <1>3 DEF Base
  <2>2. f \in [Claims -> Entry]
    BY <2>1, NoUnitTyped DEF Unit
  <2>3. u \in Unit /\ u.entry = f /\ u.item = unit.item /\ u.live = unit.live /\ u.deleting = unit.deleting
    <3> HIDE DEF f
    <3> QED
      BY <2>1, <2>2 DEF Unit
  <2>4. WriteUnit(u)
    BY <1>3
  <2> HIDE DEF u
  <2>5. unit' = u /\ UnitLeft /\ seen'.unit \in {u, unit}
    BY <1>3, <2>3, <2>4, Written DEF UnitLeft
  <2>6. Pruned
    BY <1>1, <1>3, <2>1, <2>3, <2>5 DEF Pruned
  <2> QED
    BY <2>6 DEF RecordKinds
<1>4. CASE LET todo == {c \in Claims : \/ pass.unit.item[c].allowed
                                        \/ pass.unit.item[c].deleting}
            IN  /\ pass' = IF todo = {} THEN Idle
                           ELSE [pass EXCEPT !.at = "items", !.rest = todo]
                /\ UNCHANGED <<unit, seen>>
  <2> DEFINE todo == {c \in Claims : pass.unit.item[c].allowed \/ pass.unit.item[c].deleting}
  <2>0. \A c \in todo : pass.unit.item[c] # NoItem
    BY DEF NoItem
  <2>1. todo # {} => PassOK([pass EXCEPT !.at = "items", !.rest = todo])
    <3>1. todo \subseteq Claims
      OBVIOUS
    <3> HIDE DEF todo
    <3> QED
      BY <1>1, <2>0, <3>1 DEF Base, PassOK, Pass, Working, Stages
  <2>2. [pass EXCEPT !.at = "items", !.rest = todo].unit = pass.unit
        /\ [pass EXCEPT !.at = "items", !.rest = todo].at = "items"
    <3> HIDE DEF todo
    <3> QED
      BY PassTyped DEF Pass
  <2>3. QuietPass
    <3> HIDE DEF todo
    <3>1. CASE todo = {}
      BY <1>4, <3>1, IdleOK DEF QuietPass, todo
    <3>2. CASE todo # {}
      <4>1. pass' = [pass EXCEPT !.at = "items", !.rest = todo]
        BY <1>4, <3>2 DEF todo
      <4> QED
        BY <1>1, <2>1, <2>2, <3>2, <4>1 DEF QuietPass, Working, Ending
    <3> QED
      BY <3>1, <3>2
  <2>4. cloud' \in Cloud /\ class' \in Classes /\ cloud'.records = cloud.records /\ BooksKept
    BY <1>1, CloudLeft DEF Frame
  <2>5. QuietUnit
    BY <1>4, NothingWritten
  <2> QED
    BY <2>3, <2>4, <2>5 DEF Quiet, RecordKinds
<1> QED
  BY <1>2, <1>3, <1>4 DEF Prune

LEMMA LookPassOK ==
    ASSUME Base, pass.at = "items", NEW c \in pass.rest, NEW ids \in SUBSET RecordIds
    PROVE  PassOK([pass EXCEPT !.at = "look", !.c = c, !.rest = @ \ {c}, !.ids = ids])
<1> DEFINE next == [pass EXCEPT !.at = "look", !.c = c, !.rest = @ \ {c}, !.ids = ids]
<1>1. c \in Claims /\ pass.unit.item[c] # NoItem /\ pass.batch = NoBatch /\ pass.add = {} /\ pass.drop = {}
  BY PassTyped DEF Base, PassOK
<1>2. next \in Pass
  BY <1>1, PassTyped DEF Pass, Stages
<1>3. /\ next.at = "look" /\ next.c = c /\ next.rest = pass.rest \ {c} /\ next.unit = pass.unit
      /\ next.batch = NoBatch /\ next.add = {} /\ next.drop = {}
  BY <1>1, PassTyped DEF Pass
<1> HIDE DEF next
<1>4. Source(next) # NoItem /\ next.batch.posts \subseteq Source(next).want
  BY <1>1, <1>3 DEF Source, NoBatch
<1>5. \A d \in next.rest : next.unit.item[d] # NoItem
  BY <1>3 DEF Base, PassOK
<1>6. PassOK(next)
  BY <1>1, <1>2, <1>3, <1>4, <1>5 DEF PassOK, Working
<1> QED
  BY <1>6 DEF next

LEMMA AcceptItemKinds == ASSUME Base, AcceptItem PROVE RecordKinds
<1> DEFINE c == Min(pass.rest)
           i == pass.unit.item[c]
           held == IF StatusMatchesItem(pass.unit.entry[c], i) THEN pass.unit.entry[c].ids ELSE {}
           refused == \/ class = "refused" \/ ~pass.unit.zone.accepted
                      \/ i.adopt # {} /\ held # {} /\ held # i.adopt
           e == [Start(c) EXCEPT !.accepted = ~refused]
           looking == [pass EXCEPT !.at = "look", !.c = c, !.rest = @ \ {c}, !.ids = Rebased(c, i).ids]
           next == IF refused THEN Idle ELSE looking
<1>1. pass.at = "items" /\ Frame
  BY FrameUnspent DEF AcceptItem
<1>2. PatchEntry(c, i, e, next)
  BY DEF AcceptItem, Start
<1>3. c \in pass.rest /\ c \in Claims
  <2>1. pass.rest \subseteq Nat /\ pass.rest # {} /\ pass.rest \subseteq Claims
    BY <1>1, PassTyped DEF Base, PassOK
  <2> QED
    BY <2>1, SmallestIn
<1> HIDE DEF c
<1>4. (~refused) \in BOOLEAN
  OBVIOUS
<1> HIDE DEF refused
<1>5. Start(c) \in Entry /\ Rebased(c, i).ids \subseteq RecordIds /\ i \in Items
  BY <1>3, StartTyped, PassTyped
<1>6. e \in Entry
  BY <1>4, <1>5 DEF Entry
<1>7. PassOK(looking)
  BY <1>1, <1>3, <1>5, LookPassOK
<1> HIDE DEF looking, e
<1>8. PassOK(next) /\ next \in {Idle, looking}
  BY <1>7, IdleOK
<1> HIDE DEF next
<1>9. Outcome(c, e, next)
  BY <1>2, <1>3, <1>6, <1>8, PatchCases DEF Outcome
<1>10. Accepted
  <2> DEFINE a == ~refused
  <2>1. a \in BOOLEAN /\ e = [Start(c) EXCEPT !.accepted = a]
    BY <1>4 DEF e
  <2> HIDE DEF a
  <2> QED
    BY <1>1, <1>3, <1>8, <1>9, <2>1 DEF Accepted, looking
<1> QED
  BY <1>10 DEF RecordKinds


\* The value of a record as the provider compares it.
KeyOf(type, r) == Key(type, cloud.records[r].value)

LEMMA OperationsFacts ==
    ASSUME Base, NEW type, NEW ids \in SUBSET RecordIds, NEW want \in Contents
    PROVE  LET ops == Operations(type, ids, want)
           IN  /\ ops \in Batches
               /\ ops.posts \subseteq want /\ ops.deletes \subseteq ids /\ DOMAIN ops.patches \subseteq ids
               /\ \A v \in ops.posts, r \in ids : KeyOf(type, r) # Key(type, v)
               /\ \A r \in DOMAIN ops.patches :
                      ops.patches[r] \in want /\ Key(type, ops.patches[r]) = KeyOf(type, r)
<1> DEFINE Of(v) == {r \in ids : KeyOf(type, r) = Key(type, v)}
           Holder(v) == Max(Of(v))
           held == {v \in want : \E r \in ids : KeyOf(type, r) = Key(type, v)}
           changed == {v \in held : cloud.records[Holder(v)].value # v}
           holders == {Holder(v) : v \in changed}
           Patch(r) == CHOOSE v \in changed : Holder(v) = r
           patches == [r \in holders |-> Patch(r)]
           deletes == {r \in ids : \A v \in want : Key(type, v) # KeyOf(type, r)}
           ops == [posts |-> want \ held, patches |-> patches, deletes |-> deletes]
<1>1. Operations(type, ids, want) = ops
  BY DEF Operations, KeyOf
<1>2. \A v \in held : Holder(v) \in Of(v)
  <2> TAKE v \in held
  <2>0. PICK r \in ids : KeyOf(type, r) = Key(type, v)
    OBVIOUS
  <2>1. r \in Of(v)
    BY <2>0
  <2>2. Of(v) \subseteq ids
    OBVIOUS
  <2> HIDE DEF Of
  <2>3. ids \subseteq 0..MaxRecords
    OBVIOUS
  <2>4. Of(v) \in SUBSET (0..MaxRecords) /\ Of(v) # {}
    BY <2>1, <2>2, <2>3
  <2> QED
    BY <2>4, LargestIn
<1>3. \A r \in holders : Patch(r) \in changed /\ Holder(Patch(r)) = r
  <2> TAKE r \in holders
  <2>1. \E v \in changed : Holder(v) = r
    OBVIOUS
  <2> HIDE DEF Holder, changed
  <2> QED
    BY <2>1
<1>4. \A v \in changed : v \in want /\ v \in held
  OBVIOUS
<1>5. want \subseteq Values
  BY DEF Values
<1>6. \A r \in holders : Patch(r) \in want /\ r \in ids /\ Key(type, Patch(r)) = KeyOf(type, r)
  <2> TAKE r \in holders
  <2>1. Patch(r) \in held /\ Patch(r) \in want /\ Holder(Patch(r)) = r
    BY <1>3, <1>4
  <2>2. r \in Of(Patch(r))
    BY <1>2, <2>1
  <2> HIDE DEF Patch, holders, held, changed, Holder
  <2> QED
    BY <2>1, <2>2
<1>7. held \subseteq want /\ \A v \in want \ held, r \in ids : KeyOf(type, r) # Key(type, v)
  OBVIOUS
<1>8. deletes \subseteq ids
  OBVIOUS
<1> HIDE DEF held, holders, Patch, deletes
<1>9. DOMAIN patches = holders /\ \A r \in holders : patches[r] = Patch(r)
  OBVIOUS
<1>10. patches \in [holders -> Values] /\ holders \subseteq RecordIds
  BY <1>5, <1>6
<1>11. patches \in Patches
  BY <1>10 DEF Patches
<1> HIDE DEF patches
<1>12. ops \in Batches
  BY <1>5, <1>8, <1>11 DEF Batches
<1>13. ops.posts = want \ held /\ ops.patches = patches /\ ops.deletes = deletes
  OBVIOUS
<1> HIDE DEF ops
<1>14. holders \subseteq ids /\ DOMAIN ops.patches = holders
  BY <1>6, <1>9, <1>13
<1>15. \A r \in DOMAIN ops.patches : ops.patches[r] \in want /\ Key(type, ops.patches[r]) = KeyOf(type, r)
  BY <1>6, <1>9, <1>13, <1>14
<1> QED
  BY <1>1, <1>7, <1>8, <1>12, <1>13, <1>14, <1>15

\* A pass that stays with its item.
LEMMA StagePassOK ==
    ASSUME Base, Working(pass), pass.add = {}, pass.drop = {}
    PROVE  /\ pass.batch = NoBatch => PassOK([pass EXCEPT !.at = "ready"])
           /\ PassOK([pass EXCEPT !.at = "batch"])
           /\ \A b \in Batches : b.posts \subseteq Source(pass).want =>
                 PassOK([pass EXCEPT !.at = "fence", !.batch = b])
           /\ \A b \in Batches, add, drop \in SUBSET RecordIds :
                 PassOK([pass EXCEPT !.at = "ledger", !.batch = NoBatch, !.add = add, !.drop = drop])
<1>1. /\ pass \in Pass /\ pass.c \in Claims /\ Source(pass) # NoItem
      /\ pass.batch.posts \subseteq Source(pass).want
      /\ \A c \in pass.rest : pass.unit.item[c] # NoItem
  BY DEF Base, PassOK
<1>2. pass.batch = NoBatch => PassOK([pass EXCEPT !.at = "ready"])
  BY <1>1 DEF Pass, PassOK, Working, Source, Stages
<1>3. PassOK([pass EXCEPT !.at = "batch"])
  BY <1>1 DEF Pass, PassOK, Working, Source, Stages
<1>4. ASSUME NEW b \in Batches, b.posts \subseteq Source(pass).want
      PROVE  PassOK([pass EXCEPT !.at = "fence", !.batch = b])
  BY <1>1, <1>4 DEF Pass, PassOK, Working, Source, Stages
<1>5. ASSUME NEW add \in SUBSET RecordIds, NEW drop \in SUBSET RecordIds
      PROVE  PassOK([pass EXCEPT !.at = "ledger", !.batch = NoBatch, !.add = add, !.drop = drop])
  <2> DEFINE next == [pass EXCEPT !.at = "ledger", !.batch = NoBatch, !.add = add, !.drop = drop]
  <2>1. next \in Pass
    BY <1>1, NoBatchTyped DEF Pass, Stages
  <2>2. next.at = "ledger" /\ next.batch = NoBatch /\ next.c = pass.c /\ next.unit = pass.unit /\ next.rest = pass.rest
    BY <1>1 DEF Pass
  <2>3. NoBatch.posts = {}
    BY DEF NoBatch
  <2> HIDE DEF next
  <2>4. PassOK(next)
    BY <1>1, <2>1, <2>2, <2>3 DEF PassOK, Working, Source
  <2> QED
    BY <2>4 DEF next
<1> QED
  BY <1>2, <1>3, <1>4, <1>5


LEMMA SetReadyKinds ==
    ASSUME Base, Looking(FALSE), Frame, Settled, SetReady(LiveOf(Type))
    PROVE  RecordKinds
<1>1. Working(pass) /\ pass.batch = NoBatch /\ pass.add = {} /\ pass.drop = {}
  BY DEF Base, PassOK, Looking, Working
<1>2. PassOK([pass EXCEPT !.at = "ready"])
  BY <1>1, StagePassOK
<1>3. LiveOf(Type) \subseteq RecordIds
  BY DEF LiveOf
<1>4. Bind(LiveOf(Type), [pass EXCEPT !.at = "ready"])
  BY DEF SetReady
<1>5. Outcome(pass.c, [Start(pass.c) EXCEPT !.ids = LiveOf(Type)], [pass EXCEPT !.at = "ready"])
  BY <1>1, <1>2, <1>3, <1>4, BindStep
<1> QED
  BY <1>5 DEF SetsReady, RecordKinds

LEMMA ReportKinds ==
    ASSUME Base, Working(pass), Frame, NEW why \in Reasons \ {"Programmed"}, Report(why)
    PROVE  RecordKinds
  BY ReportStep DEF ReportsOther, RecordKinds

LEMMA LookNormalKinds == ASSUME Base, LookNormal PROVE RecordKinds
<1>1. Looking(FALSE) /\ Frame /\ Working(pass) /\ pass.add = {} /\ pass.drop = {}
  <2>1. Source(pass).deleting \in BOOLEAN
    BY WorkingFacts DEF LookNormal, Working
  <2> QED
    BY <2>1, FrameUnspent DEF LookNormal, Looking, Working, Base, PassOK
<1> DEFINE others == {"Unready", "Pending", "NotFound", "Mismatch", "Conflict"}
<1>2. ASSUME NEW why \in others, Report(why) PROVE RecordKinds
  <2>1. why \in Reasons \ {"Programmed"}
    BY DEF Reasons
  <2> QED
    BY <1>1, <1>2, <2>1, ReportKinds
<1>3. CASE Blocked # "" /\ Report(Blocked)
  <2>1. Blocked \in others
    BY <1>3 DEF Blocked
  <2> QED
    BY <1>2, <1>3, <2>1
<1>4. CASE Adoption
  <2> DEFINE ids == Source(pass).adopt
  <2>1. CASE Report("NotFound") \/ Report("Mismatch") \/ Report("Conflict")
    BY <1>2, <2>1
  <2>2. CASE /\ Shows(ids, Source(pass).want) /\ ids \subseteq LiveOf(Type)
             /\ LiveOf(Type) \subseteq ids /\ SetReady(ids)
    <3>1. ids = LiveOf(Type)
      BY <2>2
    <3>2. Settled /\ SetReady(LiveOf(Type))
      BY <2>2, <3>1 DEF Settled
    <3> QED
      BY <1>1, <3>2, SetReadyKinds
  <2> QED
    BY <1>4, <2>1, <2>2 DEF Adoption
<1>5. CASE Diff
  <2> DEFINE ids == pass.ids \cap LiveOf(Type)
             ops == Operations(Type, ids, Source(pass).want)
  <2>1. CASE Report("Conflict")
    BY <1>2, <2>1
  <2>2. CASE LegacyBound /\ SetReady(LiveOf(Type))
    BY <1>1, <2>2, SetReadyKinds DEF Settled
  <2>3. CASE LiveOf(Type) \subseteq pass.ids /\ ops = NoBatch /\ SetReady(ids)
    <3>1. ids = LiveOf(Type)
      BY <2>3
    <3>2. Settled /\ SetReady(LiveOf(Type))
      BY <2>3, <3>1 DEF Settled
    <3> QED
      BY <1>1, <3>2, SetReadyKinds
  <2>4. CASE LiveOf(Type) \subseteq pass.ids /\ ops # NoBatch
             /\ pass' = [pass EXCEPT !.at = "fence", !.batch = ops] /\ UNCHANGED <<unit, seen>>
    <3>1. ids = LiveOf(Type) /\ ids \subseteq RecordIds
      BY <2>4 DEF LiveOf
    <3>2. Source(pass).want \in Contents
      BY <1>1, WorkingFacts
    <3> HIDE DEF ids
    <3>3. ops \in Batches /\ ops.posts \subseteq Source(pass).want
      BY <3>1, <3>2, OperationsFacts
    <3>4. PassOK([pass EXCEPT !.at = "fence", !.batch = ops])
      <4> HIDE DEF ops
      <4> QED
        BY <1>1, <3>3, StagePassOK
    <3>5. PlansNormal
      BY <1>1, <2>4, <3>1, <3>4 DEF PlansNormal
    <3> QED
      BY <3>5 DEF RecordKinds
  <2> QED
    BY <1>5, <2>1, <2>2, <2>3, <2>4 DEF Diff
<1> QED
  BY <1>3, <1>4, <1>5 DEF LookNormal

LEMMA ReportReadyKinds == ASSUME Base, ReportReady PROVE RecordKinds
<1>1. pass.at = "ready" /\ Working(pass) /\ Frame /\ Report("Programmed") /\ "Programmed" \in Reasons
  BY FrameUnspent DEF ReportReady, Working, Reasons
<1>2. Reported("Programmed")
  BY <1>1, ReportStep
<1> QED
  BY <1>1, <1>2 DEF ReportsReady, RecordKinds


LEMMA CompletesKinds ==
    ASSUME Base, Looking(TRUE), Frame, Live = {} \/ Source(pass).adopt # {}, Complete
    PROVE  RecordKinds
<1> DEFINE e == [Start(pass.c) EXCEPT !.why = "Programmed", !.whyGen = Source(pass).gen, !.completed = TRUE]
<1>1. Working(pass)
  BY DEF Looking, Working
<1>2. pass.c \in Claims /\ Source(pass) = pass.unit.item[pass.c] /\ Source(pass).gen \in Generations
  BY <1>1, WorkingFacts
<1>3. Start(pass.c) \in Entry /\ "Programmed" \in Reasons
  BY <1>2, StartTyped DEF Reasons
<1>4. e \in Entry
  BY <1>2, <1>3 DEF Entry
<1>5. PatchEntry(pass.c, pass.unit.item[pass.c], e, Continue)
  BY <1>2 DEF Complete, Start
<1> HIDE DEF e
<1>6. Outcome(pass.c, e, Continue)
  BY <1>2, <1>4, <1>5, PatchCases, ContinueOK DEF Outcome
<1> QED
  BY <1>6 DEF Completes, RecordKinds, e

LEMMA IdsPassOK ==
    ASSUME Base, pass.at = "look", NEW ids \in SUBSET RecordIds
    PROVE  PassOK([pass EXCEPT !.ids = ids])
<1> DEFINE next == [pass EXCEPT !.ids = ids]
<1>1. next \in Pass
  BY PassTyped DEF Pass
<1>2. /\ next.at = pass.at /\ next.batch = pass.batch /\ next.c = pass.c /\ next.unit = pass.unit
      /\ next.rest = pass.rest /\ next.add = pass.add /\ next.drop = pass.drop
  BY PassTyped DEF Pass
<1> HIDE DEF next
<1>3. PassOK(next)
  BY <1>1, <1>2 DEF Base, PassOK, Working, Source
<1> QED
  BY <1>3 DEF next

LEMMA LookDeletingKinds == ASSUME Base, LookDeleting PROVE RecordKinds
<1>1. Looking(TRUE) /\ Frame /\ Working(pass) /\ pass.add = {} /\ pass.drop = {}
  <2>1. Source(pass).deleting \in BOOLEAN
    BY WorkingFacts DEF LookDeleting, Working
  <2> QED
    BY <2>1, FrameUnspent DEF LookDeleting, Looking, Working, Base, PassOK
<1> DEFINE others == {"NotFound", "Unowned", "Mismatch"}
<1>2. ASSUME NEW why \in others, Report(why) PROVE RecordKinds
  <2>1. why \in Reasons \ {"Programmed"}
    BY DEF Reasons
  <2> QED
    BY <1>1, <1>2, <2>1, ReportKinds
<1>3. LiveOf(Type) \subseteq RecordIds
  BY DEF LiveOf
<1>4. CASE DeleteUnknown
  <2>1. CASE Live = {} /\ Complete
    BY <1>1, <2>1, CompletesKinds
  <2>2. CASE LegacyBound /\ Bind(LiveOf(Type), [pass EXCEPT !.ids = LiveOf(Type)])
    <3>1. PassOK([pass EXCEPT !.ids = LiveOf(Type)])
      BY <1>1, <1>3, IdsPassOK DEF Looking
    <3>2. Outcome(pass.c, [Start(pass.c) EXCEPT !.ids = LiveOf(Type)], [pass EXCEPT !.ids = LiveOf(Type)])
      BY <1>1, <1>3, <2>2, <3>1, BindStep
    <3> QED
      BY <1>1, <2>2, <3>2 DEF BindsLegacy, RecordKinds
  <2> QED
    BY <1>2, <1>4, <2>1, <2>2 DEF DeleteUnknown
<1>5. ASSUME NEW ids \in {pass.ids, Source(pass).adopt}, ids # {}, DeleteKnown(ids),
             pass.ids # {} => ids = pass.ids
      PROVE  RecordKinds
  <2> DEFINE odd == {r \in ids : cloud.records[r].type # Type}
             first == Min(odd)
  <2>1. ids \subseteq RecordIds
    BY <1>1, PassTyped, WorkingFacts DEF Pass
  <2>2. CASE Report("Mismatch")
    BY <1>2, <2>2
  <2>3. CASE /\ odd # {} /\ first \notin Live
             /\ Bind(Rebased(pass.c, Source(pass)).ids \ {first}, Continue)
    <3>1. first \in odd
      <4>0. odd \subseteq ids /\ RecordIds \subseteq Nat
        OBVIOUS
      <4>1. odd \in SUBSET Nat
        <5> HIDE DEF odd
        <5> QED
          BY <2>1, <4>0
      <4> HIDE DEF odd
      <4> QED
        BY <2>3, <4>1, SmallestIn
    <3>2. first \in RecordIds \ Live
      BY <2>1, <2>3, <3>1
    <3>3. Rebased(pass.c, Source(pass)).ids \ {first} \in SUBSET RecordIds
      BY <1>1, WorkingFacts, RebasedTyped DEF Entry
    <3> HIDE DEF first
    <3>4. Outcome(pass.c, [Start(pass.c) EXCEPT !.ids = Rebased(pass.c, Source(pass)).ids \ {first}], Continue)
      BY <1>1, <2>3, <3>3, BindStep, ContinueOK
    <3>5. DropsOdd
      BY <1>1, <3>2, <3>4 DEF DropsOdd
    <3> QED
      BY <3>5 DEF RecordKinds
  <2>4. CASE ids \cap Live = {} /\ Complete /\ ~(odd # {} /\ pass.ids # {})
    <3>1. CASE pass.ids = {}
      BY <1>1, <1>5, <2>4, <3>1, CompletesKinds
    <3>2. CASE odd = {}
      <4>1. PICK r \in ids : r \in RecordIds /\ cloud.records[r].type = Type
        BY <1>5, <2>1, <3>2
      <4>2. cloud.records[r] = Gone
        BY <2>4, <4>1 DEF Live
      <4>3. Type # "gone"
        BY <1>1, WorkingFacts, CloudflareAssumption DEF Type
      <4> QED
        BY <4>1, <4>2, <4>3 DEF Gone
    <3> QED
      BY <2>4, <3>1, <3>2
  <2>5. CASE /\ odd \cap Live = {}
             /\ pass' = [pass EXCEPT !.at = "fence", !.batch = [NoBatch EXCEPT !.deletes = ids \cap Live]]
             /\ UNCHANGED <<unit, seen>>
    <3> DEFINE b == [NoBatch EXCEPT !.deletes = ids \cap Live]
    <3>1. b \in Batches /\ b.posts = {}
      BY <2>1, NoBatchTyped DEF Batches, NoBatch
    <3>2. PassOK([pass EXCEPT !.at = "fence", !.batch = b])
      <4> HIDE DEF b
      <4> QED
        BY <1>1, <3>1, StagePassOK
    <3>3. \A r \in ids \cap Live : cloud.records[r].type = Type
      BY <2>5
    <3>4. PlansDeletion
      BY <1>1, <2>5, <3>2, <3>3 DEF PlansDeletion
    <3> QED
      BY <3>4 DEF RecordKinds
  <2> QED
    BY <1>5, <2>2, <2>3, <2>4, <2>5 DEF DeleteKnown
<1>6. CASE Report("NotFound")
  BY <1>2, <1>6
<1>7. CASE LET ids == IF pass.ids # {} THEN pass.ids ELSE Source(pass).adopt
           IN  ids # {} /\ DeleteKnown(ids)
  BY <1>5, <1>7
<1> QED
  BY <1>4, <1>6, <1>7 DEF LookDeleting


LEMMA LookFailsKinds == ASSUME Base, LookFails PROVE RecordKinds
<1>1. Working(pass) /\ UNCHANGED <<cloud, class>> /\ Report("Error") /\ BooksKept
  BY FaultSpent DEF LookFails, Working
<1>2. "Error" \in Reasons \ {"Programmed"}
  BY DEF Reasons
<1> QED
  BY <1>1, <1>2, ReportKinds DEF Frame

LEMMA FenceKinds == ASSUME Base, Fence PROVE RecordKinds
<1>1. pass.at = "fence" /\ Frame /\ UNCHANGED <<unit, seen>> /\ Working(pass)
  BY FrameUnspent DEF Fence, Working
<1>2. CASE Authorized /\ pass' = [pass EXCEPT !.at = "batch"]
  <2>1. PassOK(pass')
    BY <1>1, <1>2, StagePassOK DEF Base, PassOK
  <2> QED
    BY <1>1, <1>2, <2>1 DEF Permitted, Authorized, RecordKinds
<1>3. CASE pass' = Idle
  <2>1. QuietPass
    BY <1>3, IdleOK DEF QuietPass
  <2>2. cloud' \in Cloud /\ class' \in Classes /\ cloud'.records = cloud.records /\ BooksKept
    BY <1>1, CloudLeft DEF Frame
  <2>3. QuietUnit
    BY <1>1, NothingWritten
  <2> QED
    BY <2>1, <2>2, <2>3 DEF Quiet, RecordKinds
<1> QED
  BY <1>2, <1>3 DEF Fence

\* A finite set can be enumerated by as many consecutive numbers.
LEMMA Enumeration ==
    ASSUME NEW S, IsFiniteSet(S), NEW a \in Nat
    PROVE  \E f \in [(a + 1)..(a + Cardinality(S)) -> S] :
               {f[r] : r \in (a + 1)..(a + Cardinality(S))} = S
<1> DEFINE n == Cardinality(S)
           T == (a + 1)..(a + n)
<1>1. n \in Nat
  BY FS_CardinalityType
<1> HIDE DEF n
<1>2. IsFiniteSet(T) /\ Cardinality(T) = n
  <2>1. a + 1 \in Int /\ a + n \in Int
    BY <1>1
  <2>2. IsFiniteSet(T) /\ Cardinality(T) = IF a + 1 > a + n THEN 0 ELSE (a + n) - (a + 1) + 1
    BY <2>1, FS_Interval
  <2> QED
    BY <1>1, <2>2
<1>3. \E f : f \in Bijection(T, S)
  <2> HIDE DEF T
  <2>1. Cardinality(T) = Cardinality(S)
    BY <1>2 DEF n
  <2> QED
    BY <1>2, <2>1, FS_SameCardinalityBij DEF ExistsBijection
<1>4. PICK f : f \in Bijection(T, S)
  BY <1>3
<1>5. f \in [T -> S] /\ \A s \in S : \E t \in T : f[t] = s
  BY <1>4 DEF Bijection, Surjection
<1>6. {f[r] : r \in T} = S
  BY <1>5
<1> QED
  BY <1>5, <1>6 DEF n

\* The value that Applied gives each new record.
PostedValues == CHOOSE f \in [Posted -> pass.batch.posts] : {f[r] : r \in Posted} = pass.batch.posts

LEMMA PostsFinite ==
    ASSUME Base, Working(pass)
    PROVE  /\ IsFiniteSet(pass.batch.posts) /\ Cardinality(pass.batch.posts) \in Nat
           /\ pass.batch.posts \subseteq Values /\ pass.batch \in Batches
<1>1. Source(pass).want \in Contents
  BY WorkingFacts
<1>2. IsFiniteSet(Source(pass).want)
  BY <1>1, WorkingFacts, ContentsAssumption
<1>3. pass.batch.posts \subseteq Source(pass).want /\ Source(pass).want \subseteq Values
  BY <1>1 DEF Base, PassOK, Values
<1>4. IsFiniteSet(pass.batch.posts)
  BY <1>2, <1>3, FS_Subset
<1> QED
  BY <1>3, <1>4, FS_CardinalityType, PassTyped DEF Pass

LEMMA PostedFacts ==
    ASSUME Base, Working(pass)
    PROVE  /\ Posted = (budget.records + 1)..(budget.records + Cardinality(pass.batch.posts))
           /\ IsFiniteSet(Posted) /\ Cardinality(Posted) = Cardinality(pass.batch.posts)
           /\ PostedValues \in [Posted -> pass.batch.posts]
           /\ {PostedValues[r] : r \in Posted} = pass.batch.posts
           /\ \A r, s \in Posted : PostedValues[r] = PostedValues[s] => r = s
<1> DEFINE S == pass.batch.posts
           n == Cardinality(S)
           T == (budget.records + 1)..(budget.records + n)
<1>1. IsFiniteSet(S) /\ n \in Nat /\ budget.records \in Nat
  BY PostsFinite DEF Base, Budget
<1>2. Posted = T
  BY DEF Posted, Fresh
<1>3. IsFiniteSet(T) /\ Cardinality(T) = n
  <2> HIDE DEF n
  <2>1. budget.records + 1 \in Int /\ budget.records + n \in Int
    BY <1>1
  <2>2. IsFiniteSet(T) /\ Cardinality(T) = IF budget.records + 1 > budget.records + n THEN 0
                                           ELSE (budget.records + n) - (budget.records + 1) + 1
    BY <2>1, FS_Interval
  <2> QED
    BY <1>1, <2>2
<1>4. \E f \in [T -> S] : {f[r] : r \in T} = S
  BY <1>1, Enumeration
<1>5. PostedValues \in [T -> S] /\ {PostedValues[r] : r \in T} = S
  <2> HIDE DEF T, S
  <2>1. \E f \in [T -> S] : {f[r] : r \in T} = S
    BY <1>4
  <2>2. PostedValues = CHOOSE f \in [T -> S] : {f[r] : r \in T} = S
    BY <1>2 DEF PostedValues, S
  <2> QED
    BY <2>1, <2>2
<1> DEFINE f == PostedValues
<1>6. f \in Surjection(T, S)
  BY <1>5 DEF Surjection
<1> HIDE DEF f, S, T
<1>7. f \in Injection(T, S)
  BY <1>1, <1>3, <1>6, FS_SurjSameCardinalityImpliesInj DEF n
<1>8. \A r, s \in T : f[r] = f[s] => r = s
  BY <1>7 DEF Injection, IsInjective
<1> QED
  BY <1>2, <1>3, <1>5, <1>8 DEF f, S, T, n

\* What a batch does to the records.
LEMMA AppliedFacts ==
    ASSUME Base, pass.at = "batch", Appliable, Posted \subseteq RecordIds
    PROVE  /\ DOMAIN Applied = RecordIds
           /\ \A r \in Posted :
                 Applied[r] = [type |-> Type, value |-> PostedValues[r],
                               maker |-> <<pass.c, Source(pass).uid>>]
           /\ \A r \in (DOMAIN pass.batch.patches) \ Posted :
                 Applied[r] = [cloud.records[r] EXCEPT !.value = pass.batch.patches[r]]
           /\ \A r \in pass.batch.deletes \ (Posted \cup DOMAIN pass.batch.patches) : Applied[r] = Gone
           /\ \A r \in RecordIds \ (Posted \cup (DOMAIN pass.batch.patches) \cup pass.batch.deletes) :
                 Applied[r] = cloud.records[r]
           /\ pass.batch.deletes \subseteq RecordIds /\ DOMAIN pass.batch.patches \subseteq RecordIds
           /\ \A r \in DOMAIN pass.batch.patches : pass.batch.patches[r] \in Values
           /\ \A r \in (DOMAIN pass.batch.patches) \cup pass.batch.deletes :
                 r \in RecordIds /\ cloud.records[r] \in Record
           /\ Applied \in [RecordIds -> Record \cup {Gone}]
<1>1. Working(pass)
  BY DEF Working
<1>2. pass.batch.deletes \subseteq RecordIds /\ pass.batch.patches \in Patches
  BY <1>1, PostsFinite DEF Batches
<1>3. /\ DOMAIN pass.batch.patches \subseteq RecordIds
      /\ \A r \in DOMAIN pass.batch.patches : pass.batch.patches[r] \in Values
  BY <1>2 DEF Patches
<1>4. \A r \in (DOMAIN pass.batch.patches) \cup pass.batch.deletes :
          r \in RecordIds /\ cloud.records[r] \in Record
  BY <1>2, <1>3 DEF Appliable, Live, Base, Cloud
<1>5. Applied = [r \in RecordIds |->
            IF r \in Posted THEN [type |-> Type, value |-> PostedValues[r], maker |-> <<pass.c, Source(pass).uid>>]
            ELSE IF r \in DOMAIN pass.batch.patches THEN [cloud.records[r] EXCEPT !.value = pass.batch.patches[r]]
            ELSE IF r \in pass.batch.deletes THEN Gone
            ELSE cloud.records[r]]
  BY DEF Applied, PostedValues
<1>6. \A r \in Posted : PostedValues[r] \in Values
  BY <1>1, PostsFinite, PostedFacts
<1>7. Type \in Types /\ <<pass.c, Source(pass).uid>> \in Makers
  <2>1. pass.c \in Claims /\ Source(pass) \in Item
    BY <1>1, WorkingFacts
  <2>2. Source(pass).uid \in 0..MaxUids
    BY <2>1 DEF Item
  <2> QED
    BY <2>1, <2>2 DEF Type, Types, Makers
<1>8. \A r \in Posted :
        [type |-> Type, value |-> PostedValues[r], maker |-> <<pass.c, Source(pass).uid>>] \in Record
  BY <1>6, <1>7 DEF Record
<1>9. \A r \in DOMAIN pass.batch.patches : [cloud.records[r] EXCEPT !.value = pass.batch.patches[r]] \in Record
  BY <1>3, <1>4 DEF Record
<1>10. \A r \in RecordIds : cloud.records[r] \in Record \cup {Gone}
  BY DEF Base, Cloud
<1>11. Applied \in [RecordIds -> Record \cup {Gone}]
  BY <1>5, <1>8, <1>9, <1>10
<1> QED
  BY <1>2, <1>3, <1>4, <1>5, <1>11

LEMMA SendBatchKinds == ASSUME Base, SendBatch PROVE RecordKinds
<1> DEFINE n == Cardinality(Posted)
<1>1. pass.at = "batch" /\ Working(pass) /\ Appliable /\ Posted \subseteq RecordIds
      /\ cloud' = [cloud EXCEPT !.records = Applied] /\ class' = class
  BY DEF SendBatch, Working
<1>2. cloud' \in Cloud
  <2>1. Applied \in [RecordIds -> Record \cup {Gone}]
    BY <1>1, AppliedFacts
  <2> QED
    BY <1>1, <2>1 DEF Base, Cloud
<1>3. /\ n \in Nat /\ budget.records + n \in 0..MaxRecords
      /\ budget \in Budget
  <2>1. n \in Nat /\ n = Cardinality(pass.batch.posts)
    BY <1>1, PostedFacts, PostsFinite
  <2> HIDE DEF n
  <2>2. Posted = (budget.records + 1)..(budget.records + n) /\ budget.records \in 0..MaxRecords /\ budget \in Budget
    BY <1>1, <2>1, PostedFacts DEF Base, Budget
  <2>3. CASE n = 0
    BY <2>2, <2>3
  <2>4. CASE n > 0
    <3>1. budget.records + n \in Posted
      BY <2>1, <2>2, <2>4
    <3>2. budget.records + n \in RecordIds
      BY <1>1, <3>1
    <3> QED
      BY <2>1, <2>2, <3>2
  <2> QED
    BY <2>1, <2>2, <2>3, <2>4
<1> HIDE DEF n
<1>4. CASE /\ pass' = [pass EXCEPT !.at = "ledger", !.batch = NoBatch,
                         !.add = Posted \cup DOMAIN pass.batch.patches,
                         !.drop = pass.batch.deletes]
           /\ budget' = [budget EXCEPT !.records = @ + Cardinality(Posted)]
           /\ UNCHANGED <<unit, seen>>
  <2>1. budget' = [budget EXCEPT !.records = budget.records + n]
    BY <1>4 DEF n
  <2>2. Sent
    BY <1>1, <1>2, <1>3, <2>1 DEF Sent, Budget, n
  <2>3. Posted \cup DOMAIN pass.batch.patches \in SUBSET RecordIds /\ pass.batch.deletes \in SUBSET RecordIds
    BY <1>1, AppliedFacts
  <2>4. pass.add = {} /\ pass.drop = {}
    BY <1>1 DEF Base, PassOK
  <2> DEFINE adds == Posted \cup DOMAIN pass.batch.patches
             drops == pass.batch.deletes
  <2>5. \A add, drop \in SUBSET RecordIds : NoBatch \in Batches =>
            PassOK([pass EXCEPT !.at = "ledger", !.batch = NoBatch, !.add = add, !.drop = drop])
    BY <1>1, <2>4, StagePassOK
  <2>6. PassOK(pass')
    BY <1>4, <2>3, <2>5, NoBatchTyped
  <2>7. Answered
    BY <1>4, <2>2, <2>6 DEF Answered
  <2> QED
    BY <2>7 DEF RecordKinds
<1>5. CASE /\ budget.faults < MaxFaults
           /\ budget' = [budget EXCEPT !.records = @ + Cardinality(Posted), !.faults = @ + 1]
           /\ Report("Error")
  <2>1. budget' = [budget EXCEPT !.records = budget.records + n, !.faults = budget.faults + 1]
    BY <1>3, <1>5 DEF n, Budget
  <2>2. budget.faults + 1 \in 0..MaxFaults
    BY <1>3, <1>5 DEF Budget
  <2>3. Sent
    BY <1>1, <1>2, <1>3, <2>1, <2>2 DEF Sent, Budget, n
  <2>4. Reported("Error")
    BY <1>1, <1>5, ReportStep DEF Reasons
  <2> QED
    BY <2>3, <2>4 DEF Lost, RecordKinds
<1> QED
  BY <1>4, <1>5 DEF SendBatch

LEMMA RefuseBatchKinds == ASSUME Base, RefuseBatch PROVE RecordKinds
<1>1. pass.at = "batch" /\ Working(pass) /\ UNCHANGED <<cloud, class>>
  BY DEF RefuseBatch, Working
<1>2. CASE Report("Error") /\ budget.faults < MaxFaults /\ Spend("faults")
  BY <1>1, <1>2, FaultSpent, ReportKinds DEF Frame, Reasons
<1>3. CASE Report("NotFound") /\ UNCHANGED budget
  BY <1>1, <1>3, FrameUnspent, ReportKinds DEF Reasons
<1>4. CASE /\ Source(pass).deleting /\ UNCHANGED <<unit, seen, budget>>
           /\ pass' = [pass EXCEPT !.at = "ledger", !.batch = NoBatch, !.drop = pass.batch.deletes]
  <2>1. pass.add = {} /\ pass.drop = {} /\ pass \in Pass
    BY <1>1 DEF Base, PassOK
  <2>2. pass' = [pass EXCEPT !.at = "ledger", !.batch = NoBatch, !.add = {}, !.drop = pass.batch.deletes]
    BY <1>4, <2>1 DEF Pass
  <2>3. pass.batch.deletes \in SUBSET RecordIds
    BY <1>1, PostsFinite DEF Batches
  <2>4. PassOK(pass')
    BY <1>1, <2>1, <2>2, <2>3, StagePassOK, NoBatchTyped
  <2>5. AlreadyGone
    BY <1>1, <1>4, <2>4, FrameUnspent DEF AlreadyGone
  <2> QED
    BY <2>5 DEF RecordKinds
<1> QED
  BY <1>2, <1>3, <1>4 DEF RefuseBatch


LEMMA LedgerPassOK ==
    ASSUME Base, pass.at = "ledger", NEW add \in SUBSET RecordIds, NEW drop \in SUBSET RecordIds
    PROVE  PassOK([pass EXCEPT !.add = add]) /\ PassOK([pass EXCEPT !.drop = drop])
<1>1. pass \in Pass
  BY DEF Base, PassOK
<1> DEFINE p == [pass EXCEPT !.add = add]
           q == [pass EXCEPT !.drop = drop]
<1>2. p \in Pass /\ q \in Pass
  BY <1>1 DEF Pass
<1>3. /\ p.at = pass.at /\ p.unit = pass.unit /\ p.c = pass.c /\ p.batch = pass.batch /\ p.rest = pass.rest
      /\ q.at = pass.at /\ q.unit = pass.unit /\ q.c = pass.c /\ q.batch = pass.batch /\ q.rest = pass.rest
  BY <1>1 DEF Pass
<1> HIDE DEF p, q
<1>4. PassOK(p) /\ PassOK(q)
  BY <1>2, <1>3 DEF Base, PassOK, Working, Source
<1> QED
  BY <1>4 DEF p, q

LEMMA LedgerKinds == ASSUME Base, Ledger PROVE RecordKinds
<1> DEFINE held == Rebased(pass.c, Source(pass)).ids
<1>1. pass.at = "ledger" /\ Working(pass) /\ Frame
  BY FrameUnspent DEF Ledger, Working
<1>2. pass.add \subseteq RecordIds /\ pass.drop \subseteq RecordIds
  BY PassTyped DEF Pass
<1>3. held \subseteq RecordIds
  BY <1>1, WorkingFacts, RebasedTyped DEF Entry
<1> HIDE DEF held
<1>4. CASE pass.add # {} /\ Bind(held \cup {Min(pass.add)}, [pass EXCEPT !.add = @ \ {Min(@)}])
  <2> DEFINE r == Min(pass.add)
  <2>1. r \in pass.add
    BY <1>2, <1>4, SmallestIn
  <2>2. pass' = pass' /\ [pass EXCEPT !.add = @ \ {Min(@)}] = [pass EXCEPT !.add = @ \ {r}]
    OBVIOUS
  <2> HIDE DEF r
  <2>3. PassOK([pass EXCEPT !.add = @ \ {r}])
    BY <1>1, <1>2, LedgerPassOK
  <2>4. Bind(held \cup {r}, [pass EXCEPT !.add = @ \ {r}]) /\ held \cup {r} \subseteq RecordIds
    BY <1>2, <1>3, <1>4, <2>1, <2>2 DEF r
  <2>5. Outcome(pass.c, [Start(pass.c) EXCEPT !.ids = held \cup {r}], [pass EXCEPT !.add = @ \ {r}])
    BY <1>1, <2>3, <2>4, BindStep
  <2>6. LedgerAdds
    BY <1>1, <2>1, <2>5 DEF LedgerAdds, held
  <2> QED
    BY <2>6 DEF RecordKinds
<1>5. CASE pass.drop # {} /\ Bind(held \ {Min(pass.drop)}, [pass EXCEPT !.drop = @ \ {Min(@)}])
  <2> DEFINE r == Min(pass.drop)
  <2>1. r \in pass.drop
    BY <1>2, <1>5, SmallestIn
  <2>2. [pass EXCEPT !.drop = @ \ {Min(@)}] = [pass EXCEPT !.drop = @ \ {r}]
    OBVIOUS
  <2> HIDE DEF r
  <2>3. PassOK([pass EXCEPT !.drop = @ \ {r}])
    BY <1>1, <1>2, LedgerPassOK
  <2>4. Bind(held \ {r}, [pass EXCEPT !.drop = @ \ {r}]) /\ held \ {r} \subseteq RecordIds
    BY <1>2, <1>3, <1>5, <2>1, <2>2 DEF r
  <2>5. Outcome(pass.c, [Start(pass.c) EXCEPT !.ids = held \ {r}], [pass EXCEPT !.drop = @ \ {r}])
    BY <1>1, <2>3, <2>4, BindStep
  <2>6. LedgerDrops
    BY <1>1, <2>1, <2>5 DEF LedgerDrops, held
  <2> QED
    BY <2>6 DEF RecordKinds
<1>6. CASE Report("Pending")
  BY <1>1, <1>6, ReportKinds DEF Reasons
<1> QED
  BY <1>4, <1>5, <1>6 DEF Ledger, held

LEMMA RecordStepKinds == ASSUME Base, RecordStep PROVE RecordKinds
  BY PruneKinds, AcceptItemKinds, LookNormalKinds, ReportReadyKinds, LookDeletingKinds,
     LookFailsKinds, FenceKinds, SendBatchKinds, RefuseBatchKinds, LedgerKinds DEF RecordStep

\* A status patch keeps the items.
LEMMA OutcomeLeft ==
    ASSUME Base, NEW c, NEW e, NEW next, Outcome(c, e, next)
    PROVE  /\ UnitLeft /\ unit'.item = unit.item /\ unit'.live = unit.live
           /\ unit'.deleting = unit.deleting /\ PassOK(pass') /\ pass' \in {Idle, next}
  BY IdleOK DEF Base, Outcome, Refused, Unpatched, Patched, UnitLeft

LEMMA FrameBase ==
    ASSUME Base, Frame, UnitLeft, unit'.item = unit.item, unit'.live = unit.live, PassOK(pass')
    PROVE  Base'
  BY BaseKept DEF Frame, Base

LEMMA StandsBase ==
    ASSUME Base, Frame, UNCHANGED <<unit, seen>>, PassOK(pass')
    PROVE  Base'
  BY FrameBase DEF Base, UnitLeft

LEMMA SentBase ==
    ASSUME Base, Sent, UnitLeft, unit'.item = unit.item, unit'.live = unit.live, PassOK(pass')
    PROVE  Base'
<1>1. \A c \in Claims : GenerationOK(unit'.item[c], budget'.claim[c], budget'.edits, unit'.live)
  BY DEF Base, Sent
<1> QED
  BY <1>1 DEF Base, Sent, UnitLeft

LEMMA RecordKindsBase == ASSUME Base, RecordKinds PROVE Base'
<1>1. CASE Quiet
  BY <1>1, QuietBase
<1>2. CASE Pruned
  BY <1>2, FrameBase, IdleOK DEF Pruned
<1>3. CASE Accepted
  BY <1>3, OutcomeLeft, FrameBase DEF Accepted
<1>4. CASE ReportsOther
  BY <1>4, OutcomeLeft, FrameBase DEF ReportsOther, Reported
<1>5. CASE ReportsReady
  BY <1>5, OutcomeLeft, FrameBase DEF ReportsReady, Reported
<1>6. CASE SetsReady
  BY <1>6, OutcomeLeft, FrameBase DEF SetsReady
<1>7. CASE PlansNormal
  BY <1>7, StandsBase DEF PlansNormal
<1>8. CASE Completes
  BY <1>8, OutcomeLeft, FrameBase DEF Completes
<1>9. CASE BindsLegacy
  BY <1>9, OutcomeLeft, FrameBase DEF BindsLegacy
<1>10. CASE DropsOdd
  BY <1>10, OutcomeLeft, FrameBase DEF DropsOdd
<1>11. CASE PlansDeletion
  BY <1>11, StandsBase DEF PlansDeletion
<1>12. CASE Permitted
  BY <1>12, StandsBase DEF Permitted
<1>13. CASE Answered
  <2>1. UnitLeft
    BY <1>13 DEF Answered, Base, UnitLeft
  <2> QED
    BY <1>13, <2>1, SentBase DEF Answered
<1>14. CASE Lost
  BY <1>14, OutcomeLeft, SentBase DEF Lost, Reported
<1>15. CASE AlreadyGone
  BY <1>15, StandsBase DEF AlreadyGone
<1>16. CASE LedgerAdds
  BY <1>16, OutcomeLeft, FrameBase DEF LedgerAdds
<1>17. CASE LedgerDrops
  BY <1>17, OutcomeLeft, FrameBase DEF LedgerDrops
<1> QED
  BY <1>1, <1>2, <1>3, <1>4, <1>5, <1>6, <1>7, <1>8, <1>9, <1>10, <1>11, <1>12, <1>13, <1>14,
     <1>15, <1>16, <1>17 DEF RecordKinds

\* What any step does.
Kinds ==
    \/ UNCHANGED vars \/ Quiet \/ Wiped \/ UnitGone \/ UnitMarked
    \/ \E c \in Claims : CoreKinds(c)
    \/ Delivered \/ Outside \/ RecordKinds

LEMMA StepKinds == ASSUME Base, [Next]_vars PROVE Base' /\ Kinds
<1>1. CASE UNCHANGED vars
  <2>1. Base'
    BY <1>1 DEF Base, vars
  <2> QED
    BY <1>1, <2>1 DEF Kinds
<1>2. CASE \E c \in Claims : Core(c)
  BY <1>2, CoreStep DEF Kinds
<1>3. CASE DeleteUnit
  BY <1>3, DeleteUnitCases, UnitMarkedBase, UnitGoneBase DEF Kinds
<1>4. CASE Deliver
  BY <1>4, DeliverStep DEF Kinds
<1>5. CASE ChangeClass
  BY <1>5, ChangeClassQuiet, QuietBase DEF Kinds
<1>6. CASE ForeignAct
  BY <1>6, ForeignStep DEF Kinds
<1>7. CASE Begin \/ Crash
  BY <1>7, BeginQuiet, CrashQuiet, QuietBase DEF Kinds
<1>8. CASE ZoneStep
  BY <1>8, RefuseZoneQuiet, AcceptZoneQuiet, SetFinalizerQuiet, SelectZoneQuiet, CreateZoneQuiet,
     ApplyZoneQuiet, DeleteZoneCases, ReleaseUnitCases, QuietBase, WipedBase, UnitGoneBase
     DEF ZoneStep, Kinds
<1>9. CASE RecordStep
  BY <1>9, RecordStepKinds, RecordKindsBase DEF Kinds
<1> QED
  BY <1>1, <1>2, <1>3, <1>4, <1>5, <1>6, <1>7, <1>8, <1>9 DEF Next

-----------------------------------------------------------------------------
(* The initial states.                                                     *)

LEMMA LegacyIds ==
    ASSUME Legacy
    PROVE  /\ \A c \in Claims : LegacyId(c) \in 1..Cardinality(Claims) /\ LegacyId(c) \in RecordIds
           /\ \A c, d \in Claims : LegacyId(c) = LegacyId(d) => c = d
           /\ IsFiniteSet(Claims) /\ Cardinality(Claims) \in Nat
<1> DEFINE Upto(c) == {d \in Claims : d <= c}
<1>1. IsFiniteSet(Claims) /\ Cardinality(Claims) \in Nat /\ Cardinality(Claims) <= MaxRecords
  BY CloudflareAssumption, FS_CardinalityType
<1>2. ASSUME NEW c \in Claims
      PROVE  /\ IsFiniteSet(Upto(c)) /\ Cardinality(Upto(c)) \in Nat
             /\ Cardinality(Upto(c)) <= Cardinality(Claims) /\ Cardinality(Upto(c)) # 0
  <2>1. Upto(c) \in SUBSET Claims /\ c \in Upto(c)
    OBVIOUS
  <2> HIDE DEF Upto
  <2>2. IsFiniteSet(Upto(c)) /\ Cardinality(Upto(c)) <= Cardinality(Claims)
    BY <1>1, <2>1, FS_Subset
  <2>3. Cardinality(Upto(c)) \in Nat
    BY <2>2, FS_CardinalityType
  <2>4. Cardinality(Upto(c)) # 0
    BY <2>1, <2>2, FS_EmptySet
  <2> QED
    BY <2>2, <2>3, <2>4
<1>3. ASSUME NEW c \in Claims, NEW d \in Claims, Cardinality(Upto(c)) = Cardinality(Upto(d)), c < d
      PROVE  FALSE
  <2>0. Claims \subseteq Nat /\ c \in Nat /\ d \in Nat
    OBVIOUS
  <2>1. Upto(c) \in SUBSET Upto(d) /\ d \in Upto(d) /\ d \notin Upto(c)
    <3>1. \A x \in Claims : x <= c => x <= d
      BY <1>3, <2>0
    <3>2. Upto(c) \subseteq Upto(d)
      BY <3>1
    <3>3. d \in Upto(d)
      BY <2>0
    <3>4. d \notin Upto(c)
      BY <1>3, <2>0
    <3> QED
      BY <3>2, <3>3, <3>4
  <2>2. IsFiniteSet(Upto(d))
    BY <1>2
  <2> HIDE DEF Upto
  <2>3. Upto(d) = Upto(c)
    BY <1>3, <2>1, <2>2, FS_Subset
  <2> QED
    BY <2>1, <2>3
<1>4. \A c \in Claims : LegacyId(c) = Cardinality(Upto(c))
  BY DEF LegacyId
<1> HIDE DEF Upto
<1>5. \A c \in Claims : LegacyId(c) \in 1..Cardinality(Claims)
  BY <1>1, <1>2, <1>4
<1>6. \A c \in Claims : LegacyId(c) \in RecordIds
  BY <1>1, <1>5
<1>7. \A c, d \in Claims : LegacyId(c) = LegacyId(d) => c = d
  BY <1>3, <1>4
<1> QED
  BY <1>1, <1>5, <1>6, <1>7

\* The record a claim brings from before UIDs.
LegacyIdsOf(old, c) == IF old THEN {LegacyId(c)} ELSE {}
LegacyRecord(c, v) == [type |-> TypeOf[c], value |-> v, maker |-> <<c, 0>>]

Started ==
    /\ unit \in Unit /\ unit.live /\ ~unit.deleting /\ seen = [unit |-> unit, current |-> TRUE, lags |-> 0]
    /\ \A c \in Claims : unit.item[c] = NoItem /\ budget.claim[c] = NoItem
    /\ pass = Idle /\ class = "delete" /\ budget \in Budget /\ cloud \in Cloud
    /\ budget.uids = 0 /\ budget.edits = 0
    /\ \A a, b \in cloud.zones : a = b
    /\ \E old \in {FALSE, Legacy}, v \in Values :
          /\ \A c \in Claims : unit.entry[c] = [NoEntry EXCEPT !.ids = LegacyIdsOf(old, c)]
          /\ \A c \in Claims : old => /\ LegacyId(c) \in RecordIds /\ LegacyId(c) <= budget.records
                                      /\ cloud.records[LegacyId(c)] = LegacyRecord(c, v)
          /\ \A r \in RecordIds : cloud.records[r] = Gone \/ \E c \in Claims : old /\ r = LegacyId(c)
          /\ old => \A c, d \in Claims : LegacyId(c) = LegacyId(d) => c = d
    /\ \A r \in RecordIds : r > budget.records => cloud.records[r] = Gone

LEMMA InitStarted == ASSUME Init PROVE Started
<1>1. PICK old \in {FALSE, Legacy}, v \in Values :
         /\ unit = [NoUnit EXCEPT !.live = TRUE, !.zone.id = IF old THEN 1 ELSE 0,
                      !.entry = [c \in Claims |-> [NoEntry EXCEPT !.ids = LegacyIdsOf(old, c)]]]
         /\ cloud = [zones |-> {unit.zone.id} \ {0},
                     records |-> [r \in RecordIds |->
                        IF \E c \in Claims : r \in LegacyIdsOf(old, c)
                        THEN LET c == CHOOSE c \in Claims : r \in LegacyIdsOf(old, c)
                             IN  [type |-> TypeOf[c], value |-> v, maker |-> <<c, 0>>]
                        ELSE Gone]]
  BY DEF Init, LegacyIdsOf
<1>2. old \in BOOLEAN /\ (old => Legacy)
  <2>1. Legacy \in BOOLEAN
    BY CloudflareAssumption
  <2>2. CASE old = FALSE
    BY <2>2
  <2>3. CASE old = Legacy
    BY <2>1, <2>3
  <2> QED
    BY <2>2, <2>3
<1>3. old => /\ \A c \in Claims : LegacyId(c) \in 1..Cardinality(Claims) /\ LegacyId(c) \in RecordIds
             /\ \A c, d \in Claims : LegacyId(c) = LegacyId(d) => c = d
             /\ IsFiniteSet(Claims) /\ Cardinality(Claims) \in Nat
  BY <1>2, LegacyIds
<1> DEFINE e == [c \in Claims |-> [NoEntry EXCEPT !.ids = LegacyIdsOf(old, c)]]
           id == IF old THEN 1 ELSE 0
<1>4. \A c \in Claims : LegacyIdsOf(old, c) \in SUBSET RecordIds
  BY <1>3 DEF LegacyIdsOf
<1>5. e \in [Claims -> Entry]
  BY <1>4, NoUnitTyped DEF Entry
<1>6. id \in 0..MaxZones
  BY <1>2, CloudflareAssumption
<1>7. \A c \in Claims : e[c] = [NoEntry EXCEPT !.ids = LegacyIdsOf(old, c)]
  OBVIOUS
<1> HIDE DEF e, id
<1>8. /\ unit \in Unit /\ unit.live /\ ~unit.deleting /\ unit.entry = e /\ unit.zone.id = id
      /\ \A c \in Claims : unit.item[c] = NoItem
  <2>1. unit = [NoUnit EXCEPT !.live = TRUE, !.zone.id = id, !.entry = e]
    BY <1>1 DEF e, id
  <2>2. NoUnit \in Unit /\ NoUnit.live = FALSE /\ NoUnit.deleting = FALSE /\ \A c \in Claims : NoUnit.item[c] = NoItem
    BY NoUnitTyped DEF NoUnit
  <2> HIDE DEF NoUnit
  <2> QED
    BY <1>5, <1>6, <2>1, <2>2 DEF Unit, ZoneStatus
<1>9. \A r \in RecordIds : ~(\E c \in Claims : r \in LegacyIdsOf(old, c)) => cloud.records[r] = Gone
  BY <1>1
<1>10. ASSUME NEW c \in Claims, old
       PROVE  /\ LegacyId(c) \in RecordIds /\ cloud.records[LegacyId(c)] = LegacyRecord(c, v)
  <2>1. LegacyId(c) \in RecordIds
    BY <1>3, <1>10
  <2>2. \A d \in Claims : LegacyId(c) \in LegacyIdsOf(old, d) <=> d = c
    BY <1>3, <1>10 DEF LegacyIdsOf
  <2>3. (CHOOSE d \in Claims : LegacyId(c) \in LegacyIdsOf(old, d)) = c
    BY <2>2
  <2> QED
    BY <1>1, <2>1, <2>2, <2>3 DEF LegacyRecord
<1>11. \A r \in RecordIds : cloud.records[r] = Gone \/ \E c \in Claims : old /\ r = LegacyId(c)
  BY <1>9 DEF LegacyIdsOf
<1>12. cloud \in Cloud
  <2>1. DOMAIN cloud.records = RecordIds
    BY <1>1
  <2>2. \A c \in Claims : LegacyRecord(c, v) \in Record
    BY DEF LegacyRecord, Record, Types, Makers
  <2>3. \A r \in RecordIds : cloud.records[r] \in Record \cup {Gone}
    BY <1>10, <1>11, <2>2
  <2>4. cloud.records \in [RecordIds -> Record \cup {Gone}]
    BY <1>1, <2>1, <2>3
  <2>5. cloud.zones \subseteq ZoneIds
    BY <1>1, <1>6, <1>8
  <2> QED
    BY <1>1, <2>4, <2>5 DEF Cloud
<1>13. \A r \in Live : r \in RecordIds /\ old /\ r \in 1..Cardinality(Claims)
  BY <1>3, <1>11 DEF Live
<1>14. budget.records = Cardinality(Live) /\ budget.records \in 0..MaxRecords
  <2>1. budget.records = Cardinality(Live)
    BY DEF Init
  <2>2. Live \in SUBSET (1..MaxRecords)
    BY DEF Live
  <2>3. IsFiniteSet(1..MaxRecords) /\ Cardinality(1..MaxRecords) <= MaxRecords
    BY FS_Interval
  <2>4. Cardinality(Live) <= Cardinality(1..MaxRecords) /\ IsFiniteSet(Live)
    BY <2>2, <2>3, FS_Subset
  <2>5. Cardinality(Live) \in Nat /\ Cardinality(1..MaxRecords) \in Nat
    BY <2>3, <2>4, FS_CardinalityType
  <2> QED
    BY <2>1, <2>3, <2>4, <2>5
<1>15. old => budget.records = Cardinality(Claims)
  <2> SUFFICES ASSUME old PROVE Cardinality(Live) = Cardinality(Claims)
    BY <1>14
  <2> DEFINE f == [c \in Claims |-> LegacyId(c)]
  <2>1. \A c \in Claims : f[c] \in Live
    <3>1. \A c \in Claims : LegacyRecord(c, v) # Gone
      BY CloudflareAssumption DEF LegacyRecord, Gone
    <3> QED
      BY <1>10, <3>1 DEF Live
  <2>2. \A r \in Live : \E c \in Claims : f[c] = r
    BY <1>11 DEF Live
  <2>3. \A c, d \in Claims : f[c] = f[d] => c = d
    BY <1>3
  <2>4. f \in [Claims -> Live]
    BY <2>1
  <2> HIDE DEF f
  <2>5. f \in Bijection(Claims, Live)
    BY <2>2, <2>3, <2>4 DEF Bijection, Injection, Surjection, IsInjective
  <2>6. ExistsBijection(Claims, Live)
    BY <2>5 DEF ExistsBijection
  <2> QED
    BY <1>3, <2>6, FS_Bijection
<1>16. \A c \in Claims : old => LegacyId(c) <= budget.records
  BY <1>3, <1>15
<1>17. \A r \in RecordIds : r > budget.records => cloud.records[r] = Gone
  BY <1>3, <1>11, <1>15
<1>18. /\ seen = [unit |-> unit, current |-> TRUE, lags |-> 0] /\ class = "delete" /\ pass = Idle
       /\ budget = [claim |-> [c \in Claims |-> NoItem], uids |-> 0, edits |-> 0, faults |-> 0,
                    tampered |-> FALSE, records |-> Cardinality(Live), zones |-> Cardinality(cloud.zones)]
  BY DEF Init
<1>19. Cardinality(cloud.zones) \in 0..MaxZones /\ \A a, b \in cloud.zones : a = b
  <2>1. cloud.zones = (IF old THEN {1} ELSE {})
    BY <1>1, <1>8 DEF id
  <2>2. Cardinality({1}) = 1 /\ Cardinality({}) = 0
    BY FS_EmptySet, FS_Singleton
  <2>3. old => MaxZones > 0
    BY <1>2, CloudflareAssumption
  <2> QED
    BY <2>1, <2>2, <2>3
<1>20. /\ budget \in Budget /\ budget.uids = 0 /\ budget.edits = 0
       /\ \A c \in Claims : budget.claim[c] = NoItem
  BY <1>14, <1>18, <1>19 DEF Budget, Items
<1>21. /\ \A c \in Claims : unit.entry[c] = [NoEntry EXCEPT !.ids = LegacyIdsOf(old, c)]
       /\ \A c \in Claims : old => /\ LegacyId(c) \in RecordIds /\ LegacyId(c) <= budget.records
                                   /\ cloud.records[LegacyId(c)] = LegacyRecord(c, v)
       /\ \A r \in RecordIds : cloud.records[r] = Gone \/ \E c \in Claims : old /\ r = LegacyId(c)
       /\ old => \A c, d \in Claims : LegacyId(c) = LegacyId(d) => c = d
  BY <1>3, <1>7, <1>8, <1>10, <1>11, <1>16
<1> QED
  BY <1>8, <1>12, <1>17, <1>18, <1>19, <1>20, <1>21 DEF Started

LEMMA InitBase == Init => Base
<1> SUFFICES ASSUME Init PROVE Base
  OBVIOUS
<1>1. Started
  BY InitStarted
<1>2. \A c \in Claims : GenerationOK(unit.item[c], budget.claim[c], budget.edits, unit.live)
  BY <1>1 DEF Started, GenerationOK, NoItem
<1>3. seen \in [unit : Unit, current : BOOLEAN, lags : 0..MaxLags] /\ seen.unit = unit /\ class \in Classes
  BY <1>1 DEF Started, Classes
<1> QED
  BY <1>1, <1>2, <1>3, IdleOK DEF Started, Base

LEMMA BaseAlways == Spec => []Base
<1>1. Base /\ [Next]_vars => Base'
  BY StepKinds
<1> QED
  BY <1>1, InitBase, PTL DEF Spec

LEMMA BaseTyped == Base => TypeOK
  BY DEF Base, TypeOK, PassOK, Pass, Stages, Cloud, Budget

-----------------------------------------------------------------------------
(* One zone of the name.                                                   *)

ZoneOnce ==
    /\ \A a, b \in cloud.zones : a = b
    /\ pass.at = "create" => cloud.zones = {}

LEMMA PatchNext ==
    ASSUME NEW c, NEW i, NEW e, NEW next, PatchEntry(c, i, e, next)
    PROVE  pass' \in {Idle, next}
  BY DEF PatchEntry

LEMMA ReportNext == ASSUME NEW why, Report(why) PROVE pass'.at \in {"idle", "items"}
<1>1. pass' \in {Idle, Continue}
  BY PatchNext DEF Report
<1>2. Idle.at = "idle" /\ Continue.at \in {"idle", "items"}
  BY DEF Continue, Idle
<1> QED
  BY <1>1, <1>2

LEMMA RecordStepZones ==
    ASSUME Base, RecordStep
    PROVE  cloud'.zones = cloud.zones /\ pass'.at # "create"
<1>0. pass \in Pass /\ cloud \in Cloud /\ Idle.at = "idle" /\ Continue.at \in {"idle", "items"}
  BY PassTyped DEF Base, Continue, Idle
<1>1. CASE Prune
  <2>1. pass' = Idle \/ \E todo : pass' = [pass EXCEPT !.at = "items", !.rest = todo]
    BY <1>1 DEF Prune
  <2> QED
    BY <1>0, <1>1, <2>1 DEF Prune, Pass
<1>2. CASE AcceptItem
  <2> DEFINE c == Min(pass.rest)
             i == pass.unit.item[c]
             held == IF StatusMatchesItem(pass.unit.entry[c], i) THEN pass.unit.entry[c].ids ELSE {}
             refused == \/ class = "refused" \/ ~pass.unit.zone.accepted
                        \/ i.adopt # {} /\ held # {} /\ held # i.adopt
             e == [Current(c, i) EXCEPT !.accepted = ~refused]
             looking == [pass EXCEPT !.at = "look", !.c = c, !.rest = @ \ {c}, !.ids = Rebased(c, i).ids]
  <2>1. PatchEntry(c, i, e, IF refused THEN Idle ELSE looking) /\ cloud' = cloud
    BY <1>2 DEF AcceptItem
  <2>2. looking.at = "look"
    BY <1>0 DEF Pass
  <2> HIDE DEF e, refused, looking
  <2>3. pass' \in {Idle, IF refused THEN Idle ELSE looking}
    BY <2>1, PatchNext
  <2> QED
    BY <1>0, <2>1, <2>2, <2>3
<1>3. CASE LookNormal
  <2>1. \/ \E why : Report(why)
        \/ \E ids : SetReady(ids)
        \/ \E ops : pass' = [pass EXCEPT !.at = "fence", !.batch = ops]
    BY <1>3 DEF LookNormal, Adoption, Diff
  <2>2. ASSUME NEW ids, SetReady(ids) PROVE pass'.at # "create"
    BY <1>0, <2>2, PatchNext DEF SetReady, Bind, Pass
  <2>3. cloud' = cloud
    BY <1>3 DEF LookNormal
  <2>4. ASSUME NEW ops, pass' = [pass EXCEPT !.at = "fence", !.batch = ops] PROVE pass'.at # "create"
    BY <1>0, <2>4 DEF Pass
  <2>5. ASSUME NEW why, Report(why) PROVE pass'.at # "create"
    BY <2>5, ReportNext
  <2> QED
    BY <2>1, <2>2, <2>3, <2>4, <2>5
<1>4. CASE ReportReady
  BY <1>4, ReportNext DEF ReportReady
<1>5. CASE LookDeleting
  <2>1. \/ \E why : Report(why)
        \/ Complete
        \/ \E ids : \E next \in {Continue, [pass EXCEPT !.ids = ids]} : Bind(ids, next)
        \/ \E ids : Bind(ids, Continue)
        \/ \E ops : pass' = [pass EXCEPT !.at = "fence", !.batch = ops]
    BY <1>5 DEF LookDeleting, DeleteUnknown, DeleteKnown
  <2>2. ASSUME NEW ids, NEW next \in {Continue, [pass EXCEPT !.ids = ids]}, Bind(ids, next) PROVE pass'.at # "create"
    BY <1>0, <1>5, <2>2, PatchNext DEF Bind, Pass, LookDeleting
  <2>3. Complete => pass'.at # "create"
    BY <1>0, PatchNext DEF Complete
  <2>4. cloud' = cloud
    BY <1>5 DEF LookDeleting
  <2>5. ASSUME NEW ops, pass' = [pass EXCEPT !.at = "fence", !.batch = ops] PROVE pass'.at # "create"
    BY <1>0, <2>5 DEF Pass
  <2>6. ASSUME NEW why, Report(why) PROVE pass'.at # "create"
    BY <2>6, ReportNext
  <2> QED
    BY <2>1, <2>2, <2>3, <2>4, <2>5, <2>6
<1>6. CASE LookFails
  BY <1>6, ReportNext DEF LookFails
<1>7. CASE Fence
  BY <1>0, <1>7 DEF Fence, Pass
<1>8. CASE SendBatch
  <2>1. cloud'.zones = cloud.zones
    BY <1>0, <1>8 DEF SendBatch, Cloud
  <2>2. CASE Report("Error")
    BY <2>1, <2>2, ReportNext
  <2>3. CASE \E add, drop : pass' = [pass EXCEPT !.at = "ledger", !.batch = NoBatch, !.add = add, !.drop = drop]
    BY <1>0, <2>1, <2>3 DEF Pass
  <2> QED
    BY <1>8, <2>2, <2>3 DEF SendBatch
<1>9. CASE RefuseBatch
  <2>1. CASE \E why : Report(why)
    BY <1>9, <2>1, ReportNext DEF RefuseBatch
  <2>2. CASE pass' = [pass EXCEPT !.at = "ledger", !.batch = NoBatch, !.drop = pass.batch.deletes]
    BY <1>0, <1>9, <2>2 DEF Pass, RefuseBatch
  <2> QED
    BY <1>9, <2>1, <2>2 DEF RefuseBatch
<1>10. CASE Ledger
  <2>1. CASE \E why : Report(why)
    BY <1>10, <2>1, ReportNext DEF Ledger
  <2>2. ASSUME NEW ids, NEW S, NEW next \in {[pass EXCEPT !.add = S], [pass EXCEPT !.drop = S]}, Bind(ids, next)
        PROVE  pass'.at # "create"
    BY <1>0, <1>10, <2>2, PatchNext DEF Bind, Pass, Ledger
  <2>3. \/ \E why : Report(why)
        \/ \E ids, S : \E next \in {[pass EXCEPT !.add = S], [pass EXCEPT !.drop = S]} : Bind(ids, next)
    BY <1>10 DEF Ledger
  <2> QED
    BY <1>10, <2>1, <2>2, <2>3 DEF Ledger
<1> QED
  BY <1>1, <1>2, <1>3, <1>4, <1>5, <1>6, <1>7, <1>8, <1>9, <1>10 DEF RecordStep

LEMMA WriteZoneNext ==
    ASSUME NEW z, NEW next, WriteZone(z, next) PROVE pass' \in {Idle, next}
  BY DEF WriteZone

LEMMA ZoneStepOnce == ASSUME Base, ZoneOnce, ZoneStep PROVE ZoneOnce'
<1>0. pass \in Pass /\ cloud \in Cloud /\ Idle.at = "idle"
  BY PassTyped DEF Base, Idle
<1>1. CASE RefuseZone
  BY <1>0, <1>1, WriteZoneNext DEF RefuseZone, ZoneOnce
<1>2. CASE AcceptZone
  <2>1. \E z : WriteZone(z, [pass EXCEPT !.at = "finalizer", !.zone = z])
    BY <1>2 DEF AcceptZone
  <2>2. PICK z : pass' \in {Idle, [pass EXCEPT !.at = "finalizer", !.zone = z]}
    BY <2>1, WriteZoneNext
  <2> QED
    BY <1>0, <1>2, <2>2 DEF AcceptZone, ZoneOnce, Pass
<1>3. CASE SetFinalizer
  BY <1>0, <1>3 DEF SetFinalizer, ZoneOnce, Pass
<1>4. CASE SelectZone
  <2>1. cloud' = cloud
    BY <1>4 DEF SelectZone
  <2>2. CASE \E id : pass' = [pass EXCEPT !.at = "apply", !.zone.id = id]
    BY <1>0, <2>1, <2>2 DEF ZoneOnce, Pass
  <2>3. CASE Clear
    BY <2>1, <2>3 DEF Clear, ZoneOnce
  <2>4. CASE WriteZone([pass.zone EXCEPT !.programmed = FALSE], Idle)
    BY <1>0, <2>1, <2>4, WriteZoneNext DEF ZoneOnce
  <2> QED
    BY <1>4, <2>2, <2>3, <2>4 DEF SelectZone
<1>5. CASE CreateZone
  <2>1. cloud.zones = {} /\ cloud'.zones \subseteq {budget.zones + 1}
    BY <1>0, <1>5 DEF CreateZone, ZoneOnce, Cloud
  <2>2. CASE \E id : pass' = [pass EXCEPT !.at = "apply", !.zone.id = id]
    BY <1>0, <2>1, <2>2 DEF ZoneOnce, Pass
  <2>3. CASE WriteZone([pass.zone EXCEPT !.programmed = FALSE], Idle)
    BY <1>0, <2>1, <2>3, WriteZoneNext DEF ZoneOnce
  <2> QED
    BY <1>5, <2>2, <2>3 DEF CreateZone
<1>6. CASE ApplyZone
  <2>1. cloud' = cloud
    BY <1>6 DEF ApplyZone
  <2>2. pass' \in {Idle, [Idle EXCEPT !.at = "prune", !.unit = pass.unit]}
    BY <1>6, WriteZoneNext DEF ApplyZone
  <2>3. [Idle EXCEPT !.at = "prune", !.unit = pass.unit].at = "prune"
    BY DEF Idle
  <2> QED
    BY <1>0, <2>1, <2>2, <2>3 DEF ZoneOnce
<1>7. CASE DeleteZone
  <2>1. cloud'.zones \subseteq cloud.zones
    BY <1>7 DEF DeleteZone
  <2>2. pass'.at # "create"
    BY <1>0, <1>7, WriteZoneNext DEF DeleteZone, Pass
  <2> QED
    BY <2>1, <2>2 DEF ZoneOnce
<1>8. CASE ReleaseUnit
  BY <1>0, <1>8 DEF ReleaseUnit, ZoneOnce
<1> QED
  BY <1>1, <1>2, <1>3, <1>4, <1>5, <1>6, <1>7, <1>8 DEF ZoneStep

LEMMA ZoneOnceStep == ASSUME Base, ZoneOnce, [Next]_vars PROVE ZoneOnce'
<1>1. CASE UNCHANGED <<cloud, pass>>
  BY <1>1 DEF ZoneOnce
<1>2. CASE ForeignAct
  BY <1>2, ForeignStep DEF Outside, ZoneOnce
<1>3. CASE Begin \/ Crash
  <2>1. cloud' = cloud /\ pass'.at \in {"idle", "delete", "zone"}
    <3>1. Idle \in Pass /\ Idle.at = "idle"
      BY IdleOK DEF Idle
    <3> QED
      BY <1>3, <3>1 DEF Begin, Crash, Pass
  <2> QED
    BY <2>1 DEF ZoneOnce
<1>4. CASE ZoneStep
  BY <1>4, ZoneStepOnce
<1>5. CASE RecordStep
  BY <1>5, RecordStepZones DEF ZoneOnce
<1>6. ASSUME NEW c \in Claims, Core(c) PROVE UNCHANGED <<cloud, pass>>
  BY <1>6 DEF Core, AddItem, EditItem, DecideItem, RequestDeletion, RemoveItem
<1>7. (DeleteUnit \/ Deliver \/ ChangeClass \/ UNCHANGED vars) => UNCHANGED <<cloud, pass>>
  BY DEF DeleteUnit, Deliver, ChangeClass, vars
<1> QED
  BY <1>1, <1>2, <1>3, <1>4, <1>5, <1>6, <1>7 DEF Next

LEMMA ZoneOnceCounts == ASSUME Base, ZoneOnce PROVE ZoneInvariant
<1>1. Cardinality(cloud.zones) <= 1
  <2>1. CASE cloud.zones = {}
    BY <2>1, FS_EmptySet
  <2>2. CASE cloud.zones # {}
    <3>1. PICK z \in cloud.zones : TRUE
      BY <2>2
    <3>2. cloud.zones = {z}
      BY <3>1 DEF ZoneOnce
    <3> QED
      BY <3>2, FS_Singleton
  <2> QED
    BY <2>1, <2>2
<1> QED
  BY <1>1, BaseTyped DEF ZoneInvariant, OneZone

\* The states are well typed and the unit has at most one zone: a creation
\* whose answer or status write was lost is recovered and never repeated, as
\* a new zone is made only by a pass that saw none (selectZone).
THEOREM ZoneInvariantAlways == Spec => []ZoneInvariant
<1>1. Init => ZoneOnce
  BY InitStarted DEF Started, ZoneOnce, Idle
<1>2. Base /\ ZoneOnce /\ [Next]_vars => ZoneOnce'
  BY ZoneOnceStep
<1>3. Base /\ ZoneOnce => ZoneInvariant
  BY ZoneOnceCounts
<1> QED
  BY <1>1, <1>2, <1>3, BaseAlways, PTL DEF Spec

-----------------------------------------------------------------------------
(* The copies of the items and of the ledger.  The cache and the pass hold *)
(* earlier copies of the unit; budget.claim is the last item of a claim.   *)

ItemsOf(c) == {unit.item[c], seen.unit.item[c], pass.unit.item[c], budget.claim[c]}
EntriesOf(c) == {unit.entry[c], seen.unit.entry[c], pass.unit.entry[c]}

ItemsStay ==
    /\ unit'.item \in {unit.item, NoUnit.item}
    /\ seen'.unit.item \in {unit.item, seen.unit.item, NoUnit.item}
    /\ pass'.unit.item \in {pass.unit.item, seen.unit.item, NoUnit.item}
    /\ budget'.claim = budget.claim /\ budget'.uids = budget.uids

EntriesStay ==
    /\ unit'.entry = unit.entry \/ unit' = NoUnit
    /\ seen'.unit.entry \in {unit.entry, seen.unit.entry, NoUnit.entry}
    /\ pass'.unit.entry \in {pass.unit.entry, seen.unit.entry, NoUnit.entry}

\* A status patch of the entry of claim c took effect.
EntryPatched(c, e) ==
    /\ c \in Claims /\ e \in Entry
    /\ unit'.entry = [unit.entry EXCEPT ![c] = e]
    /\ seen.current /\ seen.unit = unit
    /\ seen'.unit.entry \in {unit'.entry, unit.entry}
    /\ pass'.unit.entry \in {pass.unit.entry, NoUnit.entry}
    /\ SourceMatches(unit.item[c], pass.unit.item[c])

LEMMA QuietStays == ASSUME Base, Quiet PROVE ItemsStay /\ EntriesStay
<1>1. unit'.item = unit.item /\ seen'.unit.item = seen.unit.item
      /\ unit'.entry = unit.entry /\ seen'.unit.entry = seen.unit.entry
  BY DEF Quiet, QuietUnit, SameUnit
<1>2. pass'.unit \in {pass.unit, seen.unit, NoUnit}
  BY DEF Quiet, QuietPass, Idle
<1> QED
  BY <1>1, <1>2 DEF ItemsStay, EntriesStay, Quiet, BooksKept

LEMMA OtherStays ==
    ASSUME Base, UNCHANGED vars \/ Wiped \/ UnitGone \/ UnitMarked \/ Delivered \/ Outside
    PROVE  ItemsStay /\ EntriesStay
<1>1. Idle.unit = NoUnit
  BY DEF Idle
<1>2. CASE UNCHANGED vars
  BY <1>2 DEF vars, ItemsStay, EntriesStay
<1>3. CASE Wiped
  BY <1>3, PassTyped DEF Wiped, ItemsStay, EntriesStay, Pass
<1>4. CASE UnitGone
  BY <1>1, <1>4 DEF UnitGone, ItemsStay, EntriesStay
<1>5. CASE UnitMarked
  BY <1>5 DEF UnitMarked, ItemsStay, EntriesStay
<1>6. CASE Delivered
  BY <1>6 DEF Delivered, ItemsStay, EntriesStay
<1>7. CASE Outside
  BY <1>7 DEF Outside, ItemsStay, EntriesStay
<1> QED
  BY <1>2, <1>3, <1>4, <1>5, <1>6, <1>7

LEMMA CoreStays ==
    ASSUME Base, NEW c \in Claims, CoreKinds(c)
    PROVE  /\ EntriesStay /\ UNCHANGED <<cloud, class, pass>>
           /\ budget'.tampered = budget.tampered /\ budget'.records = budget.records
           /\ budget' \in Budget
<1>1. PICK i \in Items, b \in Items : ItemStep(c, i, b)
  <2>1. budget.claim[c] \in Items /\ NoItem \in Items
    BY PassTyped DEF Items
  <2> QED
    BY <2>1 DEF CoreKinds, Adds, Edited, Toggled, Dropped, Items
<1> QED
  BY <1>1 DEF ItemStep, CacheStep, EntriesStay

LEMMA OutcomeCases ==
    ASSUME Base, NEW c, NEW e, NEW next, Outcome(c, e, next), next = Idle \/ next.unit = pass.unit
    PROVE  /\ unit'.item = unit.item /\ seen'.unit.item \in {unit.item, seen.unit.item}
           /\ pass'.unit \in {pass.unit, NoUnit}
           /\ EntriesStay \/ (EntryPatched(c, e) /\ pass' = next)
<1>1. pass'.unit \in {pass.unit, NoUnit}
  BY DEF Outcome, Refused, Unpatched, Patched, Idle
<1>2. CASE Refused \/ Unpatched(c, pass.unit.item[c], e, next)
  BY <1>1, <1>2 DEF Refused, Unpatched, EntriesStay
<1>3. CASE Patched(c, pass.unit.item[c], e, next)
  BY <1>1, <1>3 DEF Patched, EntryPatched, Outcome
<1> QED
  BY <1>1, <1>2, <1>3 DEF Outcome

\* The entries a working pass writes.
Reporting(why) == [Start(pass.c) EXCEPT !.why = why, !.whyGen = Source(pass).gen]
Completing == [Start(pass.c) EXCEPT !.why = "Programmed", !.whyGen = Source(pass).gen, !.completed = TRUE]
Binding(ids) == [Start(pass.c) EXCEPT !.ids = ids]

LEMMA PassFields ==
    ASSUME Base
    PROVE  /\ \A s : [pass EXCEPT !.at = s].unit = pass.unit
           /\ \A s, b : [pass EXCEPT !.at = s, !.batch = b].unit = pass.unit
           /\ \A s, b, d : [pass EXCEPT !.at = s, !.batch = b, !.drop = d].unit = pass.unit
           /\ \A s, b, a, d : [pass EXCEPT !.at = s, !.batch = b, !.add = a, !.drop = d].unit = pass.unit
           /\ \A s, c, r, ids : [pass EXCEPT !.at = s, !.c = c, !.rest = @ \ r, !.ids = ids].unit = pass.unit
           /\ \A ids : [pass EXCEPT !.ids = ids].unit = pass.unit
           /\ \A S : [pass EXCEPT !.add = @ \ S].unit = pass.unit
           /\ \A S : [pass EXCEPT !.drop = @ \ S].unit = pass.unit
  BY PassTyped DEF Pass

\* The records steps leave the items alone.
LEMMA RecordStays ==
    ASSUME Base, RecordKinds
    PROVE  /\ ItemsStay
           /\ \/ EntriesStay
              \/ Pruned
              \/ Accepted /\ \E c \in pass.rest, accepted \in BOOLEAN :
                                EntryPatched(c, [Start(c) EXCEPT !.accepted = accepted])
              \/ Working(pass) /\ \E why \in Reasons \ {"Programmed"} : EntryPatched(pass.c, Reporting(why))
              \/ ReportsReady /\ EntryPatched(pass.c, Reporting("Programmed"))
              \/ SetsReady /\ EntryPatched(pass.c, Binding(LiveOf(Type))) /\ pass' = [pass EXCEPT !.at = "ready"]
              \/ Completes /\ EntryPatched(pass.c, Completing)
              \/ BindsLegacy /\ EntryPatched(pass.c, Binding(LiveOf(Type)))
              \/ DropsOdd /\ \E r \in RecordIds \ Live :
                    EntryPatched(pass.c, Binding(Rebased(pass.c, Source(pass)).ids \ {r}))
              \/ LedgerAdds /\ \E r \in pass.add :
                    /\ EntryPatched(pass.c, Binding(Rebased(pass.c, Source(pass)).ids \cup {r}))
                    /\ pass' = [pass EXCEPT !.add = @ \ {r}]
              \/ LedgerDrops /\ \E r \in pass.drop :
                    /\ EntryPatched(pass.c, Binding(Rebased(pass.c, Source(pass)).ids \ {r}))
                    /\ pass' = [pass EXCEPT !.drop = @ \ {r}]
<1> DEFINE Same == budget'.claim = budget.claim /\ budget'.uids = budget.uids
<1>0. ASSUME NEW c, NEW e, NEW next, Outcome(c, e, next), next = Idle \/ next.unit = pass.unit, Same
      PROVE  ItemsStay /\ (EntriesStay \/ (EntryPatched(c, e) /\ pass' = next))
  BY <1>0, OutcomeCases DEF ItemsStay
<1>1. CASE Quiet
  BY <1>1, QuietStays
<1>2. CASE Pruned
  BY <1>2 DEF Pruned, Frame, BooksKept, ItemsStay, Idle
<1>3. CASE UNCHANGED <<unit, seen>> /\ pass'.unit = pass.unit /\ Same
  BY <1>3 DEF ItemsStay, EntriesStay
<1>4. Frame => Same
  BY DEF Frame, BooksKept
<1>5. CASE Accepted
  <2>1. PICK c \in pass.rest, accepted \in BOOLEAN :
           \E next \in {Idle, [pass EXCEPT !.at = "look", !.c = c, !.rest = @ \ {c},
                                          !.ids = Rebased(c, pass.unit.item[c]).ids]} :
              Outcome(c, [Start(c) EXCEPT !.accepted = accepted], next)
    BY <1>5 DEF Accepted
  <2> DEFINE e == [Start(c) EXCEPT !.accepted = accepted]
  <2> DEFINE looking == [pass EXCEPT !.at = "look", !.c = c, !.rest = @ \ {c},
                                     !.ids = Rebased(c, pass.unit.item[c]).ids]
  <2>5. looking.unit = pass.unit
    BY PassTyped DEF Pass
  <2> HIDE DEF looking
  <2>6. PICK next \in {Idle, looking} : Outcome(c, e, next)
    BY <2>1 DEF looking
  <2>2. Outcome(c, e, next) /\ (next = Idle \/ next.unit = pass.unit)
    BY <2>5, <2>6
  <2> HIDE DEF e
  <2>3. ItemsStay /\ (EntriesStay \/ EntryPatched(c, e))
    BY <1>0, <1>4, <1>5, <2>2 DEF Accepted
  <2> QED
    BY <1>5, <2>3 DEF e
<1>6. ASSUME NEW why, Reported(why), Same
      PROVE  ItemsStay /\ (EntriesStay \/ EntryPatched(pass.c, Reporting(why)))
  BY <1>0, <1>6, ContinueOK DEF Reported, Reporting
<1>7. CASE ReportsOther
  BY <1>4, <1>6, <1>7 DEF ReportsOther, Reported
<1>8. CASE ReportsReady
  BY <1>4, <1>6, <1>8 DEF ReportsReady
<1>9. CASE SetsReady
  BY <1>0, <1>4, <1>9, PassFields DEF SetsReady, Binding
<1>10. CASE PlansNormal
  BY <1>3, <1>4, <1>10, PassFields DEF PlansNormal
<1>11. CASE Completes
  BY <1>0, <1>4, <1>11, ContinueOK DEF Completes, Completing
<1>12. CASE BindsLegacy
  BY <1>0, <1>4, <1>12, PassFields DEF BindsLegacy, Binding
<1>13. CASE DropsOdd
  BY <1>0, <1>4, <1>13, ContinueOK DEF DropsOdd, Binding
<1>14. CASE PlansDeletion
  <2>1. PICK b : pass' = [pass EXCEPT !.at = "fence", !.batch = b]
    BY <1>14 DEF PlansDeletion
  <2>2. pass'.unit = pass.unit
    BY <2>1, PassTyped DEF Pass
  <2>3. Frame /\ UNCHANGED <<unit, seen>>
    BY <1>14 DEF PlansDeletion
  <2> QED
    BY <1>3, <1>4, <2>2, <2>3
<1>15. CASE Permitted
  BY <1>3, <1>4, <1>15, PassFields DEF Permitted
<1>16. CASE Answered
  <2>1. PICK a, d : pass' = [pass EXCEPT !.at = "ledger", !.batch = NoBatch, !.add = a, !.drop = d]
    BY <1>16 DEF Answered
  <2>2. pass'.unit = pass.unit
    BY <2>1, PassTyped DEF Pass
  <2> QED
    BY <1>3, <1>16, <2>2 DEF Answered, Sent
<1>17. CASE Lost
  <2>1. "Error" \in Reasons \ {"Programmed"}
    BY DEF Reasons
  <2> QED
    BY <1>6, <1>17, <2>1 DEF Lost, Reported, Sent
<1>18. CASE AlreadyGone
  <2>1. pass'.unit = pass.unit
    BY <1>18, PassTyped DEF Pass, AlreadyGone
  <2> QED
    BY <1>3, <1>4, <1>18, <2>1 DEF AlreadyGone
<1>19. CASE LedgerAdds
  <2>1. PICK r \in pass.add :
          Outcome(pass.c, [Start(pass.c) EXCEPT !.ids = Rebased(pass.c, Source(pass)).ids \cup {r}],
                  [pass EXCEPT !.add = @ \ {r}])
    BY <1>19 DEF LedgerAdds
  <2> DEFINE e == Binding(Rebased(pass.c, Source(pass)).ids \cup {r})
             next == [pass EXCEPT !.add = @ \ {r}]
  <2>2. Outcome(pass.c, e, next)
    BY <2>1 DEF Binding
  <2>3. next.unit = pass.unit
    BY PassTyped DEF Pass
  <2> HIDE DEF e, next
  <2>4. ItemsStay /\ (EntriesStay \/ (EntryPatched(pass.c, e) /\ pass' = next))
    BY <1>0, <1>4, <1>19, <2>2, <2>3 DEF LedgerAdds
  <2> QED
    BY <1>19, <2>4 DEF e, next
<1>20. CASE LedgerDrops
  <2>1. PICK r \in pass.drop :
          Outcome(pass.c, [Start(pass.c) EXCEPT !.ids = Rebased(pass.c, Source(pass)).ids \ {r}],
                  [pass EXCEPT !.drop = @ \ {r}])
    BY <1>20 DEF LedgerDrops
  <2> DEFINE e == Binding(Rebased(pass.c, Source(pass)).ids \ {r})
             next == [pass EXCEPT !.drop = @ \ {r}]
  <2>2. Outcome(pass.c, e, next)
    BY <2>1 DEF Binding
  <2>3. next.unit = pass.unit
    BY PassTyped DEF Pass
  <2> HIDE DEF e, next
  <2>4. ItemsStay /\ (EntriesStay \/ (EntryPatched(pass.c, e) /\ pass' = next))
    BY <1>0, <1>4, <1>20, <2>2, <2>3 DEF LedgerDrops
  <2> QED
    BY <1>20, <2>4 DEF e, next
<1> QED
  BY <1>1, <1>2, <1>5, <1>7, <1>8, <1>9, <1>10, <1>11, <1>12, <1>13, <1>14, <1>15, <1>16, <1>17,
     <1>18, <1>19, <1>20 DEF RecordKinds

-----------------------------------------------------------------------------
(* Who owns what the ledger and the pass name.                             *)

Owned(rec, r, c, i) == rec = Gone \/ rec.maker \in {<<c, i.uid>>, <<c, 0>>} \/ r \in i.adopt

\* Items of a claim with one UID adopt the same records.
Known(S, n) == \A i, j \in S : i.uid <= n /\ (i.uid = j.uid => i.adopt = j.adopt)

\* The IDs in entry e of claim c, whose items are S, with n UIDs and m records used.
EntryOwned(c, e, S, recs, n, m) ==
    /\ e.uid <= n /\ (e.completed => e.uid # 0)
    /\ \A r \in e.ids : r <= m
    /\ e.uid = 0 => \A r \in e.ids : recs[r] = Gone \/ recs[r].maker = <<c, 0>>
    /\ \A i \in S : i.uid = e.uid => \A r \in e.ids : Owned(recs[r], r, c, i)

PassOwned(ids, p, recs, m) == \A r \in ids : r <= m /\ Owned(recs[r], r, p.c, Source(p))
Targets(p) == p.ids \cup p.add \cup p.batch.deletes \cup DOMAIN p.batch.patches

ItemsKnown == \A c \in Claims : Known(ItemsOf(c), budget.uids)
RecordsMade == \A r \in RecordIds : r > budget.records => cloud.records[r] = Gone
EntriesOwned == \A c \in Claims : \A e \in EntriesOf(c) :
                    EntryOwned(c, e, ItemsOf(c), cloud.records, budget.uids, budget.records)
TargetsOwned == Working(pass) => PassOwned(Targets(pass), pass, cloud.records, budget.records)
Owning == ItemsKnown /\ RecordsMade /\ EntriesOwned /\ TargetsOwned

\* A new copy of an item is of a new UID or adopts what one of this UID did.
ItemsFrom(c, S, T, n) ==
    \A i \in T : \/ i.uid > n \/ i = NoItem
                 \/ \E j \in S : j.uid = i.uid /\ j.adopt = i.adopt

\* Records keep their makers.
RecordsKept == \A r \in RecordIds :
                  \/ cloud'.records[r] = Gone \/ r > budget.records
                  \/ cloud.records[r] # Gone /\ cloud'.records[r].maker = cloud.records[r].maker

BooksGrow == budget'.uids \in Nat /\ budget'.uids >= budget.uids
             /\ budget'.records \in Nat /\ budget'.records >= budget.records

LEMMA OwnedKept ==
    ASSUME Base, RecordsKept, NEW r \in RecordIds, r <= budget.records, NEW c, NEW i,
           Owned(cloud.records[r], r, c, i)
    PROVE  Owned(cloud'.records[r], r, c, i)
<1>1. budget.records \in Nat
  BY BudgetRange
<1> QED
  BY <1>1 DEF RecordsKept, Owned

LEMMA EntryKept ==
    ASSUME Base, RecordsKept, BooksGrow, NEW c \in Claims, NEW e \in Entry, NEW S, NEW T,
           ItemsFrom(c, S, T, budget.uids),
           EntryOwned(c, e, S, cloud.records, budget.uids, budget.records)
    PROVE  EntryOwned(c, e, T, cloud'.records, budget'.uids, budget'.records)
<1>1. /\ budget.records \in Nat /\ budget.uids \in Nat /\ e.uid \in Nat
      /\ \A r \in e.ids : r \in RecordIds /\ r \in Nat /\ r <= budget.records
  BY BudgetRange DEF Entry, EntryOwned
<1>2. e.uid <= budget'.uids /\ \A r \in e.ids : r <= budget'.records
  BY <1>1 DEF EntryOwned, BooksGrow
<1>3. e.uid = 0 => \A r \in e.ids : cloud'.records[r] = Gone \/ cloud'.records[r].maker = <<c, 0>>
  BY <1>1 DEF EntryOwned, RecordsKept
<1>4. ASSUME NEW i \in T, i.uid = e.uid, NEW r \in e.ids
      PROVE  Owned(cloud'.records[r], r, c, i)
  <2>1. CASE i = NoItem
    BY <1>3, <1>4, <2>1 DEF NoItem, Owned
  <2>2. CASE \E j \in S : j.uid = i.uid /\ j.adopt = i.adopt
    <3>1. PICK j \in S : j.uid = i.uid /\ j.adopt = i.adopt
      BY <2>2
    <3>2. Owned(cloud'.records[r], r, c, j)
      BY <1>1, <1>4, <3>1, OwnedKept DEF EntryOwned
    <3> QED
      BY <3>1, <3>2 DEF Owned
  <2>3. ~(i.uid > budget.uids)
    BY <1>1, <1>4 DEF EntryOwned
  <2> QED
    BY <2>1, <2>2, <2>3 DEF ItemsFrom
<1> QED
  BY <1>2, <1>3, <1>4 DEF EntryOwned

LEMMA NoEntryOwned ==
    ASSUME Base, BooksGrow, NEW c, NEW S, NEW recs
    PROVE  EntryOwned(c, NoEntry, S, recs, budget'.uids, budget'.records)
  BY BudgetRange DEF EntryOwned, NoEntry, BooksGrow

LEMMA TargetsKept ==
    ASSUME Base, RecordsKept, BooksGrow, NEW p \in Pass, NEW ids \in SUBSET RecordIds,
           PassOwned(ids, p, cloud.records, budget.records)
    PROVE  PassOwned(ids, p, cloud'.records, budget'.records)
<1>1. \A r \in ids : r \in RecordIds /\ r <= budget.records /\ r \in Nat
  BY DEF PassOwned
<1>2. budget.records \in Nat
  BY BudgetRange
<1>3. \A r \in ids : Owned(cloud'.records[r], r, p.c, Source(p))
  BY <1>1, OwnedKept DEF PassOwned
<1> QED
  BY <1>1, <1>2, <1>3 DEF PassOwned, BooksGrow

LEMMA TargetRange ==
    ASSUME NEW p \in Pass
    PROVE  Targets(p) \subseteq RecordIds /\ p.ids \subseteq RecordIds /\ p.add \subseteq RecordIds
           /\ p.batch.deletes \subseteq RecordIds /\ DOMAIN p.batch.patches \subseteq RecordIds
<1>1. p.batch \in Batches /\ p.ids \subseteq RecordIds /\ p.add \subseteq RecordIds
  BY DEF Pass
<1>2. p.batch.patches \in Patches /\ p.batch.deletes \subseteq RecordIds
  BY <1>1 DEF Batches
<1>3. DOMAIN p.batch.patches \subseteq RecordIds
  BY <1>2 DEF Patches
<1> QED
  BY <1>1, <1>2, <1>3 DEF Targets

NextItems(c) == {unit'.item[c], seen'.unit.item[c], pass'.unit.item[c], budget'.claim[c]}
NextEntries(c) == {unit'.entry[c], seen'.unit.entry[c], pass'.unit.entry[c]}

LEMMA CopiesTyped ==
    ASSUME Base, NEW c \in Claims
    PROVE  /\ \A i \in ItemsOf(c) : i \in Items
           /\ \A e \in EntriesOf(c) : e \in Entry
           /\ NoUnit.item[c] = NoItem /\ NoUnit.entry[c] = NoEntry
  BY PassTyped DEF ItemsOf, EntriesOf, NoUnit

LEMMA StayedItems ==
    ASSUME Base, ItemsStay, NEW c \in Claims
    PROVE  \A i \in NextItems(c) : i \in ItemsOf(c) \cup {NoItem}
  BY CopiesTyped DEF ItemsStay, NextItems, ItemsOf

LEMMA KnownStays ==
    ASSUME Base, NEW S, NEW T, Known(S, budget.uids), \A i \in S : i \in Items,
           \A i \in T : i \in S \cup {NoItem}, budget'.uids = budget.uids
    PROVE  Known(T, budget'.uids)
<1>1. \A i \in S : i.uid = 0 => i = NoItem
  BY ItemShape
<1>2. NoItem.uid = 0 /\ NoItem.adopt = {} /\ budget.uids \in Nat
  BY BudgetRange DEF NoItem
<1>3. \A i \in T : i.uid <= budget.uids
  BY <1>2 DEF Known
<1>4. ASSUME NEW i \in T, NEW j \in T, i.uid = j.uid PROVE i.adopt = j.adopt
  BY <1>1, <1>2, <1>4 DEF Known
<1> QED
  BY <1>3, <1>4 DEF Known

\* A step of core on claim c: the new item has a new UID or adopts what the
\* claim adopted before.
LEMMA CoreItems ==
    ASSUME Base, ItemsKnown, NEW c \in Claims, CoreKinds(c), NEW d \in Claims
    PROVE  /\ Known(NextItems(d), budget'.uids)
           /\ ItemsFrom(d, ItemsOf(d), NextItems(d), budget.uids)
<1>0. /\ budget.uids \in Nat /\ budget.claim[c] \in Items /\ NoItem \in Items /\ unit.item[c] \in Items
      /\ Known(ItemsOf(c), budget.uids) /\ Known(ItemsOf(d), budget.uids)
  BY BudgetRange, PassTyped DEF Items, ItemsKnown
<1>1. PICK i \in Items, b \in Items :
         /\ ItemStep(c, i, b)
         /\ i = NoItem \/ i.uid > budget.uids \/ \E j \in ItemsOf(c) : j.uid = i.uid /\ j.adopt = i.adopt
         /\ i.uid <= budget'.uids
         /\ b = i \/ b = budget.claim[c]
  <2>1. ASSUME NEW i \in Item, Adds(c, i)
        PROVE  /\ ItemStep(c, i, i) /\ i \in Items /\ i.uid <= budget'.uids
               /\ i.uid > budget.uids \/ \E j \in ItemsOf(c) : j.uid = i.uid /\ j.adopt = i.adopt
    BY <2>1 DEF Adds, Items, ItemsOf
  <2>2. ASSUME NEW i \in Item, Toggled(c, i)
        PROVE  /\ ItemStep(c, i, budget.claim[c]) /\ i \in Items /\ i.uid <= budget'.uids
               /\ \E j \in ItemsOf(c) : j.uid = i.uid /\ j.adopt = i.adopt
    <3>1. i \in Items /\ i.uid = unit.item[c].uid /\ i.adopt = unit.item[c].adopt
      BY <1>0, <2>2, MatchFields DEF Toggled, Items
    <3>2. unit.item[c] \in ItemsOf(c) /\ unit.item[c].uid <= budget.uids
      BY <1>0 DEF ItemsOf, Known
    <3>3. i.uid \in Nat /\ budget'.uids \in Nat /\ budget'.uids >= budget.uids
      BY <2>2, <3>1, ItemShape DEF Toggled, ItemStep, Budget
    <3> QED
      BY <1>0, <2>2, <3>1, <3>2, <3>3 DEF Toggled
  <2>3. ASSUME NEW i \in Item, Edited(c, i), budget'.uids = budget.uids
        PROVE  /\ ItemStep(c, i, i) /\ i \in Items /\ i.uid <= budget'.uids
               /\ \E j \in ItemsOf(c) : j.uid = i.uid /\ j.adopt = i.adopt
    <3>1. unit.item[c] \in ItemsOf(c) /\ unit.item[c].uid <= budget.uids
      BY <1>0 DEF ItemsOf, Known
    <3> QED
      BY <2>3, <3>1 DEF Edited, Items
  <2>4. ASSUME Dropped(c)
        PROVE  ItemStep(c, NoItem, budget.claim[c]) /\ NoItem.uid <= budget'.uids
    BY <2>4 DEF Dropped, ItemStep, NoItem, Budget
  <2> QED
    BY <1>0, <2>1, <2>2, <2>3, <2>4 DEF CoreKinds
<1>2. budget'.uids \in Nat /\ budget'.uids >= budget.uids
  BY <1>1 DEF ItemStep, Budget
<1>3. CASE d # c
  <2>1. unit'.item[d] = unit.item[d] /\ budget'.claim[d] = budget.claim[d] /\ pass' = pass
        /\ seen'.unit.item[d] \in {unit.item[d], seen.unit.item[d]}
    BY <1>1, <1>3, PassTyped DEF ItemStep, CacheStep, Base, Unit, Budget
  <2>2. \A x \in NextItems(d) : x \in ItemsOf(d)
    BY <2>1 DEF NextItems, ItemsOf
  <2>3. \A x \in ItemsOf(d) : x.uid \in Nat
    BY CopiesTyped, ItemShape
  <2> QED
    BY <1>0, <1>2, <2>2, <2>3 DEF Known, ItemsFrom
<1>4. CASE d = c
  <2>1. /\ unit'.item[c] = i /\ budget'.claim[c] = b /\ pass' = pass
        /\ seen'.unit.item[c] \in {i, unit.item[c], seen.unit.item[c]}
    BY <1>1, PassTyped DEF ItemStep, CacheStep, Base, Unit, Budget
  <2>2. \A x \in NextItems(c) : x \in ItemsOf(c) \/ x = i
    BY <1>1, <2>1 DEF NextItems, ItemsOf
  <2>3. \A x \in ItemsOf(c) : x.uid \in Nat /\ x.uid <= budget.uids /\ (x.uid = 0 => x = NoItem)
    BY <1>0, CopiesTyped, ItemShape DEF Known
  <2>4. ItemsFrom(c, ItemsOf(c), NextItems(c), budget.uids)
    BY <1>1, <2>2 DEF ItemsFrom
  <2>5. \A x \in NextItems(c) : x.uid <= budget'.uids
    BY <1>0, <1>1, <1>2, <2>2, <2>3
  <2>6. \A x \in ItemsOf(c) : x.uid = i.uid => x.adopt = i.adopt
    <3>1. CASE i = NoItem
      BY <2>3, <3>1 DEF NoItem
    <3>2. CASE i.uid > budget.uids
      BY <1>0, <1>1, <2>3, <3>2, ItemShape
    <3>3. CASE \E j \in ItemsOf(c) : j.uid = i.uid /\ j.adopt = i.adopt
      BY <1>0, <3>3 DEF Known
    <3> QED
      BY <1>1, <3>1, <3>2, <3>3
  <2>7. \A x, y \in NextItems(c) : x.uid = y.uid => x.adopt = y.adopt
    BY <1>0, <2>2, <2>6 DEF Known
  <2> QED
    BY <1>4, <2>4, <2>5, <2>7 DEF Known
<1> QED
  BY <1>3, <1>4

LEMMA ItemsStep ==
    ASSUME Base, ItemsKnown, Kinds
    PROVE  /\ \A c \in Claims : Known(NextItems(c), budget'.uids)
           /\ \A c \in Claims : ItemsFrom(c, ItemsOf(c), NextItems(c), budget.uids)
<1>1. CASE ItemsStay
  <2> SUFFICES ASSUME NEW c \in Claims
               PROVE  /\ Known(NextItems(c), budget'.uids)
                      /\ ItemsFrom(c, ItemsOf(c), NextItems(c), budget.uids)
    OBVIOUS
  <2>1. \A i \in NextItems(c) : i \in ItemsOf(c) \cup {NoItem}
    BY <1>1, StayedItems
  <2>2. Known(ItemsOf(c), budget.uids) /\ budget'.uids = budget.uids
    BY <1>1 DEF ItemsKnown, ItemsStay
  <2> QED
    BY <2>1, <2>2, CopiesTyped, KnownStays DEF ItemsFrom
<1>2. CASE \E c \in Claims : CoreKinds(c)
  BY <1>2, CoreItems
<1> QED
  BY <1>1, <1>2, QuietStays, OtherStays, RecordStays DEF Kinds

LEMMA StepBooks == ASSUME Base, Kinds PROVE BooksGrow
<1>1. budget.uids \in Nat /\ budget.records \in Nat
  BY BudgetRange
<1>2. CASE BooksKept
  BY <1>1, <1>2 DEF BooksKept, BooksGrow
<1>3. CASE UNCHANGED vars \/ Wiped \/ UnitGone \/ UnitMarked \/ Delivered
  BY <1>1, <1>3 DEF vars, Wiped, UnitGone, UnitMarked, Delivered, BooksGrow
<1>4. CASE Outside
  BY <1>1, <1>4 DEF Outside, ForeignAdds, ForeignRemoves, Fresh, BooksGrow
<1>5. CASE \E c \in Claims : CoreKinds(c)
  <2>1. PICK c \in Claims : CoreKinds(c)
    BY <1>5
  <2>2. PICK i, b : ItemStep(c, i, b)
    BY <2>1 DEF CoreKinds, Adds, Edited, Toggled, Dropped
  <2> QED
    BY <1>1, <2>2 DEF ItemStep, Budget, BooksGrow
<1>6. CASE Sent
  <2>1. Cardinality(Posted) \in Nat
    BY <1>6, PostedFacts, PostsFinite DEF Sent, Working
  <2> QED
    BY <1>1, <1>6, <2>1 DEF Sent, BooksGrow
<1> QED
  BY <1>2, <1>3, <1>4, <1>5, <1>6 DEF Kinds, RecordKinds, Quiet, Frame, Pruned, Accepted, ReportsOther,
     ReportsReady, SetsReady, PlansNormal, Completes, BindsLegacy, DropsOdd, PlansDeletion, Permitted,
     Answered, Lost, AlreadyGone, LedgerAdds, LedgerDrops

\* Steps of the record sets other than an applied batch leave Cloudflare alone.
LEMMA RecordStepCloud ==
    ASSUME Base, RecordKinds
    PROVE  \/ Sent
           \/ /\ cloud'.records = cloud.records /\ budget'.records = budget.records
              /\ budget'.tampered = budget.tampered
<1>1. Frame => cloud'.records = cloud.records /\ budget'.records = budget.records
                 /\ budget'.tampered = budget.tampered
  BY DEF Frame, BooksKept
<1>2. Quiet => cloud'.records = cloud.records /\ budget'.records = budget.records
                 /\ budget'.tampered = budget.tampered
  BY DEF Quiet, BooksKept
<1>3. Quiet \/ Frame \/ Sent
  BY DEF RecordKinds, Pruned, Accepted, ReportsOther, ReportsReady, SetsReady, PlansNormal, Completes,
         BindsLegacy, DropsOdd, PlansDeletion, Permitted, Answered, Lost, AlreadyGone, LedgerAdds, LedgerDrops
<1> QED
  BY <1>1, <1>2, <1>3

LEMMA OtherStepCloud ==
    ASSUME Base, UNCHANGED vars \/ Quiet \/ UnitGone \/ UnitMarked \/ Delivered \/ \E c \in Claims : CoreKinds(c)
    PROVE  cloud'.records = cloud.records /\ budget'.records = budget.records
           /\ budget'.tampered = budget.tampered
  BY CoreStays DEF vars, Quiet, BooksKept, UnitGone, UnitMarked, Delivered

LEMMA SentRecords ==
    ASSUME Base, RecordsMade, Sent
    PROVE  /\ RecordsKept
           /\ \A r \in RecordIds : r > budget'.records => cloud'.records[r] = Gone
           /\ \A r \in Posted : r > budget.records /\ r <= budget'.records /\ r \in RecordIds
           /\ \A r \in Posted : cloud'.records[r].maker = <<pass.c, Source(pass).uid>>
           /\ cloud'.records = Applied
<1>1. Working(pass) /\ pass.at = "batch" /\ cloud \in Cloud
  BY DEF Working, Sent, Base
<1>2. cloud'.records = Applied
  BY <1>1 DEF Sent, Cloud
<1> DEFINE n == Cardinality(Posted)
<1>3. n \in Nat /\ n = Cardinality(pass.batch.posts)
  BY <1>1, PostedFacts, PostsFinite
<1> HIDE DEF n
<1>4. Posted = (budget.records + 1)..(budget.records + n) /\ budget.records \in Nat
      /\ budget'.records = budget.records + n
  BY <1>1, <1>3, PostedFacts, BudgetRange DEF Sent, n
<1>5. \A r \in Posted : r > budget.records /\ r <= budget'.records /\ r \in RecordIds
  BY <1>3, <1>4 DEF Sent
<1>6. \A r \in Posted : cloud'.records[r].maker = <<pass.c, Source(pass).uid>>
  <2>1. \A r \in Posted : Applied[r] = [type |-> Type, value |-> PostedValues[r],
                                       maker |-> <<pass.c, Source(pass).uid>>]
    BY <1>1, AppliedFacts DEF Sent
  <2> DEFINE Made(r) == [type |-> Type, value |-> PostedValues[r], maker |-> <<pass.c, Source(pass).uid>>]
  <2>3. \A r : Made(r).maker = <<pass.c, Source(pass).uid>>
    OBVIOUS
  <2>4. \A r \in Posted : Applied[r] = Made(r)
    BY <2>1
  <2> HIDE DEF Made
  <2>2. \A r \in Posted : Applied[r].maker = <<pass.c, Source(pass).uid>>
    BY <2>3, <2>4
  <2> QED
    BY <1>2, <2>2
<1>7. \A r \in DOMAIN pass.batch.patches \ Posted :
         cloud.records[r] # Gone /\ r \in RecordIds /\ Applied[r].maker = cloud.records[r].maker
  <2> TAKE r \in DOMAIN pass.batch.patches \ Posted
  <2>1. r \in RecordIds /\ cloud.records[r] \in Record
        /\ Applied[r] = [cloud.records[r] EXCEPT !.value = pass.batch.patches[r]]
    BY <1>1, AppliedFacts DEF Sent
  <2>2. cloud.records[r] # Gone
    BY <1>1 DEF Sent, Appliable, Live
  <2> QED
    BY <2>1, <2>2 DEF Record
<1>8. \A r \in RecordIds \ Posted :
         \/ Applied[r] = Gone \/ Applied[r] = cloud.records[r]
         \/ cloud.records[r] # Gone /\ Applied[r].maker = cloud.records[r].maker
  BY <1>1, <1>7, AppliedFacts DEF Sent
<1>9. RecordsKept
  BY <1>2, <1>5, <1>8 DEF RecordsKept
<1>10. ASSUME NEW r \in RecordIds, r > budget'.records PROVE cloud'.records[r] = Gone
  <2>1. r > budget.records /\ r \notin Posted
    BY <1>3, <1>4, <1>10
  <2>2. cloud.records[r] = Gone
    BY <2>1 DEF RecordsMade
  <2> QED
    BY <1>2, <1>8, <2>1, <2>2
<1> QED
  BY <1>2, <1>5, <1>6, <1>9, <1>10

LEMMA StepRecords ==
    ASSUME Base, RecordsMade, Kinds
    PROVE  /\ RecordsKept
           /\ \A r \in RecordIds : r > budget'.records => cloud'.records[r] = Gone
<1>1. CASE cloud'.records = cloud.records /\ budget'.records = budget.records
  BY <1>1 DEF RecordsKept, RecordsMade
<1>2. CASE Wiped
  BY <1>2 DEF Wiped, RecordsKept
<1>3. CASE Sent
  BY <1>3, SentRecords
<1>4. CASE Outside
  <2>0. budget.records \in Nat /\ cloud \in Cloud
    BY BudgetRange DEF Base
  <2>1. CASE ForeignAdds
    <3>1. PICK rec : cloud'.records = [cloud.records EXCEPT ![Fresh] = rec] /\ budget'.records = Fresh
                     /\ Fresh \in RecordIds
      BY <2>1 DEF ForeignAdds
    <3>2. \A r \in RecordIds \ {Fresh} : cloud'.records[r] = cloud.records[r]
      BY <2>0, <3>1 DEF Cloud
    <3>3. Fresh > budget.records
      BY <2>0 DEF Fresh
    <3>4. \A r \in RecordIds : r > Fresh => r > budget.records /\ r # Fresh
      BY <2>0 DEF Fresh
    <3> QED
      BY <3>1, <3>2, <3>3, <3>4 DEF RecordsKept, RecordsMade
  <2>2. CASE ForeignRemoves
    BY <2>2 DEF ForeignRemoves, RecordsKept, RecordsMade
  <2> QED
    BY <1>4, <2>1, <2>2 DEF Outside
<1> QED
  BY <1>1, <1>2, <1>3, <1>4, RecordStepCloud, OtherStepCloud DEF Kinds

\* The records a working pass may write to or list.
LEMMA PassEntryOwned ==
    ASSUME Base, Owning, BooksGrow, Working(pass), NEW ids \in SUBSET RecordIds,
           PassOwned(ids, pass, cloud.records, budget.records), NEW e \in Entry,
           e.uid = Source(pass).uid, e.ids = ids, NEW T,
           RecordsKept, ItemsFrom(pass.c, ItemsOf(pass.c), T, budget.uids)
    PROVE  EntryOwned(pass.c, e, T, cloud'.records, budget'.uids, budget'.records)
<1>1. /\ pass.c \in Claims /\ Source(pass) \in ItemsOf(pass.c) /\ e.uid # 0 /\ e.uid <= budget.uids
      /\ Known(ItemsOf(pass.c), budget.uids)
  BY WorkingFacts DEF ItemsOf, Owning, ItemsKnown, Known
<1>2. EntryOwned(pass.c, e, ItemsOf(pass.c), cloud.records, budget.uids, budget.records)
  BY <1>1 DEF EntryOwned, PassOwned, Owned, Known
<1> QED
  BY <1>1, <1>2, EntryKept

LEMMA RebasedOwned ==
    ASSUME Base, Owning, NEW c \in Claims, NEW i \in ItemsOf(c), NEW p, p.c = c, Source(p) = i
    PROVE  PassOwned(Rebased(c, i).ids, p, cloud.records, budget.records)
<1>1. seen.unit.entry[c] \in EntriesOf(c)
  BY DEF EntriesOf
<1>2. EntryOwned(c, seen.unit.entry[c], ItemsOf(c), cloud.records, budget.uids, budget.records)
  BY <1>1 DEF Owning, EntriesOwned
<1> QED
  BY <1>2 DEF Rebased, StatusMatchesItem, EntryOwned, PassOwned, NoEntry

\* The records the ledger may be set to.
LEMMA SettledOwned ==
    ASSUME Base, Owning, Working(pass), Settled \/ LegacyBound
    PROVE  PassOwned(LiveOf(Type), pass, cloud.records, budget.records)
<1>1. LiveOf(Type) \subseteq RecordIds /\ budget.records \in Nat /\ Type # "gone"
  BY BudgetRange, WorkingFacts, CloudflareAssumption DEF LiveOf, Type
<1>2. \A r \in LiveOf(Type) : cloud.records[r] # Gone
  BY <1>1 DEF LiveOf, Gone
<1>3. \A r \in LiveOf(Type) : r <= budget.records
  BY <1>1, <1>2 DEF Owning, RecordsMade
<1>4. CASE LiveOf(Type) = Source(pass).adopt
  BY <1>3, <1>4 DEF PassOwned, Owned
<1>5. CASE LegacyBound
  <2> DEFINE e == pass.unit.entry[pass.c]
  <2>1. pass.c \in Claims /\ e \in EntriesOf(pass.c) /\ e.uid = 0 /\ LiveOf(Type) \subseteq e.ids
    BY <1>5, WorkingFacts DEF EntriesOf, LegacyBound
  <2>2. EntryOwned(pass.c, e, ItemsOf(pass.c), cloud.records, budget.uids, budget.records)
    BY <2>1 DEF Owning, EntriesOwned
  <2> QED
    BY <1>3, <2>1, <2>2 DEF EntryOwned, PassOwned, Owned
<1>6. CASE LiveOf(Type) \subseteq pass.ids
  <2>1. pass.ids \subseteq Targets(pass)
    BY DEF Targets
  <2> QED
    BY <1>6, <2>1 DEF Owning, TargetsOwned, PassOwned
<1> QED
  BY <1>4, <1>5, <1>6 DEF Settled

\* What a status patch writes.
PatchForm(c, e) ==
    \/ c \in pass.rest /\ \E accepted \in BOOLEAN : e = [Start(c) EXCEPT !.accepted = accepted]
    \/ /\ Working(pass) /\ c = pass.c
       /\ \/ \E why \in Reasons : e = Reporting(why)
          \/ (Settled \/ LegacyBound) /\ e = Binding(LiveOf(Type))
          \/ e = Completing
          \/ \E r \in RecordIds : e = Binding(Rebased(c, Source(pass)).ids \ {r})
          \/ \E r \in pass.add : e = Binding(Rebased(c, Source(pass)).ids \cup {r})

\* The entries that a status patch writes are owned.
LEMMA PatchedOwned ==
    ASSUME Base, Owning, Kinds, NEW c, NEW e, EntryPatched(c, e), PatchForm(c, e)
    PROVE  EntryOwned(c, e, NextItems(c), cloud'.records, budget'.uids, budget'.records)
<1>1. BooksGrow /\ RecordsKept /\ c \in Claims /\ ItemsFrom(c, ItemsOf(c), NextItems(c), budget.uids)
      /\ e \in Entry
  BY StepBooks, StepRecords, ItemsStep DEF Owning, EntryPatched
<1>2. CASE c \in pass.rest /\ \E accepted \in BOOLEAN : e = [Start(c) EXCEPT !.accepted = accepted]
  <2> DEFINE i == pass.unit.item[c]
             p == [c |-> c, unit |-> pass.unit]
  <2>1. i \in ItemsOf(c) /\ i # NoItem /\ i.uid # 0 /\ p.c = c /\ Source(p) = i
    BY <1>1, <1>2, PassTyped, ItemShape DEF ItemsOf, Base, PassOK, Source
  <2>2. Start(c) \in Entry /\ Start(c).uid = i.uid /\ Start(c).ids = Rebased(c, i).ids
    BY <1>1, StartTyped
  <2>3. e.uid = i.uid /\ e.ids = Rebased(c, i).ids
    BY <1>2, <2>2 DEF Entry
  <2> HIDE DEF i, p
  <2>4. PassOwned(e.ids, p, cloud.records, budget.records)
    BY <1>1, <2>1, <2>3, RebasedOwned
  <2>5. Known(ItemsOf(c), budget.uids)
    BY <1>1 DEF Owning, ItemsKnown
  <2>6. EntryOwned(c, e, ItemsOf(c), cloud.records, budget.uids, budget.records)
    BY <2>1, <2>3, <2>4, <2>5 DEF EntryOwned, PassOwned, Owned, Known
  <2> QED
    BY <1>1, <2>6, EntryKept
<1>3. ASSUME Working(pass), c = pass.c, NEW ids \in SUBSET RecordIds, e.uid = Source(pass).uid, e.ids = ids,
             PassOwned(ids, pass, cloud.records, budget.records)
      PROVE  EntryOwned(c, e, NextItems(c), cloud'.records, budget'.uids, budget'.records)
  BY <1>1, <1>3, PassEntryOwned
<1>4. ASSUME Working(pass), c = pass.c
      PROVE  /\ Start(c) \in Entry /\ Start(c).uid = Source(pass).uid
             /\ Start(c).ids = Rebased(c, Source(pass)).ids /\ Start(c).ids \in SUBSET RecordIds
             /\ PassOwned(Start(c).ids, pass, cloud.records, budget.records)
             /\ Source(pass).gen \in Generations
  <2>1. Source(pass) \in ItemsOf(c) /\ Source(pass) = pass.unit.item[c] /\ Source(pass).gen \in Generations
    BY <1>4, WorkingFacts DEF ItemsOf
  <2>2. Start(c) \in Entry /\ Start(c).uid = Source(pass).uid /\ Start(c).ids = Rebased(c, Source(pass)).ids
    BY <1>1, <2>1, StartTyped
  <2> QED
    BY <1>1, <1>4, <2>1, <2>2, RebasedOwned DEF Entry
<1>5. CASE Working(pass) /\ c = pass.c /\ (e = Completing \/ \E why \in Reasons : e = Reporting(why))
  <2>1. e.uid = Source(pass).uid /\ e.ids = Start(c).ids
    BY <1>4, <1>5 DEF Completing, Reporting, Entry
  <2> QED
    BY <1>3, <1>4, <1>5, <2>1
<1>6. ASSUME Working(pass), c = pass.c, NEW ids \in SUBSET RecordIds, e = Binding(ids),
             PassOwned(ids, pass, cloud.records, budget.records)
      PROVE  EntryOwned(c, e, NextItems(c), cloud'.records, budget'.uids, budget'.records)
  <2>1. e.uid = Source(pass).uid /\ e.ids = ids
    BY <1>4, <1>6 DEF Binding, Entry
  <2> QED
    BY <1>3, <1>6, <2>1
<1>7. CASE Working(pass) /\ c = pass.c /\ (Settled \/ LegacyBound) /\ e = Binding(LiveOf(Type))
  <2>1. LiveOf(Type) \in SUBSET RecordIds
    BY DEF LiveOf
  <2> QED
    BY <1>6, <1>7, <2>1, SettledOwned
<1>8. CASE Working(pass) /\ c = pass.c /\ \E r \in RecordIds : e = Binding(Rebased(c, Source(pass)).ids \ {r})
  <2>1. PICK r \in RecordIds : e = Binding(Start(c).ids \ {r})
    BY <1>4, <1>8
  <2>2. PassOwned(Start(c).ids \ {r}, pass, cloud.records, budget.records) /\ Start(c).ids \ {r} \in SUBSET RecordIds
    BY <1>4, <1>8 DEF PassOwned
  <2> QED
    BY <1>6, <1>8, <2>1, <2>2
<1>9. CASE Working(pass) /\ c = pass.c /\ \E r \in pass.add : e = Binding(Rebased(c, Source(pass)).ids \cup {r})
  <2>1. PICK r \in pass.add : e = Binding(Start(c).ids \cup {r})
    BY <1>4, <1>9
  <2>2. pass.add \subseteq Targets(pass) /\ pass.add \subseteq RecordIds
    BY PassTyped DEF Targets, Pass
  <2>3. PassOwned(Start(c).ids \cup {r}, pass, cloud.records, budget.records) /\ Start(c).ids \cup {r} \in SUBSET RecordIds
    BY <1>4, <1>9, <2>1, <2>2 DEF PassOwned, Owning, TargetsOwned
  <2> QED
    BY <1>6, <1>9, <2>1, <2>3
<1> QED
  BY <1>2, <1>5, <1>7, <1>8, <1>9 DEF PatchForm

LEMMA OldEntryOwned ==
    ASSUME Base, Owning, Kinds, NEW c \in Claims, NEW e \in EntriesOf(c) \cup {NoEntry}
    PROVE  EntryOwned(c, e, NextItems(c), cloud'.records, budget'.uids, budget'.records)
<1>1. BooksGrow /\ RecordsKept /\ ItemsFrom(c, ItemsOf(c), NextItems(c), budget.uids)
  BY StepBooks, StepRecords, ItemsStep DEF Owning
<1>2. CASE e = NoEntry
  BY <1>1, <1>2, NoEntryOwned
<1>3. CASE e \in EntriesOf(c)
  <2>1. e \in Entry
    BY <1>3, CopiesTyped
  <2>2. EntryOwned(c, e, ItemsOf(c), cloud.records, budget.uids, budget.records)
    BY <1>3 DEF Owning, EntriesOwned
  <2> QED
    BY <1>1, <2>1, <2>2, EntryKept
<1> QED
  BY <1>2, <1>3

LEMMA RecordPatches ==
    ASSUME Base, RecordKinds
    PROVE  EntriesStay \/ Pruned \/ \E c, e : EntryPatched(c, e) /\ PatchForm(c, e)
<1>1. CASE \E c \in pass.rest, accepted \in BOOLEAN : EntryPatched(c, [Start(c) EXCEPT !.accepted = accepted])
  BY <1>1 DEF PatchForm
<1>2. CASE Working(pass) /\ \E why \in Reasons : EntryPatched(pass.c, Reporting(why))
  BY <1>2 DEF PatchForm
<1>3. CASE ReportsReady /\ EntryPatched(pass.c, Reporting("Programmed"))
  BY <1>2, <1>3 DEF ReportsReady, Reported, Reasons
<1>4. CASE SetsReady /\ EntryPatched(pass.c, Binding(LiveOf(Type)))
  BY <1>4 DEF PatchForm, SetsReady, Looking, Working
<1>5. CASE Completes /\ EntryPatched(pass.c, Completing)
  BY <1>5 DEF PatchForm, Completes, Looking, Working
<1>6. CASE BindsLegacy /\ EntryPatched(pass.c, Binding(LiveOf(Type)))
  BY <1>6 DEF PatchForm, BindsLegacy, Looking, Working
<1>7. CASE DropsOdd /\ \E r \in RecordIds \ Live : EntryPatched(pass.c, Binding(Rebased(pass.c, Source(pass)).ids \ {r}))
  BY <1>7 DEF PatchForm, DropsOdd, Looking, Working
<1>8. CASE LedgerAdds /\ \E r \in pass.add : EntryPatched(pass.c, Binding(Rebased(pass.c, Source(pass)).ids \cup {r}))
  BY <1>8 DEF PatchForm, LedgerAdds, Working
<1>9. CASE LedgerDrops /\ \E r \in pass.drop : EntryPatched(pass.c, Binding(Rebased(pass.c, Source(pass)).ids \ {r}))
  <2>1. pass.drop \subseteq RecordIds
    BY PassTyped DEF Pass
  <2> QED
    BY <1>9, <2>1 DEF PatchForm, LedgerDrops, Working
<1> QED
  BY RecordStays, <1>1, <1>2, <1>3, <1>4, <1>5, <1>6, <1>7, <1>8, <1>9

\* Which entries a step leaves in the copies of the ledger.
LEMMA EntrySources ==
    ASSUME Base, Kinds, NEW c \in Claims, NEW x \in NextEntries(c)
    PROVE  x \in EntriesOf(c) \cup {NoEntry} \/ (EntryPatched(c, x) /\ PatchForm(c, x))
<1>1. CASE EntriesStay
  BY <1>1, CopiesTyped DEF EntriesStay, NextEntries, EntriesOf
<1>2. CASE Pruned
  BY <1>2, CopiesTyped DEF Pruned, NextEntries, EntriesOf, Idle
<1>3. ASSUME NEW d, NEW e, EntryPatched(d, e), PatchForm(d, e)
      PROVE  x \in EntriesOf(c) \cup {NoEntry} \/ (EntryPatched(c, x) /\ PatchForm(c, x))
  <2>1. unit'.entry[c] = IF c = d THEN e ELSE unit.entry[c]
    BY <1>3, PassTyped DEF EntryPatched, Base, Unit
  <2>2. x \in EntriesOf(c) \cup {NoEntry} \/ (c = d /\ x = e)
    BY <1>3, <2>1, CopiesTyped DEF EntryPatched, NextEntries, EntriesOf
  <2> QED
    BY <1>3, <2>2
<1> QED
  BY <1>1, <1>2, <1>3, QuietStays, OtherStays, CoreStays, RecordPatches DEF Kinds

LEMMA EntriesOwnedStep == ASSUME Base, Owning, Kinds PROVE EntriesOwned'
<1>1. ASSUME NEW c \in Claims, NEW x \in NextEntries(c)
      PROVE  EntryOwned(c, x, NextItems(c), cloud'.records, budget'.uids, budget'.records)
  BY EntrySources, OldEntryOwned, PatchedOwned
<1> QED
  BY <1>1 DEF EntriesOwned, EntriesOf, ItemsOf, NextEntries, NextItems

\* A pass that goes on working.
LEMMA WorkingKept ==
    ASSUME Base, Owning, Kinds, NEW p \in Pass, Working(pass), p.c = pass.c, p.unit = pass.unit,
           Targets(p) \subseteq Targets(pass)
    PROVE  PassOwned(Targets(p), p, cloud'.records, budget'.records)
<1>1. BooksGrow /\ RecordsKept
  BY StepBooks, StepRecords DEF Owning
<1>2. PassOwned(Targets(pass), pass, cloud.records, budget.records)
  BY DEF Owning, TargetsOwned
<1>3. Source(p) = Source(pass) /\ Targets(p) \in SUBSET RecordIds
  BY TargetRange DEF Source
<1>4. PassOwned(Targets(p), p, cloud.records, budget.records)
  BY <1>2, <1>3 DEF PassOwned
<1> QED
  BY <1>1, <1>3, <1>4, TargetsKept

LEMMA NoBatchTargets == NoBatch.deletes = {} /\ DOMAIN NoBatch.patches = {} /\ NoBatch.posts = {}
<1>1. DOMAIN <<>> = {}
  OBVIOUS
<1> QED
  BY <1>1 DEF NoBatch

LEMMA IdlePass == ~Working(Idle) /\ Idle.at = "idle"
  BY DEF Idle, Working

LEMMA TargetsStep ==
    ASSUME Base, Owning, Kinds, RecordKinds, Working(pass')
    PROVE  PassOwned(Targets(pass'), pass', cloud'.records, budget'.records)
<1> DEFINE Goal == PassOwned(Targets(pass'), pass', cloud'.records, budget'.records)
<1>0. /\ BooksGrow /\ RecordsKept /\ pass \in Pass /\ pass.ids \subseteq RecordIds /\ pass.add \subseteq RecordIds
      /\ budget.records \in Nat
  BY StepBooks, StepRecords, PassTyped, TargetRange, BudgetRange DEF Owning
<1>1. ASSUME Working(pass), pass' \in Pass, pass'.c = pass.c, pass'.unit = pass.unit,
             Targets(pass') \subseteq Targets(pass)
      PROVE  Goal
  BY <1>1, WorkingKept
<1>2. CASE pass' = Idle \/ pass' = Continue
  BY <1>2, ContinueOK, IdlePass
<1>3. CASE Quiet
  BY <1>1, <1>2, <1>3, <1>0 DEF Quiet, QuietPass
<1>4. CASE Accepted
  <2>0. PICK c \in pass.rest, accepted \in BOOLEAN :
           \E next \in {Idle, [pass EXCEPT !.at = "look", !.c = c, !.rest = @ \ {c},
                                     !.ids = Rebased(c, pass.unit.item[c]).ids]} :
              Outcome(c, [Start(c) EXCEPT !.accepted = accepted], next)
    BY <1>4 DEF Accepted
  <2> DEFINE begun == [Start(c) EXCEPT !.accepted = accepted]
  <2>a. PICK next \in {Idle, [pass EXCEPT !.at = "look", !.c = c, !.rest = @ \ {c},
                                     !.ids = Rebased(c, pass.unit.item[c]).ids]} : Outcome(c, begun, next)
    BY <2>0
  <2> HIDE DEF begun
  <2>b. pass' \in {Idle, next}
    BY <2>a, OutcomeLeft
  <2>1. pass' = Idle \/ pass' = [pass EXCEPT !.at = "look", !.c = c, !.rest = @ \ {c},
                                          !.ids = Rebased(c, pass.unit.item[c]).ids]
    BY <2>a, <2>b
  <2> DEFINE i == pass.unit.item[c]
             p == [pass EXCEPT !.at = "look", !.c = c, !.rest = @ \ {c}, !.ids = Rebased(c, i).ids]
  <2>2. c \in Claims /\ i \in Items /\ i \in ItemsOf(c) /\ pass.batch = NoBatch /\ pass.add = {}
    BY <1>4, PassTyped DEF Accepted, Base, PassOK, ItemsOf
  <2>3. /\ p.c = c /\ p.unit = pass.unit /\ p.ids = Rebased(c, i).ids /\ p.batch = NoBatch /\ p.add = {}
        /\ p \in Pass
    <3>1. Rebased(c, i).ids \subseteq RecordIds
      BY <2>2, RebasedTyped DEF Entry
    <3> QED
      BY <1>0, <2>2, <3>1 DEF Pass, Stages
  <2> HIDE DEF p
  <2>4. Source(p) = i /\ Targets(p) = Rebased(c, i).ids
    BY <2>3, NoBatchTargets DEF Source, Targets
  <2>5. PassOwned(Targets(p), p, cloud.records, budget.records)
    BY <2>2, <2>3, <2>4, RebasedOwned
  <2>6. Targets(p) \in SUBSET RecordIds
    BY <2>3, TargetRange
  <2>7. PassOwned(Targets(p), p, cloud'.records, budget'.records)
    BY <1>0, <2>3, <2>5, <2>6, TargetsKept
  <2> QED
    BY <1>2, <2>1, <2>7 DEF p
<1>5. CASE ReportsOther \/ ReportsReady \/ Completes \/ DropsOdd \/ Lost
  BY <1>2, <1>5, OutcomeLeft DEF ReportsOther, ReportsReady, Completes, DropsOdd, Lost, Reported
<1>6. CASE SetsReady
  <2>1. pass' = Idle \/ pass' = [pass EXCEPT !.at = "ready"]
    BY <1>6, OutcomeLeft DEF SetsReady
  <2>2. CASE pass' = [pass EXCEPT !.at = "ready"]
    <3>1. /\ pass' \in Pass /\ pass'.c = pass.c /\ pass'.unit = pass.unit /\ pass'.ids = pass.ids
          /\ pass'.add = pass.add /\ pass'.batch = pass.batch
      BY <1>0, <2>2 DEF Pass, Stages
    <3> QED
      BY <1>1, <1>6, <3>1 DEF Targets, SetsReady, Looking, Working
  <2> QED
    BY <1>2, <2>1, <2>2
<1>7. CASE PlansNormal
  <2> DEFINE ops == Operations(Type, LiveOf(Type), Source(pass).want)
  <2>1. Working(pass) /\ LiveOf(Type) \subseteq pass.ids /\ LiveOf(Type) \in SUBSET RecordIds
        /\ Source(pass).want \in Contents
    BY <1>7, WorkingFacts DEF PlansNormal, Looking, Working, LiveOf
  <2>2. ops.deletes \subseteq LiveOf(Type) /\ DOMAIN ops.patches \subseteq LiveOf(Type)
    BY <2>1, OperationsFacts
  <2> HIDE DEF ops
  <2>3. pass' = [pass EXCEPT !.at = "fence", !.batch = ops] /\ pass' \in Pass
    BY <1>7 DEF PlansNormal, ops, PassOK
  <2>4. /\ pass'.c = pass.c /\ pass'.unit = pass.unit /\ pass'.ids = pass.ids
        /\ pass'.add = pass.add /\ pass'.batch = ops
    BY <1>0, <2>3 DEF Pass
  <2> QED
    BY <1>1, <2>1, <2>2, <2>3, <2>4 DEF Targets
<1>8. CASE BindsLegacy
  <2>0. Working(pass) /\ pass.at = "look" /\ pass.batch = NoBatch /\ pass.add = {} /\ LegacyBound
    BY <1>8 DEF BindsLegacy, Looking, Working, Base, PassOK
  <2>1. pass' = Idle \/ pass' = [pass EXCEPT !.ids = LiveOf(Type)]
    BY <1>8, OutcomeLeft DEF BindsLegacy
  <2> DEFINE p == [pass EXCEPT !.ids = LiveOf(Type)]
  <2>2. LiveOf(Type) \in SUBSET RecordIds
    BY DEF LiveOf
  <2>3. p \in Pass /\ p.c = pass.c /\ p.unit = pass.unit /\ p.ids = LiveOf(Type) /\ p.batch = NoBatch /\ p.add = {}
    BY <1>0, <2>0, <2>2 DEF Pass
  <2> HIDE DEF p
  <2>4. Source(p) = Source(pass) /\ Targets(p) = LiveOf(Type)
    BY <2>3, NoBatchTargets DEF Source, Targets
  <2>5. PassOwned(Targets(p), p, cloud.records, budget.records)
    BY <2>0, <2>3, <2>4, SettledOwned DEF PassOwned
  <2>6. PassOwned(Targets(p), p, cloud'.records, budget'.records)
    BY <1>0, <2>2, <2>3, <2>4, <2>5, TargetsKept
  <2> QED
    BY <1>2, <2>1, <2>6 DEF p
<1>9. CASE PlansDeletion
  <2>0. Working(pass) /\ pass.add = {} /\ pass' \in Pass
    BY <1>9 DEF PlansDeletion, Looking, Working, Base, PassOK
  <2>1. PICK ids \in {pass.ids, Source(pass).adopt} :
           pass' = [pass EXCEPT !.at = "fence", !.batch = [NoBatch EXCEPT !.deletes = ids \cap Live]]
    BY <1>9 DEF PlansDeletion
  <2> DEFINE b == [NoBatch EXCEPT !.deletes = ids \cap Live]
  <2>2. b.deletes = ids \cap Live /\ DOMAIN b.patches = {}
    BY NoBatchTargets DEF NoBatch
  <2> HIDE DEF b
  <2>3. /\ pass'.c = pass.c /\ pass'.unit = pass.unit /\ pass'.ids = pass.ids
        /\ pass'.add = pass.add /\ pass'.batch = b
    BY <1>0, <2>1 DEF Pass, b
  <2>4. Targets(pass') = pass.ids \cup (ids \cap Live) /\ Source(pass') = Source(pass)
    BY <2>0, <2>2, <2>3 DEF Targets, Source
  <2>5. \A r \in Live : r <= budget.records
    BY <1>0 DEF Live, Owning, RecordsMade
  <2>6. PassOwned(pass.ids, pass, cloud.records, budget.records)
    BY <2>0 DEF Owning, TargetsOwned, Targets, PassOwned
  <2>7. PassOwned(Targets(pass'), pass', cloud.records, budget.records)
    BY <2>3, <2>4, <2>5, <2>6 DEF PassOwned, Owned
  <2>8. Targets(pass') \in SUBSET RecordIds
    BY <2>0, TargetRange
  <2> QED
    BY <1>0, <2>0, <2>7, <2>8, TargetsKept
<1>10. CASE Permitted
  <2>1. /\ pass' \in Pass /\ pass'.c = pass.c /\ pass'.unit = pass.unit /\ pass'.ids = pass.ids
        /\ pass'.add = pass.add /\ pass'.batch = pass.batch
    BY <1>0, <1>10 DEF Permitted, Pass, PassOK
  <2> QED
    BY <1>1, <1>10, <2>1 DEF Targets, Permitted, Working
<1>11. CASE Answered
  <2>0. Working(pass) /\ Sent
    BY <1>11 DEF Answered, Sent, Working
  <2>1. /\ pass' \in Pass /\ pass'.c = pass.c /\ pass'.unit = pass.unit /\ pass'.ids = pass.ids
        /\ pass'.add = Posted \cup DOMAIN pass.batch.patches /\ pass'.batch = NoBatch
    BY <1>0, <1>11 DEF Answered, Pass, PassOK
  <2>2. Targets(pass') = Posted \cup pass.ids \cup DOMAIN pass.batch.patches /\ Source(pass') = Source(pass)
    BY <2>1, NoBatchTargets DEF Targets, Source
  <2> DEFINE old == pass.ids \cup DOMAIN pass.batch.patches
  <2>3. old \subseteq Targets(pass) /\ old \in SUBSET RecordIds
    BY <1>0, TargetRange DEF Targets
  <2> HIDE DEF old
  <2>4. PassOwned(old, pass, cloud.records, budget.records)
    BY <2>0, <2>3 DEF Owning, TargetsOwned, PassOwned
  <2>5. PassOwned(old, pass, cloud'.records, budget'.records)
    BY <1>0, <2>3, <2>4, TargetsKept
  <2>6. \A r \in Posted : r <= budget'.records /\ cloud'.records[r].maker = <<pass.c, Source(pass).uid>>
    BY <2>0, SentRecords DEF Owning
  <2> QED
    BY <2>1, <2>2, <2>5, <2>6 DEF PassOwned, Owned, old
<1>12. CASE AlreadyGone
  <2>1. /\ pass' \in Pass /\ pass'.c = pass.c /\ pass'.unit = pass.unit /\ pass'.ids = pass.ids
        /\ pass'.add = pass.add /\ pass'.batch = NoBatch
    BY <1>0, <1>12 DEF AlreadyGone, Pass, PassOK
  <2> QED
    BY <1>1, <1>12, <2>1, NoBatchTargets DEF Targets, AlreadyGone, Working
<1>13. CASE LedgerAdds \/ LedgerDrops
  <2>a. CASE LedgerAdds
    <3>1. PICK r \in pass.add :
             Outcome(pass.c, [Start(pass.c) EXCEPT !.ids = Rebased(pass.c, Source(pass)).ids \cup {r}],
                     [pass EXCEPT !.add = @ \ {r}])
      BY <2>a DEF LedgerAdds
    <3> DEFINE e == [Start(pass.c) EXCEPT !.ids = Rebased(pass.c, Source(pass)).ids \cup {r}]
               next == [pass EXCEPT !.add = @ \ {r}]
    <3>2. Outcome(pass.c, e, next)
      BY <3>1
    <3>3. next \in Pass /\ next.c = pass.c /\ next.unit = pass.unit /\ next.ids = pass.ids
          /\ next.add \subseteq pass.add /\ next.batch = pass.batch
      BY <1>0 DEF Pass
    <3> HIDE DEF e, next
    <3>4. pass' \in {Idle, next}
      BY <3>2, OutcomeLeft
    <3>5. CASE pass' = next
      BY <1>1, <1>13, <3>3, <3>5 DEF Targets, LedgerAdds, LedgerDrops, Working
    <3> QED
      BY <1>2, <3>4, <3>5
  <2>b. CASE LedgerDrops
    <3>1. PICK r \in pass.drop :
             Outcome(pass.c, [Start(pass.c) EXCEPT !.ids = Rebased(pass.c, Source(pass)).ids \ {r}],
                     [pass EXCEPT !.drop = @ \ {r}])
      BY <2>b DEF LedgerDrops
    <3> DEFINE e == [Start(pass.c) EXCEPT !.ids = Rebased(pass.c, Source(pass)).ids \ {r}]
               next == [pass EXCEPT !.drop = @ \ {r}]
    <3>2. Outcome(pass.c, e, next)
      BY <3>1
    <3>3. next \in Pass /\ next.c = pass.c /\ next.unit = pass.unit /\ next.ids = pass.ids
          /\ next.add = pass.add /\ next.batch = pass.batch
      BY <1>0 DEF Pass
    <3> HIDE DEF e, next
    <3>4. pass' \in {Idle, next}
      BY <3>2, OutcomeLeft
    <3>5. CASE pass' = next
      BY <1>1, <1>13, <3>3, <3>5 DEF Targets, LedgerAdds, LedgerDrops, Working
    <3> QED
      BY <1>2, <3>4, <3>5
  <2> QED
    BY <1>13, <2>a, <2>b
<1>14. CASE Pruned
  BY <1>2, <1>14 DEF Pruned
<1> QED
  BY <1>3, <1>4, <1>5, <1>6, <1>7, <1>8, <1>9, <1>10, <1>11, <1>12, <1>13, <1>14 DEF RecordKinds

LEMMA TargetsOwnedStep == ASSUME Base, Owning, Kinds, Base' PROVE TargetsOwned'
<1>1. SUFFICES ASSUME Working(pass') PROVE PassOwned(Targets(pass'), pass', cloud'.records, budget'.records)
  BY DEF TargetsOwned
<1>2. CASE pass' = pass
  BY <1>1, <1>2, WorkingKept, PassTyped
<1>3. CASE pass' # pass
  <2>1. CASE RecordKinds
    BY <1>1, <2>1, TargetsStep
  <2>2. CASE Quiet
    BY <1>1, <1>3, <2>2, IdlePass DEF Quiet, QuietPass
  <2>3. CASE Wiped
    <3>1. pass'.at = "release"
      BY <2>3, PassTyped DEF Wiped, Pass
    <3> QED
      BY <1>1, <3>1 DEF Working
  <2>4. CASE UnitGone
    BY <1>1, <1>3, <2>4, IdlePass DEF UnitGone
  <2>5. CASE UNCHANGED vars \/ UnitMarked \/ Delivered \/ Outside \/ \E c \in Claims : CoreKinds(c)
    BY <1>3, <2>5, CoreStays DEF vars, UnitMarked, Delivered, Outside
  <2> QED
    BY <2>1, <2>2, <2>3, <2>4, <2>5 DEF Kinds
<1> QED
  BY <1>2, <1>3

LEMMA OwningStep == ASSUME Base, Owning, [Next]_vars PROVE Owning'
<1>1. Kinds /\ Base'
  BY StepKinds
<1>2. ItemsKnown'
  BY <1>1, ItemsStep DEF Owning, ItemsKnown, NextItems, ItemsOf
<1>3. RecordsMade'
  BY <1>1, StepRecords DEF Owning, RecordsMade
<1> QED
  BY <1>1, <1>2, <1>3, EntriesOwnedStep, TargetsOwnedStep DEF Owning

LEMMA InitOwning == ASSUME Init PROVE Owning
<1>1. Started /\ Base
  BY InitStarted, InitBase
<1>2. NoItem.uid = 0 /\ NoItem.adopt = {} /\ Idle.unit = NoUnit /\ NoUnit.item = [c \in Claims |-> NoItem]
      /\ NoUnit.entry = [c \in Claims |-> NoEntry] /\ NoEntry.uid = 0 /\ NoEntry.ids = {} /\ ~NoEntry.completed
  BY DEF NoItem, Idle, NoUnit, NoEntry
<1>3. \A c \in Claims : \A i \in ItemsOf(c) : i = NoItem
  BY <1>1, <1>2 DEF Started, ItemsOf
<1>4. ItemsKnown
  BY <1>1, <1>2, <1>3 DEF ItemsKnown, Known, Started
<1>5. RecordsMade
  BY <1>1 DEF Started, RecordsMade
<1>6. TargetsOwned
  BY <1>1, IdlePass DEF Started, TargetsOwned
<1>7. ASSUME NEW c \in Claims, NEW e \in EntriesOf(c)
      PROVE  EntryOwned(c, e, ItemsOf(c), cloud.records, budget.uids, budget.records)
  <2>1. PICK old \in {FALSE, Legacy}, v \in Values :
          /\ \A d \in Claims : unit.entry[d] = [NoEntry EXCEPT !.ids = LegacyIdsOf(old, d)]
          /\ \A d \in Claims : old => /\ LegacyId(d) \in RecordIds /\ LegacyId(d) <= budget.records
                                      /\ cloud.records[LegacyId(d)] = LegacyRecord(d, v)
    BY <1>1 DEF Started
  <2>5. budget.uids = 0
    BY <1>1 DEF Started
  <2>2. e \in {unit.entry[c], NoEntry}
    BY <1>1, <1>2, <1>7 DEF EntriesOf, Started
  <2>a. CASE e = NoEntry
    BY <1>2, <1>3, <2>a, <2>5 DEF EntryOwned
  <2>b. CASE e = [NoEntry EXCEPT !.ids = LegacyIdsOf(old, c)]
    <3>1. NoEntry \in Entry
      BY NoUnitTyped
    <3>2. e.uid = 0 /\ ~e.completed /\ e.ids = LegacyIdsOf(old, c)
      BY <1>2, <2>b, <3>1 DEF Entry
    <3>3. CASE old = FALSE
      <4>1. e.ids = {}
        BY <3>2, <3>3 DEF LegacyIdsOf
      <4> QED
        BY <1>2, <1>3, <2>5, <3>2, <4>1 DEF EntryOwned
    <3>4. CASE old = TRUE
      <4>1. e.ids = {LegacyId(c)}
        BY <3>2, <3>4 DEF LegacyIdsOf
      <4>2. LegacyId(c) \in RecordIds /\ LegacyId(c) <= budget.records
            /\ cloud.records[LegacyId(c)] = LegacyRecord(c, v)
        BY <2>1, <3>4
      <4>3. LegacyRecord(c, v).maker = <<c, 0>>
        BY DEF LegacyRecord
      <4>4. \A r \in e.ids : r <= budget.records /\ cloud.records[r].maker = <<c, 0>>
        BY <4>1, <4>2, <4>3
      <4>5. \A i \in ItemsOf(c) : i.uid = 0
        BY <1>2, <1>3
      <4>6. \A i : \A r \in e.ids : Owned(cloud.records[r], r, c, i)
        BY <4>4 DEF Owned
      <4>7. e.uid <= budget.uids /\ (e.completed => e.uid # 0)
        BY <2>5, <3>2
      <4> QED
        BY <4>4, <4>6, <4>7 DEF EntryOwned
    <3>5. Legacy \in BOOLEAN
      BY CloudflareAssumption
    <3>6. old = FALSE \/ old = TRUE
      BY <3>5
    <3> QED
      BY <3>3, <3>4, <3>6
  <2> QED
    BY <2>1, <2>2, <2>a, <2>b
<1> QED
  BY <1>4, <1>5, <1>6, <1>7 DEF Owning, EntriesOwned

LEMMA OwningAlways == Spec => [](Base /\ Owning)
<1>1. Init => Owning
  BY InitOwning
<1>2. Base /\ Owning /\ [Next]_vars => Owning'
  BY OwningStep
<1> QED
  BY <1>1, <1>2, BaseAlways, PTL DEF Spec

LEMMA OwnRecordsStep ==
    ASSUME Base, Owning, [Next]_vars, pass.at = "batch", pass' # pass,
           NEW r \in Live, cloud'.records[r] # cloud.records[r]
    PROVE  \/ cloud.records[r].maker \in {<<pass.c, Source(pass).uid>>, <<pass.c, 0>>}
           \/ r \in Source(pass).adopt
<1>1. Kinds
  BY StepKinds
<1>2. Sent
  <2>1. CASE RecordKinds
    BY <2>1, RecordStepCloud
  <2>2. CASE UNCHANGED vars \/ Quiet \/ UnitGone \/ UnitMarked \/ Delivered \/ \E c \in Claims : CoreKinds(c)
    BY <2>2, OtherStepCloud
  <2>3. CASE Wiped \/ Outside
    BY <2>3 DEF Wiped, Outside
  <2> QED
    BY <1>1, <2>1, <2>2, <2>3 DEF Kinds
<1>3. Working(pass) /\ r \in RecordIds /\ cloud.records[r] # Gone
  BY DEF Working, Live
<1>4. cloud'.records = Applied /\ \A s \in Posted : s > budget.records
  BY <1>2, SentRecords DEF Owning
<1>5. r \notin Posted
  BY <1>3, <1>4 DEF Owning, RecordsMade
<1>6. r \in (DOMAIN pass.batch.patches) \cup pass.batch.deletes
  BY <1>2, <1>3, <1>4, <1>5, AppliedFacts DEF Sent
<1>7. r \in Targets(pass)
  BY <1>6 DEF Targets
<1> QED
  BY <1>3, <1>7 DEF Owning, TargetsOwned, PassOwned, Owned

\* A batch changes or deletes only records that the claim's incarnation made,
\* that were bound to the claim before UIDs, or that it adopts, whatever the
\* cache, crashes, lost answers and others do (reconcileNormal and
\* reconcileDeleteWithContext).
THEOREM OwnRecordsOnlyAlways == Spec => OwnRecordsOnly
<1>1. Base /\ Owning /\ [Next]_vars =>
        [pass.at = "batch" /\ pass' # pass =>
          \A r \in Live : cloud'.records[r] # cloud.records[r] =>
              \/ cloud.records[r].maker \in {<<pass.c, Source(pass).uid>>, <<pass.c, 0>>}
              \/ r \in Source(pass).adopt]_vars
  BY OwnRecordsStep
<1> QED
  BY <1>1, OwningAlways, PTL DEF Spec, OwnRecordsOnly

-----------------------------------------------------------------------------
(* Completed deletions.                                                    *)

\* Entry e of claim c, whose items are S: when it is completed, every copy of
\* the incarnation asks for deletion, and nothing it made is left.
CleanEntry(c, e, S, recs) ==
    e.completed =>
        \A i \in S : i.uid = e.uid =>
            /\ i.deleting
            /\ i.adopt = {} => \A r \in RecordIds : recs[r].maker # <<c, e.uid>>

Clean ==
    /\ \A c \in Claims : CleanEntry(c, unit.entry[c], ItemsOf(c), cloud.records)
    /\ Working(pass) /\ pass.batch.posts # {} => ~Source(pass).deleting

\* A step keeps a deletion asked for, in every copy of an incarnation.
LEMMA DeletingKept ==
    ASSUME Base, ItemsKnown, Kinds, NEW c \in Claims, NEW i \in NextItems(c)
    PROVE  \/ i.uid > budget.uids \/ i = NoItem
           \/ \E j \in ItemsOf(c) : j.uid = i.uid /\ j.adopt = i.adopt /\ (j.deleting => i.deleting)
<1>1. CASE ItemsStay
  BY <1>1, StayedItems
<1>2. ASSUME NEW d \in Claims, CoreKinds(d)
      PROVE  \/ i.uid > budget.uids \/ i = NoItem
             \/ \E j \in ItemsOf(c) : j.uid = i.uid /\ j.adopt = i.adopt /\ (j.deleting => i.deleting)
  <2>1. PICK x \in Items, b \in Items :
           /\ ItemStep(d, x, b)
           /\ x = NoItem \/ x.uid > budget.uids
              \/ \E j \in ItemsOf(d) : j.uid = x.uid /\ j.adopt = x.adopt /\ (j.deleting => x.deleting)
           /\ b = x \/ b = budget.claim[d]
    <3>0. budget.claim[d] \in Items /\ unit.item[d] \in Items /\ NoItem \in Items
          /\ budget.claim[d] \in ItemsOf(d) /\ unit.item[d] \in ItemsOf(d)
      BY PassTyped DEF Items, ItemsOf
    <3>1. ASSUME NEW x \in Item, Adds(d, x)
          PROVE  /\ ItemStep(d, x, x) /\ x \in Items
                 /\ x.uid > budget.uids
                    \/ \E j \in ItemsOf(d) : j.uid = x.uid /\ j.adopt = x.adopt /\ (j.deleting => x.deleting)
      BY <3>0, <3>1 DEF Adds, Items
    <3>2. ASSUME NEW x \in Item, Toggled(d, x)
          PROVE  /\ ItemStep(d, x, budget.claim[d]) /\ x \in Items
                 /\ \E j \in ItemsOf(d) : j.uid = x.uid /\ j.adopt = x.adopt /\ (j.deleting => x.deleting)
      BY <3>0, <3>2, MatchFields DEF Toggled, Items
    <3>3. ASSUME NEW x \in Item, Edited(d, x)
          PROVE  /\ ItemStep(d, x, x) /\ x \in Items
                 /\ \E j \in ItemsOf(d) : j.uid = x.uid /\ j.adopt = x.adopt /\ (j.deleting => x.deleting)
      BY <3>0, <3>3 DEF Edited, Items
    <3>4. ASSUME Dropped(d) PROVE ItemStep(d, NoItem, budget.claim[d])
      BY <3>4 DEF Dropped
    <3> QED
      BY <1>2, <3>0, <3>1, <3>2, <3>3, <3>4 DEF CoreKinds
  <2>2. CASE c # d
    <3>1. unit'.item[c] = unit.item[c] /\ budget'.claim[c] = budget.claim[c] /\ pass' = pass
          /\ seen'.unit.item[c] \in {unit.item[c], seen.unit.item[c]}
      BY <2>1, <2>2, PassTyped DEF ItemStep, CacheStep, Base, Unit, Budget
    <3> QED
      BY <3>1 DEF NextItems, ItemsOf
  <2>3. CASE c = d
    <3>1. /\ unit'.item[c] = x /\ budget'.claim[c] = b /\ pass' = pass
          /\ seen'.unit.item[c] \in {x, unit.item[c], seen.unit.item[c]}
      BY <2>1, <2>3, PassTyped DEF ItemStep, CacheStep, Base, Unit, Budget
    <3>2. i \in ItemsOf(c) \/ i = x
      BY <2>1, <2>3, <3>1 DEF NextItems, ItemsOf
    <3> QED
      BY <2>1, <2>3, <3>2
  <2> QED
    BY <2>2, <2>3
<1> QED
  BY <1>1, <1>2, QuietStays, OtherStays, RecordStays DEF Kinds

\* No step makes a record for an incarnation that is completed.
LEMMA NoneMade ==
    ASSUME Base, Owning, Clean, Kinds, NEW c \in Claims, unit.entry[c].completed,
           \A r \in RecordIds : cloud.records[r].maker # <<c, unit.entry[c].uid>>,
           NEW r \in RecordIds
    PROVE  cloud'.records[r].maker # <<c, unit.entry[c].uid>>
<1>0. Gone.maker = <<0, 0>> /\ c # 0
  BY DEF Gone, Foreign
<1>1. CASE cloud'.records = cloud.records
  BY <1>1
<1>2. CASE Wiped
  BY <1>0, <1>2 DEF Wiped
<1>3. CASE Outside
  <2>1. cloud'.records[r] \in {cloud.records[r], Gone}
           \/ \E rec : cloud'.records[r] = rec /\ rec.maker = Foreign
    <3>1. CASE ForeignAdds
      <4>1. PICK t \in Types, v \in Values :
               cloud'.records = [cloud.records EXCEPT ![Fresh] = [type |-> t, value |-> v, maker |-> Foreign]]
        BY <3>1 DEF ForeignAdds
      <4> DEFINE rec == [type |-> t, value |-> v, maker |-> Foreign]
      <4>2. cloud'.records[r] \in {cloud.records[r], rec}
        BY <4>1 DEF Base, Cloud
      <4>3. rec.maker = Foreign
        OBVIOUS
      <4> QED
        BY <4>2, <4>3
    <3> QED
      BY <1>3, <3>1 DEF Outside, ForeignRemoves
  <2> QED
    BY <1>0, <2>1 DEF Foreign
<1>4. CASE Sent
  <2>1. Working(pass) /\ RecordsKept /\ r \in Nat /\ budget.records \in Nat
    BY <1>4, SentRecords, BudgetRange DEF Owning, Sent, Working
  <2>2. CASE cloud'.records[r] = Gone
    BY <1>0, <2>2
  <2>3. CASE cloud'.records[r].maker = cloud.records[r].maker
    BY <2>3
  <2>4. CASE r > budget.records
    <3>1. CASE r \in Posted
      <4>1. cloud'.records[r].maker = <<pass.c, Source(pass).uid>> /\ Posted # {}
        BY <1>4, <3>1, SentRecords DEF Owning
      <4>2. pass.batch.posts # {}
        <5>1. budget'.records = budget.records \/ pass.batch.posts # {}
          <6>1. Cardinality({}) = 0
            BY FS_EmptySet
          <6>2. pass.batch.posts = {} => Posted = Fresh..(budget.records + 0)
            BY <6>1 DEF Posted
          <6> QED
            BY <2>1, <3>1, <6>2 DEF Fresh
        <5>2. r <= budget'.records
          BY <1>4, <3>1, SentRecords DEF Owning
        <5> QED
          BY <2>1, <2>4, <5>1, <5>2
      <4>3. ~Source(pass).deleting /\ Source(pass) \in ItemsOf(pass.c) /\ pass.c \in Claims
        BY <2>1, <4>2, WorkingFacts DEF Clean, ItemsOf
      <4>4. ~(pass.c = c /\ Source(pass).uid = unit.entry[c].uid)
        BY <4>3 DEF Clean, CleanEntry
      <4> QED
        BY <4>1, <4>4
    <3>2. CASE r \notin Posted
      <4>1. r > budget'.records
        <5>1. Cardinality(pass.batch.posts) \in Nat
          BY <2>1, PostsFinite
        <5>2. Cardinality(Posted) = Cardinality(pass.batch.posts)
          BY <1>4, <2>1, PostedFacts DEF Sent
        <5> QED
          BY <1>4, <2>1, <2>4, <3>2, <5>1, <5>2 DEF Sent, Posted, Fresh
      <4> QED
        BY <1>4, <2>2, <4>1, SentRecords DEF Owning
    <3> QED
      BY <3>1, <3>2
  <2> QED
    BY <2>1, <2>2, <2>3, <2>4 DEF RecordsKept
<1> QED
  BY <1>1, <1>2, <1>3, <1>4, RecordStepCloud, OtherStepCloud DEF Kinds

LEMMA CleanKept ==
    ASSUME Base, Owning, Clean, Kinds, NEW c \in Claims
    PROVE  CleanEntry(c, unit.entry[c], NextItems(c), cloud'.records)
<1> DEFINE e == unit.entry[c]
<1>1. SUFFICES ASSUME e.completed, NEW i \in NextItems(c), i.uid = e.uid
               PROVE  /\ i.deleting
                      /\ i.adopt = {} => \A r \in RecordIds : cloud'.records[r].maker # <<c, e.uid>>
  BY DEF CleanEntry
<1>2. e.uid # 0 /\ e.uid <= budget.uids /\ e.uid \in Nat /\ budget.uids \in Nat
  <2>1. e \in EntriesOf(c) /\ e \in Entry
    BY PassTyped DEF EntriesOf
  <2> QED
    BY <1>1, <2>1, BudgetRange DEF Owning, EntriesOwned, EntryOwned, Entry
<1>3. NoItem.uid = 0
  BY DEF NoItem
<1>4. PICK j \in ItemsOf(c) : j.uid = i.uid /\ j.adopt = i.adopt /\ (j.deleting => i.deleting)
  BY <1>1, <1>2, <1>3, DeletingKept DEF Owning
<1>5. j.deleting /\ (j.adopt = {} => \A r \in RecordIds : cloud.records[r].maker # <<c, e.uid>>)
  BY <1>1, <1>4 DEF Clean, CleanEntry
<1> QED
  BY <1>1, <1>4, <1>5, NoneMade

\* An entry that a pass writes is completed only if it was before, or if the
\* pass saw that nothing is left.
LEMMA SameCompletion ==
    ASSUME Base, NEW c, NEW e, EntryPatched(c, e), e.completed,
           \/ \E accepted \in BOOLEAN : e = [Start(c) EXCEPT !.accepted = accepted]
           \/ c = pass.c /\ \E why \in Reasons : e = Reporting(why)
           \/ c = pass.c /\ \E ids \in SUBSET RecordIds : e = Binding(ids)
    PROVE  unit.entry[c].completed /\ e.uid = unit.entry[c].uid
<1>1. c \in Claims /\ seen.unit = unit /\ Start(c) \in Entry /\ Start(c).uid = pass.unit.item[c].uid
      /\ Start(c).completed = Rebased(c, pass.unit.item[c]).completed
  BY StartTyped, RebasedTyped, PassTyped DEF EntryPatched, Start
<1>2. Start(c).completed => unit.entry[c].completed /\ Start(c).uid = unit.entry[c].uid
  BY <1>1 DEF Rebased, StatusMatchesItem, NoEntry
<1>3. e.completed = Start(c).completed /\ e.uid = Start(c).uid
  BY <1>1 DEF Reporting, Binding, Entry
<1> QED
  BY <1>2, <1>3

LEMMA NextCompleted ==
    ASSUME Base, Kinds, NEW c \in Claims, unit'.entry[c].completed
    PROVE  \/ unit.entry[c].completed /\ unit'.entry[c].uid = unit.entry[c].uid
           \/ Completes /\ c = pass.c /\ EntryPatched(c, Completing)
<1>0. NoUnit.entry[c] = NoEntry /\ ~NoEntry.completed
  BY DEF NoUnit, NoEntry
<1>1. CASE EntriesStay
  BY <1>0, <1>1 DEF EntriesStay
<1>2. CASE Pruned
  BY <1>0, <1>2 DEF Pruned
<1>3. ASSUME NEW d, NEW e, EntryPatched(d, e)
      PROVE  unit'.entry[c] = IF c = d THEN e ELSE unit.entry[c]
  BY <1>3, PassTyped DEF EntryPatched, Base, Unit
<1>4. ASSUME NEW d, NEW e, EntryPatched(d, e),
             \/ \E accepted \in BOOLEAN : e = [Start(d) EXCEPT !.accepted = accepted]
             \/ d = pass.c /\ \E why \in Reasons : e = Reporting(why)
             \/ d = pass.c /\ \E ids \in SUBSET RecordIds : e = Binding(ids)
      PROVE  unit.entry[c].completed /\ unit'.entry[c].uid = unit.entry[c].uid
  <2>1. CASE c = d
    BY <1>3, <1>4, <2>1, SameCompletion
  <2>2. CASE c # d
    BY <1>3, <1>4, <2>2
  <2> QED
    BY <2>1, <2>2
<1>5. ASSUME NEW ids, EntryPatched(pass.c, Binding(ids)), ids \subseteq RecordIds
      PROVE  unit.entry[c].completed /\ unit'.entry[c].uid = unit.entry[c].uid
  BY <1>4, <1>5
<1>6. CASE Completes /\ EntryPatched(pass.c, Completing)
  BY <1>3, <1>6
<1>7. CASE RecordKinds
  <2>1. CASE \E d \in pass.rest, accepted \in BOOLEAN : EntryPatched(d, [Start(d) EXCEPT !.accepted = accepted])
    BY <1>4, <2>1
  <2>2. CASE \E why \in Reasons : EntryPatched(pass.c, Reporting(why))
    BY <1>4, <2>2
  <2>3. "Programmed" \in Reasons
    BY DEF Reasons
  <2>4. LiveOf(Type) \subseteq RecordIds
    BY DEF LiveOf
  <2>5. Working(pass) => Start(pass.c).ids \subseteq RecordIds /\ Start(pass.c).ids = Rebased(pass.c, Source(pass)).ids
    BY WorkingFacts, StartTyped
  <2>6. CASE SetsReady /\ EntryPatched(pass.c, Binding(LiveOf(Type)))
    BY <1>5, <2>4, <2>6
  <2>7. CASE BindsLegacy /\ EntryPatched(pass.c, Binding(LiveOf(Type)))
    BY <1>5, <2>4, <2>7
  <2>8. CASE DropsOdd /\ \E r \in RecordIds \ Live : EntryPatched(pass.c, Binding(Rebased(pass.c, Source(pass)).ids \ {r}))
    <3>1. Rebased(pass.c, Source(pass)).ids \subseteq RecordIds
      BY <2>5, <2>8 DEF DropsOdd, Looking, Working
    <3> QED
      BY <1>5, <2>8, <3>1
  <2>9. CASE LedgerAdds /\ \E r \in pass.add : EntryPatched(pass.c, Binding(Rebased(pass.c, Source(pass)).ids \cup {r}))
    <3>1. Rebased(pass.c, Source(pass)).ids \subseteq RecordIds /\ pass.add \subseteq RecordIds
      BY <2>5, <2>9, PassTyped DEF LedgerAdds, Working, Pass
    <3> QED
      BY <1>5, <2>9, <3>1
  <2>10. CASE LedgerDrops /\ \E r \in pass.drop : EntryPatched(pass.c, Binding(Rebased(pass.c, Source(pass)).ids \ {r}))
    <3>1. Rebased(pass.c, Source(pass)).ids \subseteq RecordIds
      BY <2>5, <2>10 DEF LedgerDrops, Working
    <3> QED
      BY <1>5, <2>10, <3>1
  <2> QED
    BY <1>1, <1>2, <1>6, <1>7, <2>1, <2>2, <2>3, <2>6, <2>7, <2>8, <2>9, <2>10, RecordStays
<1> QED
  BY <1>1, <1>7, QuietStays, OtherStays, CoreStays DEF Kinds

\* A pass that completes a deletion found nothing left of the incarnation.
LEMMA CompletedClean ==
    ASSUME Base, Owning, Kinds, Completes, EntryPatched(pass.c, Completing)
    PROVE  CleanEntry(pass.c, Completing, NextItems(pass.c), cloud'.records)
<1> DEFINE c == pass.c
           s == Source(pass)
<1>1. /\ Working(pass) /\ c \in Claims /\ s = pass.unit.item[c] /\ s \in Items /\ s.uid # 0 /\ s.deleting
      /\ Completing.uid = s.uid /\ Known(ItemsOf(c), budget.uids)
      /\ cloud'.records = cloud.records /\ (Live = {} \/ s.adopt # {})
  <2>1. Working(pass) /\ s.deleting = TRUE /\ cloud'.records = cloud.records /\ (Live = {} \/ s.adopt # {})
    BY DEF Completes, Looking, Working, Frame
  <2>2. Start(c) \in Entry /\ Start(c).uid = s.uid
    BY <2>1, WorkingFacts, StartTyped
  <2>3. Completing.uid = s.uid
    BY <2>2 DEF Completing, Entry
  <2> QED
    BY <2>1, <2>3, WorkingFacts DEF Owning, ItemsKnown
<1>2. /\ unit.item[c] \in Items /\ unit.item[c].uid = s.uid /\ unit.item[c].deleting /\ unit.item[c] # NoItem
      /\ seen.unit.item[c] = unit.item[c]
  <2>1. unit.item[c] \in Items /\ SourceMatches(unit.item[c], s) /\ NoItem.uid = 0
    BY <1>1, PassTyped DEF EntryPatched, NoItem
  <2> QED
    BY <1>1, <2>1, MatchFields DEF EntryPatched
<1>3. budget.claim[c].deleting
  BY <1>1, <1>2, GenerationFacts
<1>4. \A i \in ItemsOf(c) : i.deleting
  BY <1>1, <1>2, <1>3 DEF ItemsOf
<1>5. ASSUME NEW i \in NextItems(c), i.uid = s.uid
      PROVE  i \in ItemsOf(c)
  <2>1. ItemsStay
    BY RecordStays DEF RecordKinds
  <2> QED
    <3>1. i \in ItemsOf(c) \cup {NoItem}
      BY <1>1, <1>5, <2>1, StayedItems
    <3>2. NoItem.uid = 0
      BY DEF NoItem
    <3> QED
      BY <1>1, <1>5, <3>1, <3>2
<1>6. \A i \in ItemsOf(c) : i.uid = s.uid => i.adopt = s.adopt
  BY <1>1 DEF Known, ItemsOf
<1>7. Live = {} => \A r \in RecordIds : cloud.records[r].maker # <<c, s.uid>>
  BY <1>1 DEF Live, Gone, Foreign
<1> QED
  BY <1>1, <1>4, <1>5, <1>6, <1>7 DEF CleanEntry

\* Where a pass may plan writes.
LEMMA MovedAhead ==
    ASSUME Base, RecordKinds
    PROVE  Quiet \/ PlansNormal \/ PlansDeletion \/ Permitted \/ pass'.at \notin {"fence", "batch"}
<1> DEFINE Stage(p) == p.at \notin {"fence", "batch"}
<1>0. pass \in Pass /\ Stage(Idle) /\ Stage(Continue)
  BY PassTyped, ContinueOK DEF Idle
<1>1. ASSUME NEW c, NEW e, NEW next, Outcome(c, e, next), Stage(next) PROVE Stage(pass')
  <2>1. pass' = Idle \/ pass' = next
    BY <1>1, OutcomeLeft
  <2> QED
    BY <1>0, <1>1, <2>1
<1>2. CASE Pruned
  BY <1>0, <1>2 DEF Pruned
<1>3. CASE Accepted
  <2>1. PICK c \in pass.rest, accepted \in BOOLEAN :
           \E next \in {Idle, [pass EXCEPT !.at = "look", !.c = c, !.rest = @ \ {c},
                                          !.ids = Rebased(c, pass.unit.item[c]).ids]} :
              Outcome(c, [Start(c) EXCEPT !.accepted = accepted], next)
    BY <1>3 DEF Accepted
  <2> DEFINE e == [Start(c) EXCEPT !.accepted = accepted]
  <2> DEFINE looking == [pass EXCEPT !.at = "look", !.c = c, !.rest = @ \ {c},
                                     !.ids = Rebased(c, pass.unit.item[c]).ids]
  <2>2. Stage(looking)
    BY <1>0 DEF Pass
  <2>3. PICK next \in {Idle, looking} : Outcome(c, e, next)
    BY <2>1
  <2> HIDE DEF looking, e
  <2>4. Stage(next)
    BY <1>0, <2>2, <2>3
  <2> QED
    BY <1>1, <2>3, <2>4
<1>4. CASE ReportsOther \/ ReportsReady \/ Lost \/ DropsOdd \/ Completes
  BY <1>0, <1>1, <1>4 DEF ReportsOther, ReportsReady, Lost, DropsOdd, Completes, Reported
<1>5. CASE SetsReady
  <2>1. Stage([pass EXCEPT !.at = "ready"])
    BY <1>0 DEF Pass
  <2> QED
    BY <1>1, <1>5, <2>1 DEF SetsReady
<1>6. CASE BindsLegacy
  <2>1. Stage([pass EXCEPT !.ids = LiveOf(Type)])
    BY <1>0, <1>6 DEF Pass, BindsLegacy, Looking
  <2> QED
    BY <1>1, <1>6, <2>1 DEF BindsLegacy
<1>7. CASE Answered \/ AlreadyGone
  BY <1>0, <1>7 DEF Answered, AlreadyGone, Pass
<1>8. CASE LedgerAdds
  <2>1. PICK r \in pass.add :
          Outcome(pass.c, [Start(pass.c) EXCEPT !.ids = Rebased(pass.c, Source(pass)).ids \cup {r}],
                  [pass EXCEPT !.add = @ \ {r}])
    BY <1>8 DEF LedgerAdds
  <2>2. Stage([pass EXCEPT !.add = @ \ {r}])
    BY <1>0, <1>8 DEF LedgerAdds, Pass
  <2> QED
    BY <1>1, <2>1, <2>2
<1>9. CASE LedgerDrops
  <2>1. PICK r \in pass.drop :
          Outcome(pass.c, [Start(pass.c) EXCEPT !.ids = Rebased(pass.c, Source(pass)).ids \ {r}],
                  [pass EXCEPT !.drop = @ \ {r}])
    BY <1>9 DEF LedgerDrops
  <2>2. Stage([pass EXCEPT !.drop = @ \ {r}])
    BY <1>0, <1>9 DEF LedgerDrops, Pass
  <2> QED
    BY <1>1, <2>1, <2>2
<1> QED
  BY <1>2, <1>3, <1>4, <1>5, <1>6, <1>7, <1>8, <1>9 DEF RecordKinds

\* Only a claim that is not being deleted has records made for it.
LEMMA PostsKept ==
    ASSUME Base, Clean, RecordKinds, Working(pass'), pass'.batch.posts # {}
    PROVE  ~Source(pass').deleting
<1> SUFFICES ASSUME Source(pass').deleting PROVE FALSE
  OBVIOUS
<1>0. NoBatch.posts = {} /\ pass \in Pass /\ PassOK(pass)
  BY NoBatchTargets, PassTyped DEF Base
<1>1. ASSUME pass'.batch = pass.batch \/ pass'.batch = NoBatch, pass'.unit = pass.unit, pass'.c = pass.c, Working(pass)
      PROVE  FALSE
  BY <1>0, <1>1 DEF Clean, Source
<1>2. CASE pass' = Idle \/ pass' = Continue
  BY <1>2, ContinueOK, IdlePass
<1>3. pass.at \notin {"fence", "batch"} => pass.batch = NoBatch
  BY <1>0 DEF PassOK
<1>4. CASE Quiet
  BY <1>1, <1>2, <1>4 DEF Quiet, QuietPass
<1>5. ASSUME pass'.batch = NoBatch PROVE FALSE
  BY <1>0, <1>5
<1>6. PassOK(pass')
  BY RecordKindsBase DEF Base
<1>7. pass'.at \in {"fence", "batch"}
  BY <1>5, <1>6 DEF PassOK
<1>8. CASE PlansNormal
  <2>1. pass'.unit = pass.unit /\ pass'.c = pass.c
    BY <1>0, <1>8 DEF PlansNormal, Pass
  <2> QED
    BY <2>1, <1>8 DEF PlansNormal, Looking, Source
<1>9. CASE PlansDeletion
  <2>1. PICK ids : pass' = [pass EXCEPT !.at = "fence", !.batch = [NoBatch EXCEPT !.deletes = ids \cap Live]]
    BY <1>9 DEF PlansDeletion
  <2>2. pass'.batch.posts = {}
    BY <1>0, <2>1 DEF Pass, NoBatch
  <2> QED
    BY <2>2
<1>10. CASE Permitted
  <2>1. pass'.batch = pass.batch /\ pass'.unit = pass.unit /\ pass'.c = pass.c
    BY <1>0, <1>10 DEF Permitted, Pass
  <2> QED
    BY <1>1, <2>1, <1>10 DEF Permitted, Working
<1>11. CASE pass'.at \notin {"fence", "batch"}
  BY <1>7, <1>11
<1> QED
  BY <1>4, <1>8, <1>9, <1>10, <1>11, MovedAhead

LEMMA CleanStep == ASSUME Base, Owning, Clean, Kinds PROVE Clean'
<1>1. ASSUME NEW c \in Claims PROVE CleanEntry(c, unit'.entry[c], NextItems(c), cloud'.records)
  <2>1. CASE ~unit'.entry[c].completed
    BY <2>1 DEF CleanEntry
  <2>2. CASE unit.entry[c].completed /\ unit'.entry[c].uid = unit.entry[c].uid
    BY <2>2, CleanKept DEF CleanEntry
  <2>3. CASE Completes /\ c = pass.c /\ EntryPatched(c, Completing)
    <3>1. unit'.entry[c] = Completing
      BY <2>3, PassTyped DEF EntryPatched, Unit, Base
    <3> QED
      BY <2>3, <3>1, CompletedClean
  <2> QED
    BY <2>1, <2>2, <2>3, NextCompleted
<1>2. ASSUME Working(pass'), pass'.batch.posts # {} PROVE ~Source(pass').deleting
  <2>1. CASE RecordKinds
    BY <1>2, <2>1, PostsKept
  <2>2. CASE pass' = pass
    BY <1>2, <2>2 DEF Clean, Source
  <2>3. CASE Quiet
    BY <1>2, <2>2, <2>3, IdlePass DEF Quiet, QuietPass
  <2>4. CASE Wiped
    <3>1. pass'.at = "release"
      BY <2>4, PassTyped DEF Wiped, Pass
    <3> QED
      BY <1>2, <3>1 DEF Working
  <2>5. CASE UnitGone
    BY <1>2, <2>2, <2>5, IdlePass DEF UnitGone
  <2> QED
    BY <2>1, <2>2, <2>3, <2>4, <2>5, CoreStays DEF Kinds, vars, UnitMarked, Delivered, Outside
<1> QED
  BY <1>1, <1>2 DEF Clean, NextItems, ItemsOf

LEMMA InitClean == ASSUME Init PROVE Clean
<1>1. Started /\ Base /\ Owning
  BY InitStarted, InitBase, InitOwning
<1>2. NoEntry.uid = 0 /\ ~NoEntry.completed
  BY DEF NoEntry
<1>3. ASSUME NEW c \in Claims PROVE ~unit.entry[c].completed
  <2>1. PICK ids : unit.entry[c] = [NoEntry EXCEPT !.ids = ids]
    BY <1>1 DEF Started
  <2> QED
    BY <1>2, <2>1, NoUnitTyped DEF Entry
<1>4. ~Working(pass)
  BY <1>1, IdlePass DEF Started
<1> QED
  BY <1>3, <1>4 DEF Clean, CleanEntry

LEMMA CleanAlways == Spec => [](Base /\ Owning /\ Clean)
<1>1. Init => Clean
  BY InitClean
<1>2. Base /\ Owning /\ Clean /\ [Next]_vars => Clean'
  BY CleanStep, StepKinds
<1> QED
  BY <1>1, <1>2, OwningAlways, PTL DEF Spec

\* When the deletion of an incarnation is reported as completed none of the
\* records it made is left, and none appears later
\* (reconcileDeleteWithContext and removeFinalizer).
THEOREM CompletedIsCleanAlways == Spec => []CompletedIsClean
<1>1. ASSUME Clean PROVE CompletedIsClean
  <2> SUFFICES ASSUME NEW c \in Claims, unit.entry[c].completed,
                      budget.claim[c].uid = unit.entry[c].uid, budget.claim[c].adopt = {}, NEW r \in Live
               PROVE  cloud.records[r].maker # <<c, unit.entry[c].uid>>
    BY DEF CompletedIsClean
  <2>1. budget.claim[c] \in ItemsOf(c) /\ r \in RecordIds
    BY DEF ItemsOf, Live
  <2> QED
    BY <1>1, <2>1 DEF Clean, CleanEntry
<1> QED
  BY <1>1, CleanAlways, PTL
=============================================================================
