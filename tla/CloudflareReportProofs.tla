------------------------ MODULE CloudflareReportProofs ------------------------
(***************************************************************************)
(* What CloudflareZoneUnit reports as programmed is shown in Cloudflare.   *)
(*                                                                         *)
(* A report is written from what a pass saw some steps before, and is      *)
(* believed until another report replaces it.  So the proof follows the    *)
(* ledger of every claim that is served: Copies says that what a report is *)
(* about is in every copy of the unit, Covers what the ledger and the      *)
(* cached ledger may miss, Keys that records have different keys, and      *)
(* Shown that no pass writes for a claim that is reported as programmed.   *)
(***************************************************************************)
EXTENDS CloudflareZoneUnitProofs
USE Parameters DEF RecordIds, ZoneIds

-----------------------------------------------------------------------------
(* The copies of the unit against the unit: what a report of Programmed    *)
(* says about them.                                                        *)

\* No two claims of one type have an item at once.
SingleItems(f) == \A c, d \in Claims : c # d /\ TypeOf[c] = TypeOf[d] => NoItem \in {f[c], f[d]}

\* Unit u reports claim c as programmed at its present generation.
Says(u, c) ==
    /\ u.item[c] # NoItem /\ ~u.item[c].deleting /\ u.entry[c].uid = u.item[c].uid
    /\ u.entry[c].why = "Programmed" /\ u.entry[c].whyGen = u.item[c].gen

Same(i, j) == i # NoItem /\ SourceMatches(i, j)

\* An incarnation whose claim core deletes is not served again.
Asked(S, b) == \A i \in S : i.uid = b.uid /\ i.deleting => b.deleting

Copies ==
    /\ \A c \in Claims : unit.item[c] # NoItem => unit.live /\ ~unit.deleting
    /\ seen.unit.deleting \/ Ending(pass) => unit.deleting \/ ~unit.live
    /\ SingleItems(unit.item) /\ SingleItems(seen.unit.item) /\ SingleItems(pass.unit.item)
    /\ \A c \in Claims : Asked(ItemsOf(c), budget.claim[c])
    /\ \A c \in Claims : unit.entry[c].uid = budget.claim[c].uid => unit.entry[c].whyGen <= budget.claim[c].gen
    /\ \A c \in Claims :
          Says(unit, c) => /\ Same(seen.unit.item[c], unit.item[c])
                           /\ pass.at # "idle" => Same(pass.unit.item[c], unit.item[c])

LEMMA NoItemFields ==
    /\ NoItem.uid = 0 /\ NoItem.gen = 0 /\ NoItem.deleting = FALSE /\ NoItem \in Items
    /\ NoEntry.uid = 0 /\ NoEntry.why = "Unknown" /\ NoEntry.whyGen = 0 /\ NoEntry.ids = {} /\ ~NoEntry.completed
    /\ \A c \in Claims : NoUnit.item[c] = NoItem /\ NoUnit.entry[c] = NoEntry
    /\ NoUnit.live = FALSE /\ NoUnit.deleting = FALSE
  BY DEF NoItem, NoEntry, NoUnit, Items

\* What an outcome does to the unit and its cached copy.
LEMMA OutcomeUnit ==
    ASSUME Base, NEW c, NEW e, NEW next, Outcome(c, e, next)
    PROVE  /\ unit'.live = unit.live /\ unit'.deleting = unit.deleting /\ unit'.item = unit.item
           /\ seen'.unit.deleting \in {seen.unit.deleting, unit.deleting}
           /\ seen'.unit.item \in {seen.unit.item, unit.item}
  BY DEF Base, Outcome, Refused, Unpatched, Patched

LEMMA RecordUnit ==
    ASSUME Base, RecordKinds, ~Quiet
    PROVE  /\ unit'.live = unit.live /\ unit'.deleting = unit.deleting /\ unit'.item = unit.item
           /\ seen'.unit.deleting \in {seen.unit.deleting, unit.deleting}
           /\ seen'.unit.item \in {seen.unit.item, unit.item}
<1>1. CASE Pruned
  BY <1>1 DEF Pruned
<1>2. CASE PlansNormal \/ PlansDeletion \/ Permitted \/ Answered \/ AlreadyGone
  BY <1>2 DEF PlansNormal, PlansDeletion, Permitted, Answered, AlreadyGone
<1>3. CASE \E c, e, next : Outcome(c, e, next)
  BY <1>3, OutcomeUnit
<1>4. CASE Accepted \/ ReportsOther \/ ReportsReady \/ SetsReady \/ Completes \/ BindsLegacy \/ DropsOdd
           \/ Lost \/ LedgerAdds \/ LedgerDrops
  BY <1>3, <1>4 DEF Accepted, ReportsOther, ReportsReady, SetsReady, Completes, BindsLegacy, DropsOdd,
                    Lost, LedgerAdds, LedgerDrops, Reported
<1> QED
  BY <1>1, <1>2, <1>4 DEF RecordKinds

\* How a pass goes on when it works on the record sets.
Looks(c) == /\ Accepted /\ c \in pass.rest /\ pass'.c = c /\ pass'.at = "look"
            /\ pass'.ids = Rebased(c, pass.unit.item[c]).ids

LEMMA RecordPass ==
    ASSUME Base, RecordKinds, ~Quiet
    PROVE  \/ pass' = Idle \/ pass' = Continue
           \/ /\ pass'.unit = pass.unit /\ pass.at # "idle" /\ Working(pass')
              /\ \/ \E c \in Claims : Looks(c)
                 \/ /\ pass'.c = pass.c /\ Working(pass)
                    /\ \/ /\ SetsReady /\ pass'.at = "ready" /\ pass'.ids = pass.ids
                          /\ pass'.batch = pass.batch /\ pass'.add = pass.add /\ pass'.drop = pass.drop
                       \/ PlansNormal /\ pass'.ids = pass.ids
                       \/ PlansDeletion /\ pass'.ids = pass.ids
                       \/ Permitted /\ pass'.ids = pass.ids /\ pass'.batch = pass.batch
                       \/ Answered /\ pass'.ids = pass.ids
                       \/ AlreadyGone /\ pass'.ids = pass.ids
                       \/ BindsLegacy /\ pass'.at = "look"
                       \/ LedgerAdds /\ pass'.at = "ledger" /\ pass'.ids = pass.ids /\ pass'.drop = pass.drop
                       \/ LedgerDrops /\ pass'.at = "ledger" /\ pass'.ids = pass.ids /\ pass'.add = pass.add
<1> DEFINE Goal == \/ pass' = Idle \/ pass' = Continue
                   \/ /\ pass'.unit = pass.unit /\ pass.at # "idle" /\ Working(pass')
                      /\ \/ \E c \in Claims : Looks(c)
                         \/ /\ pass'.c = pass.c /\ Working(pass)
                            /\ \/ /\ SetsReady /\ pass'.at = "ready" /\ pass'.ids = pass.ids
                                  /\ pass'.batch = pass.batch /\ pass'.add = pass.add /\ pass'.drop = pass.drop
                               \/ PlansNormal /\ pass'.ids = pass.ids
                               \/ PlansDeletion /\ pass'.ids = pass.ids
                               \/ Permitted /\ pass'.ids = pass.ids /\ pass'.batch = pass.batch
                               \/ Answered /\ pass'.ids = pass.ids
                               \/ AlreadyGone /\ pass'.ids = pass.ids
                               \/ BindsLegacy /\ pass'.at = "look"
                               \/ LedgerAdds /\ pass'.at = "ledger" /\ pass'.ids = pass.ids /\ pass'.drop = pass.drop
                               \/ LedgerDrops /\ pass'.at = "ledger" /\ pass'.ids = pass.ids /\ pass'.add = pass.add
<1>0. pass \in Pass /\ pass.rest \subseteq Claims
  BY PassTyped
<1>1. ASSUME NEW c, NEW e, NEW next, Outcome(c, e, next) PROVE pass' = Idle \/ pass' = next
  BY <1>1, OutcomeLeft
<1>2. CASE Pruned
  BY <1>2 DEF Pruned
<1>3. CASE Accepted
  <2>1. PICK c \in pass.rest, accepted \in BOOLEAN :
           \E next \in {Idle, [pass EXCEPT !.at = "look", !.c = c, !.rest = @ \ {c},
                                          !.ids = Rebased(c, pass.unit.item[c]).ids]} :
              Outcome(c, [Start(c) EXCEPT !.accepted = accepted], next)
    BY <1>3 DEF Accepted
  <2> DEFINE e == [Start(c) EXCEPT !.accepted = accepted]
             looking == [pass EXCEPT !.at = "look", !.c = c, !.rest = @ \ {c},
                                     !.ids = Rebased(c, pass.unit.item[c]).ids]
  <2>2. looking.unit = pass.unit /\ looking.at = "look" /\ looking.c = c
        /\ looking.ids = Rebased(c, pass.unit.item[c]).ids
    BY <1>0 DEF Pass
  <2>3. PICK next \in {Idle, looking} : Outcome(c, e, next)
    BY <2>1
  <2> HIDE DEF looking, e
  <2>4. pass' = Idle \/ pass' = looking
    BY <1>1, <2>3
  <2> QED
    BY <1>0, <1>3, <2>2, <2>4 DEF Accepted, Looks, Working
<1>4. CASE ReportsOther \/ ReportsReady \/ Lost \/ DropsOdd \/ Completes
  BY <1>1, <1>4 DEF ReportsOther, ReportsReady, Lost, DropsOdd, Completes, Reported
<1>5. CASE SetsReady
  <2>1. pass' = Idle \/ pass' = [pass EXCEPT !.at = "ready"]
    BY <1>1, <1>5 DEF SetsReady
  <2> QED
    BY <1>0, <1>5, <2>1 DEF Pass, SetsReady, Looking, Working
<1>6. CASE BindsLegacy
  <2>1. pass' = Idle \/ pass' = [pass EXCEPT !.ids = LiveOf(Type)]
    BY <1>1, <1>6 DEF BindsLegacy
  <2> QED
    BY <1>0, <1>6, <2>1 DEF Pass, BindsLegacy, Looking, Working
<1>7. CASE PlansNormal
  BY <1>0, <1>7 DEF PlansNormal, Looking, Pass, Working
<1>8. CASE PlansDeletion
  <2>1. PICK b : pass' = [pass EXCEPT !.at = "fence", !.batch = b]
    BY <1>8 DEF PlansDeletion
  <2> QED
    BY <1>0, <1>8, <2>1 DEF PlansDeletion, Looking, Pass, Working
<1>9. CASE Permitted
  BY <1>0, <1>9 DEF Permitted, Pass, Working
<1>10. CASE Answered
  <2>1. PICK a, d : pass' = [pass EXCEPT !.at = "ledger", !.batch = NoBatch, !.add = a, !.drop = d]
    BY <1>10 DEF Answered
  <2> QED
    BY <1>0, <1>10, <2>1 DEF Answered, Sent, Pass, Working
<1>11. CASE AlreadyGone
  <2>1. PICK d : pass' = [pass EXCEPT !.at = "ledger", !.batch = NoBatch, !.drop = d]
    BY <1>11 DEF AlreadyGone
  <2> QED
    BY <1>0, <1>11, <2>1 DEF AlreadyGone, Pass, Working
<1>12. CASE LedgerAdds
  <2>1. PICK r \in pass.add :
          Outcome(pass.c, [Start(pass.c) EXCEPT !.ids = Rebased(pass.c, Source(pass)).ids \cup {r}],
                  [pass EXCEPT !.add = @ \ {r}])
    BY <1>12 DEF LedgerAdds
  <2>2. pass' = Idle \/ pass' = [pass EXCEPT !.add = @ \ {r}]
    BY <1>1, <2>1
  <2> QED
    BY <1>0, <1>12, <2>2 DEF LedgerAdds, Pass, Working
<1>13. CASE LedgerDrops
  <2>1. PICK r \in pass.drop :
          Outcome(pass.c, [Start(pass.c) EXCEPT !.ids = Rebased(pass.c, Source(pass)).ids \ {r}],
                  [pass EXCEPT !.drop = @ \ {r}])
    BY <1>13 DEF LedgerDrops
  <2>2. pass' = Idle \/ pass' = [pass EXCEPT !.drop = @ \ {r}]
    BY <1>1, <2>1
  <2> QED
    BY <1>0, <1>13, <2>2 DEF LedgerDrops, Pass, Working
<1> HIDE DEF Goal
<1> QED
  BY <1>2, <1>3, <1>4, <1>5, <1>6, <1>7, <1>8, <1>9, <1>10, <1>11, <1>12, <1>13 DEF RecordKinds, Goal

\* What a step does to the unit's life and to the stages of the pass.
LEMMA UnitMoves ==
    ASSUME Base, Kinds
    PROVE  /\ unit'.live => unit.live
           /\ unit.deleting => unit'.deleting \/ ~unit'.live
           /\ seen'.unit.deleting \in {seen.unit.deleting, unit.deleting, unit'.deleting}
           /\ Ending(pass') => Ending(pass) \/ seen.unit.deleting
<1>1. CASE UNCHANGED vars \/ Delivered \/ Outside
  BY <1>1 DEF vars, Delivered, Outside
<1>2. CASE Quiet
  BY <1>2 DEF Quiet, QuietUnit, SameUnit, QuietPass, Ending, Idle
<1>3. CASE Wiped
  BY <1>3 DEF Wiped, Ending
<1>4. CASE UnitGone
  BY <1>4, NoItemFields DEF UnitGone, Ending, Idle
<1>5. CASE UnitMarked
  BY <1>5 DEF UnitMarked
<1>6. ASSUME NEW c \in Claims, CoreKinds(c)
      PROVE  unit'.live = unit.live /\ unit'.deleting = unit.deleting /\ pass' = pass
             /\ seen'.unit.deleting \in {seen.unit.deleting, unit.deleting, unit'.deleting}
  <2>1. PICK i, b : ItemStep(c, i, b)
    BY <1>6 DEF CoreKinds, Adds, Edited, Toggled, Dropped
  <2> QED
    BY <2>1 DEF ItemStep, CacheStep
<1>7. CASE RecordKinds /\ ~Quiet
  <2>1. ~Ending(pass')
    <3>1. ~Ending(Idle) /\ ~Ending(Continue)
      BY ContinueOK DEF Ending, Idle
    <3>2. Working(pass') => ~Ending(pass')
      BY DEF Working, Ending
    <3>3. pass' = Idle \/ pass' = Continue \/ Working(pass')
      BY <1>7, RecordPass
    <3> QED
      BY <3>1, <3>2, <3>3
  <2> QED
    BY <1>7, <2>1, RecordUnit
<1> QED
  BY <1>1, <1>2, <1>3, <1>4, <1>5, <1>6, <1>7 DEF Kinds

\* An item step of core, in the terms of the unit's items.
LEMMA CoreItem ==
    ASSUME Base, Copies, NEW c \in Claims, CoreKinds(c)
    PROVE  \E i \in Items, b \in Items :
             /\ ItemStep(c, i, b)
             /\ unit.live /\ ~unit.deleting
             /\ \/ Adds(c, i) /\ b = i
                \/ Toggled(c, i) /\ b = budget.claim[c]
                \/ Edited(c, i) /\ b = i
                \/ Dropped(c) /\ i = NoItem /\ b = budget.claim[c]
<1>0. budget.claim[c] \in Items /\ NoItem \in Items /\ Item \subseteq Items
  BY PassTyped DEF Items
<1>1. ASSUME NEW i \in Item, Adds(c, i) PROVE ItemStep(c, i, i) /\ unit.live /\ ~unit.deleting
  BY <1>1 DEF Adds, ItemStep
<1>2. ASSUME NEW i \in Item, Toggled(c, i)
      PROVE  ItemStep(c, i, budget.claim[c]) /\ unit.live /\ ~unit.deleting
  BY <1>2 DEF Toggled, Copies
<1>3. ASSUME NEW i \in Item, Edited(c, i)
      PROVE  ItemStep(c, i, i) /\ unit.live /\ ~unit.deleting
  BY <1>3 DEF Edited, Copies
<1>4. ASSUME Dropped(c)
      PROVE  ItemStep(c, NoItem, budget.claim[c]) /\ unit.live /\ ~unit.deleting
  BY <1>4 DEF Dropped, Copies
<1> QED
  BY <1>0, <1>1, <1>2, <1>3, <1>4 DEF CoreKinds

LEMMA ItemsLive ==
    ASSUME Base, Copies, Kinds
    PROVE  /\ \A c \in Claims : unit'.item[c] # NoItem => unit'.live /\ ~unit'.deleting
           /\ seen'.unit.deleting \/ Ending(pass') => unit'.deleting \/ ~unit'.live
<1>1. seen'.unit.deleting \/ Ending(pass') => unit'.deleting \/ ~unit'.live
  BY UnitMoves DEF Copies
<1>2. ASSUME NEW c \in Claims, unit'.item[c] # NoItem PROVE unit'.live /\ ~unit'.deleting
  <2>1. CASE UNCHANGED vars \/ Delivered \/ Outside \/ Wiped
    BY <1>2, <2>1 DEF vars, Delivered, Outside, Wiped, Copies
  <2>2. CASE Quiet
    BY <1>2, <2>2 DEF Quiet, QuietUnit, SameUnit, Copies
  <2>3. CASE UnitGone \/ UnitMarked
    BY <1>2, <2>3, NoItemFields DEF UnitGone, UnitMarked
  <2>4. CASE RecordKinds /\ ~Quiet
    BY <1>2, <2>4, RecordUnit DEF Copies
  <2>5. ASSUME NEW d \in Claims, CoreKinds(d) PROVE unit'.live /\ ~unit'.deleting
    BY <2>5, CoreItem DEF ItemStep
  <2> QED
    BY <2>1, <2>2, <2>3, <2>4, <2>5 DEF Kinds
<1> QED
  BY <1>1, <1>2

LEMMA SingleStep ==
    ASSUME Base, Copies, Kinds
    PROVE  SingleItems(unit'.item) /\ SingleItems(seen'.unit.item) /\ SingleItems(pass'.unit.item)
<1>0. SingleItems(NoUnit.item)
  BY NoItemFields DEF SingleItems
<1>1. CASE ItemsStay
  BY <1>0, <1>1 DEF ItemsStay, Copies
<1>2. ASSUME NEW c \in Claims, CoreKinds(c)
      PROVE  SingleItems(unit'.item) /\ SingleItems(seen'.unit.item) /\ SingleItems(pass'.unit.item)
  <2>1. PICK i \in Items, b \in Items :
             /\ ItemStep(c, i, b)
             /\ \/ Adds(c, i) \/ Toggled(c, i) \/ Edited(c, i)
                \/ i = NoItem
    BY <1>2, CoreItem
  <2>2. unit'.item[c] = i /\ \A d \in Claims \ {c} : unit'.item[d] = unit.item[d]
    BY <2>1, PassTyped DEF ItemStep, Base, Unit
  <2>3. i # NoItem => \A d \in Claims \ {c} : TypeOf[d] = TypeOf[c] => unit.item[d] = NoItem
    BY <2>1 DEF Adds, Toggled, Edited, Copies, SingleItems
  <2>4. SingleItems(unit'.item)
    BY <2>2, <2>3 DEF SingleItems, Copies
  <2> QED
    BY <2>1, <2>4 DEF ItemStep, CacheStep, Copies
<1> QED
  BY <1>1, <1>2, QuietStays, OtherStays, RecordStays DEF Kinds

LEMMA AskedStep ==
    ASSUME Base, Owning, Copies, Kinds, NEW c \in Claims
    PROVE  Asked(NextItems(c), budget'.claim[c])
<1>1. CASE ItemsStay
  BY <1>1, StayedItems, NoItemFields DEF Copies, Asked, ItemsStay
<1>2. ASSUME NEW d \in Claims, CoreKinds(d) PROVE Asked(NextItems(c), budget'.claim[c])
  <2>1. PICK i \in Items, b \in Items :
             /\ ItemStep(d, i, b)
             /\ \/ Adds(d, i) /\ b = i
                \/ Toggled(d, i) /\ b = budget.claim[d]
                \/ Edited(d, i) /\ b = i
                \/ i = NoItem /\ b = budget.claim[d]
    BY <1>2, CoreItem
  <2>2. CASE c # d
    <3>1. unit'.item[c] = unit.item[c] /\ budget'.claim[c] = budget.claim[c] /\ pass' = pass
          /\ seen'.unit.item[c] \in {unit.item[c], seen.unit.item[c]}
      BY <2>1, <2>2, PassTyped DEF ItemStep, CacheStep, Base, Unit, Budget
    <3> QED
      BY <3>1 DEF NextItems, ItemsOf, Copies, Asked
  <2>3. CASE c = d
    <3>1. /\ unit'.item[c] = i /\ budget'.claim[c] = b /\ pass' = pass
          /\ seen'.unit.item[c] \in {i, unit.item[c], seen.unit.item[c]}
      BY <2>1, <2>3, PassTyped DEF ItemStep, CacheStep, Base, Unit, Budget
    <3>2. \A x \in NextItems(c) : x \in ItemsOf(c) \/ x = i \/ x = b
      BY <2>1, <2>3, <3>1 DEF NextItems, ItemsOf
    <3>3. b = i \/ b = budget.claim[c]
      BY <2>1, <2>3
    <3>4. Asked(ItemsOf(c), budget.claim[c]) /\ unit.item[c] \in ItemsOf(c) /\ budget.claim[c] \in ItemsOf(c)
      BY DEF Copies, ItemsOf
    <3>5. CASE b = i /\ ~budget.claim[c].deleting /\ i.uid = budget.claim[c].uid
      BY <3>1, <3>2, <3>4, <3>5 DEF Asked
    <3>6. CASE b = i /\ i.uid > budget.uids
      <4>1. \A x \in ItemsOf(c) : x.uid <= budget.uids /\ x.uid \in Nat
        BY CopiesTyped, ItemShape DEF Owning, ItemsKnown, Known
      <4>2. i.uid \in Nat /\ budget.uids \in Nat
        BY BudgetRange, ItemShape
      <4> QED
        BY <3>1, <3>2, <3>6, <4>1, <4>2 DEF Asked
    <3>7. CASE b = budget.claim[c] /\ (i = NoItem \/ (i.uid = unit.item[c].uid /\ i.deleting = unit.item[c].deleting))
      BY <3>1, <3>2, <3>4, <3>7, NoItemFields DEF Asked
    <3>8. CASE Adds(c, i) /\ b = i
      BY <3>5, <3>6, <3>8 DEF Adds
    <3>9. CASE Toggled(c, i) /\ b = budget.claim[c]
      <4>1. unit.item[c] \in Items
        BY PassTyped
      <4> QED
        BY <3>7, <3>9, <4>1, MatchFields DEF Toggled
    <3>10. CASE Edited(c, i) /\ b = i
      BY <3>5, <3>10, GenerationFacts DEF Edited
    <3> QED
      BY <2>1, <2>3, <3>7, <3>8, <3>9, <3>10
  <2> QED
    BY <2>2, <2>3
<1> QED
  BY <1>1, <1>2, QuietStays, OtherStays, RecordStays DEF Kinds

\* How the ledger entry of a claim changes in the unit.
LEMMA NextEntry ==
    ASSUME Base, Kinds, NEW c \in Claims
    PROVE  \/ unit'.entry[c] = unit.entry[c]
           \/ unit'.entry[c] = NoEntry /\ (unit'.live => Pruned /\ c \in Prunable(unit))
           \/ /\ RecordKinds /\ EntryPatched(c, unit'.entry[c])
              /\ \/ /\ Accepted /\ c \in pass.rest
                    /\ \E accepted \in BOOLEAN : unit'.entry[c] = [Start(c) EXCEPT !.accepted = accepted]
                 \/ /\ Working(pass) /\ c = pass.c
                    /\ \/ \E why \in Reasons \ {"Programmed"} : unit'.entry[c] = Reporting(why)
                       \/ ReportsReady /\ unit'.entry[c] = Reporting("Programmed")
                       \/ /\ SetsReady /\ unit'.entry[c] = Binding(LiveOf(Type))
                          /\ pass' = [pass EXCEPT !.at = "ready"]
                       \/ Completes /\ unit'.entry[c] = Completing
                       \/ BindsLegacy /\ unit'.entry[c] = Binding(LiveOf(Type))
                       \/ DropsOdd /\ \E r \in RecordIds \ Live :
                             unit'.entry[c] = Binding(Rebased(c, Source(pass)).ids \ {r})
                       \/ LedgerAdds /\ \E r \in pass.add :
                             /\ unit'.entry[c] = Binding(Rebased(c, Source(pass)).ids \cup {r})
                             /\ pass' = [pass EXCEPT !.add = @ \ {r}]
                       \/ LedgerDrops /\ \E r \in pass.drop :
                             /\ unit'.entry[c] = Binding(Rebased(c, Source(pass)).ids \ {r})
                             /\ pass' = [pass EXCEPT !.drop = @ \ {r}]
<1> DEFINE Shape(d, e) ==
              \/ /\ Accepted /\ d \in pass.rest
                 /\ \E accepted \in BOOLEAN : e = [Start(d) EXCEPT !.accepted = accepted]
              \/ /\ Working(pass) /\ d = pass.c
                 /\ \/ \E why \in Reasons \ {"Programmed"} : e = Reporting(why)
                    \/ ReportsReady /\ e = Reporting("Programmed")
                    \/ /\ SetsReady /\ e = Binding(LiveOf(Type))
                       /\ pass' = [pass EXCEPT !.at = "ready"]
                    \/ Completes /\ e = Completing
                    \/ BindsLegacy /\ e = Binding(LiveOf(Type))
                    \/ DropsOdd /\ \E r \in RecordIds \ Live :
                          e = Binding(Rebased(d, Source(pass)).ids \ {r})
                    \/ LedgerAdds /\ \E r \in pass.add :
                          /\ e = Binding(Rebased(d, Source(pass)).ids \cup {r})
                          /\ pass' = [pass EXCEPT !.add = @ \ {r}]
                    \/ LedgerDrops /\ \E r \in pass.drop :
                          /\ e = Binding(Rebased(d, Source(pass)).ids \ {r})
                          /\ pass' = [pass EXCEPT !.drop = @ \ {r}]
<1>1. ASSUME NEW d, NEW e, EntryPatched(d, e), Shape(d, e)
      PROVE  \/ unit'.entry[c] = unit.entry[c]
             \/ EntryPatched(c, unit'.entry[c]) /\ Shape(c, unit'.entry[c])
  <2>1. unit'.entry[c] = IF c = d THEN e ELSE unit.entry[c]
    BY <1>1, PassTyped DEF EntryPatched, Base, Unit
  <2> HIDE DEF Shape
  <2> QED
    BY <1>1, <2>1
<1>2. ASSUME RecordKinds
      PROVE  EntriesStay \/ Pruned \/ \E d, e : EntryPatched(d, e) /\ Shape(d, e)
  <2>1. CASE Accepted /\ \E d \in pass.rest, accepted \in BOOLEAN :
                 EntryPatched(d, [Start(d) EXCEPT !.accepted = accepted])
    BY <2>1
  <2>2. CASE Working(pass) /\ \E why \in Reasons \ {"Programmed"} : EntryPatched(pass.c, Reporting(why))
    BY <2>2
  <2>3. CASE ReportsReady /\ EntryPatched(pass.c, Reporting("Programmed"))
    BY <2>3 DEF ReportsReady, Reported
  <2>4. CASE SetsReady /\ EntryPatched(pass.c, Binding(LiveOf(Type))) /\ pass' = [pass EXCEPT !.at = "ready"]
    BY <2>4 DEF SetsReady, Looking, Working
  <2>5. CASE Completes /\ EntryPatched(pass.c, Completing)
    BY <2>5 DEF Completes, Looking, Working
  <2>6. CASE BindsLegacy /\ EntryPatched(pass.c, Binding(LiveOf(Type)))
    BY <2>6 DEF BindsLegacy, Looking, Working
  <2>7. CASE DropsOdd /\ \E r \in RecordIds \ Live :
                 EntryPatched(pass.c, Binding(Rebased(pass.c, Source(pass)).ids \ {r}))
    BY <2>7 DEF DropsOdd, Looking, Working
  <2>8. CASE LedgerAdds /\ \E r \in pass.add :
                 /\ EntryPatched(pass.c, Binding(Rebased(pass.c, Source(pass)).ids \cup {r}))
                 /\ pass' = [pass EXCEPT !.add = @ \ {r}]
    <3>1. Working(pass)
      BY <2>8 DEF LedgerAdds, Working
    <3>2. PICK r \in pass.add :
                 /\ EntryPatched(pass.c, Binding(Rebased(pass.c, Source(pass)).ids \cup {r}))
                 /\ pass' = [pass EXCEPT !.add = @ \ {r}]
      BY <2>8
    <3>3. Shape(pass.c, Binding(Rebased(pass.c, Source(pass)).ids \cup {r}))
      BY <2>8, <3>1, <3>2
    <3> QED
      BY <3>2, <3>3
  <2>9. CASE LedgerDrops /\ \E r \in pass.drop :
                 /\ EntryPatched(pass.c, Binding(Rebased(pass.c, Source(pass)).ids \ {r}))
                 /\ pass' = [pass EXCEPT !.drop = @ \ {r}]
    <3>1. Working(pass)
      BY <2>9 DEF LedgerDrops, Working
    <3>2. PICK r \in pass.drop :
                 /\ EntryPatched(pass.c, Binding(Rebased(pass.c, Source(pass)).ids \ {r}))
                 /\ pass' = [pass EXCEPT !.drop = @ \ {r}]
      BY <2>9
    <3>3. Shape(pass.c, Binding(Rebased(pass.c, Source(pass)).ids \ {r}))
      BY <2>9, <3>1, <3>2
    <3> QED
      BY <3>2, <3>3
  <2> HIDE DEF Shape
  <2> QED
    BY <1>2, RecordStays, <2>1, <2>2, <2>3, <2>4, <2>5, <2>6, <2>7, <2>8, <2>9
<1>3. ASSUME Pruned
      PROVE  unit'.entry[c] = unit.entry[c] \/ (unit'.entry[c] = NoEntry /\ c \in Prunable(unit))
  BY <1>3 DEF Pruned
<1>4. ASSUME EntriesStay
      PROVE  \/ unit'.entry[c] = unit.entry[c]
             \/ unit'.entry[c] = NoEntry /\ ~unit'.live
  BY <1>4, NoItemFields DEF EntriesStay
<1> HIDE DEF Shape
<1>6. \/ unit'.entry[c] = unit.entry[c]
      \/ unit'.entry[c] = NoEntry /\ (unit'.live => Pruned /\ c \in Prunable(unit))
      \/ RecordKinds /\ EntryPatched(c, unit'.entry[c]) /\ Shape(c, unit'.entry[c])
  <2>1. CASE RecordKinds
    BY <2>1, <1>1, <1>2, <1>3, <1>4
  <2> QED
    BY <2>1, <1>4, QuietStays, OtherStays, CoreStays DEF Kinds
<1> QED
  BY <1>6 DEF Shape

\* What a status patch that took effect knows of the unit.
LEMMA PatchFacts ==
    ASSUME Base, NEW c \in Claims, NEW x, EntryPatched(c, x),
           c \in pass.rest \/ (Working(pass) /\ c = pass.c)
    PROVE  /\ unit.item[c] # NoItem /\ pass.unit.item[c] # NoItem
           /\ pass.unit.item[c].uid = unit.item[c].uid /\ pass.unit.item[c].gen = unit.item[c].gen
           /\ pass.unit.item[c].want = unit.item[c].want /\ pass.unit.item[c].adopt = unit.item[c].adopt
           /\ pass.unit.item[c].deleting = unit.item[c].deleting
           /\ unit.item[c].uid # 0 /\ unit.item[c].uid = budget.claim[c].uid
           /\ unit.item[c].gen = budget.claim[c].gen
           /\ Start(c) \in Entry /\ Start(c).uid = unit.item[c].uid
           /\ unit.entry[c].uid = unit.item[c].uid =>
                 /\ Start(c).ids = unit.entry[c].ids /\ Start(c).why = unit.entry[c].why
                 /\ Start(c).whyGen = unit.entry[c].whyGen
           /\ unit.entry[c].uid # unit.item[c].uid =>
                 Start(c).ids = {} /\ Start(c).why = "Unknown" /\ Start(c).whyGen = 0
<1> DEFINE i == pass.unit.item[c]
<1>1. i \in Items /\ unit.item[c] \in Items /\ unit.entry[c] \in Entry
  BY PassTyped
<1>2. i # NoItem
  BY WorkingFacts DEF Base, PassOK
<1>3. SourceMatches(unit.item[c], i) /\ seen.unit = unit
  BY DEF EntryPatched
<1>4. /\ i.uid = unit.item[c].uid /\ i.gen = unit.item[c].gen /\ i.want = unit.item[c].want
      /\ i.adopt = unit.item[c].adopt /\ i.deleting = unit.item[c].deleting
  BY <1>1, <1>3, MatchFields
<1>5. i.uid # 0 /\ unit.item[c] # NoItem
  BY <1>1, <1>2, <1>4, ItemShape, NoItemFields
<1>6. /\ Start(c) \in Entry /\ Start(c).uid = i.uid
      /\ Start(c).ids = Rebased(c, i).ids /\ Start(c).why = Rebased(c, i).why
      /\ Start(c).whyGen = Rebased(c, i).whyGen
  BY <1>1, RebasedTyped DEF Start
<1>7. unit.entry[c].uid = i.uid => Rebased(c, i) = unit.entry[c]
  BY <1>3, <1>5 DEF Rebased, StatusMatchesItem
<1>8. unit.entry[c].uid # i.uid => Rebased(c, i) = [NoEntry EXCEPT !.uid = i.uid]
  BY <1>3 DEF Rebased, StatusMatchesItem
<1>9. [NoEntry EXCEPT !.uid = i.uid].ids = {} /\ [NoEntry EXCEPT !.uid = i.uid].why = "Unknown"
      /\ [NoEntry EXCEPT !.uid = i.uid].whyGen = 0
  BY DEF NoEntry
<1> HIDE DEF i
<1>10. unit.item[c].uid = budget.claim[c].uid /\ unit.item[c].gen = budget.claim[c].gen
  BY <1>5, GenerationFacts
<1> QED
  BY <1>2, <1>4, <1>5, <1>6, <1>7, <1>8, <1>9, <1>10 DEF i

LEMMA EntryParts ==
    ASSUME NEW e \in Entry, NEW a, NEW why, NEW gen, NEW ids
    PROVE  /\ LET x == [e EXCEPT !.accepted = a]
              IN  x.uid = e.uid /\ x.why = e.why /\ x.whyGen = e.whyGen /\ x.ids = e.ids
           /\ LET x == [e EXCEPT !.why = why, !.whyGen = gen]
              IN  x.uid = e.uid /\ x.why = why /\ x.whyGen = gen /\ x.ids = e.ids
           /\ LET x == [e EXCEPT !.why = why, !.whyGen = gen, !.completed = TRUE]
              IN  x.uid = e.uid /\ x.why = why /\ x.whyGen = gen /\ x.ids = e.ids
           /\ LET x == [e EXCEPT !.ids = ids]
              IN  x.uid = e.uid /\ x.why = e.why /\ x.whyGen = e.whyGen /\ x.ids = ids
  BY DEF Entry

\* Core wrote a later item of claim c, of a new incarnation or a new generation.
Renewed(c) ==
    /\ unit'.item[c] = budget'.claim[c] /\ unit'.item[c] # NoItem /\ unit'.entry = unit.entry
    /\ pass' = pass /\ cloud' = cloud /\ unit'.live = unit.live /\ unit'.deleting = unit.deleting
    /\ \/ unit'.item[c].uid > budget.uids
       \/ /\ unit'.item[c].uid = budget.claim[c].uid /\ unit'.item[c].gen > budget.claim[c].gen
          /\ unit'.item[c].adopt = budget.claim[c].adopt /\ ~budget.claim[c].deleting

\* Only a pass does a step of the record sets.
LEMMA RecordActs ==
    ASSUME RecordKinds, ~Quiet PROVE pass.at # "idle"
  BY DEF RecordKinds, Pruned, Accepted, ReportsOther, ReportsReady, Reported, Lost, SetsReady,
         PlansNormal, Completes, BindsLegacy, DropsOdd, PlansDeletion, Permitted, Answered, Sent,
         AlreadyGone, LedgerAdds, LedgerDrops, Looking, Working

\* How the item of a claim changes in the unit, and what its copies follow.
LEMMA ItemMove ==
    ASSUME Base, Copies, Kinds, NEW c \in Claims
    PROVE  \/ unit'.item[c] = NoItem /\ budget'.claim[c] = budget.claim[c]
           \/ /\ unit'.item[c] = unit.item[c] /\ budget'.claim[c] = budget.claim[c]
              /\ seen'.unit.item[c] \in {unit.item[c], seen.unit.item[c]}
              /\ \/ pass'.at = "idle"
                 \/ pass'.unit.item[c] = pass.unit.item[c] /\ pass.at # "idle"
                 \/ pass'.unit.item[c] = seen.unit.item[c]
           \/ /\ unit.item[c] # NoItem /\ SourceMatches(unit'.item[c], unit.item[c])
              /\ budget'.claim[c] = budget.claim[c] /\ pass' = pass /\ unit'.entry = unit.entry
              /\ seen'.unit.item[c] \in {unit'.item[c], unit.item[c], seen.unit.item[c]}
           \/ Renewed(c)
<1> DEFINE Stays == /\ unit'.item[c] = unit.item[c] /\ budget'.claim[c] = budget.claim[c]
                    /\ seen'.unit.item[c] \in {unit.item[c], seen.unit.item[c]}
                    /\ \/ pass'.at = "idle"
                       \/ pass'.unit.item[c] = pass.unit.item[c] /\ pass.at # "idle"
                       \/ pass'.unit.item[c] = seen.unit.item[c]
<1>0. Idle.at = "idle"
  BY IdlePass
<1>1. CASE UNCHANGED vars \/ Delivered \/ Outside \/ Wiped \/ UnitMarked
  <2>1. unit'.item = unit.item /\ budget'.claim = budget.claim
        /\ seen'.unit.item \in {unit.item, seen.unit.item}
    BY <1>1 DEF vars, Delivered, Outside, Wiped, UnitMarked
  <2>2. pass' = pass \/ (pass'.unit = pass.unit /\ pass.at # "idle")
    BY <1>1, PassFields DEF vars, Delivered, Outside, Wiped, UnitMarked
  <2> QED
    BY <2>1, <2>2
<1>2. CASE Quiet
  <2>1. unit'.item = unit.item /\ budget'.claim = budget.claim /\ seen'.unit.item = seen.unit.item
    BY <1>2 DEF Quiet, QuietUnit, SameUnit, BooksKept
  <2>2. pass'.at = "idle" \/ pass' = pass \/ (pass'.unit = pass.unit /\ pass.at # "idle") \/ pass'.unit = seen.unit
    BY <1>0, <1>2 DEF Quiet, QuietPass
  <2> QED
    BY <2>1, <2>2
<1>3. CASE UnitGone
  BY <1>3, NoItemFields DEF UnitGone
<1>4. CASE RecordKinds /\ ~Quiet
  <2>1. unit'.item = unit.item /\ seen'.unit.item \in {seen.unit.item, unit.item}
    BY <1>4, RecordUnit
  <2>2. budget'.claim = budget.claim
    BY <1>4, RecordStays DEF ItemsStay
  <2>3. pass'.at = "idle" \/ (pass'.unit = pass.unit /\ pass.at # "idle")
    <3>1. CASE pass' = Continue /\ pass' # Idle
      <4>1. pass'.unit = pass.unit /\ pass.rest # {}
        BY <3>1, ContinueOK DEF Continue
      <4> QED
        BY <4>1, <1>4, RecordActs
    <3> QED
      BY <1>0, <1>4, <3>1, RecordPass
  <2> QED
    BY <2>1, <2>2, <2>3
<1>5. ASSUME NEW d \in Claims, CoreKinds(d)
      PROVE  \/ unit'.item[c] = NoItem /\ budget'.claim[c] = budget.claim[c]
             \/ Stays
             \/ /\ unit.item[c] # NoItem /\ SourceMatches(unit'.item[c], unit.item[c])
                /\ budget'.claim[c] = budget.claim[c] /\ pass' = pass /\ unit'.entry = unit.entry
                /\ seen'.unit.item[c] \in {unit'.item[c], unit.item[c], seen.unit.item[c]}
             \/ Renewed(c)
  <2>1. PICK i \in Items, b \in Items :
             /\ ItemStep(d, i, b)
             /\ \/ Adds(d, i) /\ b = i
                \/ Toggled(d, i) /\ b = budget.claim[d]
                \/ Edited(d, i) /\ b = i
                \/ i = NoItem /\ b = budget.claim[d]
    BY <1>5, CoreItem
  <2>2. CASE c # d
    <3>1. unit'.item[c] = unit.item[c] /\ budget'.claim[c] = budget.claim[c] /\ pass' = pass
          /\ seen'.unit.item[c] \in {unit.item[c], seen.unit.item[c]}
      BY <2>1, <2>2, PassTyped DEF ItemStep, CacheStep, Base, Unit, Budget
    <3> QED
      BY <3>1
  <2>3. CASE c = d
    <3>1. /\ unit'.item[c] = i /\ budget'.claim[c] = b /\ pass' = pass /\ cloud' = cloud
          /\ unit'.entry = unit.entry /\ unit'.live = unit.live /\ unit'.deleting = unit.deleting
          /\ seen'.unit.item[c] \in {i, unit.item[c], seen.unit.item[c]}
      BY <2>1, <2>3, PassTyped DEF ItemStep, CacheStep, Base, Unit, Budget
    <3>2. CASE i = NoItem /\ b = budget.claim[c]
      BY <3>1, <3>2
    <3>3. CASE Toggled(c, i) /\ b = budget.claim[c]
      BY <3>1, <3>3 DEF Toggled
    <3>4. budget.claim[c].gen \in Nat /\ i.gen \in Nat
      BY PassTyped, ItemShape
    <3>5. CASE Adds(c, i) /\ b = i
      <4>1. i # NoItem
        BY <3>5 DEF Adds, Item, NoItem
      <4> QED
        BY <3>1, <3>4, <3>5, <4>1 DEF Adds, Renewed
    <3>6. CASE Edited(c, i) /\ b = i
      <4>1. i # NoItem
        BY <3>6 DEF Edited, Item, NoItem
      <4> QED
        BY <3>1, <3>4, <3>6, <4>1, GenerationFacts DEF Edited, Renewed
    <3> QED
      BY <2>1, <2>3, <3>2, <3>3, <3>5, <3>6
  <2> QED
    BY <2>2, <2>3
<1> QED
  BY <1>1, <1>2, <1>3, <1>4, <1>5 DEF Kinds

\* The report in an entry that a status patch wrote: that of this pass, the
\* one that was there, or none.
LEMMA PatchedReport ==
    ASSUME Base, Kinds, NEW c \in Claims, unit'.entry[c] # unit.entry[c],
           unit'.entry[c] # NoEntry \/ (unit'.live /\ c \notin Prunable(unit))
    PROVE  /\ unit.item[c] # NoItem /\ unit'.entry[c].uid = unit.item[c].uid
           /\ unit.item[c].uid = budget.claim[c].uid /\ unit.item[c].gen = budget.claim[c].gen
           /\ RecordKinds /\ EntryPatched(c, unit'.entry[c]) /\ (c \in pass.rest \/ c = pass.c)
           /\ \/ unit'.entry[c].whyGen = unit.item[c].gen
              \/ unit'.entry[c].why = "Unknown" /\ unit'.entry[c].whyGen = 0
              \/ /\ unit.entry[c].uid = unit.item[c].uid
                 /\ unit'.entry[c].why = unit.entry[c].why /\ unit'.entry[c].whyGen = unit.entry[c].whyGen
           /\ \/ ReportsReady /\ c = pass.c
              \/ unit'.entry[c].why # "Programmed"
              \/ Completes /\ c = pass.c
              \/ /\ unit.entry[c].uid = unit.item[c].uid
                 /\ unit'.entry[c].why = unit.entry[c].why /\ unit'.entry[c].whyGen = unit.entry[c].whyGen
<1> DEFINE e == unit'.entry[c]
           s == Start(c)
           i == pass.unit.item[c]
<1>1. /\ RecordKinds /\ EntryPatched(c, e)
      /\ \/ /\ Accepted /\ c \in pass.rest
            /\ \E accepted \in BOOLEAN : e = [Start(c) EXCEPT !.accepted = accepted]
         \/ /\ Working(pass) /\ c = pass.c
            /\ \/ \E why \in Reasons \ {"Programmed"} : e = Reporting(why)
               \/ ReportsReady /\ e = Reporting("Programmed")
               \/ Completes /\ e = Completing
               \/ \E ids : e = Binding(ids)
  BY NextEntry
<1>2. /\ s \in Entry /\ s.uid = unit.item[c].uid /\ unit.item[c] # NoItem
      /\ unit.item[c].uid = budget.claim[c].uid /\ unit.item[c].gen = budget.claim[c].gen
      /\ i.gen = unit.item[c].gen
      /\ \/ unit.entry[c].uid = unit.item[c].uid /\ s.why = unit.entry[c].why /\ s.whyGen = unit.entry[c].whyGen
         \/ s.why = "Unknown" /\ s.whyGen = 0
  BY <1>1, PatchFacts
<1>3. c = pass.c => s = Start(pass.c) /\ i = Source(pass)
  BY DEF Source
<1>4. CASE \E accepted \in BOOLEAN : e = [Start(c) EXCEPT !.accepted = accepted]
  <2>1. PICK accepted \in BOOLEAN : e = [s EXCEPT !.accepted = accepted]
    BY <1>4
  <2> HIDE DEF s, e, i
  <2>2. e.uid = s.uid /\ e.why = s.why /\ e.whyGen = s.whyGen
    BY <1>2, <2>1, EntryParts
  <2> QED
    BY <1>1, <1>2, <2>2 DEF e
<1>5. CASE c = pass.c /\ \E why \in Reasons \ {"Programmed"} : e = Reporting(why)
  <2>1. PICK why \in Reasons \ {"Programmed"} : e = [s EXCEPT !.why = why, !.whyGen = i.gen]
    BY <1>3, <1>5 DEF Reporting
  <2> HIDE DEF s, e, i
  <2>2. e.uid = s.uid /\ e.why = why /\ e.whyGen = i.gen
    BY <1>2, <2>1, EntryParts
  <2> QED
    BY <1>1, <1>2, <1>5, <2>2 DEF e
<1>6. CASE c = pass.c /\ ReportsReady /\ e = Reporting("Programmed")
  <2>1. e = [s EXCEPT !.why = "Programmed", !.whyGen = i.gen]
    BY <1>3, <1>6 DEF Reporting
  <2> HIDE DEF s, e, i
  <2>2. e.uid = s.uid /\ e.whyGen = i.gen
    BY <1>2, <2>1, EntryParts
  <2> QED
    BY <1>1, <1>2, <1>6, <2>2 DEF e
<1>7. CASE c = pass.c /\ Completes /\ e = Completing
  <2>1. e = [s EXCEPT !.why = "Programmed", !.whyGen = i.gen, !.completed = TRUE]
    BY <1>3, <1>7 DEF Completing
  <2> HIDE DEF s, e, i
  <2>2. e.uid = s.uid /\ e.whyGen = i.gen
    BY <1>2, <2>1, EntryParts
  <2> QED
    BY <1>1, <1>2, <1>7, <2>2 DEF e
<1>8. CASE c = pass.c /\ \E ids : e = Binding(ids)
  <2>1. PICK ids : e = [s EXCEPT !.ids = ids]
    BY <1>3, <1>8 DEF Binding
  <2> HIDE DEF s, e, i
  <2>2. e.uid = s.uid /\ e.why = s.why /\ e.whyGen = s.whyGen
    BY <1>2, <2>1, EntryParts
  <2> QED
    BY <1>1, <1>2, <1>8, <2>2 DEF e
<1> QED
  BY <1>1, <1>4, <1>5, <1>6, <1>7, <1>8

LEMMA KindsBooks == ASSUME Base' PROVE budget' \in Budget /\ \A c \in Claims : budget'.claim[c] \in Items
  BY DEF Base, Budget

LEMMA StepTyped ==
    ASSUME Base'
    PROVE  \A c \in Claims : /\ unit'.item[c] \in Items /\ seen'.unit.item[c] \in Items /\ pass'.unit.item[c] \in Items
                             /\ unit'.entry[c] \in Entry
  BY DEF Base, PassOK, Pass, Unit, Items

\* A report is never ahead of what core asks for.
LEMMA ReportBound ==
    ASSUME Base, Base', Owning, Copies, Kinds, NEW c \in Claims, unit'.entry[c].uid = budget'.claim[c].uid
    PROVE  unit'.entry[c].whyGen <= budget'.claim[c].gen
<1>0. /\ unit.entry[c] \in Entry /\ unit.entry[c].uid <= budget.uids /\ budget.uids \in Nat
      /\ unit.entry[c].uid \in Nat /\ unit.entry[c].whyGen \in Nat
      /\ budget.claim[c].gen \in Nat /\ budget.claim[c].uid \in Nat
  <2>1. unit.entry[c] \in Entry /\ budget.claim[c] \in Items
    BY PassTyped
  <2>2. unit.entry[c].uid <= budget.uids
    BY DEF Owning, EntriesOwned, EntriesOf, EntryOwned
  <2> QED
    BY <2>1, <2>2, BudgetRange, ItemShape DEF Entry, Generations
<1>1. \/ budget'.claim[c] = budget.claim[c]
      \/ unit'.item[c] = budget'.claim[c] /\ Renewed(c)
  BY ItemMove DEF Renewed
<1>2. CASE Renewed(c) /\ unit'.item[c] = budget'.claim[c]
  <2>1. unit'.entry[c] = unit.entry[c]
    BY <1>2 DEF Renewed
  <2>2. budget'.claim[c] \in Items
    BY KindsBooks DEF Budget
  <2>3. budget'.claim[c].uid \in Nat /\ budget'.claim[c].gen \in Nat
    BY <2>2, ItemShape
  <2>4. CASE budget'.claim[c].uid > budget.uids
    BY <1>0, <2>1, <2>3, <2>4
  <2>5. CASE budget'.claim[c].uid = budget.claim[c].uid /\ budget'.claim[c].gen > budget.claim[c].gen
    <3>1. unit.entry[c].uid = budget.claim[c].uid => unit.entry[c].whyGen <= budget.claim[c].gen
      BY DEF Copies
    <3> QED
      BY <1>0, <2>1, <2>3, <2>5, <3>1
  <2> QED
    BY <1>2, <2>4, <2>5 DEF Renewed
<1>3. CASE budget'.claim[c] = budget.claim[c]
  <2>1. CASE unit'.entry[c] = unit.entry[c]
    BY <1>3, <2>1 DEF Copies
  <2>2. CASE unit'.entry[c] = NoEntry
    BY <1>0, <1>3, <2>2, NoItemFields
  <2>3. CASE unit'.entry[c] # unit.entry[c] /\ unit'.entry[c] # NoEntry
    BY <1>0, <1>3, <2>3, PatchedReport DEF Copies
  <2> QED
    BY <2>1, <2>2, <2>3
<1> QED
  BY <1>1, <1>2, <1>3

\* A claim that is reported as programmed was so before, or is now.
LEMMA SaysMove ==
    ASSUME Base, Base', Owning, Copies, Kinds, NEW c \in Claims, Says(unit', c)
    PROVE  \/ /\ Says(unit, c) /\ SourceMatches(unit'.item[c], unit.item[c])
              /\ ~(ReportsReady /\ c = pass.c /\ EntryPatched(c, unit'.entry[c]))
           \/ /\ ReportsReady /\ c = pass.c /\ EntryPatched(c, unit'.entry[c])
              /\ unit'.item[c] = unit.item[c]
<1>0. /\ unit'.item[c] # NoItem /\ ~unit'.item[c].deleting /\ unit'.entry[c].uid = unit'.item[c].uid
      /\ unit'.entry[c].why = "Programmed" /\ unit'.entry[c].whyGen = unit'.item[c].gen
      /\ unit.item[c] \in Items /\ unit.entry[c] \in Entry
  BY PassTyped DEF Says
<1>1. SourceMatches(unit.item[c], unit.item[c])
  BY <1>0, MatchFields
<1>2. ~Renewed(c)
  <2> SUFFICES ASSUME Renewed(c) PROVE FALSE
    OBVIOUS
  <2>1. unit'.entry[c] = unit.entry[c] /\ unit'.item[c] \in Items /\ unit'.item[c] = budget'.claim[c]
    BY KindsBooks DEF Renewed
  <2>2. unit.entry[c].uid <= budget.uids /\ budget.uids \in Nat /\ unit'.item[c].uid \in Nat
        /\ unit.entry[c].uid \in Nat /\ unit.entry[c].whyGen \in Nat /\ unit'.item[c].gen \in Nat
        /\ budget.claim[c].gen \in Nat
    <3>1. unit.entry[c].uid <= budget.uids
      BY DEF Owning, EntriesOwned, EntriesOf, EntryOwned
    <3>2. unit.entry[c].uid \in Nat /\ unit.entry[c].whyGen \in Nat
      BY <1>0 DEF Entry, Generations
    <3> QED
      BY <2>1, <3>1, <3>2, BudgetRange, ItemShape, PassTyped
  <2>3. unit.entry[c].uid = budget.claim[c].uid => unit.entry[c].whyGen <= budget.claim[c].gen
    BY DEF Copies
  <2> QED
    BY <1>0, <2>1, <2>2, <2>3 DEF Renewed
<1>3. CASE unit'.entry[c] = unit.entry[c] /\ (unit'.item[c] = unit.item[c] \/ SourceMatches(unit'.item[c], unit.item[c]))
  <2>1. SourceMatches(unit'.item[c], unit.item[c])
    BY <1>1, <1>3
  <2>2. unit'.item[c].uid = unit.item[c].uid /\ unit'.item[c].gen = unit.item[c].gen
        /\ unit'.item[c].deleting = unit.item[c].deleting /\ unit.item[c] # NoItem
    <3>1. unit'.item[c] \in Items
      BY StepTyped
    <3> QED
      BY <1>0, <2>1, <3>1, MatchFields, ItemShape, NoItemFields
  <2>3. ~(ReportsReady /\ c = pass.c /\ EntryPatched(c, unit'.entry[c])) \/ unit'.item[c] = unit.item[c]
    <3>1. RecordKinds /\ ~Quiet => unit'.item = unit.item
      BY RecordUnit
    <3>2. ReportsReady => RecordKinds
      BY DEF RecordKinds
    <3>3. Quiet => unit'.item = unit.item
      BY DEF Quiet, QuietUnit, SameUnit
    <3> QED
      BY <3>1, <3>2, <3>3
  <2> QED
    BY <1>0, <1>3, <2>1, <2>2, <2>3 DEF Says
<1>4. CASE unit'.entry[c] # unit.entry[c]
  <2>1. unit'.entry[c] # NoEntry
    BY <1>0, NoItemFields
  <2>2. /\ unit'.entry[c].uid = unit.item[c].uid /\ unit.item[c] # NoItem
        /\ RecordKinds /\ EntryPatched(c, unit'.entry[c])
        /\ \/ ReportsReady /\ c = pass.c
           \/ Completes /\ c = pass.c
           \/ /\ unit.entry[c].uid = unit.item[c].uid
              /\ unit'.entry[c].why = unit.entry[c].why /\ unit'.entry[c].whyGen = unit.entry[c].whyGen
    BY <1>0, <1>4, <2>1, PatchedReport
  <2>3. ~Quiet
    BY <1>4 DEF Quiet, QuietUnit, SameUnit
  <2>4. unit'.item = unit.item
    BY <2>2, <2>3, RecordUnit
  <2>5. ~(Completes /\ c = pass.c)
    <3> SUFFICES ASSUME Completes, c = pass.c PROVE FALSE
      OBVIOUS
    <3>1. Working(pass) /\ Source(pass).deleting = TRUE
      BY DEF Completes, Looking, Working
    <3>2. pass.unit.item[c].deleting = unit.item[c].deleting
      BY <2>2, <3>1, PatchFacts
    <3> QED
      BY <1>0, <2>4, <3>1, <3>2 DEF Source
  <2> QED
    BY <1>0, <1>1, <2>2, <2>4, <2>5 DEF Says
<1> QED
  BY <1>0, <1>2, <1>3, <1>4, ItemMove

LEMMA SaysCopies ==
    ASSUME Base, Base', Owning, Copies, Kinds, NEW c \in Claims, Says(unit', c)
    PROVE  /\ Same(seen'.unit.item[c], unit'.item[c])
           /\ pass'.at # "idle" => Same(pass'.unit.item[c], unit'.item[c])
<1>0. /\ unit'.item[c] \in Items /\ seen.unit.item[c] \in Items /\ pass.unit.item[c] \in Items
      /\ unit.item[c] \in Items
      /\ unit'.item[c] # NoItem
  BY StepTyped, PassTyped DEF Says
<1>1. \A i, j, k \in Items : Same(i, j) /\ SourceMatches(k, j) => Same(i, k)
  BY MatchFields DEF Same
<1>2. \A i, j \in Items : SourceMatches(i, j) /\ i # NoItem => Same(i, j) /\ Same(i, i) /\ SourceMatches(j, i)
  BY MatchFields DEF Same
<1>3. CASE ReportsReady /\ c = pass.c /\ EntryPatched(c, unit'.entry[c]) /\ unit'.item[c] = unit.item[c]
  <2>1. seen.unit = unit /\ SourceMatches(unit.item[c], pass.unit.item[c]) /\ Working(pass)
    BY <1>3 DEF EntryPatched, ReportsReady, Reported
  <2>2. RecordKinds
    BY <1>3 DEF RecordKinds
  <2>3. Same(unit.item[c], unit.item[c]) /\ Same(pass.unit.item[c], unit.item[c])
    <3>1. pass.unit.item[c] # NoItem
      BY <1>3, <2>1, PatchFacts
    <3> QED
      BY <1>0, <1>2, <1>3, <2>1, <3>1
  <2>4. seen'.unit.item[c] = unit.item[c]
    <3>1. CASE ~Quiet
      BY <2>1, <2>2, <3>1, RecordUnit
    <3>2. CASE Quiet
      BY <2>1, <3>2 DEF Quiet, QuietUnit, SameUnit
    <3> QED
      BY <3>1, <3>2
  <2>5. pass'.at # "idle" => pass'.unit = pass.unit
    <3>1. PICK e, next : Outcome(c, e, next) /\ next = Continue
      BY <1>3 DEF ReportsReady, Reported
    <3>2. pass' \in {Idle, Continue}
      BY <3>1, OutcomeLeft
    <3> QED
      BY <3>2, IdlePass, ContinueOK
  <2> QED
    BY <1>3, <2>3, <2>4, <2>5
<1>4. CASE Says(unit, c) /\ SourceMatches(unit'.item[c], unit.item[c])
  <2>1. Same(seen.unit.item[c], unit.item[c]) /\ (pass.at # "idle" => Same(pass.unit.item[c], unit.item[c]))
    <3>1. \A d \in Claims : Says(unit, d) =>
             /\ Same(seen.unit.item[d], unit.item[d])
             /\ pass.at # "idle" => Same(pass.unit.item[d], unit.item[d])
      BY DEF Copies
    <3> QED
      BY <1>4, <3>1
  <2>2. unit.item[c] # NoItem /\ Same(unit.item[c], unit.item[c]) /\ Same(unit'.item[c], unit.item[c])
    BY <1>0, <1>2, <1>4 DEF Says
  <2>3. ~Renewed(c) \/ FALSE
    <3> SUFFICES ASSUME Renewed(c) PROVE FALSE
      OBVIOUS
    <3>1. unit'.item[c].uid = unit.item[c].uid /\ unit'.item[c].gen = unit.item[c].gen
      BY <1>0, <1>4, MatchFields
    <3>2. unit.item[c].uid = budget.claim[c].uid /\ unit.item[c].gen = budget.claim[c].gen
          /\ budget.claim[c].gen \in Nat /\ budget.claim[c].uid <= budget.uids /\ budget.uids \in Nat
          /\ budget.claim[c].uid \in Nat
      <4>1. budget.claim[c].uid <= budget.uids
        BY DEF Owning, ItemsKnown, Known, ItemsOf
      <4> QED
        BY <2>2, <4>1, GenerationFacts, PassTyped, ItemShape
    <3> QED
      BY <3>1, <3>2 DEF Renewed
  <2>4. Same(seen'.unit.item[c], unit.item[c]) /\ (pass'.at # "idle" => Same(pass'.unit.item[c], unit.item[c]))
    BY <1>0, <2>1, <2>2, <2>3, ItemMove
  <2>5. seen'.unit.item[c] \in Items /\ pass'.unit.item[c] \in Items
    BY StepTyped
  <2> QED
    BY <1>0, <1>1, <1>4, <2>4, <2>5
<1> QED
  BY <1>3, <1>4, SaysMove

LEMMA CopiesStep == ASSUME Base, Base', Owning, Copies, Kinds PROVE Copies'
<1>1. \A c \in Claims : unit'.item[c] # NoItem => unit'.live /\ ~unit'.deleting
  BY ItemsLive
<1>2. seen'.unit.deleting \/ Ending(pass') => unit'.deleting \/ ~unit'.live
  BY ItemsLive
<1>3. SingleItems(unit'.item) /\ SingleItems(seen'.unit.item) /\ SingleItems(pass'.unit.item)
  BY SingleStep
<1>4. \A c \in Claims : Asked(NextItems(c), budget'.claim[c])
  BY AskedStep
<1>5. \A c \in Claims : unit'.entry[c].uid = budget'.claim[c].uid => unit'.entry[c].whyGen <= budget'.claim[c].gen
  BY ReportBound
<1>6. \A c \in Claims :
          Says(unit', c) => /\ Same(seen'.unit.item[c], unit'.item[c])
                            /\ pass'.at # "idle" => Same(pass'.unit.item[c], unit'.item[c])
  BY SaysCopies
<1> QED
  BY <1>1, <1>2, <1>3, <1>4, <1>5, <1>6 DEF Copies, NextItems, ItemsOf

LEMMA InitCopies == ASSUME Init PROVE Copies
<1>1. Started
  BY InitStarted
<1>2. /\ pass.unit = NoUnit /\ ~Ending(pass) /\ seen.unit = unit /\ ~unit.deleting
      /\ \A c \in Claims : unit.item[c] = NoItem /\ budget.claim[c] = NoItem /\ NoUnit.item[c] = NoItem
  BY <1>1, NoItemFields DEF Started, Idle, Ending
<1>3. \A c \in Claims : unit.entry[c].uid = 0 /\ unit.entry[c].whyGen = 0
  BY <1>1 DEF Started, NoEntry
<1>4. SingleItems(unit.item) /\ SingleItems(seen.unit.item) /\ SingleItems(pass.unit.item)
  BY <1>2 DEF SingleItems
<1>5. \A c \in Claims : Asked(ItemsOf(c), budget.claim[c])
  BY <1>2, NoItemFields DEF Asked, ItemsOf
<1>6. \A c \in Claims : ~Says(unit, c) /\ budget.claim[c].gen = 0
  BY <1>2, NoItemFields DEF Says
<1> QED
  BY <1>2, <1>3, <1>4, <1>5, <1>6 DEF Copies

-----------------------------------------------------------------------------
(* How a pass that works on a claim goes on.                               *)

StaysReady == SetsReady /\ pass.at = "look" /\ pass'.at = "ready" /\ pass'.ids = pass.ids
PlansWrites ==
    /\ PlansNormal /\ pass.at = "look" /\ pass'.at = "fence" /\ pass'.ids = pass.ids
    /\ pass'.batch = Operations(Type, LiveOf(Type), Source(pass).want)
PlansRemoval ==
    /\ PlansDeletion /\ pass.at = "look" /\ pass'.at = "fence" /\ pass'.ids = pass.ids
    /\ pass'.batch.posts = {} /\ DOMAIN pass'.batch.patches = {}
    /\ \E ids \in {pass.ids, Source(pass).adopt} : pass'.batch.deletes = ids \cap Live
    /\ \A r \in pass'.batch.deletes : cloud.records[r].type = Type
Allowed == Permitted /\ pass.at = "fence" /\ pass'.at = "batch" /\ pass'.ids = pass.ids /\ pass'.batch = pass.batch
Learns ==
    /\ Answered /\ pass.at = "batch" /\ pass'.at = "ledger" /\ pass'.ids = pass.ids
    /\ pass'.add = Posted \cup DOMAIN pass.batch.patches /\ pass'.drop = pass.batch.deletes
LearnsGone ==
    /\ AlreadyGone /\ pass.at = "batch" /\ pass'.at = "ledger" /\ pass'.ids = pass.ids
    /\ pass'.add = {} /\ pass'.drop = pass.batch.deletes
LooksAgain == BindsLegacy /\ pass.at = "look" /\ pass'.at = "look" /\ pass'.ids = LiveOf(Type)
Writes ==
    /\ pass.at = "ledger" /\ pass'.at = "ledger" /\ pass'.ids = pass.ids
    /\ \/ /\ LedgerAdds /\ pass'.drop = pass.drop
          /\ \E r \in pass.add : pass'.add = pass.add \ {r}
       \/ /\ LedgerDrops /\ pass'.add = pass.add
          /\ \E r \in pass.drop : pass'.drop = pass.drop \ {r}

LEMMA PassMove ==
    ASSUME Base, Base', Kinds, Working(pass')
    PROVE  /\ pass' \in Pass
           /\ pass'.at \notin {"fence", "batch"} => pass'.batch = NoBatch
           /\ pass'.at # "ledger" => pass'.add = {} /\ pass'.drop = {}
           /\ \/ pass' = pass /\ (Quiet \/ ~RecordKinds)
              \/ /\ RecordKinds /\ pass'.unit = pass.unit /\ pass.at # "idle" /\ Source(pass') = pass.unit.item[pass'.c]
                 /\ \/ \E c \in Claims : Looks(c)
                    \/ /\ pass'.c = pass.c /\ Working(pass)
                       /\ \/ StaysReady \/ PlansWrites \/ PlansRemoval \/ Allowed
                          \/ Learns \/ LearnsGone \/ LooksAgain \/ Writes
<1>0. pass \in Pass /\ pass' \in Pass /\ PassOK(pass')
  BY PassTyped DEF Base, PassOK
<1>1. pass'.at \notin {"fence", "batch"} => pass'.batch = NoBatch
  BY <1>0 DEF PassOK
<1>2. pass'.at # "ledger" => pass'.add = {} /\ pass'.drop = {}
  BY <1>0 DEF PassOK
<1> DEFINE Goes == \/ StaysReady \/ PlansWrites \/ PlansRemoval \/ Allowed
                   \/ Learns \/ LearnsGone \/ LooksAgain \/ Writes
<1>3. CASE ~RecordKinds \/ Quiet
  <2>1. CASE Quiet
    BY <2>1, <1>0, <1>1, <1>2, IdlePass DEF Quiet, QuietPass
  <2>2. CASE Wiped
    <3>1. pass'.at = "release"
      BY <2>2, <1>0 DEF Wiped, Pass
    <3> QED
      BY <3>1 DEF Working
  <2>3. CASE UnitGone /\ ~Quiet
    BY <2>3, <1>0, <1>1, <1>2, <1>3, IdlePass DEF UnitGone
  <2>4. CASE (UNCHANGED vars \/ UnitMarked \/ Delivered \/ Outside \/ \E c \in Claims : CoreKinds(c)) /\ ~RecordKinds
    BY <2>4, <1>0, <1>1, <1>2, CoreStays DEF vars, UnitMarked, Delivered, Outside
  <2> QED
    BY <1>3, <2>1, <2>2, <2>3, <2>4 DEF Kinds
<1>4. CASE RecordKinds /\ ~Quiet
  <2>1. ~Working(Idle) /\ ~Working(Continue)
    BY IdlePass, ContinueOK
  <2>2. pass'.unit = pass.unit /\ pass.at # "idle" /\ Source(pass') = pass.unit.item[pass'.c]
    BY <1>4, <2>1, RecordPass DEF Source
  <2>3. ASSUME pass'.c = pass.c, Working(pass), PlansNormal, pass'.ids = pass.ids PROVE PlansWrites
    BY <1>0, <2>3 DEF PlansNormal, PlansWrites, Looking, Pass
  <2>4. ASSUME pass'.c = pass.c, Working(pass), PlansDeletion, pass'.ids = pass.ids PROVE PlansRemoval
    <3>1. PICK ids \in {pass.ids, Source(pass).adopt} :
             /\ pass' = [pass EXCEPT !.at = "fence", !.batch = [NoBatch EXCEPT !.deletes = ids \cap Live]]
             /\ \A r \in ids \cap Live : cloud.records[r].type = Type
      BY <2>4 DEF PlansDeletion
    <3> DEFINE b == [NoBatch EXCEPT !.deletes = ids \cap Live]
    <3>2. b.deletes = ids \cap Live /\ DOMAIN b.patches = {} /\ b.posts = {}
      BY NoBatchTargets DEF NoBatch
    <3>3. pass'.batch = b /\ pass'.at = "fence"
      BY <1>0, <3>1 DEF Pass
    <3> HIDE DEF b
    <3> QED
      BY <2>4, <3>1, <3>2, <3>3 DEF PlansRemoval, PlansDeletion, Looking
  <2>5. ASSUME Permitted, pass'.ids = pass.ids, pass'.batch = pass.batch PROVE Allowed
    BY <1>0, <2>5 DEF Permitted, Allowed, Pass
  <2>6. ASSUME Answered, pass'.ids = pass.ids PROVE Learns
    <3>1. PICK a, d : /\ a = Posted \cup DOMAIN pass.batch.patches /\ d = pass.batch.deletes
                      /\ pass' = [pass EXCEPT !.at = "ledger", !.batch = NoBatch, !.add = a, !.drop = d]
      BY <2>6 DEF Answered
    <3> QED
      BY <1>0, <2>6, <3>1 DEF Answered, Learns, Sent, Pass
  <2>7. ASSUME AlreadyGone, pass'.ids = pass.ids PROVE LearnsGone
    <3>1. pass.add = {} /\ pass.at = "batch"
      BY <2>7 DEF AlreadyGone, Base, PassOK
    <3>2. PICK d : d = pass.batch.deletes /\ pass' = [pass EXCEPT !.at = "ledger", !.batch = NoBatch, !.drop = d]
      BY <2>7 DEF AlreadyGone
    <3> QED
      BY <1>0, <2>7, <3>1, <3>2 DEF LearnsGone, Pass
  <2>8. ASSUME BindsLegacy, pass'.at = "look" PROVE LooksAgain
    <3>1. pass' \in {Idle, [pass EXCEPT !.ids = LiveOf(Type)]}
      BY <2>8, OutcomeLeft DEF BindsLegacy
    <3> QED
      BY <1>0, <2>1, <2>8, <3>1 DEF LooksAgain, BindsLegacy, Looking, Pass
  <2>9. ASSUME LedgerAdds, pass'.at = "ledger", pass'.ids = pass.ids, pass'.drop = pass.drop PROVE Writes
    <3>1. PICK r \in pass.add :
             Outcome(pass.c, [Start(pass.c) EXCEPT !.ids = Rebased(pass.c, Source(pass)).ids \cup {r}],
                     [pass EXCEPT !.add = @ \ {r}])
      BY <2>9 DEF LedgerAdds
    <3> DEFINE e == [Start(pass.c) EXCEPT !.ids = Rebased(pass.c, Source(pass)).ids \cup {r}]
               next == [pass EXCEPT !.add = @ \ {r}]
    <3>2. Outcome(pass.c, e, next)
      BY <3>1
    <3>3. next.add = pass.add \ {r}
      BY <1>0 DEF Pass
    <3> HIDE DEF e, next
    <3>4. pass' \in {Idle, next}
      BY <3>2, OutcomeLeft
    <3> QED
      BY <2>1, <2>9, <3>3, <3>4 DEF Writes, LedgerAdds
  <2>10. ASSUME LedgerDrops, pass'.at = "ledger", pass'.ids = pass.ids, pass'.add = pass.add PROVE Writes
    <3>1. PICK r \in pass.drop :
             Outcome(pass.c, [Start(pass.c) EXCEPT !.ids = Rebased(pass.c, Source(pass)).ids \ {r}],
                     [pass EXCEPT !.drop = @ \ {r}])
      BY <2>10 DEF LedgerDrops
    <3> DEFINE e == [Start(pass.c) EXCEPT !.ids = Rebased(pass.c, Source(pass)).ids \ {r}]
               next == [pass EXCEPT !.drop = @ \ {r}]
    <3>2. Outcome(pass.c, e, next)
      BY <3>1
    <3>3. next.drop = pass.drop \ {r}
      BY <1>0 DEF Pass
    <3> HIDE DEF e, next
    <3>4. pass' \in {Idle, next}
      BY <3>2, OutcomeLeft
    <3> QED
      BY <2>1, <2>10, <3>3, <3>4 DEF Writes, LedgerDrops
  <2>11. \/ \E c \in Claims : Looks(c)
         \/ pass'.c = pass.c /\ Working(pass) /\ Goes
    <3>1. ASSUME SetsReady, pass'.at = "ready", pass'.ids = pass.ids PROVE StaysReady
      BY <3>1 DEF SetsReady, Looking, StaysReady
    <3> HIDE DEF Goes
    <3>2. StaysReady \/ PlansWrites \/ PlansRemoval \/ Allowed \/ Learns \/ LearnsGone \/ LooksAgain \/ Writes => Goes
      BY DEF Goes
    <3> QED
      BY <1>4, <2>1, <2>3, <2>4, <2>5, <2>6, <2>7, <2>8, <2>9, <2>10, <3>1, <3>2, RecordPass
  <2> QED
    BY <1>0, <1>1, <1>2, <1>4, <2>2, <2>11
<1> QED
  BY <1>3, <1>4

-----------------------------------------------------------------------------
(* The ledger and the pass name only records of the type of their claim.   *)

OfType(rec, t) == rec # Gone => rec.type = t
TypedIds ==
    /\ \A c \in Claims : \A e \in EntriesOf(c) : \A r \in e.ids : OfType(cloud.records[r], TypeOf[c])
    /\ Working(pass) => \A r \in Targets(pass) : OfType(cloud.records[r], Type)

\* What a batch does to a record that was there.
LEMMA SentEach ==
    ASSUME Base, RecordsMade, Sent, NEW r \in RecordIds, r <= budget.records
    PROVE  \/ r \in DOMAIN pass.batch.patches /\ cloud.records[r] \in Record /\ cloud.records[r] # Gone
              /\ cloud'.records[r] = [cloud.records[r] EXCEPT !.value = pass.batch.patches[r]]
              /\ cloud'.records[r] \in Record /\ cloud'.records[r].type = cloud.records[r].type
              /\ cloud'.records[r].value = pass.batch.patches[r]
           \/ r \in pass.batch.deletes /\ r \notin DOMAIN pass.batch.patches /\ cloud'.records[r] = Gone
           \/ r \notin pass.batch.deletes /\ r \notin DOMAIN pass.batch.patches
              /\ cloud'.records[r] = cloud.records[r]
<1>1. r \notin Posted
  BY SentRecords, BudgetRange
<1>2. cloud'.records = Applied /\ pass.at = "batch" /\ Appliable /\ Posted \subseteq RecordIds
  BY SentRecords DEF Sent
<1>3. CASE r \in DOMAIN pass.batch.patches
  <2>1. cloud.records[r] \in Record
        /\ Applied[r] = [cloud.records[r] EXCEPT !.value = pass.batch.patches[r]]
        /\ pass.batch.patches[r] \in Values
    BY <1>1, <1>2, <1>3, AppliedFacts
  <2>2. cloud.records[r] # Gone
    BY <1>2, <1>3 DEF Appliable, Live
  <2>3. Applied[r] \in Record /\ Applied[r].type = cloud.records[r].type
        /\ Applied[r].value = pass.batch.patches[r]
    BY <2>1 DEF Record
  <2> QED
    BY <1>2, <1>3, <2>1, <2>2, <2>3
<1>4. CASE r \notin DOMAIN pass.batch.patches
  BY <1>1, <1>2, <1>4, AppliedFacts
<1> QED
  BY <1>3, <1>4

LEMMA SentNew ==
    ASSUME Base, RecordsMade, Sent, NEW r \in Posted
    PROVE  /\ r > budget.records /\ r \in RecordIds /\ cloud'.records[r].type = Type
           /\ cloud'.records[r].value = PostedValues[r] /\ cloud'.records[r] # Gone
           /\ PostedValues[r] \in pass.batch.posts
<1>1. Working(pass) /\ pass.at = "batch" /\ Appliable /\ Posted \subseteq RecordIds
  BY DEF Working, Sent
<1>2. Applied[r] = [type |-> Type, value |-> PostedValues[r], maker |-> <<pass.c, Source(pass).uid>>]
  BY <1>1, AppliedFacts
<1>3. Type # "gone"
  BY <1>1, WorkingFacts, CloudflareAssumption DEF Type
<1>4. Applied[r].type = Type /\ Applied[r].value = PostedValues[r] /\ Gone.type = "gone"
  BY <1>2 DEF Gone
<1>5. PostedValues[r] \in pass.batch.posts
  BY <1>1, PostedFacts
<1> QED
  BY <1>3, <1>4, <1>5, SentRecords

\* What any step does to the records.
LEMMA CloudMove ==
    ASSUME Base, Owning, Kinds
    PROVE  /\ budget.tampered => budget'.tampered
           /\ \/ /\ cloud'.records = cloud.records /\ budget'.records = budget.records
                 /\ budget'.tampered = budget.tampered
              \/ Wiped /\ \A r \in RecordIds : cloud'.records[r] = Gone
              \/ /\ UNCHANGED <<unit, seen, class, pass>> /\ budget'.claim = budget.claim
                 /\ \/ budget'.tampered /\ \A r \in RecordIds : cloud'.records[r] \in {cloud.records[r], Gone}
                    \/ /\ Fresh \in RecordIds /\ Fresh > budget.records /\ budget'.records = Fresh
                       /\ \A r \in RecordIds : r # Fresh => cloud'.records[r] = cloud.records[r]
                       /\ budget'.tampered = budget.tampered
              \/ Sent /\ budget'.tampered = budget.tampered
<1>1. CASE Outside
  <2>0. budget.records \in Nat /\ cloud \in Cloud
    BY BudgetRange DEF Base
  <2>1. CASE ForeignAdds
    <3>1. PICK rec : cloud'.records = [cloud.records EXCEPT ![Fresh] = rec] /\ budget'.records = Fresh
                     /\ Fresh \in RecordIds /\ budget'.tampered = budget.tampered
      BY <2>1 DEF ForeignAdds
    <3>2. \A r \in RecordIds : r # Fresh => cloud'.records[r] = cloud.records[r]
      BY <2>0, <3>1 DEF Cloud
    <3>3. Fresh > budget.records
      BY <2>0 DEF Fresh
    <3> QED
      BY <1>1, <3>1, <3>2, <3>3 DEF Outside
  <2>2. CASE ForeignRemoves
    BY <1>1, <2>2 DEF Outside, ForeignRemoves
  <2> QED
    BY <1>1, <2>1, <2>2 DEF Outside
<1>2. CASE Wiped
  BY <1>2 DEF Wiped
<1>3. CASE Sent
  BY <1>3 DEF Sent
<1> QED
  BY <1>1, <1>2, <1>3, RecordStepCloud, OtherStepCloud DEF Kinds

LEMMA TypesKept ==
    ASSUME Base, Owning, Kinds, NEW r \in RecordIds, r <= budget.records, NEW t,
           OfType(cloud.records[r], t)
    PROVE  OfType(cloud'.records[r], t)
<1>1. CASE Sent
  BY <1>1, SentEach DEF OfType, Owning
<1>2. Fresh > budget.records => r # Fresh
  BY BudgetRange DEF Fresh
<1> QED
  BY <1>1, <1>2, CloudMove DEF OfType

\* The IDs of entries and passes are of records made before.
LEMMA IdsRange ==
    ASSUME Base, Owning
    PROVE  /\ \A c \in Claims : \A e \in EntriesOf(c) : e.ids \subseteq RecordIds /\ \A r \in e.ids : r <= budget.records
           /\ Working(pass) => Targets(pass) \subseteq RecordIds /\ \A r \in Targets(pass) : r <= budget.records
           /\ \A r \in Live : r \in RecordIds /\ r <= budget.records
<1>1. \A c \in Claims : \A e \in EntriesOf(c) : e.ids \subseteq RecordIds /\ \A r \in e.ids : r <= budget.records
  BY CopiesTyped DEF Entry, Owning, EntriesOwned, EntryOwned
<1>2. ASSUME Working(pass)
      PROVE  Targets(pass) \subseteq RecordIds /\ \A r \in Targets(pass) : r <= budget.records
  BY <1>2, PassTyped, TargetRange DEF Owning, TargetsOwned, PassOwned
<1>3. ASSUME NEW r \in Live PROVE r \in RecordIds /\ r <= budget.records
  BY <1>3, BudgetRange DEF Live, Owning, RecordsMade
<1> QED
  BY <1>1, <1>2, <1>3

\* The records that the ledger lists for the incarnation of item c.
Held(c) == IF unit.entry[c].uid = unit.item[c].uid THEN unit.entry[c].ids ELSE {}

\* How a status patch changes the list.
Lists(c, ids) ==
    \/ ids = Held(c)
    \/ /\ Working(pass) /\ c = pass.c
       /\ \/ SetsReady /\ ids = LiveOf(Type) /\ pass' = [pass EXCEPT !.at = "ready"]
          \/ BindsLegacy /\ ids = LiveOf(Type)
          \/ DropsOdd /\ \E r \in RecordIds \ Live : ids = Held(c) \ {r}
          \/ LedgerAdds /\ \E r \in pass.add :
                ids = Held(c) \cup {r} /\ pass' = [pass EXCEPT !.add = @ \ {r}]
          \/ LedgerDrops /\ \E r \in pass.drop :
                ids = Held(c) \ {r} /\ pass' = [pass EXCEPT !.drop = @ \ {r}]

LEMMA PatchedIds ==
    ASSUME Base, Kinds, NEW c \in Claims, unit'.entry[c] # unit.entry[c], unit'.entry[c] # NoEntry
    PROVE  Lists(c, unit'.entry[c].ids)
<1> DEFINE e == unit'.entry[c]
           s == Start(c)
<1>1. EntryPatched(c, e) /\ (c \in pass.rest \/ (Working(pass) /\ c = pass.c))
  BY NextEntry
<1>2. s \in Entry /\ s.ids = Held(c)
  BY <1>1, PatchFacts DEF Held
<1>3. c = pass.c => s = Start(pass.c) /\ Rebased(c, Source(pass)).ids = Held(c)
  BY <1>2, StartTyped DEF Source
<1>4. \A a : [s EXCEPT !.accepted = a].ids = Held(c)
  BY <1>2, EntryParts
<1>5. \A why, gen : [s EXCEPT !.why = why, !.whyGen = gen].ids = Held(c)
  BY <1>2, EntryParts
<1>6. \A why, gen : [s EXCEPT !.why = why, !.whyGen = gen, !.completed = TRUE].ids = Held(c)
  BY <1>2, EntryParts
<1>7. \A ids : [s EXCEPT !.ids = ids].ids = ids
  BY <1>2, EntryParts
<1>8. c = pass.c => \A ids : Binding(ids).ids = ids
  BY <1>3, <1>7 DEF Binding
<1>9. \/ Accepted /\ c \in pass.rest /\ \E accepted \in BOOLEAN : e = [Start(c) EXCEPT !.accepted = accepted]
      \/ /\ Working(pass) /\ c = pass.c
         /\ \/ \E why \in Reasons \ {"Programmed"} : e = Reporting(why)
            \/ ReportsReady /\ e = Reporting("Programmed")
            \/ SetsReady /\ e = Binding(LiveOf(Type)) /\ pass' = [pass EXCEPT !.at = "ready"]
            \/ Completes /\ e = Completing
            \/ BindsLegacy /\ e = Binding(LiveOf(Type))
            \/ DropsOdd /\ \E r \in RecordIds \ Live : e = Binding(Rebased(c, Source(pass)).ids \ {r})
            \/ LedgerAdds /\ \E r \in pass.add :
                  /\ e = Binding(Rebased(c, Source(pass)).ids \cup {r}) /\ pass' = [pass EXCEPT !.add = @ \ {r}]
            \/ LedgerDrops /\ \E r \in pass.drop :
                  /\ e = Binding(Rebased(c, Source(pass)).ids \ {r}) /\ pass' = [pass EXCEPT !.drop = @ \ {r}]
  BY NextEntry
<1>10. CASE \E accepted \in BOOLEAN : e = [Start(c) EXCEPT !.accepted = accepted]
  BY <1>4, <1>10 DEF Lists
<1>11. CASE c = pass.c /\ \E why \in Reasons \ {"Programmed"} : e = Reporting(why)
  BY <1>3, <1>5, <1>11 DEF Lists, Reporting
<1>12. CASE c = pass.c /\ ReportsReady /\ e = Reporting("Programmed")
  BY <1>3, <1>5, <1>12 DEF Lists, Reporting
<1>13. CASE c = pass.c /\ Completes /\ e = Completing
  BY <1>3, <1>6, <1>13 DEF Lists, Completing
<1> HIDE DEF s, e
<1>14. CASE Working(pass) /\ c = pass.c /\ SetsReady /\ e = Binding(LiveOf(Type)) /\ pass' = [pass EXCEPT !.at = "ready"]
  BY <1>8, <1>14 DEF Lists, e
<1>15. CASE Working(pass) /\ c = pass.c /\ BindsLegacy /\ e = Binding(LiveOf(Type))
  BY <1>8, <1>15 DEF Lists, e
<1>16. CASE Working(pass) /\ c = pass.c /\ DropsOdd /\ \E r \in RecordIds \ Live : e = Binding(Rebased(c, Source(pass)).ids \ {r})
  BY <1>3, <1>8, <1>16 DEF Lists, e
<1>17. CASE Working(pass) /\ c = pass.c /\ LedgerAdds /\ \E r \in pass.add :
                  /\ e = Binding(Rebased(c, Source(pass)).ids \cup {r}) /\ pass' = [pass EXCEPT !.add = @ \ {r}]
  <2>1. PICK r \in pass.add :
           e = Binding(Rebased(c, Source(pass)).ids \cup {r}) /\ pass' = [pass EXCEPT !.add = @ \ {r}]
    BY <1>17
  <2>2. e.ids = Held(c) \cup {r}
    BY <1>3, <1>8, <1>17, <2>1
  <2> QED
    BY <1>17, <2>1, <2>2 DEF Lists, e
<1>18. CASE Working(pass) /\ c = pass.c /\ LedgerDrops /\ \E r \in pass.drop :
                  /\ e = Binding(Rebased(c, Source(pass)).ids \ {r}) /\ pass' = [pass EXCEPT !.drop = @ \ {r}]
  <2>1. PICK r \in pass.drop :
           e = Binding(Rebased(c, Source(pass)).ids \ {r}) /\ pass' = [pass EXCEPT !.drop = @ \ {r}]
    BY <1>18
  <2>2. e.ids = Held(c) \ {r}
    BY <1>3, <1>8, <1>18, <2>1
  <2> QED
    BY <1>18, <2>1, <2>2 DEF Lists, e
<1> QED
  BY <1>9, <1>10, <1>11, <1>12, <1>13, <1>14, <1>15, <1>16, <1>17, <1>18 DEF e

\* The records of a type are those that are there.
LEMMA LiveOfFacts ==
    ASSUME Base, Owning, Working(pass)
    PROVE  /\ Type # "gone" /\ LiveOf(Type) \subseteq Live /\ LiveOf(Type) \subseteq RecordIds
           /\ \A r \in LiveOf(Type) : r <= budget.records /\ OfType(cloud.records[r], Type)
<1>1. Type # "gone"
  BY WorkingFacts, CloudflareAssumption DEF Type
<1>2. Gone.type = "gone"
  BY DEF Gone
<1>3. LiveOf(Type) \subseteq Live /\ LiveOf(Type) \subseteq RecordIds
  BY <1>1, <1>2 DEF LiveOf, Live
<1> QED
  BY <1>1, <1>3, IdsRange DEF LiveOf, OfType

LEMMA TypedTargets ==
    ASSUME Base, Base', Owning, TypedIds, Kinds, Working(pass'), NEW r \in Targets(pass')
    PROVE  OfType(cloud'.records[r], TypeOf[pass'.c])
<1>0. \A x \in RecordIds : \A t : x <= budget.records /\ OfType(cloud.records[x], t) => OfType(cloud'.records[x], t)
  BY TypesKept
<1> DEFINE Good(x) == x \in RecordIds /\ x <= budget.records /\ OfType(cloud.records[x], TypeOf[pass'.c])
<1>1. ASSUME Good(r) PROVE OfType(cloud'.records[r], TypeOf[pass'.c])
  BY <1>0, <1>1
<1>2. pass'.at \notin {"fence", "batch"} => pass'.batch.deletes = {} /\ DOMAIN pass'.batch.patches = {}
  BY PassMove, NoBatchTargets
<1>3. pass'.at # "ledger" => pass'.add = {} /\ pass'.drop = {}
  BY PassMove
<1>4. CASE pass' = pass
  <2>1. Good(r)
    BY <1>4, IdsRange DEF TypedIds, Type
  <2> QED
    BY <1>1, <2>1
<1>5. ASSUME NEW c \in Claims, Looks(c) PROVE OfType(cloud'.records[r], TypeOf[pass'.c])
  <2>1. pass'.c = c /\ r \in Rebased(c, pass.unit.item[c]).ids
    BY <1>2, <1>3, <1>5 DEF Looks, Targets
  <2>2. r \in seen.unit.entry[c].ids
    BY <2>1 DEF Rebased, NoEntry
  <2>3. Good(r)
    BY <2>1, <2>2, IdsRange DEF TypedIds, EntriesOf
  <2> QED
    BY <1>1, <2>3
<1>6. CASE pass'.c = pass.c /\ Working(pass)
  <2>1. \A x \in Targets(pass) \cup LiveOf(Type) : Good(x)
    BY <1>6, IdsRange, LiveOfFacts DEF TypedIds, Type
  <2>2. pass.batch.deletes \subseteq Targets(pass) /\ DOMAIN pass.batch.patches \subseteq Targets(pass)
        /\ pass.ids \subseteq Targets(pass) /\ pass.add \subseteq Targets(pass)
    BY DEF Targets
  <2> HIDE DEF Good
  <2>3. CASE StaysReady \/ Allowed \/ LearnsGone \/ Writes
    <3>1. r \in Targets(pass)
      BY <1>2, <1>3, <2>2, <2>3 DEF StaysReady, Allowed, LearnsGone, Writes, Targets
    <3> QED
      BY <1>1, <2>1, <3>1
  <2>4. CASE PlansWrites
    <3>1. LET ops == Operations(Type, LiveOf(Type), Source(pass).want)
          IN  ops.deletes \subseteq LiveOf(Type) /\ DOMAIN ops.patches \subseteq LiveOf(Type)
      BY <1>6, WorkingFacts, LiveOfFacts, OperationsFacts
    <3>2. r \in pass.ids \cup LiveOf(Type)
      BY <1>3, <2>4, <3>1 DEF PlansWrites, Targets
    <3> QED
      BY <1>1, <2>1, <2>2, <3>2
  <2>5. CASE PlansRemoval
    <3>1. CASE r \in pass.ids
      BY <1>1, <2>1, <2>2, <3>1
    <3>2. CASE r \in pass'.batch.deletes
      <4>1. cloud.records[r].type = Type /\ r \in RecordIds /\ r <= budget.records
        BY <2>5, <3>2, IdsRange DEF PlansRemoval
      <4> QED
        BY <1>1, <1>6, <4>1 DEF OfType, Good, Type
    <3> QED
      BY <1>3, <2>5, <3>1, <3>2 DEF PlansRemoval, Targets
  <2>6. CASE Learns
    <3>1. CASE r \in Posted
      <4>1. Sent
        BY <2>6 DEF Learns, Answered
      <4> QED
        BY <1>6, <3>1, <4>1, SentNew DEF OfType, Type, Owning
    <3>2. CASE r \notin Posted
      <4>1. r \in Targets(pass)
        BY <1>2, <2>2, <2>6, <3>2 DEF Learns, Targets
      <4> QED
        BY <1>1, <2>1, <4>1
    <3> QED
      BY <3>1, <3>2
  <2>7. CASE LooksAgain
    <3>1. r \in LiveOf(Type)
      BY <1>2, <1>3, <2>7 DEF LooksAgain, Targets
    <3> QED
      BY <1>1, <2>1, <3>1
  <2>8. StaysReady \/ PlansWrites \/ PlansRemoval \/ Allowed \/ Learns \/ LearnsGone \/ LooksAgain \/ Writes
        \/ pass' = pass \/ \E c \in Claims : Looks(c)
    BY PassMove
  <2> QED
    BY <1>4, <1>5, <2>3, <2>4, <2>5, <2>6, <2>7, <2>8
<1> HIDE DEF Good
<1> QED
  BY <1>4, <1>5, <1>6, PassMove

LEMMA TypedStep ==
    ASSUME Base, Base', Owning, TypedIds, Kinds
    PROVE  TypedIds'
<1>0. \A r \in RecordIds : \A t : r <= budget.records /\ OfType(cloud.records[r], t) => OfType(cloud'.records[r], t)
  BY TypesKept
<1>1. ASSUME NEW c \in Claims, NEW e \in NextEntries(c), NEW r \in e.ids
      PROVE  OfType(cloud'.records[r], TypeOf[c])
  <2> DEFINE Good(x) == x \in RecordIds /\ x <= budget.records /\ OfType(cloud.records[x], TypeOf[c])
  <2>0. ASSUME NEW x, Good(x) PROVE OfType(cloud'.records[x], TypeOf[c])
    BY <1>0, <2>0
  <2>1. CASE e \in EntriesOf(c)
    <3>1. Good(r)
      BY <1>1, <2>1, IdsRange DEF TypedIds
    <3> QED
      BY <2>0, <3>1
  <2>2. CASE e = NoEntry
    BY <1>1, <2>2, NoItemFields
  <2>3. CASE e = unit'.entry[c] /\ e # unit.entry[c] /\ e # NoEntry
    <3>1. \A x \in Held(c) : Good(x)
      BY IdsRange DEF TypedIds, EntriesOf, Held
    <3>2. Working(pass) /\ c = pass.c => \A x \in LiveOf(Type) \cup pass.add : Good(x)
      BY IdsRange, LiveOfFacts DEF TypedIds, Targets, Type
    <3> HIDE DEF Good
    <3>4. r \in Held(c) \/ (Working(pass) /\ c = pass.c /\ r \in LiveOf(Type) \cup pass.add)
      BY <1>1, <2>3, PatchedIds DEF Lists
    <3> QED
      BY <2>0, <3>1, <3>2, <3>4
  <2>4. e \in EntriesOf(c) \cup {NoEntry} \/ EntryPatched(c, e)
    BY EntrySources
  <2>5. EntryPatched(c, e) => unit'.entry[c] = e /\ unit.entry[c] \in EntriesOf(c)
    BY PassTyped DEF EntryPatched, Base, Unit, EntriesOf
  <2> QED
    BY <2>1, <2>2, <2>3, <2>4, <2>5
<1> QED
  BY <1>1, TypedTargets DEF TypedIds, NextEntries, EntriesOf, Type

LEMMA InitTyped == ASSUME Init PROVE TypedIds
<1>1. Started
  BY InitStarted
<1>2. PICK old \in {FALSE, Legacy}, v \in Values :
          /\ \A c \in Claims : unit.entry[c] = [NoEntry EXCEPT !.ids = LegacyIdsOf(old, c)]
          /\ \A c \in Claims : old => cloud.records[LegacyId(c)] = LegacyRecord(c, v)
  BY <1>1 DEF Started
<1>3. \A ids : [NoEntry EXCEPT !.ids = ids].ids = ids
  BY DEF NoEntry
<1>4. \A c \in Claims : unit.entry[c].ids = LegacyIdsOf(old, c)
  BY <1>2, <1>3
<1>5. \A c \in Claims : LegacyRecord(c, v).type = TypeOf[c]
  BY DEF LegacyRecord
<1>6. \A c \in Claims : \A r \in unit.entry[c].ids : OfType(cloud.records[r], TypeOf[c])
  BY <1>2, <1>4, <1>5 DEF LegacyIdsOf, OfType
<1>7. seen.unit = unit /\ pass = Idle /\ Idle.unit = NoUnit
  BY <1>1 DEF Started, Idle
<1>8. \A c \in Claims : NoUnit.entry[c].ids = {}
  BY NoItemFields
<1> QED
  BY <1>6, <1>7, <1>8, IdlePass DEF TypedIds, EntriesOf

-----------------------------------------------------------------------------
(* The ledger of a claim that is served: what the unit lists for its       *)
(* incarnation, and what the cache shows of that.                          *)

\* Core still asks for the incarnation of claim c, in a unit that stays.
Serving(c) == unit.live /\ ~unit.deleting /\ budget.claim[c].uid # 0 /\ ~budget.claim[c].deleting
IdsOf(e, uid) == IF e.uid = uid THEN e.ids ELSE {}
Bound(c) == IdsOf(unit.entry[c], budget.claim[c].uid)
Cached(c) == IdsOf(seen.unit.entry[c], budget.claim[c].uid)
\* The pass works for an incarnation that is served.
Serves == Working(pass) /\ Serving(pass.c) /\ Source(pass).uid = budget.claim[pass.c].uid

\* The cached ledger is the one before or the one after the step.
LEMMA CacheFollows == ASSUME Base, Kinds PROVE seen'.unit.entry \in {unit'.entry, seen.unit.entry}
<1>0. seen.current => seen.unit = unit
  BY DEF Base
<1>1. CASE UNCHANGED vars \/ Quiet \/ Wiped \/ UnitGone \/ UnitMarked \/ Delivered \/ Outside
  BY <1>0, <1>1 DEF vars, Quiet, QuietUnit, SameUnit, Wiped, UnitGone, UnitMarked, Delivered, Outside
<1>2. ASSUME NEW c \in Claims, CoreKinds(c) PROVE seen'.unit.entry \in {unit'.entry, seen.unit.entry}
  <2>1. PICK i, b : ItemStep(c, i, b)
    BY <1>2 DEF CoreKinds, Adds, Edited, Toggled, Dropped
  <2> QED
    BY <1>0, <2>1 DEF ItemStep, CacheStep
<1>3. CASE RecordKinds
  <2>1. CASE Quiet \/ Pruned \/ PlansNormal \/ PlansDeletion \/ Permitted \/ Answered \/ AlreadyGone
    BY <1>1, <2>1 DEF Pruned, PlansNormal, PlansDeletion, Permitted, Answered, AlreadyGone
  <2>2. CASE \E c, e, next : Outcome(c, e, next)
    BY <1>0, <2>2 DEF Outcome, Refused, Unpatched, Patched
  <2>3. CASE Accepted \/ ReportsOther \/ ReportsReady \/ SetsReady \/ Completes \/ BindsLegacy \/ DropsOdd
             \/ Lost \/ LedgerAdds \/ LedgerDrops
    BY <2>2, <2>3 DEF Accepted, ReportsOther, ReportsReady, SetsReady, Completes, BindsLegacy, DropsOdd,
                      Lost, LedgerAdds, LedgerDrops, Reported
  <2> QED
    BY <1>3, <2>1, <2>3 DEF RecordKinds
<1> QED
  BY <1>1, <1>2, <1>3 DEF Kinds

\* Core starts a new incarnation of claim c.
Newborn(c) ==
    /\ budget'.claim[c].uid > budget.uids /\ budget'.claim[c].uid # budget.claim[c].uid
    /\ Bound(c)' = {} /\ Cached(c)' = {}
    /\ pass' = pass /\ cloud' = cloud

\* A claim that is served was served before, unless it is new.
LEMMA ServingMove ==
    ASSUME Base, Base', Owning, Copies, Kinds, NEW c \in Claims, Serving(c)'
    PROVE  \/ Newborn(c)
           \/ Serving(c) /\ budget'.claim[c].uid = budget.claim[c].uid
<1>1. unit.live /\ ~unit.deleting
  BY UnitMoves DEF Serving
<1>2. CASE budget'.claim[c] = budget.claim[c]
  BY <1>1, <1>2 DEF Serving
<1>3. CASE Renewed(c) /\ unit'.item[c].uid > budget.uids
  <2>1. budget'.claim[c].uid > budget.uids
    BY <1>3 DEF Renewed
  <2>2. \A e \in EntriesOf(c) : e.uid <= budget.uids /\ e.uid \in Nat
    <3>1. \A e \in EntriesOf(c) : e.uid <= budget.uids
      BY DEF Owning, EntriesOwned, EntryOwned
    <3>2. \A e \in EntriesOf(c) : e.uid \in Nat
      BY CopiesTyped DEF Entry
    <3> QED
      BY <3>1, <3>2
  <2>3. budget.claim[c].uid <= budget.uids /\ budget.claim[c].uid \in Nat
    BY PassTyped, ItemShape DEF Owning, ItemsKnown, Known, ItemsOf
  <2>4. budget'.claim[c].uid \in Nat /\ budget.uids \in Nat
    <3>1. budget'.claim[c] \in Items
      BY KindsBooks
    <3> QED
      BY <3>1, BudgetRange, ItemShape
  <2>5. unit'.entry[c] \in EntriesOf(c) /\ seen'.unit.entry[c] \in EntriesOf(c)
    BY <1>3, CacheFollows DEF Renewed, EntriesOf
  <2>6. unit'.entry[c].uid # budget'.claim[c].uid /\ seen'.unit.entry[c].uid # budget'.claim[c].uid
    BY <2>1, <2>2, <2>4, <2>5
  <2>7. budget'.claim[c].uid # budget.claim[c].uid
    BY <2>1, <2>3, <2>4
  <2> QED
    BY <1>3, <2>1, <2>6, <2>7 DEF Newborn, Bound, Cached, IdsOf, Renewed
<1>4. CASE Renewed(c) /\ unit'.item[c].uid = budget.claim[c].uid /\ ~budget.claim[c].deleting
  BY <1>1, <1>4 DEF Renewed, Serving
<1> QED
  BY <1>2, <1>3, <1>4, ItemMove DEF Renewed

\* What a step does to the ledger of a claim that stays served.
LEMMA BoundMove ==
    ASSUME Base, Base', Owning, Copies, Clean, Kinds, NEW c \in Claims, Serving(c)', Serving(c),
           budget'.claim[c].uid = budget.claim[c].uid
    PROVE  /\ Cached(c)' \in {Bound(c)', Cached(c)}
           /\ \/ Bound(c)' = Bound(c)
              \/ /\ Serves /\ c = pass.c /\ EntryPatched(c, unit'.entry[c])
                 /\ \/ SetsReady /\ Bound(c)' = LiveOf(Type) /\ pass' = [pass EXCEPT !.at = "ready"]
                    \/ LedgerAdds /\ \E r \in pass.add :
                          Bound(c)' = Bound(c) \cup {r} /\ pass' = [pass EXCEPT !.add = @ \ {r}]
                    \/ LedgerDrops /\ \E r \in pass.drop :
                          Bound(c)' = Bound(c) \ {r} /\ pass' = [pass EXCEPT !.drop = @ \ {r}]
<1>1. Cached(c)' \in {Bound(c)', Cached(c)}
  BY CacheFollows DEF Cached, Bound
<1>2. CASE unit'.entry[c] = unit.entry[c]
  BY <1>1, <1>2 DEF Bound
<1>3. CASE unit'.entry[c] = NoEntry /\ c \in Prunable(unit)
  <2>1. Bound(c)' = {}
    BY <1>3, NoItemFields DEF Bound, IdsOf, Serving
  <2>2. CASE unit.entry[c].uid = budget.claim[c].uid /\ unit.entry[c].completed
    <3>1. budget.claim[c].deleting
      BY <2>2 DEF Clean, CleanEntry, ItemsOf
    <3> QED
      BY <3>1 DEF Serving
  <2>3. CASE unit.entry[c].uid # budget.claim[c].uid \/ unit.entry[c].ids = {}
    BY <1>1, <2>1, <2>3 DEF Bound, IdsOf
  <2> QED
    BY <1>3, <2>2, <2>3 DEF Prunable
<1>4. CASE unit'.entry[c] # unit.entry[c] /\ unit'.entry[c] # NoEntry
  <2>1. /\ unit.item[c] # NoItem /\ unit'.entry[c].uid = unit.item[c].uid
        /\ unit.item[c].uid = budget.claim[c].uid /\ EntryPatched(c, unit'.entry[c])
    BY <1>4, PatchedReport
  <2>2. Bound(c)' = unit'.entry[c].ids /\ Bound(c) = Held(c)
    BY <2>1 DEF Bound, IdsOf, Held
  <2>3. Lists(c, unit'.entry[c].ids)
    BY <1>4, PatchedIds
  <2>4. CASE Bound(c)' = Bound(c)
    BY <1>1, <2>4
  <2>5. CASE Working(pass) /\ c = pass.c
    <3>1. /\ pass.unit.item[c].uid = unit.item[c].uid /\ pass.unit.item[c].deleting = unit.item[c].deleting
      BY <2>1, <2>5, PatchFacts
    <3>2. ~Source(pass).deleting /\ Serves
      BY <2>1, <2>5, <3>1, GenerationFacts DEF Serves, Serving, Source
    <3>3. ~BindsLegacy /\ ~DropsOdd
      BY <3>2 DEF BindsLegacy, DropsOdd, Looking
    <3> QED
      BY <1>1, <2>1, <2>2, <2>3, <2>4, <2>5, <3>2, <3>3 DEF Lists
  <2> QED
    BY <2>2, <2>3, <2>4, <2>5 DEF Lists
<1>5. unit'.entry[c] = NoEntry => unit'.entry[c] = unit.entry[c] \/ c \in Prunable(unit)
  <2> SUFFICES ASSUME unit'.entry[c] = NoEntry, unit'.entry[c] # unit.entry[c], c \notin Prunable(unit)
               PROVE  FALSE
    OBVIOUS
  <2>1. unit'.entry[c].uid = unit.item[c].uid /\ unit.item[c] # NoItem
    BY PatchedReport DEF Serving
  <2> QED
    BY <2>1, PassTyped, ItemShape, NoItemFields
<1> QED
  BY <1>2, <1>3, <1>4, <1>5

\* A pass that works for a served incarnation did so before, or begins to.
LEMMA ServesMove ==
    ASSUME Base, Base', Owning, Copies, Clean, Kinds, Serves'
    PROVE  \E c \in Claims :
           /\ c = pass'.c /\ Serving(c) /\ Serving(c)' /\ budget'.claim[c].uid = budget.claim[c].uid
           /\ ~Source(pass').deleting /\ Source(pass').uid = budget.claim[c].uid
           /\ \/ pass' = pass /\ Serves /\ Bound(c)' = Bound(c) /\ (Quiet \/ ~RecordKinds)
              \/ Looks(c) /\ Bound(c)' = Bound(c) /\ pass'.ids \in {Cached(c), {}}
              \/ /\ Serves /\ c = pass.c /\ Source(pass') = Source(pass)
                 /\ StaysReady \/ PlansWrites \/ Allowed \/ Learns \/ Writes
<1>0. Working(pass') /\ Source(pass').uid # 0 /\ Source(pass').uid = budget'.claim[pass'.c].uid
      /\ Source(pass') = pass'.unit.item[pass'.c]
  <2>1. PassOK(pass') /\ Working(pass')
    BY DEF Base, Serves
  <2>2. Source(pass') \in Items /\ Source(pass') # NoItem
    BY <2>1 DEF PassOK, Pass, Unit, Source, Items
  <2> QED
    BY <2>1, <2>2, ItemShape DEF Serves, Source
<1>1. PICK c \in Claims : c = pass'.c
  BY <1>0 DEF Base, PassOK
<1>2. Serving(c)'
  BY <1>1 DEF Serves, Serving
<1>3. pass'.unit.item[c] \in NextItems(c) /\ pass'.unit.item[c] = Source(pass')
  BY <1>0, <1>1 DEF NextItems
<1>4. pass'.unit.item[c] \in ItemsOf(c)
  <2>1. CASE pass' = pass
    BY <2>1 DEF ItemsOf
  <2>2. CASE pass'.unit = pass.unit
    BY <2>2 DEF ItemsOf
  <2> QED
    BY <1>0, <2>1, <2>2, PassMove
<1>5. Source(pass').uid <= budget.uids
  BY <1>3, <1>4 DEF Owning, ItemsKnown, Known
<1>6. ~Newborn(c)
  <2>1. budget'.claim[c] \in Items /\ budget.uids \in Nat
    BY KindsBooks, BudgetRange
  <2>2. budget'.claim[c].uid \in Nat
    BY <2>1, ItemShape
  <2> QED
    BY <1>0, <1>1, <1>5, <2>1, <2>2 DEF Newborn
<1>7. Serving(c) /\ budget'.claim[c].uid = budget.claim[c].uid
  BY <1>2, <1>6, ServingMove
<1>8. ~Source(pass').deleting /\ Source(pass').uid = budget.claim[c].uid
  <2>1. Asked(ItemsOf(c), budget.claim[c])
    BY DEF Copies
  <2> QED
    BY <1>0, <1>1, <1>3, <1>4, <1>7, <2>1 DEF Asked, Serving
<1>9. \/ Bound(c)' = Bound(c)
      \/ Working(pass) /\ c = pass.c /\ (SetsReady \/ LedgerAdds \/ LedgerDrops)
  BY <1>2, <1>7, BoundMove DEF Serves
<1>10. CASE pass' = pass /\ (Quiet \/ ~RecordKinds)
  <2>1. Serves
    BY <1>0, <1>1, <1>7, <1>8, <1>10 DEF Serves
  <2>2. unit'.entry[c] = unit.entry[c]
    <3>1. EntriesStay
      BY <1>10, QuietStays, OtherStays, CoreStays DEF Kinds
    <3>2. unit' # NoUnit
      BY <1>2, NoItemFields DEF Serving
    <3> QED
      BY <3>1, <3>2 DEF EntriesStay
  <2> QED
    BY <1>1, <1>2, <1>7, <1>8, <1>10, <2>1, <2>2 DEF Bound
<1>11. ASSUME NEW d \in Claims, Looks(d), Source(pass') = pass.unit.item[c]
       PROVE  Looks(c) /\ Bound(c)' = Bound(c) /\ pass'.ids \in {Cached(c), {}}
  <2>1. c = d /\ pass.at = "items"
    BY <1>1, <1>11 DEF Looks, Accepted
  <2>2. Bound(c)' = Bound(c)
    BY <1>9, <2>1 DEF Working
  <2>3. pass'.ids = Rebased(c, pass.unit.item[c]).ids /\ pass.unit.item[c].uid = budget.claim[c].uid
    BY <1>8, <1>11, <2>1 DEF Looks
  <2>4. ASSUME StatusMatchesItem(seen.unit.entry[c], pass.unit.item[c])
       PROVE  pass'.ids \in {Cached(c), {}}
    <3>1. Rebased(c, pass.unit.item[c]) = seen.unit.entry[c]
      BY <2>4 DEF Rebased
    <3>2. seen.unit.entry[c].uid = budget.claim[c].uid
      BY <2>3, <2>4 DEF StatusMatchesItem
    <3> QED
      BY <2>3, <3>1, <3>2 DEF Cached, IdsOf
  <2>5. ASSUME ~StatusMatchesItem(seen.unit.entry[c], pass.unit.item[c])
       PROVE  pass'.ids \in {Cached(c), {}}
    <3>1. Rebased(c, pass.unit.item[c]) = [NoEntry EXCEPT !.uid = pass.unit.item[c].uid]
      BY <2>5 DEF Rebased
    <3>2. \A uid : [NoEntry EXCEPT !.uid = uid].ids = {}
      BY DEF NoEntry
    <3> QED
      BY <2>3, <3>1, <3>2
  <2> QED
    BY <1>11, <2>1, <2>2, <2>3, <2>4, <2>5
<1>12. CASE pass'.c = pass.c /\ Working(pass) /\ pass'.unit = pass.unit
            /\ (StaysReady \/ PlansWrites \/ PlansRemoval \/ Allowed \/ Learns \/ LearnsGone \/ LooksAgain \/ Writes)
  <2>1. Source(pass') = Source(pass)
    BY <1>12 DEF Source
  <2>2. Serves
    BY <1>1, <1>7, <1>8, <1>12, <2>1 DEF Serves
  <2>3. ~PlansRemoval /\ ~LearnsGone /\ ~LooksAgain
    BY <1>8, <2>1 DEF PlansRemoval, PlansDeletion, LearnsGone, AlreadyGone, LooksAgain, BindsLegacy, Looking
  <2> QED
    BY <1>1, <1>2, <1>7, <1>8, <1>12, <2>1, <2>2, <2>3
<1> QED
  BY <1>0, <1>1, <1>2, <1>7, <1>8, <1>10, <1>11, <1>12, PassMove

\* What becomes of a record.
LEMMA RecordFate ==
    ASSUME Base, Owning, Kinds, NEW r \in RecordIds, r <= budget.records
    PROVE  /\ budget.tampered => budget'.tampered
           /\ \/ cloud'.records[r] = cloud.records[r]
              \/ /\ cloud'.records[r] = Gone
                 /\ budget'.tampered \/ Wiped \/ (Sent /\ r \in pass.batch.deletes)
              \/ /\ Sent /\ r \in DOMAIN pass.batch.patches
                 /\ cloud.records[r] # Gone /\ cloud'.records[r] # Gone
                 /\ cloud'.records[r].type = cloud.records[r].type
                 /\ cloud'.records[r].value = pass.batch.patches[r]
<1>1. CASE Sent
  <2>1. cloud'.records[r] \in Record => cloud'.records[r] # Gone \/ cloud'.records[r].type = "gone"
    BY DEF Gone
  <2>2. \A rec \in Record : rec # Gone
    BY CloudflareAssumption DEF Record, Gone, Types
  <2> QED
    BY <1>1, <2>2, SentEach, CloudMove DEF Owning
<1>2. Fresh > budget.records => r # Fresh
  BY BudgetRange DEF Fresh
<1> QED
  BY <1>1, <1>2, CloudMove

\* The IDs of a claim's ledger are of known records of its type.
LEMMA BoundTyped ==
    ASSUME Base, Owning, TypedIds, NEW c \in Claims, NEW r \in Bound(c) \cup Cached(c)
    PROVE  r \in RecordIds /\ r <= budget.records /\ OfType(cloud.records[r], TypeOf[c])
<1>1. r \in unit.entry[c].ids \cup seen.unit.entry[c].ids
  BY DEF Bound, Cached, IdsOf
<1> QED
  BY <1>1, IdsRange DEF TypedIds, EntriesOf

-----------------------------------------------------------------------------
(* A batch as it was planned.                                              *)

Planned ==
    pass.at \in {"fence", "batch"} =>
        /\ pass.batch.deletes \cap DOMAIN pass.batch.patches = {}
        /\ DOMAIN pass.batch.patches \subseteq pass.ids
        /\ \A r \in DOMAIN pass.batch.patches :
              cloud.records[r] # Gone => Key(Type, pass.batch.patches[r]) = Key(Type, cloud.records[r].value)

\* Records keep their keys, in the sense of their type.
LEMMA KeysKept ==
    ASSUME Base, Owning, TypedIds, Planned, Kinds, NEW r \in RecordIds, r <= budget.records,
           NEW t, OfType(cloud.records[r], t)
    PROVE  \/ cloud'.records[r] = Gone
           \/ cloud.records[r] # Gone /\ Key(t, cloud'.records[r].value) = Key(t, cloud.records[r].value)
<1>1. CASE Sent /\ r \in DOMAIN pass.batch.patches /\ cloud.records[r] # Gone
           /\ cloud'.records[r].value = pass.batch.patches[r]
  <2>1. Working(pass) /\ pass.at = "batch"
    BY <1>1 DEF Sent, Working
  <2>2. OfType(cloud.records[r], Type)
    BY <1>1, <2>1 DEF TypedIds, Targets
  <2>3. t = Type
    BY <1>1, <2>2 DEF OfType
  <2> QED
    BY <1>1, <2>1, <2>3 DEF Planned
<1> QED
  BY <1>1, RecordFate

\* No record comes back.
LEMMA LiveBefore ==
    ASSUME Base, Owning, Kinds, NEW r \in RecordIds, r <= budget.records, r \in Live'
    PROVE  r \in Live
  BY RecordFate DEF Live

LEMMA OperationsDeletes ==
    ASSUME Base, NEW type, NEW ids \in SUBSET RecordIds, NEW want \in Contents
    PROVE  LET ops == Operations(type, ids, want)
           IN  /\ \A r \in ops.deletes, v \in want : Key(type, v) # KeyOf(type, r)
               /\ ops.deletes \cap DOMAIN ops.patches = {}
<1> DEFINE ops == Operations(type, ids, want)
<1>1. ops.deletes = {r \in ids : \A v \in want : Key(type, v) # KeyOf(type, r)}
  BY DEF Operations, KeyOf
<1>2. \A r \in DOMAIN ops.patches : ops.patches[r] \in want /\ Key(type, ops.patches[r]) = KeyOf(type, r)
  BY OperationsFacts
<1> HIDE DEF ops
<1>3. \A r \in ops.deletes, v \in want : Key(type, v) # KeyOf(type, r)
  BY <1>1
<1>4. ops.deletes \cap DOMAIN ops.patches = {}
  BY <1>2, <1>3
<1> QED
  BY <1>3, <1>4 DEF ops

LEMMA PlannedStep == ASSUME Base, Base', Owning, TypedIds, Planned, Kinds PROVE Planned'
<1> SUFFICES ASSUME pass'.at \in {"fence", "batch"} PROVE Planned'
  BY DEF Planned
<1>0. Working(pass')
  BY DEF Working
<1> DEFINE b == pass'.batch
<1>1. CASE pass' = pass
  <2>1. \A r \in DOMAIN b.patches : cloud'.records[r] # Gone => Key(Type, b.patches[r]) = Key(Type, cloud'.records[r].value)
    <3> TAKE r \in DOMAIN b.patches
    <3> SUFFICES ASSUME cloud'.records[r] # Gone PROVE Key(Type, b.patches[r]) = Key(Type, cloud'.records[r].value)
      OBVIOUS
    <3>1. r \in Targets(pass) /\ Working(pass)
      BY <1>0, <1>1 DEF Targets
    <3>2. r \in RecordIds /\ r <= budget.records /\ OfType(cloud.records[r], Type)
      BY <3>1, IdsRange DEF TypedIds
    <3>3. cloud.records[r] # Gone /\ Key(Type, cloud'.records[r].value) = Key(Type, cloud.records[r].value)
      BY <3>2, KeysKept
    <3> QED
      BY <1>1, <3>3 DEF Planned
  <2> QED
    BY <1>1, <2>1 DEF Planned, Type
<1>2. CASE PlansWrites /\ pass'.c = pass.c /\ Working(pass)
  <2> DEFINE ops == Operations(Type, LiveOf(Type), Source(pass).want)
  <2>1. Source(pass).want \in Contents /\ LiveOf(Type) \in SUBSET RecordIds
    BY <1>2, WorkingFacts, LiveOfFacts DEF LiveOf
  <2>2. ops.deletes \cap DOMAIN ops.patches = {}
    BY <2>1, OperationsDeletes
  <2>3. DOMAIN ops.patches \subseteq LiveOf(Type)
    BY <2>1, OperationsFacts
  <2>5. \A r \in DOMAIN ops.patches : Key(Type, ops.patches[r]) = KeyOf(Type, r)
    BY <2>1, OperationsFacts
  <2> HIDE DEF ops
  <2>4. pass'.batch = ops /\ pass'.ids = pass.ids /\ cloud' = cloud /\ LiveOf(Type) \subseteq pass.ids
    BY <1>2 DEF PlansWrites, PlansNormal, Frame, ops
  <2> QED
    BY <1>2, <2>2, <2>3, <2>4, <2>5 DEF Planned, Type, KeyOf
<1>3. CASE PlansRemoval
  BY <1>3 DEF PlansRemoval, Planned
<1>4. CASE Allowed /\ pass'.c = pass.c
  BY <1>4 DEF Allowed, Permitted, Frame, Planned, Type
<1>5. CASE StaysReady \/ Learns \/ LearnsGone \/ LooksAgain \/ Writes \/ \E c \in Claims : Looks(c)
  BY <1>5 DEF StaysReady, Learns, LearnsGone, LooksAgain, Writes, Looks
<1> QED
  BY <1>0, <1>1, <1>2, <1>3, <1>4, <1>5, PassMove

-----------------------------------------------------------------------------
(* The cached ledger covers what a pass may have missed.                   *)

CacheCovers ==
    /\ \A c \in Claims : Serving(c) => Cached(c) \cap Live \subseteq Bound(c)
    /\ \A c \in Claims : Serving(c) /\ ~budget.tampered => Bound(c) \subseteq Live \cup Cached(c)
    /\ pass.at = "batch" /\ unit.live => unit.entry = seen.unit.entry
PassCovers ==
    Serves => /\ pass.ids \cap Live \subseteq Bound(pass.c)
              /\ pass.at = "ledger" => \A r \in pass.drop : r <= budget.records /\ r \notin Live
              /\ pass.at = "ledger" /\ ~budget.tampered => pass.add \subseteq Live
Covers == CacheCovers /\ PassCovers

\* The zone with its records is removed only under a unit that is deleted.
LEMMA WipedUnserved == ASSUME Base, Copies, Wiped, NEW c \in Claims PROVE ~Serving(c)
  BY DEF Wiped, Copies, Ending, Serving

\* A record that goes was removed by the batch or by someone else.
LEMMA LiveKept ==
    ASSUME Base, Owning, Copies, Kinds, NEW c \in Claims, Serving(c), ~budget'.tampered,
           NEW r \in Live
    PROVE  r \in Live' \/ (Sent /\ r \in pass.batch.deletes)
<1>1. r \in RecordIds /\ r <= budget.records /\ cloud.records[r] # Gone
  BY IdsRange DEF Live
<1> QED
  BY <1>1, RecordFate, WipedUnserved DEF Live

LEMMA CachedCovered ==
    ASSUME Base, Base', Owning, Copies, Clean, TypedIds, Covers, Kinds, NEW c \in Claims, Serving(c)'
    PROVE  (Cached(c) \cap Live \subseteq Bound(c))'
<1>1. CASE Newborn(c)
  BY <1>1 DEF Newborn
<1>2. CASE Serving(c) /\ budget'.claim[c].uid = budget.claim[c].uid
  <2>1. Cached(c) \cap Live \subseteq Bound(c)
    BY <1>2 DEF Covers, CacheCovers
  <2>2. CASE Cached(c)' = Bound(c)'
    BY <2>2
  <2>3. CASE Cached(c)' = Cached(c)
    <3> SUFFICES ASSUME NEW r \in Cached(c), r \in Live' PROVE r \in Bound(c)'
      BY <2>3
    <3>1. r \in RecordIds /\ r <= budget.records /\ OfType(cloud.records[r], TypeOf[c])
      BY BoundTyped
    <3>2. r \in Live
      BY <3>1, LiveBefore
    <3>3. r \in Bound(c)
      BY <2>1, <3>2
    <3>4. CASE Bound(c)' = Bound(c)
      BY <3>3, <3>4
    <3>5. CASE Serves /\ c = pass.c /\ Bound(c)' = LiveOf(Type)
      BY <3>1, <3>2, <3>5 DEF LiveOf, Live, OfType, Type
    <3>6. CASE LedgerAdds /\ \E x \in pass.add : Bound(c)' = Bound(c) \cup {x}
      BY <3>3, <3>6
    <3>7. CASE Serves /\ LedgerDrops /\ \E x \in pass.drop : Bound(c)' = Bound(c) \ {x}
      <4>1. pass.at = "ledger"
        BY <3>7 DEF LedgerDrops
      <4>2. \A x \in pass.drop : x \notin Live
        BY <3>7, <4>1 DEF Covers, PassCovers
      <4> QED
        BY <3>2, <3>3, <3>7, <4>2
    <3> QED
      BY <1>2, <3>4, <3>5, <3>6, <3>7, BoundMove
  <2> QED
    BY <1>2, <2>2, <2>3, BoundMove
<1> QED
  BY <1>1, <1>2, ServingMove

LEMMA BoundCovered ==
    ASSUME Base, Base', Owning, Copies, Clean, TypedIds, Covers, Kinds, NEW c \in Claims, Serving(c)',
           ~budget'.tampered
    PROVE  (Bound(c) \subseteq Live \cup Cached(c))'
<1>0. ~budget.tampered
  BY CloudMove
<1>1. CASE Newborn(c)
  BY <1>1 DEF Newborn
<1>2. CASE Serving(c) /\ budget'.claim[c].uid = budget.claim[c].uid
  <2>1. Bound(c) \subseteq Live \cup Cached(c)
    BY <1>0, <1>2 DEF Covers, CacheCovers
  <2>2. CASE Cached(c)' = Bound(c)'
    BY <2>2
  <2>3. CASE Cached(c)' = Cached(c)
    <3> SUFFICES ASSUME NEW r \in Bound(c)', r \notin Cached(c) PROVE r \in Live'
      BY <2>3
    <3>1. ASSUME r \in Live PROVE r \in Live'
      <4>1. CASE Sent
        <5>1. pass.at = "batch" /\ unit.live
          BY <1>2, <4>1 DEF Sent, Serving
        <5>2. Bound(c) = Cached(c)
          BY <5>1 DEF Covers, CacheCovers, Bound, Cached
        <5>3. Bound(c)' = Bound(c)
          BY <1>2, <4>1, <5>1, BoundMove DEF SetsReady, LedgerAdds, LedgerDrops, Looking
        <5> QED
          BY <5>2, <5>3
      <4>2. CASE ~Sent
        BY <1>2, <3>1, <4>2, LiveKept
      <4> QED
        BY <4>1, <4>2
    <3>4. CASE r \in Bound(c)
      BY <2>1, <3>1, <3>4
    <3>5. CASE Serves /\ c = pass.c /\ SetsReady /\ Bound(c)' = LiveOf(Type)
      <4>1. LiveOf(Type) \subseteq Live
        BY <3>5, LiveOfFacts DEF Serves
      <4> QED
        BY <3>1, <3>5, <4>1
    <3>6. CASE Serves /\ LedgerAdds /\ \E x \in pass.add : Bound(c)' = Bound(c) \cup {x}
      <4>1. pass.at = "ledger"
        BY <3>6 DEF LedgerAdds
      <4>2. pass.add \subseteq Live
        BY <1>0, <3>6, <4>1 DEF Covers, PassCovers
      <4> QED
        BY <3>1, <3>4, <3>6, <4>2
    <3>7. CASE \E x \in pass.drop : Bound(c)' = Bound(c) \ {x}
      BY <3>4, <3>7
    <3> QED
      BY <1>2, <3>4, <3>5, <3>6, <3>7, BoundMove
  <2> QED
    BY <1>2, <2>2, <2>3, BoundMove
<1> QED
  BY <1>1, <1>2, ServingMove

LEMMA BatchSynced ==
    ASSUME Base, Base', Covers, Kinds, pass'.at = "batch", unit'.live
    PROVE  unit'.entry = seen'.unit.entry
<1>0. Working(pass')
  BY DEF Working
<1>1. CASE pass' = pass /\ (Quiet \/ ~RecordKinds)
  <2>1. EntriesStay
    BY <1>1, QuietStays, OtherStays, CoreStays DEF Kinds
  <2>2. unit'.entry = unit.entry /\ unit.live
    BY <2>1, UnitMoves, NoItemFields DEF EntriesStay
  <2> QED
    BY <1>1, <2>2, CacheFollows DEF Covers, CacheCovers
<1>2. CASE Allowed
  BY <1>2 DEF Allowed, Permitted, Base
<1>3. CASE StaysReady \/ PlansWrites \/ PlansRemoval \/ Learns \/ LearnsGone \/ LooksAgain \/ Writes
           \/ \E c \in Claims : Looks(c)
  BY <1>3 DEF StaysReady, PlansWrites, PlansRemoval, Learns, LearnsGone, LooksAgain, Writes, Looks
<1> QED
  BY <1>0, <1>1, <1>2, <1>3, PassMove

LEMMA CacheCoversStep ==
    ASSUME Base, Base', Owning, Copies, Clean, TypedIds, Covers, Kinds PROVE CacheCovers'
  BY CachedCovered, BoundCovered, BatchSynced DEF CacheCovers

LEMMA PassCoversStep ==
    ASSUME Base, Base', Owning, Copies, Clean, TypedIds, Planned, Covers, Kinds PROVE PassCovers'
<1> SUFFICES ASSUME Serves' PROVE PassCovers'
  BY DEF PassCovers
<1>1. PICK c \in Claims :
           /\ c = pass'.c /\ Serving(c) /\ Serving(c)' /\ budget'.claim[c].uid = budget.claim[c].uid
           /\ ~Source(pass').deleting
           /\ \/ pass' = pass /\ Serves /\ Bound(c)' = Bound(c) /\ (Quiet \/ ~RecordKinds)
              \/ Looks(c) /\ Bound(c)' = Bound(c) /\ pass'.ids \in {Cached(c), {}}
              \/ /\ Serves /\ c = pass.c /\ Source(pass') = Source(pass)
                 /\ StaysReady \/ PlansWrites \/ Allowed \/ Learns \/ Writes
  BY ServesMove
<1>2. Working(pass')
  BY DEF Serves
<1>3. Working(pass) => pass.ids \subseteq RecordIds /\ \A r \in pass.ids \cup pass.add : r \in RecordIds /\ r <= budget.records
  BY IdsRange DEF Targets
<1>4. pass'.at # "ledger" => pass'.add = {} /\ pass'.drop = {}
  BY <1>2, PassMove
<1>5. \A r \in RecordIds : r <= budget.records /\ r \in Live' => r \in Live
  BY LiveBefore
<1>6. budget.records <= budget'.records /\ budget.records \in Nat /\ budget'.records \in Nat
  BY StepBooks, BudgetRange DEF BooksGrow
<1>7. ~budget'.tampered => ~budget.tampered
  BY CloudMove
<1>a. ASSUME Serves, c = pass.c
      PROVE  /\ pass.ids \cap Live \subseteq Bound(c)
             /\ pass.at = "ledger" => \A r \in pass.drop : r <= budget.records /\ r \notin Live
             /\ pass.at = "ledger" /\ ~budget.tampered => pass.add \subseteq Live
  BY <1>a DEF Covers, PassCovers
<1> DEFINE Known1 == pass'.ids \cap Live' \subseteq Bound(c)'
           Dropped1 == pass'.at = "ledger" => \A r \in pass'.drop : r <= budget'.records /\ r \notin Live'
           Added1 == pass'.at = "ledger" /\ ~budget'.tampered => pass'.add \subseteq Live'
<1>b. SUFFICES Known1 /\ Dropped1 /\ Added1
  BY <1>1 DEF PassCovers, Bound
<1>8. CASE pass' = pass /\ Serves /\ Bound(c)' = Bound(c) /\ (Quiet \/ ~RecordKinds)
  <2>1. Known1
    BY <1>1, <1>3, <1>5, <1>8, <1>a DEF Serves
  <2>2. Dropped1
    <3>1. pass.drop \subseteq RecordIds
      BY PassTyped DEF Pass
    <3> QED
      BY <1>1, <1>5, <1>6, <1>8, <1>a, <3>1
  <2>3. Added1
    <3>1. pass.at = "ledger" => ~Sent
      BY DEF Sent
    <3> QED
      BY <1>1, <1>7, <1>8, <1>a, <3>1, LiveKept
  <2> QED
    BY <2>1, <2>2, <2>3
<1>9. CASE Looks(c) /\ Bound(c)' = Bound(c) /\ pass'.ids \in {Cached(c), {}}
  <2>1. pass'.at = "look" /\ cloud' = cloud
    BY <1>9 DEF Looks, Accepted, Frame
  <2>2. Cached(c) \cap Live \subseteq Bound(c)
    BY <1>1 DEF Covers, CacheCovers
  <2> QED
    BY <1>9, <2>1, <2>2 DEF Live
<1>10. CASE Serves /\ c = pass.c /\ (StaysReady \/ PlansWrites \/ Allowed \/ Learns \/ Writes)
  <2>0. Working(pass)
    BY <1>10 DEF Serves
  <2>1. Known1
    <3> SUFFICES ASSUME NEW r \in pass'.ids, r \in Live' PROVE r \in Bound(c)'
      OBVIOUS
    <3>1. r \in pass.ids
      BY <1>10 DEF StaysReady, PlansWrites, Allowed, Learns, Writes
    <3>2. r \in Live /\ r \in RecordIds /\ r <= budget.records
      BY <1>3, <1>5, <2>0, <3>1
    <3>3. r \in Bound(c) /\ OfType(cloud.records[r], Type)
      BY <1>10, <1>a, <2>0, <3>1, <3>2 DEF TypedIds, Targets
    <3>4. CASE Bound(c)' = LiveOf(Type)
      BY <3>2, <3>3, <3>4 DEF LiveOf, Live, OfType
    <3>5. CASE \E x \in pass.drop : Bound(c)' = Bound(c) \ {x} /\ LedgerDrops
      <4>1. \A x \in pass.drop : x \notin Live
        BY <1>10, <1>a, <3>5 DEF LedgerDrops
      <4> QED
        BY <3>2, <3>3, <3>5, <4>1
    <3> QED
      BY <1>1, <3>3, <3>4, <3>5, BoundMove
  <2>2. CASE Learns
    <3>1. Sent /\ pass.at = "batch" /\ pass'.add = Posted \cup DOMAIN pass.batch.patches /\ pass'.drop = pass.batch.deletes
          /\ RecordsMade
      BY <2>2 DEF Learns, Answered, Owning
    <3>2. \A r \in Posted : r \in Live'
      BY <3>1, SentNew DEF Live
    <3>3. \A r \in pass.batch.deletes \cup DOMAIN pass.batch.patches : r \in RecordIds /\ r <= budget.records
      BY <2>0, IdsRange DEF Targets
    <3>4. \A r \in DOMAIN pass.batch.patches : cloud'.records[r] # Gone
      <4> TAKE r \in DOMAIN pass.batch.patches
      <4>1. r \in RecordIds /\ r <= budget.records
        BY <3>3
      <4>2. cloud'.records[r] \in Record
        BY <3>1, <4>1, SentEach
      <4>3. \A rec \in Record : rec # Gone
        BY CloudflareAssumption DEF Record, Gone, Types
      <4> QED
        BY <4>2, <4>3
    <3>5. \A r \in pass.batch.deletes : cloud'.records[r] = Gone
      <4> TAKE r \in pass.batch.deletes
      <4>1. r \notin DOMAIN pass.batch.patches
        BY <3>1 DEF Planned
      <4> QED
        BY <3>1, <3>3, <4>1, SentEach
    <3>6. pass'.add \subseteq Live'
      BY <3>1, <3>2, <3>3, <3>4 DEF Live
    <3>7. \A r \in pass'.drop : r <= budget'.records /\ r \notin Live'
      <4>1. pass.batch.deletes \subseteq RecordIds
        BY <3>3
      <4> QED
        BY <1>6, <3>1, <3>3, <3>5, <4>1 DEF Live
    <3> QED
      BY <2>1, <3>6, <3>7
  <2>3. CASE Writes
    <3>1. cloud' = cloud /\ budget'.records = budget.records /\ budget'.tampered = budget.tampered /\ pass.at = "ledger"
      BY <2>3 DEF Writes, LedgerAdds, LedgerDrops, Frame, BooksKept
    <3>2. pass'.add \subseteq pass.add /\ pass'.drop \subseteq pass.drop
      BY <2>3 DEF Writes
    <3> QED
      BY <1>10, <1>a, <2>1, <3>1, <3>2 DEF Live
  <2>4. CASE StaysReady \/ PlansWrites \/ Allowed
    BY <2>1, <2>4 DEF StaysReady, PlansWrites, Allowed
  <2> QED
    BY <1>10, <2>2, <2>3, <2>4
<1> QED
  BY <1>1, <1>8, <1>9, <1>10

-----------------------------------------------------------------------------
(* The records of a claim have different keys, so that a comparison of the *)
(* keys is one of the values.                                              *)

Distinct(t, ids, recs) ==
    \A r, s \in ids :
        recs[r] # Gone /\ recs[s] # Gone /\ Key(t, recs[r].value) = Key(t, recs[s].value) => r = s

LEMMA ShowsDistinct ==
    ASSUME Base, NEW ids \in SUBSET RecordIds, NEW want \in Contents, NEW c \in Claims, Shows(ids, want)
    PROVE  Distinct(TypeOf[c], ids, cloud.records)
<1> DEFINE f == [r \in ids |-> cloud.records[r].value]
<1>1. ValuesOf(ids) = want /\ Cardinality(ids) = Cardinality(want)
  BY DEF Shows
<1>2. IsFiniteSet(ids)
  <2>1. IsFiniteSet(1..MaxRecords)
    BY FS_Interval
  <2> QED
    BY <2>1, FS_Subset
<1>3. f \in [ids -> want] /\ \A v \in want : \E r \in ids : f[r] = v
  BY <1>1 DEF ValuesOf
<1> HIDE DEF f
<1>4. f \in Surjection(ids, want)
  BY <1>3 DEF Surjection
<1>5. f \in Injection(ids, want)
  BY <1>1, <1>2, <1>4, FS_SurjSameCardinalityImpliesInj
<1>6. \A r, s \in ids : f[r] = f[s] => r = s
  BY <1>5 DEF Injection, IsInjective
<1>7. \A v, w \in want : Key(TypeOf[c], v) = Key(TypeOf[c], w) => v = w
  BY ContentsAssumption
<1>8. \A r \in ids : f[r] = cloud.records[r].value /\ f[r] \in want
  BY <1>3 DEF f
<1> QED
  <2> SUFFICES ASSUME NEW r \in ids, NEW s \in ids,
                      Key(TypeOf[c], cloud.records[r].value) = Key(TypeOf[c], cloud.records[s].value)
               PROVE  r = s
    BY DEF Distinct
  <2>1. f[r] = f[s]
    BY <1>7, <1>8
  <2> QED
    BY <1>6, <2>1

\* Records with different keys that need no change show what is wanted.
LEMMA NoneToChange ==
    ASSUME Base, NEW t, NEW ids \in SUBSET Live, NEW want \in Contents,
           Distinct(t, ids, cloud.records), Operations(t, ids, want) = NoBatch
    PROVE  ValuesOf(ids) = want
<1> DEFINE Of(v) == {r \in ids : KeyOf(t, r) = Key(t, v)}
           Holder(v) == Max(Of(v))
           held == {v \in want : \E r \in ids : KeyOf(t, r) = Key(t, v)}
           changed == {v \in held : cloud.records[Holder(v)].value # v}
           holders == {Holder(v) : v \in changed}
           patches == [r \in holders |-> CHOOSE v \in changed : Holder(v) = r]
           deletes == {r \in ids : \A v \in want : Key(t, v) # KeyOf(t, r)}
<1>1. Operations(t, ids, want) = [posts |-> want \ held, patches |-> patches, deletes |-> deletes]
  BY DEF Operations, KeyOf
<1>2. ids \in SUBSET RecordIds /\ \A r \in ids : cloud.records[r] # Gone
  BY DEF Live
<1>3. \A v \in held : Holder(v) \in Of(v)
  <2> TAKE v \in held
  <2>0. PICK r \in ids : KeyOf(t, r) = Key(t, v)
    OBVIOUS
  <2>1. r \in Of(v)
    BY <2>0
  <2>2. Of(v) \subseteq ids
    OBVIOUS
  <2> HIDE DEF Of
  <2>3. ids \subseteq 0..MaxRecords
    BY <1>2
  <2>4. Of(v) \in SUBSET (0..MaxRecords) /\ Of(v) # {}
    BY <2>1, <2>2, <2>3
  <2> QED
    BY <2>4, LargestIn
<1>4. DOMAIN patches = holders
  OBVIOUS
<1> HIDE DEF patches
<1>5. want \ held = {} /\ deletes = {} /\ patches = NoBatch.patches
  <2>1. NoBatch.posts = {} /\ NoBatch.deletes = {}
    BY NoBatchTargets
  <2> HIDE DEF held, deletes
  <2> QED
    BY <1>1, <2>1
<1>6. holders = {}
  BY <1>4, <1>5, NoBatchTargets
<1>7. changed = {}
  <2> HIDE DEF changed
  <2> QED
    BY <1>6
<1>8. ASSUME NEW v \in want PROVE v \in ValuesOf(ids)
  <2>1. v \in held
    BY <1>5
  <2>2. cloud.records[Holder(v)].value = v
    BY <1>7, <2>1
  <2>3. Holder(v) \in ids
    BY <1>3, <2>1
  <2> QED
    BY <2>2, <2>3 DEF ValuesOf
<1>9. ASSUME NEW r \in ids PROVE cloud.records[r].value \in want
  <2>1. PICK v \in want : Key(t, v) = KeyOf(t, r)
    BY <1>5
  <2>2. v \in held
    BY <2>1
  <2>3. Holder(v) \in ids /\ KeyOf(t, Holder(v)) = KeyOf(t, r)
    BY <1>3, <2>1, <2>2
  <2>4. Holder(v) = r
    BY <1>2, <2>3 DEF Distinct, KeyOf
  <2>5. cloud.records[Holder(v)].value = v
    BY <1>7, <2>2
  <2> QED
    BY <2>4, <2>5
<1> QED
  BY <1>8, <1>9 DEF ValuesOf

\* And nothing is changed in records that show what is wanted.
LEMMA NothingToChange ==
    ASSUME Base, NEW t, NEW ids \in SUBSET Live, NEW want \in Contents,
           Distinct(t, ids, cloud.records), ValuesOf(ids) = want
    PROVE  Operations(t, ids, want) = NoBatch
<1> DEFINE Of(v) == {r \in ids : KeyOf(t, r) = Key(t, v)}
           Holder(v) == Max(Of(v))
           held == {v \in want : \E r \in ids : KeyOf(t, r) = Key(t, v)}
           changed == {v \in held : cloud.records[Holder(v)].value # v}
           holders == {Holder(v) : v \in changed}
           patches == [r \in holders |-> CHOOSE v \in changed : Holder(v) = r]
           deletes == {r \in ids : \A v \in want : Key(t, v) # KeyOf(t, r)}
<1>1. Operations(t, ids, want) = [posts |-> want \ held, patches |-> patches, deletes |-> deletes]
  BY DEF Operations, KeyOf
<1>2. ids \in SUBSET RecordIds /\ \A r \in ids : cloud.records[r] # Gone
  BY DEF Live
<1>3. \A v \in held : Holder(v) \in Of(v)
  <2> TAKE v \in held
  <2>0. PICK r \in ids : KeyOf(t, r) = Key(t, v)
    OBVIOUS
  <2>1. r \in Of(v)
    BY <2>0
  <2>2. Of(v) \subseteq ids
    OBVIOUS
  <2> HIDE DEF Of
  <2>3. ids \subseteq 0..MaxRecords
    BY <1>2
  <2>4. Of(v) \in SUBSET (0..MaxRecords) /\ Of(v) # {}
    BY <2>1, <2>2, <2>3
  <2> QED
    BY <2>4, LargestIn
<1>4. \A v \in want : \E r \in ids : cloud.records[r].value = v
  BY DEF ValuesOf
<1>5. \A r \in ids : cloud.records[r].value \in want
  BY DEF ValuesOf
<1>6. want \ held = {}
  BY <1>4 DEF KeyOf
<1>7. deletes = {}
  BY <1>5 DEF KeyOf
<1>8. changed = {}
  <2> SUFFICES ASSUME NEW v \in held PROVE cloud.records[Holder(v)].value = v
    OBVIOUS
  <2>1. PICK r \in ids : cloud.records[r].value = v
    BY <1>4
  <2>2. Holder(v) \in ids /\ KeyOf(t, Holder(v)) = Key(t, v)
    BY <1>3
  <2>3. Holder(v) = r
    BY <1>2, <2>1, <2>2 DEF Distinct, KeyOf
  <2> QED
    BY <2>1, <2>3
<1>9. holders = {}
  <2> HIDE DEF changed
  <2> QED
    BY <1>8
<1>10. patches = <<>>
  <2> HIDE DEF holders
  <2>1. patches \in [{} -> {}]
    BY <1>9
  <2>2. <<>> \in [{} -> {}]
    OBVIOUS
  <2> HIDE DEF patches
  <2> QED
    BY <2>1, <2>2
<1> HIDE DEF held, deletes, patches
<1> QED
  BY <1>1, <1>6, <1>7, <1>10 DEF NoBatch

\* The records that the ledger lists for a claim, those a pass is about to
\* list and those it is about to make have different keys.
BoundKeys == \A c \in Claims : Serving(c) => Distinct(TypeOf[c], Bound(c), cloud.records)
PassKeys ==
    Serves => /\ pass.at = "ledger" => Distinct(Type, Bound(pass.c) \cup pass.add, cloud.records)
              /\ pass.at \in {"fence", "batch"} =>
                    \A v \in pass.batch.posts, r \in Bound(pass.c) \cap Live : Key(Type, v) # KeyOf(Type, r)
Keys == BoundKeys /\ PassKeys

LEMMA DistinctKept ==
    ASSUME Base, Owning, TypedIds, Planned, Kinds, NEW t, NEW ids,
           \A r \in ids : r \in RecordIds /\ r <= budget.records /\ OfType(cloud.records[r], t),
           Distinct(t, ids, cloud.records)
    PROVE  Distinct(t, ids, cloud'.records)
<1>1. \A r \in ids : \/ cloud'.records[r] = Gone
                     \/ cloud.records[r] # Gone /\ Key(t, cloud'.records[r].value) = Key(t, cloud.records[r].value)
  BY KeysKept
<1> QED
  BY <1>1 DEF Distinct

LEMMA SubsetDistinct ==
    ASSUME NEW t, NEW recs, NEW ids, NEW part \in SUBSET ids, Distinct(t, ids, recs)
    PROVE  Distinct(t, part, recs)
  BY DEF Distinct

\* What a claim that is served lists are records of its type, of before.
LEMMA BoundRange ==
    ASSUME Base, Owning, TypedIds, NEW c \in Claims
    PROVE  /\ \A r \in Bound(c) : r \in RecordIds /\ r <= budget.records /\ OfType(cloud.records[r], TypeOf[c])
           /\ \A r \in Bound(c) \cap Live : r \in LiveOf(TypeOf[c])
<1>1. \A r \in Bound(c) : r \in RecordIds /\ r <= budget.records /\ OfType(cloud.records[r], TypeOf[c])
  BY BoundTyped
<1> QED
  BY <1>1 DEF LiveOf, Live, OfType

\* The live records of the type of a pass that serves a claim, when the pass
\* knows them, are what the ledger lists and is still live.
LEMMA KnownIsBound ==
    ASSUME Base, Owning, TypedIds, Covers, Serves
    PROVE  /\ pass.ids \cap Live \subseteq Bound(pass.c)
           /\ LiveOf(Type) \subseteq pass.ids => LiveOf(Type) = Bound(pass.c) \cap Live
<1>1. Working(pass) /\ pass.c \in Claims
  BY WorkingFacts DEF Serves
<1>2. pass.ids \cap Live \subseteq Bound(pass.c)
  BY DEF Covers, PassCovers
<1>3. LiveOf(Type) \subseteq Live
  BY <1>1, LiveOfFacts
<1>4. Bound(pass.c) \cap Live \subseteq LiveOf(Type)
  BY <1>1, BoundRange DEF Type
<1> QED
  BY <1>2, <1>3, <1>4

LEMMA SettledDistinct ==
    ASSUME Base, Owning, TypedIds, Covers, Keys, Serves, Settled
    PROVE  Distinct(Type, LiveOf(Type), cloud.records)
<1>1. pass.c \in Claims /\ Source(pass).want \in Contents /\ LiveOf(Type) \in SUBSET RecordIds
  BY WorkingFacts, LiveOfFacts DEF Serves
<1>2. CASE Shows(LiveOf(Type), Source(pass).want)
  BY <1>1, <1>2, ShowsDistinct DEF Type
<1>3. CASE LiveOf(Type) \subseteq pass.ids
  <2>1. LiveOf(Type) \subseteq Bound(pass.c)
    BY <1>3, KnownIsBound
  <2>2. Distinct(Type, Bound(pass.c), cloud.records)
    BY <1>1 DEF Keys, BoundKeys, Serves, Type
  <2> QED
    BY <2>1, <2>2, SubsetDistinct
<1> QED
  BY <1>2, <1>3 DEF Settled, LegacyBound

LEMMA BoundKeysStep ==
    ASSUME Base, Base', Owning, Copies, Clean, TypedIds, Planned, Covers, Keys, Kinds
    PROVE  BoundKeys'
<1> SUFFICES ASSUME NEW c \in Claims, Serving(c)' PROVE Distinct(TypeOf[c], Bound(c)', cloud'.records)
  BY DEF BoundKeys
<1>1. CASE Newborn(c)
  BY <1>1 DEF Newborn, Distinct
<1>2. CASE Serving(c) /\ budget'.claim[c].uid = budget.claim[c].uid
  <2>1. Distinct(TypeOf[c], Bound(c), cloud.records)
    BY <1>2 DEF Keys, BoundKeys
  <2>2. CASE Bound(c)' = Bound(c)
    BY <2>1, <2>2, BoundRange, DistinctKept
  <2>3. CASE Serves /\ c = pass.c /\ SetsReady /\ Bound(c)' = LiveOf(Type)
    <3>1. Settled /\ cloud' = cloud
      BY <2>3 DEF SetsReady, Frame
    <3> QED
      BY <2>3, <3>1, SettledDistinct DEF Type
  <2>4. CASE Serves /\ c = pass.c /\ LedgerAdds /\ \E r \in pass.add : Bound(c)' = Bound(c) \cup {r}
    <3>1. pass.at = "ledger" /\ cloud' = cloud
      BY <2>4 DEF LedgerAdds, Frame
    <3>2. Distinct(TypeOf[c], Bound(c) \cup pass.add, cloud.records)
      BY <2>4, <3>1 DEF Keys, PassKeys, Type
    <3> QED
      BY <2>4, <3>1, <3>2, SubsetDistinct
  <2>5. CASE LedgerDrops /\ \E r \in pass.drop : Bound(c)' = Bound(c) \ {r}
    <3>1. cloud' = cloud
      BY <2>5 DEF LedgerDrops, Frame
    <3> QED
      BY <2>1, <2>5, <3>1, SubsetDistinct
  <2> QED
    BY <1>2, <2>2, <2>3, <2>4, <2>5, BoundMove
<1> QED
  BY <1>1, <1>2, ServingMove

\* A batch of a pass that serves a claim leaves different keys.
LEMMA SentDistinct ==
    ASSUME Base, Owning, TypedIds, Planned, Covers, Keys, Serves, Kinds, Learns
    PROVE  Distinct(Type, Bound(pass.c) \cup pass'.add, cloud'.records)
<1>0. /\ Working(pass) /\ pass.c \in Claims /\ Sent /\ pass.at = "batch" /\ RecordsMade
      /\ Source(pass).want \in Contents /\ pass.batch.posts \subseteq Source(pass).want
      /\ pass'.add = Posted \cup DOMAIN pass.batch.patches
  BY WorkingFacts DEF Serves, Learns, Answered, Owning, Base, PassOK
<1>1. DOMAIN pass.batch.patches \subseteq Bound(pass.c)
  <2>1. DOMAIN pass.batch.patches \subseteq Live
    BY <1>0 DEF Sent, Appliable
  <2>2. DOMAIN pass.batch.patches \subseteq pass.ids
    BY <1>0 DEF Planned
  <2> QED
    BY <2>1, <2>2, KnownIsBound
<1>2. Distinct(Type, Bound(pass.c), cloud'.records)
  <2>1. Distinct(Type, Bound(pass.c), cloud.records)
    BY <1>0 DEF Keys, BoundKeys, Serves, Type
  <2> QED
    BY <1>0, <2>1, BoundRange, DistinctKept DEF Type
<1>3. \A s \in Posted : cloud'.records[s].value = PostedValues[s] /\ PostedValues[s] \in pass.batch.posts
  BY <1>0, SentNew
<1>4. ASSUME NEW r \in Bound(pass.c), NEW s \in Posted, cloud'.records[r] # Gone
      PROVE  Key(Type, cloud'.records[r].value) # Key(Type, cloud'.records[s].value)
  <2>1. r \in RecordIds /\ r <= budget.records /\ OfType(cloud.records[r], Type)
    BY <1>0, BoundRange DEF Type
  <2>2. cloud.records[r] # Gone /\ Key(Type, cloud'.records[r].value) = KeyOf(Type, r)
    BY <1>4, <2>1, KeysKept DEF KeyOf
  <2>3. Key(Type, PostedValues[s]) # KeyOf(Type, r)
    BY <1>0, <1>3, <2>1, <2>2 DEF Keys, PassKeys, Live
  <2> QED
    BY <1>3, <2>2, <2>3
<1>5. ASSUME NEW r \in Posted, NEW s \in Posted,
             Key(Type, cloud'.records[r].value) = Key(Type, cloud'.records[s].value)
      PROVE  r = s
  <2>1. \A v, w \in pass.batch.posts : Key(Type, v) = Key(Type, w) => v = w
    BY <1>0, ContentsAssumption DEF Type
  <2>2. PostedValues[r] = PostedValues[s]
    BY <1>3, <1>5, <2>1
  <2> QED
    BY <1>0, <2>2, PostedFacts
<1>6. Bound(pass.c) \cup pass'.add = Bound(pass.c) \cup Posted
  BY <1>0, <1>1
<1> QED
  BY <1>2, <1>4, <1>5, <1>6 DEF Distinct

LEMMA PassKeysStep ==
    ASSUME Base, Base', Owning, Copies, Clean, TypedIds, Planned, Covers, Keys, Kinds
    PROVE  PassKeys'
<1> SUFFICES ASSUME Serves' PROVE PassKeys'
  BY DEF PassKeys
<1>1. PICK c \in Claims :
           /\ c = pass'.c /\ Serving(c) /\ Serving(c)' /\ budget'.claim[c].uid = budget.claim[c].uid
           /\ \/ pass' = pass /\ Serves /\ Bound(c)' = Bound(c) /\ (Quiet \/ ~RecordKinds)
              \/ Looks(c) /\ Bound(c)' = Bound(c) /\ pass'.ids \in {Cached(c), {}}
              \/ /\ Serves /\ c = pass.c /\ Source(pass') = Source(pass)
                 /\ StaysReady \/ PlansWrites \/ Allowed \/ Learns \/ Writes
  BY ServesMove
<1> DEFINE Listed == pass'.at = "ledger" => Distinct(TypeOf[c], Bound(c)' \cup pass'.add, cloud'.records)
           Made == pass'.at \in {"fence", "batch"} =>
                       \A v \in pass'.batch.posts, r \in Bound(c)' :
                           cloud'.records[r] # Gone => Key(TypeOf[c], v) # Key(TypeOf[c], cloud'.records[r].value)
<1>2. SUFFICES Listed /\ Made
  BY <1>1 DEF PassKeys, Type, KeyOf, Live, Bound
<1>3. \A r \in Bound(c) : r \in RecordIds /\ r <= budget.records /\ OfType(cloud.records[r], TypeOf[c])
  BY BoundRange
<1>4. CASE pass' = pass /\ Serves /\ Bound(c)' = Bound(c)
  <2>1. Listed
    <3> SUFFICES ASSUME pass.at = "ledger" PROVE Distinct(TypeOf[c], Bound(c) \cup pass.add, cloud'.records)
      BY <1>4
    <3>1. Distinct(TypeOf[c], Bound(c) \cup pass.add, cloud.records)
      BY <1>1, <1>4 DEF Keys, PassKeys, Type
    <3>2. \A r \in pass.add : r \in RecordIds /\ r <= budget.records /\ OfType(cloud.records[r], TypeOf[c])
      <4>1. Working(pass) /\ pass.add \subseteq Targets(pass)
        BY <1>4 DEF Serves, Targets
      <4> QED
        BY <1>1, <1>4, <4>1, IdsRange DEF TypedIds, Type
    <3> QED
      BY <1>3, <3>1, <3>2, DistinctKept
  <2>2. Made
    <3> SUFFICES ASSUME pass.at \in {"fence", "batch"}, NEW v \in pass.batch.posts, NEW r \in Bound(c),
                        cloud'.records[r] # Gone
                 PROVE  Key(TypeOf[c], v) # Key(TypeOf[c], cloud'.records[r].value)
      BY <1>4
    <3>1. cloud.records[r] # Gone /\ Key(TypeOf[c], cloud'.records[r].value) = KeyOf(TypeOf[c], r)
      BY <1>3, KeysKept DEF KeyOf
    <3> QED
      BY <1>1, <1>3, <1>4, <3>1 DEF Keys, PassKeys, Type, Live
  <2> QED
    BY <2>1, <2>2
<1>5. CASE Looks(c)
  BY <1>5 DEF Looks
<1>6. CASE Serves /\ c = pass.c /\ PlansWrites
  <2>1. Source(pass).want \in Contents /\ LiveOf(Type) \in SUBSET RecordIds
    BY <1>6, WorkingFacts, LiveOfFacts DEF Serves
  <2>2. pass'.batch = Operations(Type, LiveOf(Type), Source(pass).want) /\ cloud' = cloud /\ pass'.at = "fence"
    BY <1>6 DEF PlansWrites, PlansNormal, Frame
  <2>3. \A v \in pass'.batch.posts, r \in LiveOf(Type) : KeyOf(Type, r) # Key(Type, v)
    <3> DEFINE ops == Operations(Type, LiveOf(Type), Source(pass).want)
    <3>1. \A v \in ops.posts, r \in LiveOf(Type) : KeyOf(Type, r) # Key(Type, v)
      BY <2>1, OperationsFacts
    <3> HIDE DEF ops
    <3>2. pass'.batch = ops
      BY <2>2 DEF ops
    <3> QED
      BY <3>1, <3>2
  <2>4. Bound(c)' = Bound(c)
    <3>1. [pass EXCEPT !.at = "ready"].at = "ready"
      BY PassTyped DEF Pass
    <3>2. pass.at = "look"
      BY <1>6 DEF PlansWrites
    <3> QED
      BY <1>1, <2>2, <3>1, <3>2, BoundMove DEF LedgerAdds, LedgerDrops
  <2>5. \A r \in Bound(c) : cloud.records[r] # Gone => r \in LiveOf(Type)
    BY <1>3, <1>6, BoundRange DEF Live, Type
  <2> QED
    BY <1>6, <2>2, <2>3, <2>4, <2>5 DEF Type, KeyOf
<1>7. CASE Serves /\ c = pass.c /\ Allowed
  <2>1. pass.at = "fence" /\ pass'.at = "batch" /\ pass'.batch = pass.batch /\ cloud' = cloud
    BY <1>7 DEF Allowed, Permitted, Frame
  <2>2. Bound(c)' = Bound(c)
    BY <1>1, <2>1, BoundMove DEF SetsReady, LedgerAdds, LedgerDrops, Looking
  <2> QED
    BY <1>3, <1>7, <2>1, <2>2 DEF Keys, PassKeys, Type, Live, KeyOf
<1>8. CASE Serves /\ c = pass.c /\ Learns
  <2>1. pass.at = "batch" /\ pass'.at = "ledger"
    BY <1>8 DEF Learns
  <2>2. Bound(c)' = Bound(c)
    BY <1>1, <2>1, BoundMove DEF SetsReady, LedgerAdds, LedgerDrops, Looking
  <2> QED
    BY <1>8, <2>1, <2>2, SentDistinct DEF Type
<1>9. CASE Serves /\ c = pass.c /\ Writes
  <2>1. pass.at = "ledger" /\ pass'.at = "ledger" /\ cloud' = cloud
    BY <1>9 DEF Writes, LedgerAdds, LedgerDrops, Frame
  <2>2. Distinct(TypeOf[c], Bound(c) \cup pass.add, cloud.records)
    BY <1>9, <2>1 DEF Keys, PassKeys, Type
  <2>3. pass'.add \subseteq pass.add
    BY <1>9 DEF Writes
  <2>4. Bound(c)' \subseteq Bound(c) \cup pass.add
    BY <1>1, <2>1, BoundMove DEF SetsReady, Looking
  <2>5. Bound(c)' \cup pass'.add \subseteq Bound(c) \cup pass.add
    BY <2>3, <2>4
  <2> QED
    BY <2>1, <2>2, <2>5, SubsetDistinct
<1>10. CASE StaysReady
  BY <1>10 DEF StaysReady
<1> QED
  BY <1>1, <1>4, <1>5, <1>6, <1>7, <1>8, <1>9, <1>10

LEMMA KeysStep ==
    ASSUME Base, Base', Owning, Copies, Clean, TypedIds, Planned, Covers, Keys, Kinds
    PROVE  Keys'
  BY BoundKeysStep, PassKeysStep DEF Keys

\* The ledger of claim c lists records of its type that show want.
Showing(c, want) == Bound(c) \subseteq LiveOf(TypeOf[c]) /\ ValuesOf(Bound(c)) = want

SaidShown == \A c \in Claims : Says(unit, c) => Showing(c, unit.item[c].want)
ReadyShown == Serves /\ pass.at = "ready" => Showing(pass.c, Source(pass).want)
NotSaid == pass.at \in {"fence", "batch", "ledger"} => ~Says(unit, pass.c)
Shown == ~budget.tampered => SaidShown /\ ReadyShown /\ NotSaid

\* A claim that core asks for is served.
LEMMA AskedServing ==
    ASSUME Base, Copies, NEW c \in Claims, unit.item[c] # NoItem, ~unit.item[c].deleting
    PROVE  Serving(c) /\ unit.item[c].uid = budget.claim[c].uid
<1>1. unit.live /\ ~unit.deleting
  BY DEF Copies
<1>2. unit.item[c].uid = budget.claim[c].uid /\ unit.item[c].deleting = budget.claim[c].deleting
  BY GenerationFacts
<1>3. unit.item[c].uid # 0
  BY PassTyped, ItemShape
<1> QED
  BY <1>1, <1>2, <1>3 DEF Serving

\* The pass works on what claim c asks for, when that is reported as programmed.
LEMMA SaysServes ==
    ASSUME Base, Copies, Working(pass), Says(unit, pass.c)
    PROVE  /\ Serves /\ ~Source(pass).deleting
           /\ Source(pass).want = unit.item[pass.c].want
<1>1. pass.c \in Claims /\ Source(pass) = pass.unit.item[pass.c] /\ pass.at # "idle"
  BY WorkingFacts DEF Working
<1>2. Same(pass.unit.item[pass.c], unit.item[pass.c])
  BY <1>1 DEF Copies
<1>3. /\ Source(pass).uid = unit.item[pass.c].uid /\ Source(pass).want = unit.item[pass.c].want
      /\ Source(pass).deleting = unit.item[pass.c].deleting
  BY <1>1, <1>2, PassTyped, MatchFields DEF Same
<1>4. unit.item[pass.c] # NoItem /\ ~unit.item[pass.c].deleting
  BY DEF Says
<1> QED
  BY <1>1, <1>3, <1>4, AskedServing DEF Serves

LEMMA SettledShows ==
    ASSUME Base, Owning, TypedIds, Covers, Keys, Serves, Settled
    PROVE  ValuesOf(LiveOf(Type)) = Source(pass).want
<1>1. Source(pass).want \in Contents /\ LiveOf(Type) \in SUBSET Live
  BY WorkingFacts, LiveOfFacts DEF Serves
<1>2. CASE Shows(LiveOf(Type), Source(pass).want)
  BY <1>2 DEF Shows
<1>3. CASE Operations(Type, LiveOf(Type), Source(pass).want) = NoBatch
  BY <1>1, <1>3, SettledDistinct, NoneToChange
<1> QED
  BY <1>2, <1>3 DEF Settled, LegacyBound

\* A pass that goes on to report has the ledger list the live records.
LEMMA ReadyBound ==
    ASSUME Base, Base', Owning, TypedIds, Covers, Serves, ~budget.tampered, StaysReady,
           NEW c \in Claims, c = pass.c
    PROVE  Bound(c)' = LiveOf(Type)
<1>1. /\ Source(pass) = pass.unit.item[pass.c] /\ Working(pass)
      /\ budget'.claim = budget.claim /\ Source(pass).uid = budget.claim[pass.c].uid
      /\ pass'.at = "ready"
  BY WorkingFacts DEF Serves, StaysReady, SetsReady, Frame, BooksKept
<1> DEFINE e == [Start(pass.c) EXCEPT !.ids = LiveOf(Type)]
<1>2. e.ids = LiveOf(Type) /\ e.uid = budget.claim[pass.c].uid
  <2>1. Start(pass.c) \in Entry /\ Start(pass.c).uid = Source(pass).uid
    BY <1>1, StartTyped
  <2> QED
    BY <1>1, <2>1, EntryParts
<1>3. Outcome(pass.c, e, [pass EXCEPT !.at = "ready"])
  BY DEF StaysReady, SetsReady
<1> HIDE DEF e
<1>4. ~Refused
  BY <1>1, IdlePass DEF Refused
<1>5. CASE Patched(pass.c, pass.unit.item[pass.c], e, [pass EXCEPT !.at = "ready"])
  <2>1. unit'.entry[pass.c] = e
    BY <1>1, <1>5, PassTyped DEF Patched, Base, Unit
  <2> QED
    BY <1>1, <1>2, <2>1 DEF Bound, IdsOf
<1>6. CASE Unpatched(pass.c, pass.unit.item[pass.c], e, [pass EXCEPT !.at = "ready"])
  <2>1. seen.unit.entry[pass.c] = e /\ unit' = unit
    BY <1>6 DEF Unpatched
  <2>2. Cached(c) = LiveOf(Type)
    BY <1>2, <2>1 DEF Cached, IdsOf
  <2>3. Cached(c) \cap Live \subseteq Bound(c) /\ Bound(c) \subseteq Live \cup Cached(c)
    BY <1>1 DEF Covers, CacheCovers, Serves
  <2>4. LiveOf(Type) \subseteq Live
    BY <1>1, LiveOfFacts
  <2>5. Bound(c) \cap Live \subseteq LiveOf(Type)
    BY <1>1, BoundRange DEF Type
  <2>6. Bound(c)' = Bound(c)
    BY <1>1, <2>1 DEF Bound
  <2>7. LiveOf(Type) \subseteq Bound(c)
    BY <2>2, <2>3, <2>4
  <2>8. Bound(c) \subseteq LiveOf(Type)
    BY <2>2, <2>3, <2>4, <2>5
  <2> QED
    BY <2>6, <2>7, <2>8
<1> QED
  BY <1>3, <1>4, <1>5, <1>6 DEF Outcome

\* Records that stay as they are go on showing what they showed.
LEMMA ShowingKept ==
    ASSUME NEW c \in Claims, NEW want, Showing(c, want), Bound(c)' = Bound(c),
           \A r \in Bound(c) : cloud'.records[r] = cloud.records[r]
    PROVE  Showing(c, want)'
<1>1. Bound(c) \subseteq LiveOf(TypeOf[c]) /\ ValuesOf(Bound(c)) = want
  BY DEF Showing
<1>2. Bound(c)' \subseteq LiveOf(TypeOf[c])'
  BY <1>1 DEF LiveOf
<1>3. (ValuesOf(Bound(c)))' = want
  BY <1>1 DEF ValuesOf
<1> QED
  BY <1>2, <1>3 DEF Showing

LEMMA SettledShowing ==
    ASSUME Base, Owning, TypedIds, Covers, Keys, Serves, SetsReady, NEW c \in Claims, c = pass.c,
           Bound(c)' = LiveOf(Type), NEW want, want = Source(pass).want
    PROVE  Showing(c, want)'
<1>1. Settled /\ cloud' = cloud
  BY DEF SetsReady, Frame
<1>2. ValuesOf(LiveOf(Type)) = want
  BY <1>1, SettledShows
<1>3. LiveOf(TypeOf[c])' = LiveOf(Type)
  BY <1>1 DEF LiveOf, Type
<1>4. (ValuesOf(Bound(c)))' = {cloud'.records[r].value : r \in Bound(c)'}
  BY DEF ValuesOf
<1>5. (ValuesOf(Bound(c)))' = ValuesOf(LiveOf(Type))
  BY <1>1, <1>4 DEF ValuesOf
<1> QED
  BY <1>2, <1>3, <1>5 DEF Showing

\* A batch leaves the records of a claim that is reported as programmed alone.
LEMMA SaidUntouched ==
    ASSUME Base, Owning, Copies, TypedIds, Shown, Kinds, ~budget'.tampered,
           NEW c \in Claims, Says(unit, c), NEW r \in Bound(c)
    PROVE  cloud'.records[r] = cloud.records[r]
<1>0. ~budget.tampered /\ Serving(c)
  BY CloudMove, AskedServing DEF Says
<1>1. r \in RecordIds /\ r <= budget.records /\ r \in LiveOf(TypeOf[c])
  BY <1>0, BoundRange DEF Shown, SaidShown, Showing
<1>2. ASSUME Sent, r \in Targets(pass) PROVE FALSE
  <2>1. Working(pass) /\ pass.c \in Claims /\ pass.at = "batch"
    BY <1>2, WorkingFacts DEF Sent, Working
  <2>2. pass.c # c
    BY <1>0, <2>1 DEF Shown, NotSaid
  <2>3. cloud.records[r].type = TypeOf[c] /\ cloud.records[r] # Gone
    BY <1>1, CloudflareAssumption DEF LiveOf, Gone
  <2>4. TypeOf[pass.c] = TypeOf[c]
    BY <1>2, <2>1, <2>3 DEF TypedIds, OfType, Type
  <2>5. pass.unit.item[c] # NoItem
    BY <2>1 DEF Copies, Same
  <2>6. pass.unit.item[pass.c] # NoItem
    BY <2>1, WorkingFacts
  <2> QED
    BY <2>1, <2>2, <2>4, <2>5, <2>6 DEF Copies, SingleItems
<1> QED
  BY <1>0, <1>1, <1>2, RecordFate, WipedUnserved DEF Targets

LEMMA SaidShownStep ==
    ASSUME Base, Base', Owning, Copies, Copies', Clean, TypedIds, Covers, Keys, Shown, Kinds, ~budget'.tampered
    PROVE  SaidShown'
<1>0. ~budget.tampered
  BY CloudMove
<1> SUFFICES ASSUME NEW c \in Claims, Says(unit', c) PROVE Showing(c, unit.item[c].want)'
  BY DEF SaidShown
<1>1. Serving(c)'
  <2>1. unit'.item[c] # NoItem /\ ~unit'.item[c].deleting
    BY DEF Says
  <2>2. unit'.live /\ ~unit'.deleting
    BY <2>1 DEF Copies
  <2>3. GenerationOK(unit'.item[c], budget'.claim[c], budget'.edits, unit'.live)
    BY DEF Base
  <2>4. unit'.item[c] \in Items /\ budget'.claim[c] \in Items
    BY StepTyped, KindsBooks
  <2>5. unit'.item[c].uid = budget'.claim[c].uid /\ unit'.item[c].deleting = budget'.claim[c].deleting
    BY <2>1, <2>3, <2>4, MatchFields DEF GenerationOK
  <2>6. unit'.item[c].uid # 0
    BY <2>1, <2>4, ItemShape
  <2> QED
    BY <2>1, <2>2, <2>5, <2>6 DEF Serving
<1>2. unit.item[c] # NoItem /\ ~unit.item[c].deleting /\ unit'.item[c].want = unit.item[c].want
      /\ unit'.item[c].uid = unit.item[c].uid
  <2>1. CASE unit'.item[c] = unit.item[c]
    BY <2>1 DEF Says
  <2>2. CASE Says(unit, c) /\ SourceMatches(unit'.item[c], unit.item[c])
    BY <2>2, StepTyped, PassTyped, MatchFields DEF Says
  <2> QED
    BY <2>1, <2>2, SaysMove
<1>3. Serving(c) /\ unit.item[c].uid = budget.claim[c].uid
  BY <1>2, AskedServing
<1>4. budget'.claim[c].uid = budget.claim[c].uid
  <2>1. ~Newborn(c)
    <3>1. unit'.item[c].uid = budget'.claim[c].uid
      <4>1. GenerationOK(unit'.item[c], budget'.claim[c], budget'.edits, unit'.live)
        BY DEF Base
      <4>2. unit'.item[c] # NoItem
        BY DEF Says
      <4> QED
        BY <4>1, <4>2, StepTyped, KindsBooks, MatchFields DEF GenerationOK
    <3> QED
      BY <1>2, <1>3, <3>1 DEF Newborn
  <2> QED
    BY <1>1, <2>1, ServingMove
<1>5. PICK want : want = unit.item[c].want
  OBVIOUS
<1>6. SUFFICES Showing(c, want)'
  <2>1. unit'.item[c].want = want
    BY <1>2, <1>5
  <2> QED
    BY <2>1 DEF Showing
<1>7. CASE ReportsReady /\ c = pass.c /\ EntryPatched(c, unit'.entry[c])
  <2>1. pass.at = "ready" /\ cloud' = cloud /\ Working(pass)
    BY <1>7 DEF ReportsReady, Frame, Reported
  <2>2. pass.unit.item[c].uid = unit.item[c].uid /\ pass.unit.item[c].want = unit.item[c].want
    BY <1>7, <2>1, PatchFacts
  <2>3. Serves /\ Source(pass).want = want
    BY <1>3, <1>5, <1>7, <2>1, <2>2, WorkingFacts DEF Serves
  <2>4. Showing(c, want)
    BY <1>0, <1>7, <2>1, <2>3 DEF Shown, ReadyShown
  <2>5. Bound(c)' = Bound(c)
    BY <1>1, <1>3, <1>4, <2>1, BoundMove DEF SetsReady, LedgerAdds, LedgerDrops, Looking
  <2> QED
    BY <2>1, <2>4, <2>5, ShowingKept
<1>8. CASE Says(unit, c)
  <2>1. Showing(c, want)
    BY <1>0, <1>5, <1>8 DEF Shown, SaidShown
  <2>2. CASE Bound(c)' = Bound(c)
    BY <1>8, <2>1, <2>2, SaidUntouched, ShowingKept
  <2>3. CASE Serves /\ c = pass.c /\ SetsReady /\ Bound(c)' = LiveOf(Type)
    <3>1. Source(pass).want = want
      BY <1>5, <1>8, <2>3, SaysServes DEF Serves
    <3> QED
      BY <2>3, <3>1, SettledShowing
  <2>4. ~(c = pass.c /\ (LedgerAdds \/ LedgerDrops))
    BY <1>0, <1>8 DEF Shown, NotSaid, LedgerAdds, LedgerDrops
  <2> QED
    BY <1>1, <1>3, <1>4, <2>2, <2>3, <2>4, BoundMove
<1> QED
  BY <1>7, <1>8, SaysMove

LEMMA ReadyShownStep ==
    ASSUME Base, Base', Owning, Copies, Clean, TypedIds, Covers, Keys, Shown, Kinds, ~budget'.tampered
    PROVE  ReadyShown'
<1> SUFFICES ASSUME Serves', pass'.at = "ready" PROVE ReadyShown'
  BY DEF ReadyShown
<1>0. ~budget.tampered
  BY CloudMove
<1>1. PICK c \in Claims :
           /\ c = pass'.c /\ Serving(c) /\ Serving(c)' /\ budget'.claim[c].uid = budget.claim[c].uid
           /\ \/ pass' = pass /\ Serves /\ Bound(c)' = Bound(c) /\ (Quiet \/ ~RecordKinds)
              \/ Looks(c) /\ Bound(c)' = Bound(c) /\ pass'.ids \in {Cached(c), {}}
              \/ /\ Serves /\ c = pass.c /\ Source(pass') = Source(pass)
                 /\ StaysReady \/ PlansWrites \/ Allowed \/ Learns \/ Writes
  BY ServesMove
<1>2. PICK want : want = Source(pass)'.want
  OBVIOUS
<1>3. SUFFICES Showing(c, want)'
  BY <1>1, <1>2 DEF ReadyShown, Showing
<1>4. CASE pass' = pass /\ Serves /\ Bound(c)' = Bound(c)
  <2>1. want = Source(pass).want /\ c = pass.c /\ pass.at = "ready"
    BY <1>1, <1>2, <1>4 DEF Source
  <2>2. Showing(c, want)
    BY <1>0, <1>4, <2>1 DEF Shown, ReadyShown
  <2>3. \A r \in Bound(c) : cloud'.records[r] = cloud.records[r]
    <3> TAKE r \in Bound(c)
    <3>1. r \in RecordIds /\ r <= budget.records
      BY BoundRange
    <3>2. ~Sent
      BY <2>1 DEF Sent
    <3> QED
      BY <1>1, <3>1, <3>2, RecordFate, WipedUnserved
  <2> QED
    BY <1>4, <2>2, <2>3, ShowingKept
<1>5. CASE Serves /\ c = pass.c /\ Source(pass') = Source(pass) /\ StaysReady
  <2>1. Bound(c)' = LiveOf(Type)
    BY <1>0, <1>5, ReadyBound
  <2>2. want = Source(pass).want
    BY <1>2, <1>5 DEF Source
  <2> QED
    BY <1>5, <2>1, <2>2, SettledShowing DEF StaysReady
<1>6. CASE PlansWrites \/ Allowed \/ Learns \/ Writes \/ Looks(c)
  BY <1>6 DEF PlansWrites, Allowed, Learns, Writes, Looks
<1> QED
  BY <1>1, <1>4, <1>5, <1>6

\* A pass does not plan writes for a claim that shows what it asks for.
LEMMA ShownUnplanned ==
    ASSUME Base, Owning, Copies, TypedIds, Covers, Keys, Shown, ~budget.tampered, Working(pass), PlansWrites
    PROVE  ~Says(unit, pass.c)
<1> SUFFICES ASSUME Says(unit, pass.c) PROVE FALSE
  OBVIOUS
<1>1. Serves /\ Source(pass).want = unit.item[pass.c].want
  BY SaysServes
<1>2. pass.c \in Claims /\ Source(pass).want \in Contents /\ LiveOf(Type) \subseteq Live
  BY WorkingFacts, LiveOfFacts
<1>3. Bound(pass.c) \subseteq LiveOf(Type) /\ ValuesOf(Bound(pass.c)) = Source(pass).want
  BY <1>1, <1>2 DEF Shown, SaidShown, Showing, Type
<1>4. LiveOf(Type) \subseteq pass.ids /\ Operations(Type, LiveOf(Type), Source(pass).want) # NoBatch
  BY DEF PlansWrites, PlansNormal
<1>5. LiveOf(Type) = Bound(pass.c)
  BY <1>1, <1>2, <1>3, <1>4, KnownIsBound
<1>6. Distinct(Type, LiveOf(Type), cloud.records)
  BY <1>1, <1>2, <1>5 DEF Keys, BoundKeys, Serves, Type
<1> QED
  BY <1>2, <1>3, <1>4, <1>5, <1>6, NothingToChange

LEMMA NotSaidStep ==
    ASSUME Base, Base', Owning, Copies, TypedIds, Covers, Keys, Shown, Kinds, ~budget'.tampered
    PROVE  NotSaid'
<1>0. ~budget.tampered
  BY CloudMove
<1> SUFFICES ASSUME pass'.at \in {"fence", "batch", "ledger"}, Says(unit', pass'.c) PROVE FALSE
  BY DEF NotSaid
<1>1. Working(pass')
  BY DEF Working
<1>2. PICK c \in Claims : c = pass'.c
  BY <1>1 DEF Base, PassOK
<1>3. Says(unit, c) \/ ReportsReady
  BY <1>2, SaysMove
<1>4. ReportsReady => pass.at = "ready"
  BY DEF ReportsReady
<1>5. CASE pass' = pass
  BY <1>0, <1>2, <1>3, <1>4, <1>5 DEF Shown, NotSaid
<1>6. CASE pass'.c = pass.c /\ Working(pass) /\ PlansWrites
  BY <1>0, <1>2, <1>3, <1>4, <1>6, ShownUnplanned DEF PlansWrites
<1>7. CASE pass'.c = pass.c /\ Working(pass) /\ PlansRemoval
  <2>1. Says(unit, pass.c) /\ Source(pass).deleting
    BY <1>2, <1>3, <1>4, <1>7 DEF PlansRemoval, PlansDeletion, Looking
  <2> QED
    BY <1>7, <2>1, SaysServes
<1>8. CASE pass'.c = pass.c /\ (Allowed \/ Learns \/ LearnsGone \/ Writes)
  <2>1. pass.at \in {"fence", "batch", "ledger"}
    BY <1>8 DEF Allowed, Learns, LearnsGone, Writes
  <2> QED
    BY <1>0, <1>2, <1>3, <1>4, <1>8, <2>1 DEF Shown, NotSaid
<1>9. CASE StaysReady \/ LooksAgain \/ \E d \in Claims : Looks(d)
  BY <1>9 DEF StaysReady, LooksAgain, Looks
<1> QED
  BY <1>1, <1>5, <1>6, <1>7, <1>8, <1>9, PassMove

LEMMA ShownStep ==
    ASSUME Base, Base', Owning, Copies, Copies', Clean, TypedIds, Covers, Keys, Shown, Kinds
    PROVE  Shown'
  BY SaidShownStep, ReadyShownStep, NotSaidStep DEF Shown

-----------------------------------------------------------------------------
\* What a report stands on: whose records the ledger lists, that the copies
\* of the items agree on what is reported, and that the keys differ.
Standing == Copies /\ TypedIds /\ Planned /\ Covers /\ Keys /\ Shown

LEMMA InitStanding == ASSUME Init PROVE Standing
<1>1. Started
  BY InitStarted
<1>2. \A c \in Claims : ~Serving(c) /\ ~Says(unit, c)
  BY <1>1, NoItemFields DEF Started, Serving, Says
<1>3. pass.at = "idle" /\ ~Working(pass)
  BY <1>1, IdlePass DEF Started
<1>4. ~Serves
  BY <1>3 DEF Serves
<1>5. Planned /\ Covers /\ Keys /\ Shown
  BY <1>2, <1>3, <1>4 DEF Planned, Covers, CacheCovers, PassCovers, Keys, BoundKeys, PassKeys,
                          Shown, SaidShown, ReadyShown, NotSaid
<1> QED
  BY <1>5, InitCopies, InitTyped DEF Standing

LEMMA StandingStep ==
    ASSUME Base, Owning, Clean, Standing, [Next]_vars
    PROVE  Standing'
<1>1. Base' /\ Kinds
  BY StepKinds
<1>2. Copies'
  BY <1>1, CopiesStep DEF Standing
<1>3. TypedIds' /\ Planned'
  BY <1>1, TypedStep, PlannedStep DEF Standing
<1>4. Covers'
  BY <1>1, CacheCoversStep, PassCoversStep DEF Standing, Covers
<1>5. Keys'
  BY <1>1, KeysStep DEF Standing
<1>6. Shown'
  BY <1>1, <1>2, ShownStep DEF Standing
<1> QED
  BY <1>2, <1>3, <1>4, <1>5, <1>6 DEF Standing

LEMMA StandingAlways == Spec => [](Base /\ Owning /\ Clean /\ Standing)
<1>1. Init => Standing
  BY InitStanding
<1>2. Base /\ Owning /\ Clean /\ Standing /\ [Next]_vars => Standing'
  BY StandingStep
<1> QED
  BY <1>1, <1>2, CleanAlways, PTL DEF Spec

\* While a claim is reported as programmed at its present generation its
\* ledger lists exactly the records that show what it asks for, unless
\* records were removed by hand (setReady and patchStatus).
THEOREM ProgrammedIsShownAlways == Spec => []ProgrammedIsShown
<1>1. ASSUME Base, Copies, Shown PROVE ProgrammedIsShown
  <2> SUFFICES ASSUME NEW c \in Claims, Says(unit, c), ~budget.tampered
               PROVE  /\ unit.entry[c].ids \subseteq LiveOf(TypeOf[c])
                      /\ ValuesOf(unit.entry[c].ids) = unit.item[c].want
    BY DEF ProgrammedIsShown, Says
  <2>1. Showing(c, unit.item[c].want)
    BY <1>1 DEF Shown, SaidShown
  <2>2. unit.entry[c].uid = unit.item[c].uid /\ unit.item[c].uid = budget.claim[c].uid
    BY <1>1, AskedServing DEF Says
  <2>3. Bound(c) = unit.entry[c].ids
    BY <2>2 DEF Bound, IdsOf
  <2> QED
    BY <2>1, <2>3 DEF Showing
<1>2. Standing => Copies /\ Shown
  BY DEF Standing
<1> QED
  BY <1>1, <1>2, StandingAlways, PTL
=============================================================================
