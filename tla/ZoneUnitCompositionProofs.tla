--------------------- MODULE ZoneUnitCompositionProofs ---------------------
(***************************************************************************)
(* Theorems about ZoneUnitComposition, for every set of claims, every      *)
(* conflict relation and all bounds, with or without stale reads, failures *)
(* and stripped finalizers.                                                *)
(***************************************************************************)
EXTENDS ZoneUnitComposition, TLAPS

(***************************************************************************)
(* TypeOK is not inductive as it stands: deleting a claim bumps its        *)
(* generation, so a claim that can still be deleted must be below the      *)
(* bound.  The types are proved for the API objects and the reconciler     *)
(* separately.                                                             *)
(***************************************************************************)
LiveGeneration ==
    \A c \in Claims : (rs[c] /= None /\ ~rs[c].deleting)
                          => rs[c].gen \in 1 .. MaxGeneration

TypeInv == TypeOK /\ LiveGeneration

\* The items the running reconcile has collected are as exclusive as those it
\* is going to publish.
ItemsExclusive ==
    \A c, d \in Claims :
        (c /= d /\ Active(items[c]) /\ Active(items[d]))
            => ~Conflict(items[c].ident, items[d].ident)

Exclusion == OwnersExclusive /\ ItemsExclusive

\* The conflict relation of zoneUnitRecordSetsConflict does not depend on the
\* order of its arguments.
LEMMA ConflictSymmetric ==
    ASSUME NEW i, NEW j, Conflict(i, j)
    PROVE  Conflict(j, i)
<1>1. {i.type, j.type} = {j.type, i.type}
  OBVIOUS
<1> QED
  BY <1>1 DEF Conflict

\* The reconciler's own items and the entries it rewrites have their types.
LEMMA ItemTypes ==
    ASSUME TypeOK, NEW c \in Claims, crs[c] /= None
    PROVE  /\ ItemOf(c) \in Item
           /\ cunit.spec[c] /= None => RetainedItem(c) \in Item \cup {None}
<1>1. crs[c] \in RecordSet
  BY DEF TypeOK
<1>2. ItemOf(c) \in Item
  BY <1>1 DEF ItemOf, RecordSet, Item
<1>3. ASSUME cunit.spec[c] /= None
      PROVE  RetainedItem(c) \in Item \cup {None}
  <2>1. cunit.spec[c] \in Item
    BY <1>3 DEF TypeOK, Unit
  <2>2. [cunit.spec[c] EXCEPT !.allowed = FALSE, !.del = crs[c].deleting] \in Item
    BY <1>1, <2>1 DEF Item, RecordSet
  <2>3. [ItemOf(c) EXCEPT !.allowed = FALSE] \in Item
    BY <1>2 DEF Item
  <2> QED
    BY <2>2, <2>3 DEF RetainedItem
<1> QED
  BY <1>2, <1>3

\* The initial states: no claims, an empty unit, an idle reconciler.
LEMMA InitType == Init => TypeInv
<1> SUFFICES ASSUME Init PROVE TypeInv
  OBVIOUS
<1>1. rs \in [Claims -> RecordSet \cup {None}]
  BY DEF Init
<1>2. unit \in Unit
  BY DEF Init, Unit
<1>3. crs = rs /\ cunit = unit
  BY DEF Init
<1>4. LiveGeneration
  BY DEF Init, LiveGeneration
<1> QED
  BY <1>1, <1>2, <1>3, <1>4, BoundsAssumption DEF Init, TypeInv, TypeOK, Phases

\* What a finalizer or status patch leaves of the claims.
ClaimsOK == rs \in [Claims -> RecordSet \cup {None}] /\ LiveGeneration

\* ensureFinalizer and removeFinalizer leave well-formed claims.
LEMMA FinalizerTypes ==
    ASSUME TypeInv, NEW c \in Claims, AddFinalizer(c) \/ DropFinalizer(c)
    PROVE  ClaimsOK'
<1>1. rs \in [Claims -> RecordSet \cup {None}] /\ LiveGeneration
  BY DEF TypeInv, TypeOK
<1>2. ASSUME NEW b \in BOOLEAN, rs[c] /= None
      PROVE  /\ [rs[c] EXCEPT !.fin = b] \in RecordSet
             /\ [rs[c] EXCEPT !.fin = b].gen = rs[c].gen
             /\ [rs[c] EXCEPT !.fin = b].deleting = rs[c].deleting
  <2>1. rs[c] \in RecordSet
    BY <1>1, <1>2
  <2> QED
    BY <1>2, <2>1 DEF RecordSet
<1>3. \/ rs' = rs
      \/ rs' = [rs EXCEPT ![c] = None]
      \/ \E b \in BOOLEAN : rs[c] /= None /\ rs' = [rs EXCEPT ![c] = [rs[c] EXCEPT !.fin = b]]
  BY DEF AddFinalizer, DropFinalizer
<1>4. ASSUME NEW b \in BOOLEAN, rs[c] /= None, rs' = [rs EXCEPT ![c] = [rs[c] EXCEPT !.fin = b]]
      PROVE  ClaimsOK'
  BY <1>1, <1>2, <1>4 DEF ClaimsOK, LiveGeneration
<1> QED
  BY <1>1, <1>3, <1>4 DEF ClaimsOK, LiveGeneration

\* A status patch that lands on some of the claims leaves them well-formed.
LEMMA PatchTypes ==
    ASSUME TypeInv, NEW STATE S, S \subseteq Claims, NEW STATE st,
           \A c \in S : st[c] \in Generations, PatchStatus(S, st)
    PROVE  ClaimsOK'
<1>1. rs \in [Claims -> RecordSet \cup {None}] /\ LiveGeneration
  BY DEF TypeInv, TypeOK
<1>2. PICK sent \in SUBSET S :
          rs' = [c \in Claims |-> IF c \in sent /\ rs[c] /= None
                                  THEN [rs[c] EXCEPT !.prog = st[c]]
                                  ELSE rs[c]]
  BY DEF PatchStatus
<1>3. ASSUME NEW c \in Claims
      PROVE  /\ rs'[c] \in RecordSet \cup {None}
             /\ (rs'[c] /= None /\ ~rs'[c].deleting) => rs'[c].gen \in 1 .. MaxGeneration
  <2>1. CASE c \in sent /\ rs[c] /= None
    <3>1. rs'[c] = [rs[c] EXCEPT !.prog = st[c]] /\ rs[c] \in RecordSet /\ st[c] \in Generations
      BY <1>1, <1>2, <2>1
    <3>2. rs'[c] \in RecordSet /\ rs'[c].gen = rs[c].gen /\ rs'[c].deleting = rs[c].deleting
      BY <3>1 DEF RecordSet
    <3> QED
      BY <1>1, <2>1, <3>2 DEF LiveGeneration
  <2>2. CASE ~(c \in sent /\ rs[c] /= None)
    BY <1>1, <1>2, <2>2 DEF LiveGeneration
  <2> QED
    BY <2>1, <2>2
<1> QED
  BY <1>2, <1>3 DEF ClaimsOK, LiveGeneration

\* Every step of users, core and provider keeps the types.
LEMMA NextType == TypeInv /\ [Next]_vars => TypeInv'
<1> SUFFICES ASSUME TypeInv, [Next]_vars PROVE TypeInv'
  OBVIOUS
<1> USE BoundsAssumption DEF TypeInv, apiVars, userVars, cacheVars, loopVars, coreVars,
        providerVars
<1> DEFINE Claim == RecordSet \cup {None}
<1>0. /\ rs \in [Claims -> Claim]
      /\ crs \in [Claims -> Claim]
      /\ unit \in Unit
      /\ cunit \in Unit
  BY DEF TypeOK
<1>1. ASSUME NEW c \in Claims, NEW i \in IdentsOf[c], NEW b \in Bodies, CreateClaim(c, i, b)
      PROVE  TypeInv'
  <2>1. i \in Idents
    BY <1>1, IdentAssumption
  <2>2. nextUID \in UIDs
    BY <1>1 DEF CreateClaim, TypeOK, UIDs
  <2>3. [uid |-> nextUID, ident |-> i, body |-> b, gen |-> 1, deleting |-> FALSE,
         fin |-> FALSE, prog |-> 0] \in RecordSet
    BY <2>1, <2>2 DEF RecordSet, Generations
  <2> QED
    BY <1>1, <2>2, <2>3 DEF CreateClaim, TypeOK, LiveGeneration, UIDs
<1>2. ASSUME NEW c \in Claims, NEW b \in Bodies, EditClaim(c, b)
      PROVE  TypeInv'
  <2>1. rs[c] \in RecordSet /\ rs[c].gen \in 1 .. MaxGeneration
    BY <1>0, <1>2 DEF EditClaim, LiveGeneration
  <2>2. rs'[c] = [rs[c] EXCEPT !.body = b, !.gen = rs[c].gen + 1]
    BY <1>0, <1>2 DEF EditClaim
  <2>4. rs[c].gen + 1 \in Generations
    BY <2>1 DEF Generations
  <2>3. rs'[c] \in RecordSet
    BY <2>1, <2>2, <2>4 DEF RecordSet
  <2> QED
    BY <1>2, <2>1, <2>2, <2>3 DEF EditClaim, TypeOK, LiveGeneration
<1>3. ASSUME NEW c \in Claims, DeleteClaim(c)
      PROVE  TypeInv'
  <2>1. rs[c] \in RecordSet /\ rs[c].gen \in 1 .. MaxGeneration
    BY <1>0, <1>3 DEF DeleteClaim, LiveGeneration
  <2>2. rs'[c] = None \/ rs'[c] = [rs[c] EXCEPT !.deleting = TRUE, !.gen = rs[c].gen + 1]
    BY <1>0, <1>3 DEF DeleteClaim
  <2>4. rs[c].gen + 1 \in Generations
    BY <2>1 DEF Generations
  <2>3. rs'[c] = None \/ (rs'[c] \in RecordSet /\ rs'[c].deleting)
    BY <2>1, <2>2, <2>4 DEF RecordSet
  <2> QED
    BY <1>3, <2>3 DEF DeleteClaim, TypeOK, LiveGeneration
<1>4. ASSUME NEW c \in Claims, ForceFinalize(c)
      PROVE  TypeInv'
  BY <1>4 DEF ForceFinalize, TypeOK, LiveGeneration
<1>5. ASSUME NEW c \in Claims, NEW t \in Standings, ChangeStanding(c, t)
      PROVE  TypeInv'
  BY <1>5 DEF ChangeStanding, TypeOK, LiveGeneration
<1>6. ASSUME BeginReconcile
      PROVE  TypeInv'
  <2>1. crs' \in [Claims -> Claim] /\ cunit' \in Unit
    BY <1>0, <1>6 DEF BeginReconcile, ReadCache
  <2>2. todo' \subseteq Claims /\ rejected' \subseteq Claims
    BY <1>6 DEF BeginReconcile, Supported, Retainable, PolicyRejected, Unsupported
  <2> QED
    BY <1>6, <2>1, <2>2 DEF BeginReconcile, TypeOK, LiveGeneration, Phases
<1>7. ASSUME NEW c \in Claims, AcceptNext(c)
      PROVE  TypeInv'
  <2>1. c \in todo /\ crs[c] /= None
    BY <1>7 DEF AcceptNext, First, Supported, Cached
  <2>2. ItemOf(c) \in Item
    BY <2>1, ItemTypes
  <2>3. ClaimsOK' /\ items' \in [Claims -> Item \cup {None}] /\ rejected' \subseteq Claims
         /\ faults' \in 0 .. MaxFaults
    <3>1. CASE AcceptConversionError(c)
      BY <3>1 DEF AcceptConversionError, Fault, TypeOK, ClaimsOK, LiveGeneration
    <3>2. CASE AcceptFinalized(c)
      BY <3>2, FinalizerTypes DEF AcceptFinalized, TypeOK
    <3>3. CASE AcceptRejected(c)
      BY <3>3, FinalizerTypes DEF AcceptRejected, TypeOK
    <3>4. CASE AcceptOwner(c)
      BY <2>2, <3>4, FinalizerTypes DEF AcceptOwner, TypeOK
    <3> QED
      BY <1>7, <3>1, <3>2, <3>3, <3>4 DEF AcceptNext
  <2> QED
    BY <1>7, <2>3 DEF AcceptNext, Visit, TypeOK, ClaimsOK
<1>8. ASSUME NEW c \in Claims, RetainNext(c)
      PROVE  TypeInv'
  <2> USE DEF RetainNext
  <2>1. ClaimsOK'
    BY <1>8, FinalizerTypes
  <2>3. RetainedItem(c) \in Item \cup {None}
    BY <1>8, ItemTypes DEF Retainable, PolicyRejected, Cached
  <2>2. items' \in [Claims -> Item \cup {None}]
    BY <1>8, <2>3 DEF TypeOK
  <2> QED
    BY <1>8, <2>1, <2>2 DEF Visit, TypeOK, ClaimsOK
<1>9. ASSUME WriteRejected
      PROVE  TypeInv'
  <2>1. items' \in [Claims -> Item \cup {None}]
    BY <1>9 DEF WriteRejected, TypeOK, Unit
  <2>2. rejected \subseteq Claims /\ 0 \in Generations
    BY DEF TypeOK, Generations
  <2>3. \A c \in rejected : [d \in rejected |-> 0][c] \in Generations
    BY <2>2
  <2>4. ClaimsOK'
    BY <1>9, <2>2, <2>3, PatchTypes DEF WriteRejected
  <2> QED
    BY <1>9, <2>1, <2>4 DEF WriteRejected, TypeOK, ClaimsOK, Phases
<1>10. ASSUME ApplyUnit
       PROVE  TypeInv'
  <2>1. unit' \in Unit
    BY <1>0, <1>10 DEF ApplyUnit, TypeOK, Unit
  <2> QED
    BY <1>10, <2>1 DEF ApplyUnit, TypeOK, LiveGeneration, Phases
<1>11. ASSUME ProjectStatus
       PROVE  TypeInv'
  <2> DEFINE S == {c \in Claims : Projectable(c)}
             st == [c \in S |-> IF Incompatible(c) THEN 0 ELSE Projected(c)]
  <2>1. \A c \in S : st[c] \in Generations
    <3>1. \A c \in S : crs[c].gen \in Generations
      BY <1>0 DEF Projectable, Cached, RecordSet
    <3>2. 0 \in Generations
      BY DEF Generations
    <3> QED
      BY <3>1, <3>2 DEF Projected
  <2>2. S \subseteq Claims /\ PatchStatus(S, st)
    BY <1>11 DEF ProjectStatus
  <2>3. ClaimsOK'
    <3> HIDE DEF S, st
    <3> QED
      BY <2>1, <2>2, PatchTypes
  <2> QED
    BY <1>11, <2>3 DEF ProjectStatus, TypeOK, ClaimsOK, Phases
<1>12. ASSUME AbortReconcile
       PROVE  TypeInv'
  <2>1. faults' \in 0 .. MaxFaults
    BY <1>12 DEF AbortReconcile, Fault, TypeOK
  <2> QED
    BY <1>12, <2>1 DEF AbortReconcile, TypeOK, LiveGeneration, Phases
<1>13. ASSUME NEW c \in Claims, unit.spec[c] /= None
       PROVE  unit.spec[c] \in Item /\ OwnEntry(c) \in Entry
  <2>1. unit.spec[c] \in Item /\ unit.ledger[c] \in Entry \cup {None}
    BY <1>0, <1>13 DEF Unit
  <2>2. 0 \in Generations
    BY DEF Generations
  <2>3. [uid |-> unit.spec[c].uid, gen |-> 0, rec |-> None, prog |-> 0, done |-> FALSE] \in Entry
    BY <2>1, <2>2 DEF Item, Entry
  <2> QED
    BY <2>1, <2>3 DEF OwnEntry
<1>14. ASSUME NEW c \in Claims, unit.spec[c] /= None, NEW e \in Entry, WriteEntry(c, e)
       PROVE  unit' \in Unit
  <2>1. [e EXCEPT !.uid = unit.spec[c].uid, !.gen = unit.spec[c].gen] \in Entry
    BY <1>13, <1>14 DEF Item, Entry
  <2> QED
    BY <1>0, <1>14, <2>1 DEF WriteEntry, Unit
<1>15. ASSUME NEW c \in Claims, ProviderConflict(c)
       PROVE  TypeInv'
  <2>1. unit.spec[c] /= None
    BY <1>15 DEF ProviderConflict, Active, Deleting
  <2>2. 0 \in Generations
    BY DEF Generations
  <2>3. [OwnEntry(c) EXCEPT !.prog = 0] \in Entry
    BY <1>13, <2>1, <2>2 DEF Entry
  <2>4. unit' \in Unit
    BY <1>14, <1>15, <2>1, <2>3 DEF ProviderConflict
  <2> QED
    BY <1>15, <2>4 DEF ProviderConflict, TypeOK, LiveGeneration
<1>16. ASSUME NEW c \in Claims, ProviderReady(c)
       PROVE  TypeInv'
  <2>1. unit.spec[c] /= None
    BY <1>16 DEF ProviderReady, Active
  <2>2. unit.spec[c] \in Item
    BY <1>13, <2>1
  <2>3. [OwnEntry(c) EXCEPT !.rec = unit.spec[c].ident, !.prog = unit.spec[c].gen] \in Entry
    BY <1>13, <2>1, <2>2 DEF Entry, Item
  <2>4. unit' \in Unit
    BY <1>14, <1>16, <2>1, <2>3 DEF ProviderReady
  <2>5. <<unit.spec[c].uid, unit.spec[c].gen>> \in UIDs \X Generations
    BY <2>2 DEF Item
  <2> QED
    BY <1>16, <2>4, <2>5 DEF ProviderReady, TypeOK, LiveGeneration
<1>17. ASSUME NEW c \in Claims, ProviderReceipt(c)
       PROVE  TypeInv'
  <2>1. unit.spec[c] /= None
    BY <1>17 DEF ProviderReceipt, Active
  <2>2. unit.spec[c] \in Item
    BY <1>13, <2>1
  <2>3. [OwnEntry(c) EXCEPT !.rec = unit.spec[c].ident] \in Entry
    BY <1>13, <2>1, <2>2 DEF Entry, Item
  <2>4. unit' \in Unit
    BY <1>14, <1>17, <2>1, <2>3 DEF ProviderReceipt
  <2> QED
    BY <1>17, <2>4 DEF ProviderReceipt, TypeOK, LiveGeneration
<1>18. ASSUME NEW c \in Claims, ProviderDispatch(c)
       PROVE  TypeInv'
  <2>1. unit.spec[c] \in Item
    BY <1>13, <1>18 DEF ProviderDispatch, Active, Deleting
  <2>2. Live(c) /= None => Live(c) \in DNSRecord
    BY <2>1 DEF Live, TypeOK, Item
  <2>3. inflight' \in Change
    <3>1. CASE inflight' = [op |-> "UPSERT", ident |-> unit.spec[c].ident,
                            uid |-> unit.spec[c].uid, body |-> unit.spec[c].body]
      BY <2>1, <3>1 DEF Item, Change
    <3>2. CASE Live(c) /= None /\ inflight' = [op |-> "DELETE", ident |-> unit.spec[c].ident,
                            uid |-> unit.spec[c].uid, body |-> Live(c).body]
      BY <2>1, <2>2, <3>2 DEF Item, Change, DNSRecord
    <3> QED
      BY <1>18, <3>1, <3>2 DEF ProviderDispatch
  <2> QED
    BY <1>18, <2>3 DEF ProviderDispatch, TypeOK, LiveGeneration
<1>19. ASSUME NEW c \in Claims, ProviderCompleted(c)
       PROVE  TypeInv'
  <2>1. unit.spec[c] /= None
    BY <1>19 DEF ProviderCompleted, Deleting
  <2>2. unit.spec[c] \in Item
    BY <1>13, <2>1
  <2>3. [OwnEntry(c) EXCEPT !.done = TRUE, !.prog = unit.spec[c].gen] \in Entry
    BY <1>13, <2>1, <2>2 DEF Entry, Item
  <2>4. unit' \in Unit
    BY <1>14, <1>19, <2>1, <2>3 DEF ProviderCompleted
  <2> QED
    BY <1>19, <2>4 DEF ProviderCompleted, TypeOK, LiveGeneration
<1>20. ASSUME ProviderLand
       PROVE  TypeInv'
  <2>1. inflight \in Change
    BY <1>20 DEF ProviderLand, TypeOK
  <2>2. [uid |-> inflight.uid, body |-> inflight.body] \in DNSRecord
    BY <2>1 DEF Change, DNSRecord
  <2>3. dns' \in [Idents -> DNSRecord \cup {None}]
    BY <1>20, <2>1, <2>2 DEF ProviderLand, TypeOK, Change
  <2> QED
    BY <1>20, <2>3 DEF ProviderLand, TypeOK, LiveGeneration
<1>21. ASSUME ProviderPrune
       PROVE  TypeInv'
  <2>1. unit' \in Unit
    BY <1>0, <1>21 DEF ProviderPrune, Unit
  <2> QED
    BY <1>21, <2>1 DEF ProviderPrune, TypeOK, LiveGeneration
<1>22. ASSUME UNCHANGED vars
       PROVE  TypeInv'
  BY <1>22 DEF vars, TypeOK, LiveGeneration
<1> QED
  BY <1>1, <1>2, <1>3, <1>4, <1>5, <1>6, <1>7, <1>8, <1>9, <1>10, <1>11, <1>12, <1>15,
     <1>16, <1>17, <1>18, <1>19, <1>20, <1>21, <1>22 DEF Next, User, Core, Provider

\* The objects, the reconciler's local state and the provider's ledger always
\* have their types, whatever the interleaving.
THEOREM TypeCorrect == Spec => []TypeOK
<1>1. Init => TypeInv
  BY InitType
<1>2. TypeInv /\ [Next]_vars => TypeInv'
  BY NextType
<1>3. TypeInv => TypeOK
  BY DEF TypeInv
<1> QED
  BY <1>1, <1>2, <1>3, PTL DEF Spec

-----------------------------------------------------------------------------
(* Exclusive ownership.                                                    *)

\* A step that only turns items off, or leaves them as they are, keeps the
\* collected items exclusive.
LEMMA FewerItems ==
    ASSUME ItemsExclusive,
           \A c \in Claims : items'[c] = items[c] \/ ~Active(items'[c])
    PROVE  ItemsExclusive'
BY DEF ItemsExclusive, Active

\* What core publishes is what it collected; the provider never writes spec.
LEMMA SpecFrame ==
    ASSUME Exclusion, unit'.spec = unit.spec \/ unit'.spec = items
    PROVE  OwnersExclusive'
BY DEF Exclusion, OwnersExclusive, ItemsExclusive, Active

\* Every step keeps the published and the collected items exclusive: only
\* AcceptOwner adds an active item, and LosesOwnership rules out its rivals.
LEMMA NextExclusion == TypeInv /\ Exclusion /\ [Next]_vars => Exclusion'
<1> SUFFICES ASSUME TypeInv, Exclusion, [Next]_vars PROVE Exclusion'
  OBVIOUS
<1> USE DEF apiVars, userVars, cacheVars, loopVars, coreVars, providerVars
<1>0. /\ unit \in Unit
      /\ items \in [Claims -> Item \cup {None}]
  BY DEF TypeInv, TypeOK
<1>1. ASSUME UNCHANGED <<unit, items>>
      PROVE  Exclusion'
  BY <1>1 DEF Exclusion, OwnersExclusive, ItemsExclusive
<1>2. ASSUME UNCHANGED unit, items' = [c \in Claims |-> None]
      PROVE  Exclusion'
  BY <1>2, FewerItems, SpecFrame DEF Exclusion, Active
<1>3. ASSUME NEW c \in Claims, AcceptNext(c)
      PROVE  Exclusion'
  <2>1. CASE UNCHANGED items
    BY <1>1, <1>3, <2>1 DEF AcceptNext
  <2>2. CASE AcceptOwner(c)
    <3>1. items' = [items EXCEPT ![c] = ItemOf(c)] /\ ItemOf(c).ident = crs[c].ident
      BY <2>2 DEF AcceptOwner, ItemOf
    <3>2. \A o \in Claims \ {c} : items[o] /= None => ~Conflict(crs[c].ident, items[o].ident)
      BY <2>2 DEF AcceptOwner, LosesOwnership, LosesToItem
    <3>3. ASSUME NEW a \in Claims, NEW b \in Claims, a /= b,
                 Active(items'[a]), Active(items'[b])
          PROVE  ~Conflict(items'[a].ident, items'[b].ident)
      <4>1. CASE a = c
        BY <1>0, <3>1, <3>2, <3>3, <4>1 DEF Active
      <4>2. CASE b = c
        <5>1. ~Conflict(items'[b].ident, items'[a].ident)
          BY <1>0, <3>1, <3>2, <3>3, <4>2 DEF Active
        <5> QED
          BY <5>1, ConflictSymmetric
      <4>3. CASE a /= c /\ b /= c
        BY <1>0, <3>1, <3>3, <4>3 DEF Exclusion, ItemsExclusive
      <4> QED
        BY <4>1, <4>2, <4>3
    <3>4. ItemsExclusive'
      BY <3>3 DEF ItemsExclusive, Active
    <3> QED
      BY <1>3, <3>4 DEF AcceptNext, Exclusion, OwnersExclusive
  <2> QED
    BY <1>3, <2>1, <2>2 DEF AcceptNext, AcceptConversionError, AcceptFinalized, AcceptRejected
<1>4. ASSUME NEW c \in Claims, RetainNext(c)
      PROVE  Exclusion'
  <2>1. CASE UNCHANGED items
    BY <1>1, <1>4, <2>1 DEF RetainNext
  <2>2. CASE items' = [items EXCEPT ![c] = RetainedItem(c)]
    <3>1. cunit.spec[c] \in Item /\ crs[c] \in RecordSet
      BY <1>4 DEF RetainNext, Retainable, PolicyRejected, Cached, TypeInv, TypeOK, Unit
    <3>2. ItemOf(c) \in Item
      BY <1>4, ItemTypes DEF RetainNext, Retainable, PolicyRejected, Cached, TypeInv
    <3>3. ~Active(RetainedItem(c))
      BY <3>1, <3>2 DEF RetainedItem, Active, Item
    <3>4. ItemsExclusive'
      BY <1>0, <2>2, <3>3, FewerItems DEF Exclusion
    <3> QED
      BY <1>4, <3>4 DEF RetainNext, Exclusion, OwnersExclusive
  <2> QED
    BY <1>4, <2>1, <2>2 DEF RetainNext
<1>5. ASSUME WriteRejected
      PROVE  Exclusion'
  <2>1. \A c \in Claims : items'[c] = items[c] \/ ~Active(items'[c])
    BY <1>5 DEF WriteRejected, PendingPredecessor, Active
  <2> QED
    BY <1>5, <2>1, FewerItems, SpecFrame DEF WriteRejected, Exclusion
<1>6. ASSUME ApplyUnit
      PROVE  Exclusion'
  <2>1. unit'.spec = unit.spec \/ unit'.spec = items
    BY <1>0, <1>6 DEF ApplyUnit, Unit
  <2>2. UNCHANGED items
    BY <1>6 DEF ApplyUnit
  <2> QED
    BY <2>1, <2>2, SpecFrame DEF Exclusion, ItemsExclusive
<1>7. ASSUME unit'.spec = unit.spec, UNCHANGED items
      PROVE  Exclusion'
  BY <1>7, SpecFrame DEF Exclusion, ItemsExclusive
<1>8. ASSUME NEW c \in Claims, NEW e, WriteEntry(c, e)
      PROVE  unit'.spec = unit.spec
  BY <1>0, <1>8 DEF WriteEntry, Unit
<1>9. ASSUME User
      PROVE  Exclusion'
  BY <1>1, <1>9 DEF User, CreateClaim, EditClaim, DeleteClaim, ForceFinalize, ChangeStanding
<1>10. ASSUME Core
       PROVE  Exclusion'
  BY <1>2, <1>3, <1>4, <1>5, <1>6, <1>10
     DEF Core, BeginReconcile, ProjectStatus, AbortReconcile
<1>11. ASSUME Provider
       PROVE  Exclusion'
  <2>1. CASE ProviderLand \/ \E c \in Claims : ProviderDispatch(c)
    BY <1>1, <2>1 DEF ProviderLand, ProviderDispatch
  <2>2. CASE ProviderPrune
    <3>1. unit'.spec = unit.spec
      BY <1>0, <2>2 DEF ProviderPrune, Unit
    <3> QED
      BY <1>7, <2>2, <3>1 DEF ProviderPrune
  <2>3. ASSUME NEW c \in Claims,
               \/ ProviderConflict(c)
               \/ ProviderReady(c)
               \/ ProviderReceipt(c)
               \/ ProviderCompleted(c)
        PROVE  Exclusion'
    <3>1. unit'.spec = unit.spec
      BY <1>8, <2>3 DEF ProviderConflict, ProviderReady, ProviderReceipt, ProviderCompleted
    <3> QED
      BY <1>7, <2>3, <3>1
         DEF ProviderConflict, ProviderReady, ProviderReceipt, ProviderCompleted
  <2> QED
    BY <1>11, <2>1, <2>2, <2>3 DEF Provider
<1> QED
  BY <1>1, <1>9, <1>10, <1>11 DEF Next, vars

\* acceptedRecordSetItems lets at most one of any set of conflicting claims
\* into the unit as an active item, whatever it read, whoever else writes and
\* wherever a reconcile is cut off.
THEOREM OwnershipIsExclusive == Spec => []OwnersExclusive
<1>1. Init => TypeInv /\ Exclusion
  BY InitType DEF Init, Exclusion, OwnersExclusive, ItemsExclusive, Active
<1>2. TypeInv /\ Exclusion /\ [Next]_vars => (TypeInv /\ Exclusion)'
  BY NextType, NextExclusion
<1>3. Exclusion => OwnersExclusive
  BY DEF Exclusion
<1> QED
  BY <1>1, <1>2, <1>3, PTL DEF Spec
-----------------------------------------------------------------------------
(* Deletion is final.                                                      *)

\* The object of incarnation uid that may be at c: whose UID it is.
Is(x, uid) == x /= None /\ x.uid = uid

\* home gives every incarnation created so far its claim and its record.
\* Everything that carries a UID, in the API server, in a cache, in the unit,
\* in the hosted zone or on its way to it, agrees with home.
AtHome(home, x, c) ==
    x /= None => x.uid < nextUID /\ home[x.uid] = [claim |-> c, ident |-> x.ident]

Homes(home) ==
    /\ \A c \in Claims : /\ AtHome(home, rs[c], c)
                         /\ AtHome(home, crs[c], c)
                         /\ AtHome(home, items[c], c)
                         /\ AtHome(home, unit.spec[c], c)
                         /\ AtHome(home, cunit.spec[c], c)
    /\ \A i \in Idents :
          dns[i] /= None => dns[i].uid < nextUID /\ home[dns[i].uid].ident = i
    /\ (inflight /= None /\ inflight.op = "UPSERT") =>
          inflight.uid < nextUID /\ home[inflight.uid].ident = inflight.ident

Placed == [UIDs -> [claim : Claims \cup {0}, ident : Idents \cup {None}]]

HomesExist == \E home \in Placed : Homes(home)

\* Nobody can read this incarnation as a claim that is not deleting any more.
Ended(uid) ==
    /\ uid < nextUID
    /\ \A c \in Claims : /\ Is(rs[c], uid) => rs[c].deleting
                         /\ Is(crs[c], uid) => crs[c].deleting

\* Nor does any trace of it remain in the hosted zone, or can one come back.
Finished(uid) ==
    /\ Ended(uid)
    /\ \A c \in Claims : ~(Active(unit.spec[c]) /\ unit.spec[c].uid = uid)
    /\ \A i \in Idents : ~Is(dns[i], uid)
    /\ inflight /= None => ~(inflight.op = "UPSERT" /\ inflight.uid = uid)

\* An item asks for deletion only when the reconciler has read its claim as
\* deleting, and what it collects as active it has read as alive.
EndedItems ==
    \A c \in Claims :
        /\ crs[c] /= None /\ crs[c].deleting => Ended(crs[c].uid)
        /\ Deleting(items[c]) => Ended(items[c].uid)
        /\ Deleting(unit.spec[c]) => Ended(unit.spec[c].uid)
        /\ Deleting(cunit.spec[c]) => Ended(cunit.spec[c].uid)
        /\ Active(items[c]) => Is(crs[c], items[c].uid) /\ ~crs[c].deleting

\* What the ledger, or the copy of it that core read, calls completed is.
DoneIsFinished ==
    \A c \in Claims :
        /\ (unit.ledger[c] /= None /\ unit.ledger[c].done) => Finished(unit.ledger[c].uid)
        /\ (cunit.ledger[c] /= None /\ cunit.ledger[c].done) => Finished(cunit.ledger[c].uid)

\* A finalizer is given to the incarnation that was read alive, or to a later
\* one: while core holds a copy that is deleting no later one has it.
FinalizerIsRead ==
    \A c \in Claims :
        (crs[c] /= None /\ crs[c].deleting /\ rs[c] /= None /\ rs[c].fin)
            => rs[c].uid = crs[c].uid

Completion == HomesExist /\ EndedItems /\ DoneIsFinished /\ FinalizerIsRead
\* What a step other than a creation does to a claim: it goes, or it stays the
\* same incarnation and does not come back from deletion.
ClaimKept(c) ==
    rs'[c] /= None =>
        /\ rs[c] /= None
        /\ rs'[c].uid = rs[c].uid
        /\ rs'[c].ident = rs[c].ident
        /\ rs[c].deleting => rs'[c].deleting

\* What the reconciler may put among its items.
ItemStep(c) ==
    \/ items'[c] = items[c]
    \/ items'[c] = None
    \/ crs[c] /= None /\ items'[c] = ItemOf(c)
    \/ crs[c] /= None /\ cunit.spec[c] /= None /\ items'[c] = RetainedItem(c)
    \/ Deleting(cunit.spec[c]) /\ items'[c] = cunit.spec[c]

\* A status patch keeps every claim.
LEMMA PatchKeeps ==
    ASSUME TypeInv, NEW STATE S, NEW STATE st, PatchStatus(S, st)
    PROVE  \A c \in Claims : ClaimKept(c) /\ (rs'[c] /= None /\ rs'[c].fin => rs[c].fin)
<1>1. rs \in [Claims -> RecordSet \cup {None}]
  BY DEF TypeInv, TypeOK
<1>2. PICK sent \in SUBSET S :
          rs' = [c \in Claims |-> IF c \in sent /\ rs[c] /= None
                                  THEN [rs[c] EXCEPT !.prog = st[c]]
                                  ELSE rs[c]]
  BY DEF PatchStatus
<1>3. ASSUME NEW c \in Claims
      PROVE  ClaimKept(c) /\ (rs'[c] /= None /\ rs'[c].fin => rs[c].fin)
  <2>1. CASE rs[c] = None
    BY <1>2, <2>1 DEF ClaimKept
  <2>2. CASE rs[c] /= None /\ c \in sent
    <3>1. rs'[c] = [rs[c] EXCEPT !.prog = st[c]] /\ rs[c] \in RecordSet
      BY <1>1, <1>2, <2>2
    <3> QED
      BY <2>2, <3>1 DEF ClaimKept, RecordSet
  <2>3. CASE rs[c] /= None /\ c \notin sent
    BY <1>2, <2>3 DEF ClaimKept
  <2> QED
    BY <2>1, <2>2, <2>3
<1> QED
  BY <1>3

\* A finalizer patch keeps every other claim as it is, and the one it names.
LEMMA FinalizerKeeps ==
    ASSUME TypeInv, NEW c \in Claims, AddFinalizer(c) \/ DropFinalizer(c)
    PROVE  /\ \A d \in Claims : ClaimKept(d)
           /\ \A d \in Claims \ {c} : rs'[d] = rs[d]
           /\ crs[c].deleting /\ rs'[c] /= None /\ rs'[c].fin => rs[c].fin
<1>1. rs \in [Claims -> RecordSet \cup {None}]
  BY DEF TypeInv, TypeOK
<1>2. \/ rs' = rs
      \/ rs' = [rs EXCEPT ![c] = None]
      \/ rs[c] /= None /\ rs' = [rs EXCEPT ![c] = [rs[c] EXCEPT !.fin = FALSE]]
      \/ /\ rs[c] /= None
         /\ ~crs[c].deleting
         /\ rs' = [rs EXCEPT ![c] = [rs[c] EXCEPT !.fin = TRUE]]
  BY DEF AddFinalizer, DropFinalizer
<1>3. CASE rs' = rs
  BY <1>3 DEF ClaimKept
<1>4. CASE rs' = [rs EXCEPT ![c] = None]
  BY <1>1, <1>4 DEF ClaimKept
<1>5. ASSUME NEW b \in BOOLEAN, rs[c] /= None,
             rs' = [rs EXCEPT ![c] = [rs[c] EXCEPT !.fin = b]]
      PROVE  /\ \A d \in Claims : ClaimKept(d)
             /\ \A d \in Claims \ {c} : rs'[d] = rs[d]
             /\ rs'[c].fin = b
  <2>1. rs[c] \in RecordSet /\ rs'[c] = [rs[c] EXCEPT !.fin = b]
    BY <1>1, <1>5
  <2>2. ClaimKept(c) /\ rs'[c].fin = b
    BY <1>5, <2>1 DEF ClaimKept, RecordSet
  <2> QED
    BY <1>1, <1>5, <2>2 DEF ClaimKept
<1> QED
  BY <1>2, <1>3, <1>4, <1>5

\* The claims a step leaves, unless it creates one.
LEMMA ClaimsKept ==
    ASSUME TypeInv, [Next]_vars,
           ~\E c \in Claims, i \in Idents, b \in Bodies : CreateClaim(c, i, b)
    PROVE  nextUID' = nextUID /\ \A c \in Claims : ClaimKept(c)
<1> USE DEF apiVars, userVars, cacheVars, loopVars, coreVars, providerVars
<1>0. rs \in [Claims -> RecordSet \cup {None}]
  BY DEF TypeInv, TypeOK
<1>1. CASE UNCHANGED <<rs, nextUID>>
  BY <1>1 DEF ClaimKept
<1>2. CASE User
  <2>1. ASSUME NEW c \in Claims, NEW b \in Bodies, EditClaim(c, b)
        PROVE  nextUID' = nextUID /\ \A d \in Claims : ClaimKept(d)
    <3>1. rs[c] \in RecordSet /\ rs[c] /= None
          /\ rs' = [rs EXCEPT ![c] = [rs[c] EXCEPT !.body = b, !.gen = rs[c].gen + 1]]
      BY <1>0, <2>1 DEF EditClaim
    <3>2. ClaimKept(c)
      <4>1. rs'[c] = [rs[c] EXCEPT !.body = b, !.gen = rs[c].gen + 1]
        BY <1>0, <3>1
      <4> QED
        BY <3>1, <4>1 DEF ClaimKept, RecordSet
    <3> QED
      BY <1>0, <2>1, <3>1, <3>2 DEF EditClaim, ClaimKept
  <2>2. ASSUME NEW c \in Claims, DeleteClaim(c)
        PROVE  nextUID' = nextUID /\ \A d \in Claims : ClaimKept(d)
    <3>1. rs[c] \in RecordSet /\ rs[c] /= None
          /\ \/ rs' = [rs EXCEPT ![c] = None]
             \/ rs' = [rs EXCEPT ![c] = [rs[c] EXCEPT !.deleting = TRUE, !.gen = rs[c].gen + 1]]
      BY <1>0, <2>2 DEF DeleteClaim
    <3>2. ClaimKept(c)
      <4>1. rs'[c] = None \/ rs'[c] = [rs[c] EXCEPT !.deleting = TRUE, !.gen = rs[c].gen + 1]
        BY <1>0, <3>1
      <4> QED
        BY <3>1, <4>1 DEF ClaimKept, RecordSet
    <3> QED
      BY <1>0, <2>2, <3>1, <3>2 DEF DeleteClaim, ClaimKept
  <2>3. ASSUME NEW c \in Claims, ForceFinalize(c)
        PROVE  nextUID' = nextUID /\ \A d \in Claims : ClaimKept(d)
    BY <1>0, <2>3 DEF ForceFinalize, ClaimKept
  <2>4. ASSUME NEW c \in Claims, NEW t \in Standings, ChangeStanding(c, t)
        PROVE  nextUID' = nextUID /\ \A d \in Claims : ClaimKept(d)
    BY <2>4, <1>1 DEF ChangeStanding
  <2>5. \A c \in Claims : IdentsOf[c] \subseteq Idents
    BY IdentAssumption
  <2> QED
    BY <1>2, <2>1, <2>2, <2>3, <2>4, <2>5 DEF User
<1>3. CASE Core
  <2>1. ASSUME NEW c \in Claims, AcceptNext(c)
        PROVE  nextUID' = nextUID /\ \A d \in Claims : ClaimKept(d)
    BY <1>1, <2>1, FinalizerKeeps
       DEF AcceptNext, AcceptConversionError, AcceptFinalized, AcceptRejected, AcceptOwner
  <2>2. ASSUME NEW c \in Claims, RetainNext(c)
        PROVE  nextUID' = nextUID /\ \A d \in Claims : ClaimKept(d)
    BY <2>2, FinalizerKeeps DEF RetainNext
  <2>3. CASE WriteRejected
    BY <2>3, PatchKeeps DEF WriteRejected
  <2>4. CASE ProjectStatus
    <3> DEFINE S == {c \in Claims : Projectable(c)}
               st == [c \in S |-> IF Incompatible(c) THEN 0 ELSE Projected(c)]
    <3>1. PatchStatus(S, st) /\ nextUID' = nextUID
      BY <2>4 DEF ProjectStatus
    <3> HIDE DEF S, st
    <3> QED
      BY <3>1, PatchKeeps
  <2>5. CASE BeginReconcile \/ ApplyUnit \/ AbortReconcile
    BY <1>1, <2>5 DEF BeginReconcile, ApplyUnit, AbortReconcile
  <2> QED
    BY <1>3, <2>1, <2>2, <2>3, <2>4, <2>5 DEF Core
<1>4. CASE Provider
  BY <1>1, <1>4 DEF Provider, ProviderConflict, ProviderReady, ProviderReceipt,
     ProviderDispatch, ProviderCompleted, ProviderLand, ProviderPrune
<1> QED
  BY <1>1, <1>2, <1>3, <1>4 DEF Next, vars

\* What a step does to the reconciler's copies and to what it collects: the
\* copies change only when a reconcile begins, with nothing collected.
LEMMA CoreSteps ==
    ASSUME TypeInv, [Next]_vars
    PROVE  /\ \/ crs' = crs /\ cunit' = cunit
              \/ /\ UNCHANGED <<rs, unit, nextUID, dns, inflight>>
                 /\ \A c \in Claims : crs'[c] \in {crs[c], rs[c]} /\ items'[c] = None
                 /\ cunit' \in {cunit, unit}
           /\ \A c \in Claims : ItemStep(c)
<1> USE DEF apiVars, userVars, cacheVars, loopVars, coreVars, providerVars
<1>0. items \in [Claims -> Item \cup {None}]
  BY DEF TypeInv, TypeOK
<1>1. CASE UNCHANGED <<crs, cunit, items>>
  BY <1>1 DEF ItemStep
<1>2. CASE BeginReconcile
  BY <1>2 DEF BeginReconcile, ReadCache, ItemStep
<1>3. ASSUME NEW c \in Claims, AcceptNext(c)
      PROVE  crs' = crs /\ cunit' = cunit /\ \A d \in Claims : ItemStep(d)
  BY <1>0, <1>3 DEF AcceptNext, AcceptConversionError, AcceptFinalized, AcceptRejected,
     AcceptOwner, First, Supported, Cached, ItemStep
<1>4. ASSUME NEW c \in Claims, RetainNext(c)
      PROVE  crs' = crs /\ cunit' = cunit /\ \A d \in Claims : ItemStep(d)
  BY <1>0, <1>4 DEF RetainNext, Retainable, PolicyRejected, Cached, ItemStep
<1>5. CASE WriteRejected
  BY <1>0, <1>5 DEF WriteRejected, PendingPredecessor, Deleting, ItemStep
<1>6. CASE ApplyUnit
  BY <1>1, <1>6 DEF ApplyUnit
<1>7. CASE ProjectStatus \/ AbortReconcile
  BY <1>7 DEF ProjectStatus, AbortReconcile, ItemStep
<1>8. CASE User
  BY <1>1, <1>8 DEF User, CreateClaim, EditClaim, DeleteClaim, ForceFinalize, ChangeStanding
<1>9. CASE Provider
  BY <1>1, <1>9 DEF Provider, ProviderConflict, ProviderReady, ProviderReceipt,
     ProviderDispatch, ProviderCompleted, ProviderLand, ProviderPrune
<1> QED
  BY <1>1, <1>2, <1>3, <1>4, <1>5, <1>6, <1>7, <1>8, <1>9 DEF Next, Core, vars

\* A ledger entry that says completed said so before, or the provider has just
\* found that the record of the deleting item is gone.
CompletedNow(c) ==
    /\ Deleting(unit.spec[c])
    /\ unit'.ledger[c].uid = unit.spec[c].uid
    /\ Live(c) = None
    /\ inflight = None

LedgerStep(c) ==
    (unit'.ledger[c] /= None /\ unit'.ledger[c].done) =>
        \/ /\ unit.ledger[c] /= None
           /\ unit.ledger[c].done
           /\ unit'.ledger[c].uid = unit.ledger[c].uid
        \/ CompletedNow(c)

\* What a step writes into the unit: core publishes what it collected, and the
\* provider writes the ledger.
LEMMA UnitSteps ==
    ASSUME TypeInv, [Next]_vars
    PROVE  /\ \/ unit'.spec = unit.spec
              \/ unit'.spec = items /\ UNCHANGED <<rs, crs, cunit, items, nextUID, dns, inflight>>
                 /\ unit'.ledger = unit.ledger
           /\ \A c \in Claims : LedgerStep(c)
<1> USE DEF apiVars, userVars, cacheVars, loopVars, coreVars, providerVars
<1>0. unit \in Unit
  BY DEF TypeInv, TypeOK
<1>1. CASE UNCHANGED unit
  BY <1>1 DEF LedgerStep
<1>2. CASE ApplyUnit
  <2>1. unit' = unit \/ (unit'.spec = items /\ unit'.ledger = unit.ledger)
    BY <1>0, <1>2 DEF ApplyUnit, Unit
  <2> QED
    BY <1>2, <2>1 DEF ApplyUnit, LedgerStep
<1>3. ASSUME NEW c \in Claims, NEW e, WriteEntry(c, e),
             unit.spec[c] /= None, e \in Entry,
             e.done => OwnEntry(c).done \/ (Deleting(unit.spec[c]) /\ Live(c) = None /\ inflight = None)
      PROVE  unit'.spec = unit.spec /\ \A d \in Claims : LedgerStep(d)
  <2>1. /\ unit'.spec = unit.spec
        /\ unit'.ledger = [unit.ledger EXCEPT ![c] =
                             [e EXCEPT !.uid = unit.spec[c].uid, !.gen = unit.spec[c].gen]]
    BY <1>0, <1>3 DEF WriteEntry, Unit
  <2>2. unit.ledger \in [Claims -> Entry \cup {None}]
    BY <1>0 DEF Unit
  <2>3. /\ unit'.ledger[c] = [e EXCEPT !.uid = unit.spec[c].uid, !.gen = unit.spec[c].gen]
        /\ \A d \in Claims \ {c} : unit'.ledger[d] = unit.ledger[d]
    BY <2>1, <2>2
  <2>4. unit'.ledger[c].done = e.done /\ unit'.ledger[c].uid = unit.spec[c].uid
    BY <1>3, <2>3 DEF Entry
  <2>5. OwnEntry(c).done =>
            /\ unit.ledger[c] /= None
            /\ unit.ledger[c].done
            /\ unit.ledger[c].uid = unit.spec[c].uid
    BY DEF OwnEntry
  <2>6. LedgerStep(c)
    BY <1>3, <2>4, <2>5 DEF LedgerStep, CompletedNow
  <2> QED
    BY <2>1, <2>3, <2>6 DEF LedgerStep
<1>4. ASSUME NEW c \in Claims, unit.spec[c] /= None
      PROVE  unit.spec[c] \in Item /\ OwnEntry(c) \in Entry
  <2>1. unit.spec[c] \in Item /\ unit.ledger[c] \in Entry \cup {None}
    BY <1>0, <1>4 DEF Unit
  <2>2. 0 \in Generations
    BY BoundsAssumption DEF Generations
  <2>3. [uid |-> unit.spec[c].uid, gen |-> 0, rec |-> None, prog |-> 0, done |-> FALSE] \in Entry
    BY <2>1, <2>2 DEF Item, Entry
  <2> QED
    BY <2>1, <2>3 DEF OwnEntry
<1>5. ASSUME NEW c \in Claims,
             \/ ProviderConflict(c)
             \/ ProviderReady(c)
             \/ ProviderReceipt(c)
             \/ ProviderCompleted(c)
      PROVE  unit'.spec = unit.spec /\ \A d \in Claims : LedgerStep(d)
  <2>1. unit.spec[c] /= None
    BY <1>5 DEF ProviderConflict, ProviderReady, ProviderReceipt, ProviderCompleted, Active, Deleting
  <2>2. unit.spec[c] \in Item /\ OwnEntry(c) \in Entry
    BY <1>4, <2>1
  <2>3. 0 \in Generations
    BY BoundsAssumption DEF Generations
  <2>4. CASE ProviderConflict(c)
    <3>1. [OwnEntry(c) EXCEPT !.prog = 0] \in Entry
          /\ [OwnEntry(c) EXCEPT !.prog = 0].done = OwnEntry(c).done
      BY <2>2, <2>3 DEF Entry
    <3> QED
      BY <1>3, <2>1, <2>4, <3>1 DEF ProviderConflict
  <2>5. CASE ProviderReady(c)
    <3> DEFINE e == [OwnEntry(c) EXCEPT !.rec = unit.spec[c].ident, !.prog = unit.spec[c].gen]
    <3>1. e \in Entry /\ e.done = OwnEntry(c).done
      BY <2>2 DEF Entry, Item
    <3> QED
      BY <1>3, <2>1, <2>5, <3>1 DEF ProviderReady
  <2>6. CASE ProviderReceipt(c)
    <3> DEFINE e == [OwnEntry(c) EXCEPT !.rec = unit.spec[c].ident]
    <3>1. e \in Entry /\ e.done = OwnEntry(c).done
      BY <2>2 DEF Entry, Item
    <3> QED
      BY <1>3, <2>1, <2>6, <3>1 DEF ProviderReceipt
  <2>7. CASE ProviderCompleted(c)
    <3> DEFINE e == [OwnEntry(c) EXCEPT !.done = TRUE, !.prog = unit.spec[c].gen]
    <3>1. e \in Entry
      BY <2>2 DEF Entry, Item
    <3> QED
      BY <1>3, <2>1, <2>7, <3>1 DEF ProviderCompleted
  <2> QED
    BY <1>5, <2>4, <2>5, <2>6, <2>7
<1>6. CASE ProviderPrune
  <2>1. /\ unit'.spec = unit.spec
        /\ \A c \in Claims : unit'.ledger[c] \in {None, unit.ledger[c]}
    BY <1>0, <1>6 DEF ProviderPrune, Unit
  <2> QED
    BY <2>1 DEF LedgerStep
<1>7. CASE ProviderLand \/ \E c \in Claims : ProviderDispatch(c)
  BY <1>1, <1>7 DEF ProviderLand, ProviderDispatch
<1>8. CASE User
  BY <1>1, <1>8 DEF User, CreateClaim, EditClaim, DeleteClaim, ForceFinalize, ChangeStanding
<1>9. CASE Core
  BY <1>1, <1>2, <1>9
     DEF Core, BeginReconcile, AcceptNext, RetainNext, WriteRejected, ProjectStatus, AbortReconcile
<1> QED
  BY <1>1, <1>5, <1>6, <1>7, <1>8, <1>9 DEF Next, Provider, vars

\* What a step does to the hosted zone and to the call on its way: records come
\* only from a call, and calls that create one only from an active item.
Upsert(x) == x /= None /\ x.op = "UPSERT"

LEMMA ZoneSteps ==
    ASSUME TypeInv, [Next]_vars
    PROVE  /\ \/ dns' = dns
              \/ \A i \in Idents :
                    \/ dns'[i] = dns[i]
                    \/ dns'[i] = None
                    \/ Upsert(inflight) /\ dns'[i].uid = inflight.uid /\ i = inflight.ident
           /\ Upsert(inflight') =>
                 \/ inflight' = inflight
                 \/ \E c \in Claims : /\ Active(unit.spec[c])
                                      /\ inflight'.uid = unit.spec[c].uid
                                      /\ inflight'.ident = unit.spec[c].ident
                                      /\ UNCHANGED <<unit, dns>>
<1> USE DEF apiVars, userVars, cacheVars, loopVars, coreVars, providerVars
<1>0. dns \in [Idents -> DNSRecord \cup {None}] /\ inflight \in Change \cup {None}
  BY DEF TypeInv, TypeOK
<1>1. CASE UNCHANGED <<dns, inflight>>
  BY <1>1 DEF Upsert
<1>2. CASE ProviderLand
  BY <1>0, <1>2 DEF ProviderLand, Upsert, Change
<1>3. ASSUME NEW c \in Claims, ProviderDispatch(c)
      PROVE  /\ dns' = dns
             /\ Upsert(inflight') => /\ Active(unit.spec[c])
                                     /\ inflight'.uid = unit.spec[c].uid
                                     /\ inflight'.ident = unit.spec[c].ident
                                     /\ UNCHANGED <<unit, dns>>
  BY <1>3 DEF ProviderDispatch, Upsert
<1>4. CASE User \/ Core
  BY <1>1, <1>4 DEF User, CreateClaim, EditClaim, DeleteClaim, ForceFinalize, ChangeStanding,
     Core, BeginReconcile, AcceptNext, RetainNext, WriteRejected, ApplyUnit, ProjectStatus,
     AbortReconcile
<1>5. CASE Provider
  BY <1>1, <1>2, <1>3, <1>5 DEF Provider, ProviderConflict, ProviderReady, ProviderReceipt,
     ProviderCompleted, ProviderPrune
<1> QED
  BY <1>1, <1>4, <1>5 DEF Next, vars

\* A new incarnation is placed where it is created, and nothing else moves.
LEMMA CreateKeepsHomes ==
    ASSUME TypeInv, NEW home \in Placed, Homes(home),
           NEW c \in Claims, NEW i \in Idents, NEW b \in Bodies, CreateClaim(c, i, b)
    PROVE  HomesExist'
<1> USE DEF apiVars, userVars, cacheVars, loopVars, coreVars, providerVars
<1>1. nextUID \in UIDs /\ nextUID' = nextUID + 1 /\ nextUID \in Nat
  BY BoundsAssumption DEF CreateClaim, TypeInv, TypeOK, UIDs
<1>2. PICK new \in Placed : new = [home EXCEPT ![nextUID] = [claim |-> c, ident |-> i]]
  BY <1>1 DEF Placed
<1>3. \A u \in UIDs : u < nextUID => new[u] = home[u] /\ u < nextUID'
  BY <1>1, <1>2 DEF UIDs, Placed
<1>4. new[nextUID] = [claim |-> c, ident |-> i] /\ nextUID < nextUID'
  BY <1>1, <1>2 DEF Placed
<1>5. /\ rs \in [Claims -> RecordSet \cup {None}]
      /\ rs' = [rs EXCEPT ![c] = [uid |-> nextUID, ident |-> i, body |-> b, gen |-> 1,
                                  deleting |-> FALSE, fin |-> FALSE, prog |-> 0]]
  BY DEF CreateClaim, TypeInv, TypeOK
<1>6. ASSUME NEW d \in Claims
      PROVE  /\ rs[d] /= None => rs[d].uid \in UIDs
             /\ crs[d] /= None => crs[d].uid \in UIDs
             /\ items[d] /= None => items[d].uid \in UIDs
             /\ unit.spec[d] /= None => unit.spec[d].uid \in UIDs
             /\ cunit.spec[d] /= None => cunit.spec[d].uid \in UIDs
  BY DEF TypeInv, TypeOK, Unit, Item, RecordSet
<1>7. ASSUME NEW d \in Claims
      PROVE  AtHome(new, rs[d], d)'
  <2>1. CASE d = c
    BY <1>4, <1>5, <2>1 DEF AtHome
  <2>2. CASE d /= c
    <3>1. rs'[d] = rs[d] /\ AtHome(home, rs[d], d)
      BY <1>5, <2>2 DEF Homes
    <3> QED
      BY <1>3, <1>6, <3>1 DEF AtHome
  <2> QED
    BY <2>1, <2>2
<1>8. ASSUME NEW d \in Claims
      PROVE  /\ AtHome(new, crs[d], d)'
             /\ AtHome(new, items[d], d)'
             /\ AtHome(new, unit.spec[d], d)'
             /\ AtHome(new, cunit.spec[d], d)'
  <2>1. UNCHANGED <<crs, items, unit, cunit>>
    BY DEF CreateClaim
  <2>2. /\ AtHome(home, crs[d], d)
        /\ AtHome(home, items[d], d)
        /\ AtHome(home, unit.spec[d], d)
        /\ AtHome(home, cunit.spec[d], d)
    BY DEF Homes
  <2> QED
    BY <1>3, <1>6, <2>1, <2>2 DEF AtHome
<1>9. UNCHANGED <<dns, inflight>>
  BY DEF CreateClaim
<1>10. \A j \in Idents : dns'[j] /= None =>
                            dns'[j].uid < nextUID' /\ new[dns'[j].uid].ident = j
  BY <1>3, <1>9 DEF Homes, TypeInv, TypeOK, DNSRecord
<1>11. (inflight' /= None /\ inflight'.op = "UPSERT") =>
           inflight'.uid < nextUID' /\ new[inflight'.uid].ident = inflight'.ident
  BY <1>3, <1>9 DEF Homes, TypeInv, TypeOK, Change
<1>12. Homes(new)'
  BY <1>7, <1>8, <1>10, <1>11 DEF Homes
<1> QED
  BY <1>2, <1>12 DEF HomesExist

\* Where everything is, nothing moves: an incarnation never changes its claim or
\* its record identity.
LEMMA NextHomes == TypeInv /\ HomesExist /\ [Next]_vars => HomesExist'
<1> SUFFICES ASSUME TypeInv, HomesExist, [Next]_vars PROVE HomesExist'
  OBVIOUS
<1>1. PICK home \in Placed : Homes(home)
  BY DEF HomesExist
<1>2. CASE \E c \in Claims, i \in Idents, b \in Bodies : CreateClaim(c, i, b)
  BY <1>1, <1>2, CreateKeepsHomes
<1>3. CASE ~\E c \in Claims, i \in Idents, b \in Bodies : CreateClaim(c, i, b)
  <2>1. nextUID' = nextUID /\ \A c \in Claims : ClaimKept(c)
    BY <1>3, ClaimsKept
  <2>2. ASSUME NEW c \in Claims
        PROVE  AtHome(home, rs[c], c)' /\ AtHome(home, crs[c], c)'
               /\ AtHome(home, cunit.spec[c], c)'
    <3>1. AtHome(home, rs[c], c)'
      <4>1. AtHome(home, rs[c], c)
        BY <1>1 DEF Homes
      <4>2. rs'[c] /= None => rs[c] /= None /\ rs'[c].uid = rs[c].uid /\ rs'[c].ident = rs[c].ident
        BY <2>1 DEF ClaimKept
      <4> QED
        BY <2>1, <4>1, <4>2 DEF AtHome
    <3>2. AtHome(home, crs[c], c)' /\ AtHome(home, cunit.spec[c], c)'
      <4>1. /\ AtHome(home, rs[c], c)
            /\ AtHome(home, crs[c], c)
            /\ AtHome(home, unit.spec[c], c)
            /\ AtHome(home, cunit.spec[c], c)
        BY <1>1 DEF Homes
      <4>2. /\ crs'[c] \in {crs[c], rs[c]}
            /\ cunit'.spec[c] \in {cunit.spec[c], unit.spec[c]}
        BY CoreSteps
      <4> QED
        BY <2>1, <4>1, <4>2 DEF AtHome
    <3> QED
      BY <3>1, <3>2
  <2>3. ASSUME NEW c \in Claims
        PROVE  AtHome(home, items[c], c)'
    <3>1. CASE items'[c] = items[c] \/ items'[c] = None \/ items'[c] = cunit.spec[c]
      BY <1>1, <2>1, <3>1 DEF Homes, AtHome
    <3>2. CASE crs[c] /= None /\ items'[c] = ItemOf(c)
      <4>1. items'[c].uid = crs[c].uid /\ items'[c].ident = crs[c].ident
        BY <3>2 DEF ItemOf
      <4> QED
        BY <1>1, <2>1, <3>2, <4>1 DEF Homes, AtHome
    <3>3. CASE crs[c] /= None /\ cunit.spec[c] /= None /\ items'[c] = RetainedItem(c)
      <4>1. cunit.spec[c] \in Item
        BY <3>3 DEF TypeInv, TypeOK, Unit
      <4>2. \/ items'[c] = None
            \/ items'[c].uid = cunit.spec[c].uid /\ items'[c].ident = cunit.spec[c].ident
            \/ items'[c].uid = crs[c].uid /\ items'[c].ident = crs[c].ident
        BY <3>3, <4>1 DEF RetainedItem, ItemOf, Item
      <4> QED
        BY <1>1, <2>1, <3>3, <4>2 DEF Homes, AtHome
    <3> QED
      BY <3>1, <3>2, <3>3, CoreSteps DEF ItemStep
  <2>4. ASSUME NEW c \in Claims
        PROVE  AtHome(home, unit.spec[c], c)'
    BY <1>1, <2>1, UnitSteps DEF Homes, AtHome
  <2>5. ASSUME NEW i \in Idents, dns'[i] /= None
        PROVE  dns'[i].uid < nextUID' /\ home[dns'[i].uid].ident = i
    BY <1>1, <2>1, <2>5, ZoneSteps DEF Homes, Upsert
  <2>6. ASSUME inflight' /= None, inflight'.op = "UPSERT"
        PROVE  inflight'.uid < nextUID' /\ home[inflight'.uid].ident = inflight'.ident
    <3>1. CASE inflight' = inflight
      BY <1>1, <2>1, <2>6, <3>1 DEF Homes
    <3>2. ASSUME NEW c \in Claims, Active(unit.spec[c]), inflight'.uid = unit.spec[c].uid,
                 inflight'.ident = unit.spec[c].ident
          PROVE  inflight'.uid < nextUID' /\ home[inflight'.uid].ident = inflight'.ident
      <4>1. unit.spec[c].uid < nextUID /\ home[unit.spec[c].uid].ident = unit.spec[c].ident
        <5>1. unit.spec[c] /= None /\ AtHome(home, unit.spec[c], c)
          BY <1>1, <3>2 DEF Homes, Active
        <5> QED
          BY <5>1 DEF AtHome
      <4> QED
        BY <2>1, <3>2, <4>1
    <3> QED
      BY <2>6, <3>1, <3>2, ZoneSteps DEF Upsert
  <2> QED
    BY <2>2, <2>3, <2>4, <2>5, <2>6 DEF Homes, HomesExist
<1> QED
  BY <1>2, <1>3

\* An incarnation that has ended stays ended.
LEMMA EndedStays ==
    ASSUME TypeInv, [Next]_vars, NEW uid \in UIDs, Ended(uid)
    PROVE  Ended(uid)'
<1>1. ASSUME NEW c \in Claims, NEW i \in Idents, NEW b \in Bodies, CreateClaim(c, i, b)
      PROVE  Ended(uid)'
  <2>1. /\ rs \in [Claims -> RecordSet \cup {None}]
        /\ nextUID \in Nat
        /\ nextUID' = nextUID + 1
        /\ UNCHANGED crs
        /\ rs' = [rs EXCEPT ![c] = [uid |-> nextUID, ident |-> i, body |-> b, gen |-> 1,
                                    deleting |-> FALSE, fin |-> FALSE, prog |-> 0]]
    BY <1>1 DEF CreateClaim, TypeInv, TypeOK, cacheVars
  <2>4. rs'[c].uid = nextUID /\ \A d \in Claims \ {c} : rs'[d] = rs[d]
    BY <2>1
  <2>2. uid \in Nat /\ uid < nextUID /\ uid < nextUID'
    BY <2>1 DEF Ended, UIDs
  <2>3. \A d \in Claims : Is(rs'[d], uid) => rs'[d].deleting
    BY <2>4, <2>2 DEF Ended, Is
  <2> QED
    BY <2>1, <2>2, <2>3 DEF Ended, Is
<1>2. CASE ~\E c \in Claims, i \in Idents, b \in Bodies : CreateClaim(c, i, b)
  BY <1>2, ClaimsKept, CoreSteps DEF Ended, Is, ClaimKept
<1> QED
  BY <1>1, <1>2

\* What the reconciler collects after a step is alive in the copy it read, or
\* ended.
LEMMA CollectedItems ==
    ASSUME TypeInv, EndedItems, [Next]_vars, NEW c \in Claims
    PROVE  /\ Active(items'[c]) => Is(crs'[c], items'[c].uid) /\ ~crs'[c].deleting
           /\ Deleting(items'[c]) => items'[c].uid \in UIDs /\ Ended(items'[c].uid)
<1>0. /\ crs[c] /= None => crs[c] \in RecordSet
      /\ items[c] /= None => items[c] \in Item
      /\ cunit.spec[c] /= None => cunit.spec[c] \in Item
  BY DEF TypeInv, TypeOK, Unit
<1>1. CASE items'[c] = items[c]
  <2>1. crs' = crs \/ items'[c] = None
    BY CoreSteps
  <2> QED
    BY <1>0, <1>1, <2>1 DEF EndedItems, Active, Deleting, Item, Is
<1>2. CASE items'[c] = None
  BY <1>2 DEF Active, Deleting
<1>3. CASE crs[c] /= None /\ items'[c] = ItemOf(c)
  <2>1. /\ items'[c].uid = crs[c].uid
        /\ items'[c].del = crs[c].deleting
        /\ items'[c] /= None
    BY <1>0, <1>3, ItemTypes DEF ItemOf, TypeInv, Item, None
  <2>2. crs' = crs
    BY <2>1, CoreSteps
  <2> QED
    BY <1>0, <1>3, <2>1, <2>2 DEF EndedItems, Active, Deleting, RecordSet, Is
<1>4. CASE crs[c] /= None /\ cunit.spec[c] /= None /\ items'[c] = RetainedItem(c)
  <2>1. \/ items'[c] = None
        \/ items'[c].uid = crs[c].uid /\ ~items'[c].allowed /\ items'[c].del = crs[c].deleting
    BY <1>0, <1>4 DEF RetainedItem, ItemOf, Item
  <2> QED
    BY <1>0, <1>4, <2>1 DEF EndedItems, Active, Deleting, RecordSet
<1>5. CASE Deleting(cunit.spec[c]) /\ items'[c] = cunit.spec[c]
  <2>1. cunit.spec[c] \in Item /\ cunit.spec[c].del
    BY <1>0, <1>5 DEF Deleting
  <2> QED
    BY <1>5, <2>1 DEF EndedItems, Active, Deleting, Item
<1> QED
  BY <1>1, <1>2, <1>3, <1>4, <1>5, CoreSteps DEF ItemStep

\* Deletion is asked for only when nobody can read the claim alive again.
LEMMA NextEnded ==
    ASSUME TypeInv, HomesExist, EndedItems, [Next]_vars
    PROVE  EndedItems'
<1>1. PICK home \in Placed : Homes(home)
  BY DEF HomesExist
<1>2. ASSUME NEW c \in Claims, crs'[c] /= None, crs'[c].deleting
      PROVE  Ended(crs[c].uid)'
  <2>1. CASE crs'[c] = crs[c]
    <3>1. crs[c].uid \in UIDs /\ Ended(crs[c].uid)
      BY <1>2, <2>1 DEF EndedItems, TypeInv, TypeOK, RecordSet
    <3>2. ASSUME NEW u \in UIDs, u = crs[c].uid
          PROVE  Ended(u)'
      BY <3>1, <3>2, EndedStays
    <3> QED
      BY <2>1, <3>1, <3>2
  <2>2. CASE crs'[c] = rs[c] /\ UNCHANGED <<rs, nextUID>>
    <3>1. ASSUME NEW d \in Claims, d /= c
          PROVE  ~Is(rs[d], rs[c].uid) /\ ~Is(crs[d], rs[c].uid)
      <4>3. AtHome(home, rs[c], c) /\ AtHome(home, rs[d], d) /\ AtHome(home, crs[d], d)
        BY <1>1 DEF Homes
      <4>1. rs[c] /= None /\ home[rs[c].uid].claim = c
        BY <1>2, <2>2, <4>3 DEF AtHome
      <4>2. /\ rs[d] /= None => home[rs[d].uid].claim = d
            /\ crs[d] /= None => home[crs[d].uid].claim = d
        BY <4>3 DEF AtHome
      <4> QED
        BY <3>1, <4>1, <4>2 DEF Is
    <3>2. \A d \in Claims : crs'[d] \in {crs[d], rs[d]}
      BY CoreSteps
    <3>3. rs[c].uid < nextUID
      BY <1>1, <1>2, <2>2 DEF Homes, AtHome
    <3>4. \A d \in Claims : /\ Is(rs'[d], rs[c].uid) => rs'[d].deleting
                            /\ Is(crs'[d], rs[c].uid) => crs'[d].deleting
      BY <1>2, <2>2, <3>1, <3>2 DEF Is
    <3> QED
      BY <2>2, <3>3, <3>4 DEF Ended
  <2> QED
    BY <2>1, <2>2, CoreSteps
<1>3. ASSUME NEW c \in Claims, Deleting(items'[c])
      PROVE  Ended(items[c].uid)'
  <2>1. items'[c].uid \in UIDs /\ Ended(items'[c].uid)
    BY <1>3, CollectedItems
  <2>2. ASSUME NEW u \in UIDs, u = items'[c].uid
        PROVE  Ended(u)'
    BY <2>1, <2>2, EndedStays
  <2> QED
    BY <2>1, <2>2
<1>4. ASSUME NEW c \in Claims, Deleting(unit'.spec[c])
      PROVE  Ended(unit.spec[c].uid)'
  <2>1. unit'.spec[c] = unit.spec[c] \/ unit'.spec[c] = items[c]
    BY UnitSteps
  <2>2. unit'.spec[c].uid \in UIDs /\ Ended(unit'.spec[c].uid)
    BY <1>4, <2>1 DEF EndedItems, Deleting, TypeInv, TypeOK, Unit, Item
  <2>3. ASSUME NEW u \in UIDs, u = unit'.spec[c].uid
        PROVE  Ended(u)'
    BY <2>2, <2>3, EndedStays
  <2> QED
    BY <2>2, <2>3
<1>5. ASSUME NEW c \in Claims, Deleting(cunit'.spec[c])
      PROVE  Ended(cunit.spec[c].uid)'
  <2>1. cunit'.spec[c] = unit.spec[c] \/ cunit'.spec[c] = cunit.spec[c]
    BY CoreSteps
  <2>2. cunit'.spec[c].uid \in UIDs /\ Ended(cunit'.spec[c].uid)
    BY <1>5, <2>1 DEF EndedItems, Deleting, TypeInv, TypeOK, Unit, Item
  <2>3. ASSUME NEW u \in UIDs, u = cunit'.spec[c].uid
        PROVE  Ended(u)'
    BY <2>2, <2>3, EndedStays
  <2> QED
    BY <2>2, <2>3
<1>6. \A c \in Claims : Active(items'[c]) => Is(crs'[c], items'[c].uid) /\ ~crs'[c].deleting
  BY CollectedItems
<1> QED
  BY <1>2, <1>3, <1>4, <1>5, <1>6 DEF EndedItems, Active, Deleting, Is

\* An incarnation that is finished stays finished: no active item of it is left
\* that could be published or programmed.
LEMMA FinishedStays ==
    ASSUME TypeInv, EndedItems, [Next]_vars, NEW uid \in UIDs, Finished(uid)
    PROVE  Finished(uid)'
<1>1. Ended(uid) /\ Ended(uid)'
  BY EndedStays DEF Finished
<1>2. \A c \in Claims : ~(Active(items[c]) /\ items[c].uid = uid)
  BY <1>1 DEF Ended, EndedItems, Is
<1>3. \A c \in Claims : ~(Active(unit'.spec[c]) /\ unit'.spec[c].uid = uid)
  BY <1>2, UnitSteps DEF Finished
<1>4. ~(Upsert(inflight) /\ inflight.uid = uid)
  BY DEF Finished, Upsert
<1>5. \A i \in Idents : ~Is(dns'[i], uid)
  BY <1>4, ZoneSteps DEF Finished, Is
<1>6. ~(Upsert(inflight') /\ inflight'.uid = uid)
  BY <1>4, ZoneSteps DEF Finished
<1> QED
  BY <1>1, <1>3, <1>5, <1>6 DEF Finished, Active, Is, Upsert

\* What the provider has just found gone is finished: the item asks for deletion,
\* its record is not live, and an incarnation has only that one.
LEMMA CompletedIsFinished ==
    ASSUME TypeInv, HomesExist, EndedItems, NEW c \in Claims,
           Deleting(unit.spec[c]), Live(c) = None, inflight = None
    PROVE  Finished(unit.spec[c].uid)
<1>1. PICK home \in Placed : Homes(home)
  BY DEF HomesExist
<1>2. unit.spec[c] \in Item /\ unit.spec[c] /= None /\ unit.spec[c].del
  BY DEF Deleting, TypeInv, TypeOK, Unit
<1>3. home[unit.spec[c].uid] = [claim |-> c, ident |-> unit.spec[c].ident]
  BY <1>1, <1>2 DEF Homes, AtHome
<1>4. Ended(unit.spec[c].uid)
  BY DEF EndedItems
<1>5. \A i \in Idents : ~Is(dns[i], unit.spec[c].uid)
  BY <1>1, <1>3 DEF Homes, Is, Live
<1>6. ASSUME NEW d \in Claims, Active(unit.spec[d]), unit.spec[d].uid = unit.spec[c].uid
      PROVE  FALSE
  <2>1. unit.spec[d] /= None /\ ~unit.spec[d].del
    BY <1>6 DEF Active
  <2>2. home[unit.spec[d].uid].claim = d
    <3>1. AtHome(home, unit.spec[d], d)
      BY <1>1 DEF Homes
    <3> QED
      BY <2>1, <3>1 DEF AtHome
  <2> QED
    BY <1>2, <1>3, <1>6, <2>1, <2>2
<1> QED
  BY <1>4, <1>5, <1>6 DEF Finished

\* Completed stays true of what the ledger calls completed.
LEMMA NextDone ==
    ASSUME TypeInv, HomesExist, EndedItems, DoneIsFinished, [Next]_vars
    PROVE  DoneIsFinished'
<1>1. ASSUME NEW c \in Claims, unit'.ledger[c] /= None, unit'.ledger[c].done
      PROVE  Finished(unit.ledger[c].uid)'
  <2>1. unit'.ledger[c].uid \in UIDs /\ Finished(unit'.ledger[c].uid)
    <3>1. CASE unit.ledger[c] /= None /\ unit.ledger[c].done
               /\ unit'.ledger[c].uid = unit.ledger[c].uid
      BY <3>1 DEF DoneIsFinished, TypeInv, TypeOK, Unit, Entry
    <3>2. CASE CompletedNow(c)
      <4>1. Finished(unit.spec[c].uid)
        BY <3>2, CompletedIsFinished DEF CompletedNow
      <4>2. unit.spec[c].uid \in UIDs
        BY <3>2 DEF CompletedNow, Deleting, TypeInv, TypeOK, Unit, Item
      <4> QED
        BY <3>2, <4>1, <4>2 DEF CompletedNow
    <3> QED
      BY <1>1, <3>1, <3>2, UnitSteps DEF LedgerStep
  <2>2. ASSUME NEW u \in UIDs, u = unit'.ledger[c].uid
        PROVE  Finished(u)'
    BY <2>1, <2>2, FinishedStays
  <2> QED
    BY <2>1, <2>2
<1>2. ASSUME NEW c \in Claims, cunit'.ledger[c] /= None, cunit'.ledger[c].done
      PROVE  Finished(cunit.ledger[c].uid)'
  <2>1. cunit'.ledger[c] = unit.ledger[c] \/ cunit'.ledger[c] = cunit.ledger[c]
    BY CoreSteps
  <2>2. cunit'.ledger[c].uid \in UIDs /\ Finished(cunit'.ledger[c].uid)
    BY <1>2, <2>1 DEF DoneIsFinished, TypeInv, TypeOK, Unit, Entry
  <2>3. ASSUME NEW u \in UIDs, u = cunit'.ledger[c].uid
        PROVE  Finished(u)'
    BY <2>2, <2>3, FinishedStays
  <2> QED
    BY <2>2, <2>3
<1> QED
  BY <1>1, <1>2 DEF DoneIsFinished

\* While core holds a copy of a claim that is deleting, no later incarnation of
\* the name is given a finalizer.
LEMMA NextFinalizer ==
    ASSUME TypeInv, FinalizerIsRead, [Next]_vars
    PROVE  FinalizerIsRead'
<1> USE DEF apiVars, userVars, cacheVars, loopVars, coreVars, providerVars
<1>0. rs \in [Claims -> RecordSet \cup {None}]
  BY DEF TypeInv, TypeOK
<1> DEFINE Later(c) == \/ rs'[c] = None
                       \/ ~rs'[c].fin
                       \/ rs[c] /= None /\ rs[c].fin /\ rs'[c].uid = rs[c].uid
<1>1. ASSUME crs' = crs, \A c \in Claims : crs[c] /= None /\ crs[c].deleting => Later(c)
      PROVE  FinalizerIsRead'
  BY <1>1 DEF FinalizerIsRead
<1>2. CASE UNCHANGED <<rs, crs>>
  BY <1>2 DEF FinalizerIsRead
<1>3. CASE User
  <2>1. ASSUME NEW c \in Claims, NEW i, NEW b, CreateClaim(c, i, b)
        PROVE  FinalizerIsRead'
    <3>1. rs'[c].fin = FALSE /\ \A d \in Claims \ {c} : rs'[d] = rs[d]
      BY <1>0, <2>1 DEF CreateClaim
    <3>2. \A d \in Claims : Later(d)
      BY <3>1
    <3> QED
      BY <1>1, <2>1, <3>2 DEF CreateClaim
  <2>2. ASSUME NEW c \in Claims, NEW b, EditClaim(c, b)
        PROVE  FinalizerIsRead'
    <3>1. /\ rs[c] \in RecordSet /\ rs[c] /= None
          /\ rs'[c] = [rs[c] EXCEPT !.body = b, !.gen = rs[c].gen + 1]
          /\ \A d \in Claims \ {c} : rs'[d] = rs[d]
      BY <1>0, <2>2 DEF EditClaim
    <3>2. rs'[c].fin = rs[c].fin /\ rs'[c].uid = rs[c].uid
      BY <3>1 DEF RecordSet
    <3>3. \A d \in Claims : Later(d)
      BY <3>1, <3>2
    <3> QED
      BY <1>1, <2>2, <3>3 DEF EditClaim
  <2>3. ASSUME NEW c \in Claims, DeleteClaim(c)
        PROVE  FinalizerIsRead'
    <3>1. /\ rs[c] \in RecordSet /\ rs[c] /= None
          /\ rs'[c] = None \/ rs'[c] = [rs[c] EXCEPT !.deleting = TRUE, !.gen = rs[c].gen + 1]
          /\ \A d \in Claims \ {c} : rs'[d] = rs[d]
      BY <1>0, <2>3 DEF DeleteClaim
    <3>2. rs'[c] = None \/ (rs'[c].fin = rs[c].fin /\ rs'[c].uid = rs[c].uid)
      BY <3>1 DEF RecordSet
    <3>3. \A d \in Claims : Later(d)
      BY <3>1, <3>2
    <3> QED
      BY <1>1, <2>3, <3>3 DEF DeleteClaim
  <2>4. ASSUME NEW c \in Claims, ForceFinalize(c)
        PROVE  FinalizerIsRead'
    <3>1. \A d \in Claims : Later(d)
      BY <1>0, <2>4 DEF ForceFinalize
    <3> QED
      BY <1>1, <2>4, <3>1 DEF ForceFinalize
  <2>5. ASSUME NEW c \in Claims, NEW t \in Standings, ChangeStanding(c, t)
        PROVE  FinalizerIsRead'
    BY <1>2, <2>5 DEF ChangeStanding
  <2> QED
    BY <1>3, <2>1, <2>2, <2>3, <2>4, <2>5 DEF User
<1>4. ASSUME NEW c \in Claims, AddFinalizer(c) \/ DropFinalizer(c), crs' = crs
      PROVE  FinalizerIsRead'
  <2>1. \A d \in Claims : crs[d] /= None /\ crs[d].deleting => Later(d)
    BY <1>4, FinalizerKeeps DEF ClaimKept
  <2> QED
    BY <1>1, <1>4, <2>1
<1>5. CASE BeginReconcile
  BY <1>5 DEF BeginReconcile, ReadCache, FinalizerIsRead
<1>6. ASSUME NEW c \in Claims, AcceptNext(c)
      PROVE  FinalizerIsRead'
  BY <1>2, <1>4, <1>6
     DEF AcceptNext, AcceptConversionError, AcceptFinalized, AcceptRejected, AcceptOwner
<1>7. ASSUME NEW c \in Claims, RetainNext(c)
      PROVE  FinalizerIsRead'
  BY <1>4, <1>7 DEF RetainNext
<1>8. ASSUME NEW STATE S, NEW STATE st, PatchStatus(S, st), crs' = crs
      PROVE  FinalizerIsRead'
  <2>1. \A d \in Claims : Later(d)
    BY <1>8, PatchKeeps DEF ClaimKept
  <2> QED
    BY <1>1, <1>8, <2>1
<1>9. CASE WriteRejected
  BY <1>8, <1>9 DEF WriteRejected
<1>10. CASE ProjectStatus
  <2> DEFINE S == {c \in Claims : Projectable(c)}
             st == [c \in S |-> IF Incompatible(c) THEN 0 ELSE Projected(c)]
  <2>1. PatchStatus(S, st) /\ crs' = crs
    BY <1>10 DEF ProjectStatus
  <2> HIDE DEF S, st
  <2> QED
    BY <1>8, <2>1
<1>11. CASE ApplyUnit \/ AbortReconcile
  BY <1>2, <1>11 DEF ApplyUnit, AbortReconcile
<1>12. CASE Provider
  BY <1>2, <1>12 DEF Provider, ProviderConflict, ProviderReady, ProviderReceipt,
     ProviderDispatch, ProviderCompleted, ProviderLand, ProviderPrune
<1> QED
  BY <1>2, <1>3, <1>5, <1>6, <1>7, <1>9, <1>10, <1>11, <1>12 DEF Next, Core, vars

\* Nothing has been created, deleted or completed yet.
LEMMA InitCompletion == Init => Completion
<1> SUFFICES ASSUME Init PROVE Completion
  OBVIOUS
<1>1. /\ \A c \in Claims : /\ rs[c] = None /\ crs[c] = None /\ items[c] = None
                           /\ unit.spec[c] = None /\ cunit.spec[c] = None
                           /\ unit.ledger[c] = None /\ cunit.ledger[c] = None
      /\ \A i \in Idents : dns[i] = None
      /\ inflight = None
  BY DEF Init
<1>2. HomesExist
  <2>1. PICK home \in Placed : home = [u \in UIDs |-> [claim |-> 0, ident |-> None]]
    BY DEF Placed
  <2>2. Homes(home)
    BY <1>1 DEF Homes, AtHome
  <2> QED
    BY <2>2 DEF HomesExist
<1>3. EndedItems /\ DoneIsFinished /\ FinalizerIsRead
  BY <1>1 DEF EndedItems, DoneIsFinished, FinalizerIsRead, Active, Deleting
<1> QED
  BY <1>2, <1>3 DEF Completion

\* The completion invariant is inductive.
LEMMA NextCompletion == TypeInv /\ Completion /\ [Next]_vars => Completion'
  BY NextHomes, NextEnded, NextDone, NextFinalizer DEF Completion

LEMMA CompletionInvariant == Spec => [](TypeInv /\ Completion)
<1>1. Init => TypeInv /\ Completion
  BY InitType, InitCompletion
<1>2. TypeInv /\ Completion /\ [Next]_vars => (TypeInv /\ Completion)'
  BY NextType, NextCompletion
<1> QED
  BY <1>1, <1>2, PTL DEF Spec

\* deletionCompleted in the ledger is final (removeRecordSetFinalizer of the
\* provider): no record of that incarnation is live, and no call that would
\* create one is on its way, then or later, with stale reads, failed reconciles
\* and stripped finalizers.
THEOREM DeletionIsFinal == Spec => []CompletionIsFinal
<1>1. TypeInv /\ Completion => CompletionIsFinal
  BY DEF Completion, DoneIsFinished, Finished, Is, CompletionIsFinal
<1> QED
  BY <1>1, CompletionInvariant, PTL

\* A claim with the finalizer leaves the API server by a step of core only when
\* nothing of its incarnation is left.
LEMMA CoreReleasesClean ==
    ASSUME TypeInv, Completion, NEW c \in Claims,
           rs[c] /= None, rs[c].fin, rs'[c] = None,
           crs[c] /= None, crs[c].deleting, ~PendingDeletion(c)
    PROVE  /\ \A i \in Idents : dns[i] /= None => dns[i].uid /= rs[c].uid
           /\ inflight /= None => ~(inflight.op = "UPSERT" /\ inflight.uid = rs[c].uid)
<1>1. rs[c].uid = crs[c].uid
  BY DEF Completion, FinalizerIsRead
<1>2. Completed(cunit.ledger[c], crs[c].uid)
  BY DEF PendingDeletion
<1>3. Finished(rs[c].uid)
  BY <1>1, <1>2 DEF Completed, Completion, DoneIsFinished
<1> QED
  BY <1>3 DEF Finished, Is

\* Only a released claim, or one an administrator strips, leaves with its finalizer.
LEMMA StepReleasesClean ==
    ASSUME TypeInv, Completion, ~Forced, [Next]_vars, NEW c \in Claims,
           rs[c] /= None, rs[c].fin, rs'[c] = None
    PROVE  /\ \A i \in Idents : dns[i] /= None => dns[i].uid /= rs[c].uid
           /\ inflight /= None => ~(inflight.op = "UPSERT" /\ inflight.uid = rs[c].uid)
<1> USE DEF apiVars, userVars, cacheVars, loopVars, coreVars, providerVars
<1>0. rs \in [Claims -> RecordSet \cup {None}]
  BY DEF TypeInv, TypeOK
<1>1. rs' /= rs
  OBVIOUS
<1>2. ASSUME NEW d \in Claims, AddFinalizer(d)
      PROVE  FALSE
  <2>1. rs[d] /= None => [rs[d] EXCEPT !.fin = TRUE] /= None
    BY <1>0 DEF RecordSet, None
  <2>2. \A e \in Claims : rs[e] /= None => rs'[e] /= None
    BY <1>0, <1>2, <2>1 DEF AddFinalizer
  <2> QED
    BY <2>2
<1>3. ASSUME NEW d \in Claims, DropFinalizer(d), d /= c
      PROVE  FALSE
  BY <1>3, FinalizerKeeps
<1>4. ASSUME NEW STATE S, NEW STATE st, PatchStatus(S, st)
      PROVE  FALSE
  <2>1. PICK sent \in SUBSET S : rs'[c] = [rs[c] EXCEPT !.prog = st[c]] \/ rs'[c] = rs[c]
    BY <1>0, <1>4 DEF PatchStatus
  <2>2. [rs[c] EXCEPT !.prog = st[c]] /= None
    BY <1>0 DEF RecordSet, None
  <2> QED
    BY <2>1, <2>2
<1>5. ~User
  <2>1. ASSUME NEW d \in Claims, NEW i, NEW b, CreateClaim(d, i, b)
        PROVE  FALSE
    BY <1>0, <2>1 DEF CreateClaim
  <2>2. ASSUME NEW d \in Claims, NEW b, EditClaim(d, b)
        PROVE  FALSE
    <3>1. rs[d] \in RecordSet /\ rs' = [rs EXCEPT ![d] = [rs[d] EXCEPT !.body = b, !.gen = rs[d].gen + 1]]
      BY <1>0, <2>2 DEF EditClaim
    <3>2. [rs[d] EXCEPT !.body = b, !.gen = rs[d].gen + 1] /= None
      BY <3>1 DEF RecordSet, None
    <3> QED
      BY <1>0, <3>1, <3>2
  <2>3. ASSUME NEW d \in Claims, DeleteClaim(d)
        PROVE  FALSE
    <3>1. [rs[d] EXCEPT !.deleting = TRUE, !.gen = rs[d].gen + 1] /= None
      BY <1>0, <2>3 DEF DeleteClaim, RecordSet, None
    <3> QED
      BY <1>0, <2>3, <3>1 DEF DeleteClaim
  <2> QED
    BY <1>1, <2>1, <2>2, <2>3 DEF User, ForceFinalize, ChangeStanding
<1>6. ASSUME NEW d \in Claims, AcceptNext(d)
      PROVE  crs[c] /= None /\ crs[c].deleting /\ ~PendingDeletion(c)
  BY <1>1, <1>2, <1>3, <1>6
     DEF AcceptNext, AcceptConversionError, AcceptFinalized, AcceptRejected, AcceptOwner,
         First, Supported, Cached
<1>7. ASSUME NEW d \in Claims, RetainNext(d)
      PROVE  crs[c] /= None /\ crs[c].deleting /\ ~PendingDeletion(c)
  BY <1>1, <1>2, <1>3, <1>7 DEF RetainNext, Retainable, PolicyRejected, Cached
<1>8. ~WriteRejected
  BY <1>4 DEF WriteRejected
<1>9. ~ProjectStatus
  <2> DEFINE S == {d \in Claims : Projectable(d)}
             st == [d \in S |-> IF Incompatible(d) THEN 0 ELSE Projected(d)]
  <2>1. ProjectStatus => PatchStatus(S, st)
    BY DEF ProjectStatus
  <2> HIDE DEF S, st
  <2> QED
    BY <1>4, <2>1
<1>10. ~(BeginReconcile \/ ApplyUnit \/ AbortReconcile)
  BY <1>1 DEF BeginReconcile, ApplyUnit, AbortReconcile
<1>11. ~Provider
  BY <1>1 DEF Provider, ProviderConflict, ProviderReady, ProviderReceipt,
     ProviderDispatch, ProviderCompleted, ProviderLand, ProviderPrune
<1>12. crs[c] /= None /\ crs[c].deleting /\ ~PendingDeletion(c)
  BY <1>1, <1>5, <1>6, <1>7, <1>8, <1>9, <1>10, <1>11 DEF Next, Core, vars
<1> QED
  BY <1>12, CoreReleasesClean

\* The finalizer of a claim holds it until its record is gone for good: unless an
\* administrator strips it, a claim that carries the finalizer leaves the API
\* server only clean.
THEOREM ClaimsReleasedClean == ~Forced => (Spec => ReleasedClean)
<1> SUFFICES ASSUME ~Forced PROVE Spec => ReleasedClean
  OBVIOUS
<1>1. TypeInv /\ Completion /\ [Next]_vars =>
          [\A c \in Claims :
             (rs[c] /= None /\ rs[c].fin /\ rs'[c] = None) =>
               /\ \A i \in Idents : dns[i] /= None => dns[i].uid /= rs[c].uid
               /\ inflight /= None =>
                     ~(inflight.op = "UPSERT" /\ inflight.uid = rs[c].uid)]_vars
  BY StepReleasesClean
<1> QED
  BY <1>1, CompletionInvariant, PTL DEF Spec, ReleasedClean

-----------------------------------------------------------------------------
(***************************************************************************)
(* A claim that is Programmed was seen programmed: the theorem about       *)
(* ProgrammedIsAttested, when reconciles read current objects and          *)
(* administrators leave finalizers alone.                                  *)
(*                                                                         *)
(* The property is far from inductive.  That the entry which is projected  *)
(* belongs to the incarnation that takes the patch, which carries no UID,  *)
(* rests on the finalizer: nothing is written about an incarnation before  *)
(* it has one, and a claim that was read with one stays the same claim     *)
(* until the reconcile itself lets it go.                                  *)
(***************************************************************************)

\* Only a claim with a finalizer is seen deleting.
DeletionHasFinalizer ==
    \A c \in Claims : /\ (rs[c] /= None /\ rs[c].deleting) => rs[c].fin
                      /\ (crs[c] /= None /\ crs[c].deleting) => crs[c].fin

\* An incarnation has its finalizer before anything is written about it.
HasFinalizer(x, c) == Is(x, c.uid) => x.fin
WrittenHasFinalizer ==
    \A c \in Claims :
        /\ items[c] /= None => HasFinalizer(rs[c], items[c])
        /\ unit.spec[c] /= None => HasFinalizer(rs[c], unit.spec[c])
        /\ unit.ledger[c] /= None =>
              HasFinalizer(rs[c], unit.ledger[c]) /\ unit.ledger[c].uid < nextUID
        /\ cunit.spec[c] /= None => HasFinalizer(rs[c], cunit.spec[c])
        /\ cunit.ledger[c] /= None => HasFinalizer(crs[c], cunit.ledger[c])

\* A finalizer that was read is still there while the reconcile has not visited
\* the claim, and when the visit made an item of it.
ReadStaysHeld ==
    pc /= "idle" =>
        \A c \in Claims :
            (crs[c] /= None /\ crs[c].fin /\ (c \in todo \/ Is(items[c], crs[c].uid)))
                => Is(rs[c], crs[c].uid) /\ rs[c].fin

\* What is collected for the incarnation that was read says what was read.
CollectedAsRead ==
    \A c \in Claims :
        /\ (pc = "idle" \/ c \in todo) => items[c] = None
        /\ (items[c] /= None /\ Is(crs[c], items[c].uid)) =>
              /\ items[c].del = crs[c].deleting
              /\ items[c].allowed => items[c].gen = crs[c].gen

\* What the ledger, or the copy core read, calls programmed was attested.
LedgerAttested ==
    \A c \in Claims : \A e \in {unit.ledger[c], cunit.ledger[c]} :
        (e /= None /\ ~e.done /\ e.prog /= 0) => <<e.uid, e.prog>> \in attested

Attestation ==
    /\ DeletionHasFinalizer
    /\ WrittenHasFinalizer
    /\ ReadStaysHeld
    /\ CollectedAsRead
    /\ LedgerAttested
    /\ ProgrammedIsAttested

\* What a step may do to a claim besides releasing or creating it: a finalizer
\* stays, and so does the claim that has one.
Steady(c) ==
    /\ ClaimKept(c)
    /\ (rs[c] /= None /\ rs[c].fin) => (rs'[c] /= None /\ rs'[c].fin)
    /\ (rs'[c] /= None /\ rs'[c].deleting) => rs'[c].fin

\* The reconciler lets a claim go that it has read as deleting.
Released(c) ==
    /\ pc = "accept"
    /\ c \in todo
    /\ c \notin todo'
    /\ crs[c] /= None /\ crs[c].deleting /\ ~PendingDeletion(c)
    /\ rs'[c] = None
    /\ items' = items

\* ensureFinalizer finds or leaves a finalizer on what was read.
LEMMA AddSteady ==
    ASSUME TypeInv, DeletionHasFinalizer, NEW c \in Claims, AddFinalizer(c)
    PROVE  /\ \A d \in Claims : Steady(d)
           /\ crs[c].fin \/ crs[c].deleting \/ (rs'[c] /= None /\ rs'[c].fin)
<1>1. rs \in [Claims -> RecordSet \cup {None}]
  BY DEF TypeInv, TypeOK
<1>2. \A d \in Claims : ClaimKept(d)
  BY FinalizerKeeps
<1>3. CASE (crs[c].fin \/ crs[c].deleting) /\ UNCHANGED rs
  BY <1>2, <1>3 DEF Steady, DeletionHasFinalizer
<1>4. CASE rs[c] /= None /\ rs' = [rs EXCEPT ![c] = [rs[c] EXCEPT !.fin = TRUE]]
  <2>1. /\ rs[c] \in RecordSet
        /\ rs'[c] = [rs[c] EXCEPT !.fin = TRUE]
        /\ \A d \in Claims \ {c} : rs'[d] = rs[d]
    BY <1>1, <1>4
  <2>2. rs'[c] /= None /\ rs'[c].fin
    BY <2>1 DEF RecordSet, None
  <2> QED
    BY <1>2, <2>1, <2>2 DEF Steady, DeletionHasFinalizer
<1> QED
  BY <1>3, <1>4 DEF AddFinalizer

\* removeFinalizer removes the claim that was read.
LEMMA DropReleases ==
    ASSUME TypeInv, EndedItems, DeletionHasFinalizer, ReadStaysHeld,
           NEW c \in Claims, pc = "accept", c \in todo, crs[c] /= None, crs[c].deleting,
           DropFinalizer(c)
    PROVE  rs'[c] = None /\ \A d \in Claims \ {c} : Steady(d)
<1>1. rs \in [Claims -> RecordSet \cup {None}]
  BY DEF TypeInv, TypeOK
<1>2. crs[c].fin /\ Is(rs[c], crs[c].uid)
  BY DEF DeletionHasFinalizer, ReadStaysHeld
<1>3. rs[c].deleting
  BY <1>2 DEF EndedItems, Ended
<1>4. rs' = [rs EXCEPT ![c] = None]
  BY <1>2, <1>3 DEF DropFinalizer, Is
<1>5. \A d \in Claims : ClaimKept(d)
  BY FinalizerKeeps
<1> QED
  BY <1>1, <1>4, <1>5 DEF Steady, DeletionHasFinalizer

\* A status patch touches no finalizer.
LEMMA PatchSteady ==
    ASSUME TypeInv, DeletionHasFinalizer, NEW STATE S, NEW STATE st, PatchStatus(S, st)
    PROVE  \A c \in Claims :
              /\ Steady(c)
              /\ rs'[c] /= None =>
                    \/ rs'[c].prog = rs[c].prog
                    \/ c \in S /\ rs'[c].prog = st[c]
<1>1. rs \in [Claims -> RecordSet \cup {None}]
  BY DEF TypeInv, TypeOK
<1>2. PICK sent \in SUBSET S :
          rs' = [c \in Claims |-> IF c \in sent /\ rs[c] /= None
                                  THEN [rs[c] EXCEPT !.prog = st[c]]
                                  ELSE rs[c]]
  BY DEF PatchStatus
<1>3. ASSUME NEW c \in Claims
      PROVE  /\ Steady(c)
             /\ rs'[c] /= None =>
                   \/ rs'[c].prog = rs[c].prog
                   \/ c \in S /\ rs'[c].prog = st[c]
  <2>1. CASE c \in sent /\ rs[c] /= None
    <3>1. rs'[c] = [rs[c] EXCEPT !.prog = st[c]] /\ rs[c] \in RecordSet
      BY <1>1, <1>2, <2>1
    <3>2. /\ rs'[c] /= None
          /\ rs'[c].fin = rs[c].fin
          /\ rs'[c].deleting = rs[c].deleting
          /\ rs'[c].prog = st[c]
      BY <3>1 DEF RecordSet, None
    <3> QED
      BY <2>1, <3>2, PatchKeeps DEF Steady, DeletionHasFinalizer
  <2>2. CASE ~(c \in sent /\ rs[c] /= None)
    <3>1. rs'[c] = rs[c]
      BY <1>2, <2>2
    <3> QED
      BY <3>1, PatchKeeps DEF Steady, DeletionHasFinalizer
  <2> QED
    BY <2>1, <2>2
<1> QED
  BY <1>3

\* The steps of users that create nothing.
LEMMA UserSteady ==
    ASSUME TypeInv, DeletionHasFinalizer, ~Forced, User,
           ~\E c \in Claims, i \in Idents, b \in Bodies : CreateClaim(c, i, b)
    PROVE  \A c \in Claims : Steady(c) /\ (rs'[c] /= None => rs'[c].prog = rs[c].prog)
<1> USE DEF apiVars, userVars, cacheVars, loopVars, coreVars, providerVars
<1>1. rs \in [Claims -> RecordSet \cup {None}]
  BY DEF TypeInv, TypeOK
<1>2. \A c \in Claims : ClaimKept(c)
  BY ClaimsKept DEF Next
<1>3. ASSUME NEW c \in Claims, NEW b \in Bodies, EditClaim(c, b)
      PROVE  \A d \in Claims : Steady(d) /\ (rs'[d] /= None => rs'[d].prog = rs[d].prog)
  <2>1. /\ rs[c] \in RecordSet
        /\ ~rs[c].deleting
        /\ rs'[c] = [rs[c] EXCEPT !.body = b, !.gen = rs[c].gen + 1]
        /\ \A d \in Claims \ {c} : rs'[d] = rs[d]
    BY <1>1, <1>3 DEF EditClaim
  <2>2. /\ rs'[c] /= None
        /\ rs'[c].fin = rs[c].fin
        /\ rs'[c].deleting = rs[c].deleting
        /\ rs'[c].prog = rs[c].prog
    BY <2>1 DEF RecordSet, None
  <2> QED
    BY <1>2, <2>1, <2>2 DEF Steady, DeletionHasFinalizer
<1>4. ASSUME NEW c \in Claims, DeleteClaim(c)
      PROVE  \A d \in Claims : Steady(d) /\ (rs'[d] /= None => rs'[d].prog = rs[d].prog)
  <2>1. /\ rs[c] \in RecordSet
        /\ IF rs[c].fin THEN rs'[c] = [rs[c] EXCEPT !.deleting = TRUE, !.gen = rs[c].gen + 1]
                        ELSE rs'[c] = None
        /\ \A d \in Claims \ {c} : rs'[d] = rs[d]
    BY <1>1, <1>4 DEF DeleteClaim
  <2>2. rs[c].fin => /\ rs'[c] /= None
                     /\ rs'[c].fin
                     /\ rs'[c].prog = rs[c].prog
    BY <2>1 DEF RecordSet, None
  <2> QED
    BY <1>2, <2>1, <2>2 DEF Steady, DeletionHasFinalizer
<1>5. ASSUME NEW c \in Claims, NEW t \in Standings, ChangeStanding(c, t)
      PROVE  \A d \in Claims : Steady(d) /\ (rs'[d] /= None => rs'[d].prog = rs[d].prog)
  BY <1>2, <1>5 DEF ChangeStanding, Steady, DeletionHasFinalizer
<1>6. \A c \in Claims : IdentsOf[c] \subseteq Idents
  BY IdentAssumption
<1> QED
  BY <1>3, <1>4, <1>5, <1>6 DEF User, ForceFinalize

\* Claims go by a release; otherwise they are steady, or created.
LEMMA ClaimStep ==
    ASSUME TypeInv, EndedItems, DeletionHasFinalizer, ReadStaysHeld, CollectedAsRead,
           ~Forced, [Next]_vars,
           ~\E c \in Claims, i \in Idents, b \in Bodies : CreateClaim(c, i, b)
    PROVE  \A c \in Claims : Steady(c) \/ Released(c)
<1> USE DEF apiVars, userVars, cacheVars, loopVars, coreVars, providerVars
<1>1. CASE UNCHANGED rs
  BY <1>1 DEF Steady, ClaimKept, DeletionHasFinalizer
<1>2. CASE User
  BY <1>2, UserSteady
<1>3. ASSUME NEW c \in Claims, AcceptNext(c)
      PROVE  \A d \in Claims : Steady(d) \/ Released(d)
  <2>1. pc = "accept" /\ c \in todo /\ todo' = todo \ {c} /\ crs[c] /= None
    BY <1>3 DEF AcceptNext, Visit, First, Supported, Cached
  <2>2. CASE AcceptFinalized(c)
    BY <2>1, <2>2, DropReleases DEF AcceptFinalized, Released
  <2>3. CASE AcceptRejected(c) \/ AcceptOwner(c)
    BY <2>3, AddSteady DEF AcceptRejected, AcceptOwner
  <2> QED
    BY <1>1, <1>3, <2>2, <2>3 DEF AcceptNext, AcceptConversionError
<1>4. ASSUME NEW c \in Claims, RetainNext(c)
      PROVE  \A d \in Claims : Steady(d) \/ Released(d)
  <2>1. pc = "accept" /\ c \in todo /\ todo' = todo \ {c} /\ crs[c] /= None
    BY <1>4 DEF RetainNext, Visit, Retainable, PolicyRejected, Cached
  <2>2. CASE crs[c].deleting /\ ~PendingDeletion(c) /\ DropFinalizer(c) /\ UNCHANGED items
    BY <2>1, <2>2, DropReleases DEF Released
  <2>3. CASE AddFinalizer(c)
    BY <2>3, AddSteady
  <2> QED
    BY <1>4, <2>2, <2>3 DEF RetainNext
<1>5. CASE WriteRejected
  BY <1>5, PatchSteady DEF WriteRejected
<1>6. CASE ProjectStatus
  <2> DEFINE S == {c \in Claims : Projectable(c)}
             st == [c \in S |-> IF Incompatible(c) THEN 0 ELSE Projected(c)]
  <2>1. PatchStatus(S, st)
    BY <1>6 DEF ProjectStatus
  <2> HIDE DEF S, st
  <2> QED
    BY <2>1, PatchSteady
<1>7. CASE BeginReconcile \/ ApplyUnit \/ AbortReconcile
  BY <1>1, <1>7 DEF BeginReconcile, ApplyUnit, AbortReconcile
<1>8. CASE Provider
  BY <1>1, <1>8 DEF Provider, ProviderConflict, ProviderReady, ProviderReceipt,
     ProviderDispatch, ProviderCompleted, ProviderLand, ProviderPrune
<1> QED
  BY <1>1, <1>2, <1>3, <1>4, <1>5, <1>6, <1>7, <1>8 DEF Next, Core, vars

\* An item is collected on the visit of its claim, behind the finalizer, or is a
\* predecessor that another incarnation of the name waits for.
Collected(c) ==
    /\ pc = "accept"
    /\ pc' = pc
    /\ c \in todo
    /\ c \notin todo'
    /\ crs[c] /= None
    /\ crs[c].deleting => PendingDeletion(c)
    /\ AddFinalizer(c)
    /\ \/ items'[c] = ItemOf(c)
       \/ cunit.spec[c] /= None /\ items'[c] = RetainedItem(c)

LEMMA NewItems ==
    ASSUME TypeInv, [Next]_vars, NEW c \in Claims,
           items'[c] /= items[c], items'[c] /= None
    PROVE  \/ Collected(c)
           \/ /\ PendingPredecessor(c)
              /\ items'[c] = cunit.spec[c]
              /\ pc' = "apply"
              /\ todo' = {}
<1> USE DEF apiVars, userVars, cacheVars, loopVars, coreVars, providerVars
<1>0. items \in [Claims -> Item \cup {None}]
  BY DEF TypeInv, TypeOK
<1>1. ASSUME NEW d \in Claims, AcceptNext(d)
      PROVE  Collected(c)
  BY <1>0, <1>1 DEF AcceptNext, AcceptConversionError, AcceptFinalized, AcceptRejected,
     AcceptOwner, Visit, First, Supported, Cached, Collected
<1>2. ASSUME NEW d \in Claims, RetainNext(d)
      PROVE  Collected(c)
  BY <1>0, <1>2 DEF RetainNext, Visit, Retainable, PolicyRejected, Cached, Collected
<1>3. CASE WriteRejected
  BY <1>0, <1>3 DEF WriteRejected
<1>4. CASE User
  BY <1>4 DEF User, CreateClaim, EditClaim, DeleteClaim, ForceFinalize, ChangeStanding
<1>5. CASE BeginReconcile \/ ApplyUnit \/ ProjectStatus \/ AbortReconcile
  BY <1>5 DEF BeginReconcile, ApplyUnit, ProjectStatus, AbortReconcile
<1>6. CASE Provider
  BY <1>6 DEF Provider, ProviderConflict, ProviderReady, ProviderReceipt,
     ProviderDispatch, ProviderCompleted, ProviderLand, ProviderPrune
<1> QED
  BY <1>1, <1>2, <1>3, <1>4, <1>5, <1>6 DEF Next, Core, vars

\* Of what is collected on a visit: its incarnation, and its finalizer.
LEMMA CollectedHeld ==
    ASSUME TypeInv, DeletionHasFinalizer, ReadStaysHeld, NEW c \in Claims, Collected(c),
           items'[c] /= None
    PROVE  /\ items'[c].uid = crs[c].uid
           /\ HasFinalizer(rs'[c], items'[c])
           /\ items'[c].del = crs[c].deleting
           /\ items'[c].allowed => items'[c].gen = crs[c].gen
           /\ crs[c].fin => Is(rs[c], crs[c].uid)
<1>1. /\ crs[c] \in RecordSet
      /\ cunit.spec[c] /= None => cunit.spec[c] \in Item
  BY DEF Collected, TypeInv, TypeOK, Unit
<1>2. /\ items'[c].uid = crs[c].uid
      /\ items'[c].del = crs[c].deleting
      /\ items'[c].allowed => items'[c].gen = crs[c].gen
  <2>1. CASE items'[c] = ItemOf(c)
    BY <2>1 DEF ItemOf
  <2>2. CASE cunit.spec[c] /= None /\ items'[c] = RetainedItem(c)
    BY <1>1, <2>2 DEF RetainedItem, ItemOf, Item
  <2> QED
    BY <2>1, <2>2 DEF Collected
<1>3. crs[c].fin => Is(rs[c], crs[c].uid) /\ rs[c].fin
  BY DEF Collected, ReadStaysHeld
<1>4. HasFinalizer(rs'[c], items'[c])
  <2>1. crs[c].fin \/ (rs'[c] /= None /\ rs'[c].fin)
    BY AddSteady DEF Collected, DeletionHasFinalizer
  <2>2. Steady(c)
    BY AddSteady DEF Collected
  <2> QED
    BY <1>3, <2>1, <2>2 DEF Steady, HasFinalizer, Is
<1> QED
  BY <1>2, <1>3, <1>4

\* Without lag a reconcile reads what is there.
LEMMA FreshCopies ==
    ASSUME TypeInv, ~Lag, [Next]_vars
    PROVE  \/ crs' = crs /\ cunit' = cunit
           \/ crs' = rs /\ cunit' = unit /\ UNCHANGED <<rs, unit, nextUID, attested>>
<1> USE DEF apiVars, userVars, cacheVars, loopVars, coreVars, providerVars
<1>1. CASE BeginReconcile
  <2>1. rs \in [Claims -> RecordSet \cup {None}]
    BY DEF TypeInv, TypeOK
  <2> QED
    BY <1>1, <2>1 DEF BeginReconcile, ReadCache
<1>2. CASE User
  BY <1>2 DEF User, CreateClaim, EditClaim, DeleteClaim, ForceFinalize, ChangeStanding
<1>3. CASE Core /\ ~BeginReconcile
  BY <1>3 DEF Core, AcceptNext, RetainNext, WriteRejected, ApplyUnit, ProjectStatus,
     AbortReconcile
<1>4. CASE Provider
  BY <1>4 DEF Provider, ProviderConflict, ProviderReady, ProviderReceipt,
     ProviderDispatch, ProviderCompleted, ProviderLand, ProviderPrune
<1> QED
  BY <1>1, <1>2, <1>3, <1>4 DEF Next, vars

\* The history of observations only grows.
LEMMA AttestedGrows ==
    ASSUME [Next]_vars
    PROVE  attested \subseteq attested'
<1> USE DEF apiVars, userVars, cacheVars, loopVars, coreVars, providerVars
<1>1. CASE User
  BY <1>1 DEF User, CreateClaim, EditClaim, DeleteClaim, ForceFinalize, ChangeStanding
<1>2. CASE Core
  BY <1>2 DEF Core, BeginReconcile, AcceptNext, RetainNext, WriteRejected, ApplyUnit,
     ProjectStatus, AbortReconcile
<1>3. CASE Provider
  BY <1>3 DEF Provider, ProviderConflict, ProviderReady, ProviderReceipt, ProviderDispatch,
     ProviderCompleted, ProviderLand, ProviderPrune
<1> QED
  BY <1>1, <1>2, <1>3 DEF Next, vars

\* A new ledger entry belongs to the item that is there, and if it says programmed
\* without being a completion the provider has attested it, now or before.
LEMMA LedgerWrites ==
    ASSUME TypeInv, LedgerAttested, [Next]_vars, NEW c \in Claims, unit'.ledger[c] /= None
    PROVE  /\ attested \subseteq attested'
           /\ unit'.ledger[c] /= unit.ledger[c] =>
                 /\ unit.spec[c] /= None
                 /\ unit'.ledger[c].uid = unit.spec[c].uid
                 /\ UNCHANGED <<rs, nextUID>>
                 /\ (~unit'.ledger[c].done /\ unit'.ledger[c].prog /= 0) =>
                       <<unit'.ledger[c].uid, unit'.ledger[c].prog>> \in attested'
<1> USE DEF apiVars, userVars, cacheVars, loopVars, coreVars, providerVars
<1>0. unit \in Unit
  BY DEF TypeInv, TypeOK
<1> DEFINE Written == /\ unit.spec[c] /= None
                      /\ unit'.ledger[c].uid = unit.spec[c].uid
                      /\ UNCHANGED <<rs, nextUID>>
                      /\ (~unit'.ledger[c].done /\ unit'.ledger[c].prog /= 0) =>
                            <<unit'.ledger[c].uid, unit'.ledger[c].prog>> \in attested'
<1>1. CASE unit'.ledger = unit.ledger /\ UNCHANGED attested
  BY <1>1
<1>2. ASSUME NEW d \in Claims, NEW e \in Entry, unit.spec[d] /= None, WriteEntry(d, e)
      PROVE  /\ d /= c => unit'.ledger[c] = unit.ledger[c]
             /\ d = c => /\ unit'.ledger[c].uid = unit.spec[c].uid
                         /\ unit'.ledger[c].done = e.done
                         /\ unit'.ledger[c].prog = e.prog
  <2>1. /\ unit.ledger \in [Claims -> Entry \cup {None}]
        /\ unit'.ledger = [unit.ledger EXCEPT ![d] =
                             [e EXCEPT !.uid = unit.spec[d].uid, !.gen = unit.spec[d].gen]]
    BY <1>0, <1>2 DEF WriteEntry, Unit
  <2>2. /\ d /= c => unit'.ledger[c] = unit.ledger[c]
        /\ unit'.ledger[d] = [e EXCEPT !.uid = unit.spec[d].uid, !.gen = unit.spec[d].gen]
    BY <2>1
  <2> QED
    BY <2>2 DEF Entry
<1>3. ASSUME NEW d \in Claims, unit.spec[d] /= None
      PROVE  /\ unit.spec[d] \in Item
             /\ OwnEntry(d) \in Entry
             /\ OwnEntry(d).uid = unit.spec[d].uid
             /\ (~OwnEntry(d).done /\ OwnEntry(d).prog /= 0) =>
                   <<unit.spec[d].uid, OwnEntry(d).prog>> \in attested
  <2>1. unit.spec[d] \in Item /\ unit.ledger[d] \in Entry \cup {None}
    BY <1>0, <1>3 DEF Unit
  <2>2. 0 \in Generations
    BY BoundsAssumption DEF Generations
  <2>3. [uid |-> unit.spec[d].uid, gen |-> 0, rec |-> None, prog |-> 0, done |-> FALSE] \in Entry
    BY <2>1, <2>2 DEF Item, Entry
  <2> QED
    BY <2>1, <2>3 DEF OwnEntry, LedgerAttested
<1>4. ASSUME NEW d \in Claims, ProviderConflict(d)
      PROVE  attested \subseteq attested' /\ (unit'.ledger[c] /= unit.ledger[c] => Written)
  <2>1. unit.spec[d] /= None
    BY <1>4 DEF ProviderConflict, Active, Deleting
  <2>4. 0 \in Generations
    BY BoundsAssumption DEF Generations
  <2>2. [OwnEntry(d) EXCEPT !.prog = 0] \in Entry /\ [OwnEntry(d) EXCEPT !.prog = 0].prog = 0
    BY <1>3, <2>1, <2>4 DEF Entry
  <2>3. unit'.ledger[c] /= unit.ledger[c] =>
            d = c /\ unit'.ledger[c].uid = unit.spec[c].uid /\ unit'.ledger[c].prog = 0
    BY <1>2, <1>4, <2>1, <2>2 DEF ProviderConflict
  <2> QED
    BY <1>4, <2>1, <2>3 DEF ProviderConflict
<1>5. ASSUME NEW d \in Claims, ProviderReady(d)
      PROVE  attested \subseteq attested' /\ (unit'.ledger[c] /= unit.ledger[c] => Written)
  <2> DEFINE e == [OwnEntry(d) EXCEPT !.rec = unit.spec[d].ident, !.prog = unit.spec[d].gen]
  <2>1. unit.spec[d] /= None
    BY <1>5 DEF ProviderReady, Active
  <2>2. e \in Entry /\ e.prog = unit.spec[d].gen
    BY <1>3, <2>1 DEF Entry, Item
  <2>3. WriteEntry(d, e)
    BY <1>5 DEF ProviderReady
  <2> HIDE DEF e
  <2>4. unit'.ledger[c] /= unit.ledger[c] =>
            d = c /\ unit'.ledger[c].uid = unit.spec[c].uid
            /\ unit'.ledger[c].prog = unit.spec[c].gen
    BY <1>2, <2>1, <2>2, <2>3
  <2> QED
    BY <1>5, <2>1, <2>4 DEF ProviderReady
<1>6. ASSUME NEW d \in Claims, ProviderReceipt(d)
      PROVE  attested \subseteq attested' /\ (unit'.ledger[c] /= unit.ledger[c] => Written)
  <2> DEFINE e == [OwnEntry(d) EXCEPT !.rec = unit.spec[d].ident]
  <2>1. unit.spec[d] /= None
    BY <1>6 DEF ProviderReceipt, Active
  <2>2. e \in Entry /\ e.prog = OwnEntry(d).prog /\ e.done = OwnEntry(d).done
    BY <1>3, <2>1 DEF Entry, Item
  <2>3. WriteEntry(d, e)
    BY <1>6 DEF ProviderReceipt
  <2> HIDE DEF e
  <2>4. unit'.ledger[c] /= unit.ledger[c] =>
            /\ d = c
            /\ unit'.ledger[c].uid = unit.spec[c].uid
            /\ unit'.ledger[c].prog = OwnEntry(c).prog
            /\ unit'.ledger[c].done = OwnEntry(c).done
    BY <1>2, <2>1, <2>2, <2>3
  <2> QED
    BY <1>3, <1>6, <2>1, <2>4 DEF ProviderReceipt
<1>7. ASSUME NEW d \in Claims, ProviderCompleted(d)
      PROVE  attested \subseteq attested' /\ (unit'.ledger[c] /= unit.ledger[c] => Written)
  <2> DEFINE e == [OwnEntry(d) EXCEPT !.done = TRUE, !.prog = unit.spec[d].gen]
  <2>1. unit.spec[d] /= None
    BY <1>7 DEF ProviderCompleted, Deleting
  <2>2. e \in Entry /\ e.done
    BY <1>3, <2>1 DEF Entry, Item
  <2>3. WriteEntry(d, e)
    BY <1>7 DEF ProviderCompleted
  <2> HIDE DEF e
  <2>4. unit'.ledger[c] /= unit.ledger[c] =>
            d = c /\ unit'.ledger[c].uid = unit.spec[c].uid /\ unit'.ledger[c].done
    BY <1>2, <2>1, <2>2, <2>3
  <2> QED
    BY <1>7, <2>1, <2>4 DEF ProviderCompleted
<1>8. CASE ProviderPrune
  <2>1. unit'.ledger[c] \in {None, unit.ledger[c]}
    BY <1>0, <1>8 DEF ProviderPrune, Unit
  <2> QED
    BY <1>8, <2>1 DEF ProviderPrune
<1>9. CASE ProviderLand \/ \E d \in Claims : ProviderDispatch(d)
  BY <1>1, <1>9 DEF ProviderLand, ProviderDispatch
<1>10. CASE ApplyUnit
  <2>1. unit'.ledger = unit.ledger
    BY <1>0, <1>10 DEF ApplyUnit, Unit
  <2> QED
    BY <1>1, <1>10, <2>1 DEF ApplyUnit
<1>11. CASE User
  BY <1>1, <1>11 DEF User, CreateClaim, EditClaim, DeleteClaim, ForceFinalize, ChangeStanding
<1>12. CASE Core /\ ~ApplyUnit
  BY <1>1, <1>12 DEF Core, BeginReconcile, AcceptNext, RetainNext, WriteRejected,
     ProjectStatus, AbortReconcile
<1> QED
  BY <1>1, <1>4, <1>5, <1>6, <1>7, <1>8, <1>9, <1>10, <1>11, <1>12 DEF Next, Provider, vars

\* What a creation changes.
LEMMA Creation ==
    ASSUME TypeInv, NEW c \in Claims, NEW i, NEW b, CreateClaim(c, i, b)
    PROVE  /\ rs[c] = None
           /\ rs'[c].uid = nextUID /\ ~rs'[c].fin /\ ~rs'[c].deleting /\ rs'[c].prog = 0
           /\ \A d \in Claims \ {c} : rs'[d] = rs[d]
           /\ nextUID \in Nat /\ nextUID' = nextUID + 1
           /\ UNCHANGED <<unit, crs, cunit, pc, todo, items, attested>>
  BY DEF CreateClaim, TypeInv, TypeOK, cacheVars, coreVars, providerVars

\* A claim that is deleting has its finalizer, in the copy that is read as well.
LEMMA NextDeletionHasFinalizer ==
    ASSUME TypeInv, EndedItems, Attestation, ~Forced, ~Lag, [Next]_vars
    PROVE  DeletionHasFinalizer'
<1> USE DEF Attestation
<1>1. ASSUME NEW c \in Claims, NEW i \in Idents, NEW b \in Bodies, CreateClaim(c, i, b)
      PROVE  DeletionHasFinalizer'
  BY <1>1, Creation DEF DeletionHasFinalizer
<1>2. CASE ~\E c \in Claims, i \in Idents, b \in Bodies : CreateClaim(c, i, b)
  <2>1. \A c \in Claims : (rs'[c] /= None /\ rs'[c].deleting) => rs'[c].fin
    BY <1>2, ClaimStep DEF Steady, Released
  <2> QED
    BY <2>1, FreshCopies DEF DeletionHasFinalizer
<1> QED
  BY <1>1, <1>2

\* Steps leave a finalizer where something has been written about a claim.
LEMMA HeldStays ==
    ASSUME TypeInv, EndedItems, Attestation, ~Forced, [Next]_vars, NEW c \in Claims,
           NEW x, x.uid \in Nat, x.uid < nextUID, HasFinalizer(rs[c], x)
    PROVE  HasFinalizer(rs'[c], x)
<1> USE DEF Attestation
<1>1. ASSUME NEW d \in Claims, NEW i \in Idents, NEW b \in Bodies, CreateClaim(d, i, b)
      PROVE  HasFinalizer(rs'[c], x)
  BY <1>1, Creation DEF HasFinalizer, Is
<1>2. CASE ~\E d \in Claims, i \in Idents, b \in Bodies : CreateClaim(d, i, b)
  BY <1>2, ClaimStep DEF Steady, ClaimKept, Released, HasFinalizer, Is
<1> QED
  BY <1>1, <1>2

\* Whatever is written about a claim is written behind its finalizer.
LEMMA NextWrittenHasFinalizer ==
    ASSUME TypeInv, HomesExist, EndedItems, Attestation, ~Forced, ~Lag, [Next]_vars
    PROVE  WrittenHasFinalizer'
<1> USE DEF Attestation
<1>1. PICK home \in Placed : Homes(home)
  BY DEF HomesExist
<1>2. ASSUME NEW c \in Claims
      PROVE  /\ items[c] /= None => items[c].uid \in Nat /\ items[c].uid < nextUID
             /\ unit.spec[c] /= None => unit.spec[c].uid \in Nat /\ unit.spec[c].uid < nextUID
             /\ cunit.spec[c] /= None => cunit.spec[c].uid \in Nat /\ cunit.spec[c].uid < nextUID
             /\ unit.ledger[c] /= None =>
                   unit.ledger[c].uid \in Nat /\ unit.ledger[c].uid < nextUID
  <2>1. /\ items[c] /= None => items[c].uid \in Nat
        /\ unit.spec[c] /= None => unit.spec[c].uid \in Nat
        /\ cunit.spec[c] /= None => cunit.spec[c].uid \in Nat
        /\ unit.ledger[c] /= None => unit.ledger[c].uid \in Nat
    BY DEF TypeInv, TypeOK, Unit, Item, Entry, UIDs
  <2>2. AtHome(home, items[c], c) /\ AtHome(home, unit.spec[c], c) /\ AtHome(home, cunit.spec[c], c)
    BY <1>1 DEF Homes
  <2> QED
    BY <2>1, <2>2 DEF AtHome, WrittenHasFinalizer
<1>3. nextUID \in Nat /\ nextUID' \in Nat /\ nextUID <= nextUID'
  <2>1. nextUID \in Nat
    BY DEF TypeInv, TypeOK
  <2>2. \A c \in Claims, i \in Idents, b \in Bodies :
            CreateClaim(c, i, b) => nextUID' = nextUID + 1
    BY Creation
  <2>3. nextUID' = nextUID \/ nextUID' = nextUID + 1
    BY <2>2, ClaimsKept
  <2> QED
    BY <2>1, <2>3
<1>4. ASSUME NEW c \in Claims, items'[c] /= None
      PROVE  HasFinalizer(rs'[c], items'[c])
  <2>1. CASE items'[c] = items[c]
    <3>1. HasFinalizer(rs[c], items[c])
      BY <1>4, <2>1 DEF WrittenHasFinalizer
    <3> QED
      BY <1>2, <1>4, <2>1, <3>1, HeldStays
  <2>2. CASE Collected(c)
    BY <1>4, <2>2, CollectedHeld
  <2>3. CASE cunit.spec[c] /= None /\ items'[c] = cunit.spec[c]
    <3>1. HasFinalizer(rs[c], cunit.spec[c])
      BY <2>3 DEF WrittenHasFinalizer
    <3> QED
      BY <1>2, <2>3, <3>1, HeldStays
  <2> QED
    BY <1>4, <2>1, <2>2, <2>3, NewItems DEF PendingPredecessor
<1>5. ASSUME NEW c \in Claims, unit'.spec[c] /= None
      PROVE  HasFinalizer(rs'[c], unit'.spec[c])
  <2>1. CASE unit'.spec = unit.spec
    <3>1. HasFinalizer(rs[c], unit.spec[c])
      BY <1>5, <2>1 DEF WrittenHasFinalizer
    <3> QED
      BY <1>2, <1>5, <2>1, <3>1, HeldStays
  <2>2. CASE unit'.spec = items /\ UNCHANGED rs
    BY <1>5, <2>2 DEF WrittenHasFinalizer
  <2> QED
    BY <2>1, <2>2, UnitSteps
<1>6. ASSUME NEW c \in Claims, unit'.ledger[c] /= None
      PROVE  HasFinalizer(rs'[c], unit'.ledger[c]) /\ unit'.ledger[c].uid < nextUID'
  <2>1. CASE unit'.ledger[c] = unit.ledger[c]
    <3>1. HasFinalizer(rs[c], unit.ledger[c])
      BY <1>6, <2>1 DEF WrittenHasFinalizer
    <3>2. HasFinalizer(rs'[c], unit.ledger[c])
      BY <1>2, <1>6, <2>1, <3>1, HeldStays
    <3> QED
      BY <1>2, <1>3, <1>6, <2>1, <3>2
  <2>2. CASE unit'.ledger[c] /= unit.ledger[c]
    <3>1. /\ unit.spec[c] /= None
          /\ unit'.ledger[c].uid = unit.spec[c].uid
          /\ UNCHANGED <<rs, nextUID>>
      BY <1>6, <2>2, LedgerWrites
    <3> QED
      BY <1>2, <3>1 DEF WrittenHasFinalizer, HasFinalizer
  <2> QED
    BY <2>1, <2>2
<1>7. ASSUME NEW c \in Claims
      PROVE  /\ cunit'.spec[c] /= None => HasFinalizer(rs'[c], cunit'.spec[c])
             /\ cunit'.ledger[c] /= None => HasFinalizer(crs'[c], cunit'.ledger[c])
  <2>1. CASE crs' = crs /\ cunit' = cunit
    <3>1. cunit.spec[c] /= None => HasFinalizer(rs'[c], cunit.spec[c])
      BY <1>2, HeldStays DEF WrittenHasFinalizer
    <3> QED
      BY <2>1, <3>1 DEF WrittenHasFinalizer
  <2>2. CASE crs' = rs /\ cunit' = unit /\ UNCHANGED rs
    BY <2>2 DEF WrittenHasFinalizer
  <2> QED
    BY <2>1, <2>2, FreshCopies
<1> QED
  BY <1>4, <1>5, <1>6, <1>7 DEF WrittenHasFinalizer, HasFinalizer, Is

\* A reconcile begins afresh; until it ends it only visits more claims.
LEMMA PhaseSteps ==
    ASSUME TypeInv, ~Lag, [Next]_vars
    PROVE  \/ crs' = rs /\ UNCHANGED rs /\ \A c \in Claims : items'[c] = None
           \/ /\ crs' = crs /\ cunit' = cunit
              /\ \/ pc' = "idle" /\ \A c \in Claims : items'[c] = None
                 \/ pc' = pc /\ todo' \subseteq todo
                 \/ pc /= "idle" /\ pc' /= "idle" /\ todo' \subseteq todo
<1> USE DEF apiVars, userVars, cacheVars, loopVars, coreVars, providerVars
<1>1. CASE UNCHANGED <<crs, cunit, pc, todo>>
  BY <1>1
<1>2. CASE BeginReconcile
  <2>1. rs \in [Claims -> RecordSet \cup {None}]
    BY DEF TypeInv, TypeOK
  <2> QED
    BY <1>2, <2>1 DEF BeginReconcile, ReadCache
<1>3. CASE \E c \in Claims : AcceptNext(c) \/ RetainNext(c)
  BY <1>3 DEF AcceptNext, RetainNext, Visit
<1>4. CASE WriteRejected \/ ApplyUnit
  BY <1>4 DEF WriteRejected, ApplyUnit
<1>5. CASE ProjectStatus \/ AbortReconcile
  BY <1>5 DEF ProjectStatus, AbortReconcile
<1>6. CASE User
  BY <1>1, <1>6 DEF User, CreateClaim, EditClaim, DeleteClaim, ForceFinalize, ChangeStanding
<1>7. CASE Provider
  BY <1>1, <1>7 DEF Provider, ProviderConflict, ProviderReady, ProviderReceipt,
     ProviderDispatch, ProviderCompleted, ProviderLand, ProviderPrune
<1> QED
  BY <1>1, <1>2, <1>3, <1>4, <1>5, <1>6, <1>7 DEF Next, Core, vars

\* Items appear on a visit and say what was read.
LEMMA NextCollected ==
    ASSUME TypeInv, Attestation, ~Lag, [Next]_vars
    PROVE  CollectedAsRead'
<1> USE DEF Attestation
<1>1. ASSUME NEW c \in Claims, pc' = "idle" \/ c \in todo', items'[c] /= None
      PROVE  FALSE
  <2>1. CASE items'[c] = items[c]
    BY <1>1, <2>1, PhaseSteps DEF CollectedAsRead
  <2>2. CASE items'[c] /= items[c]
    BY <1>1, <2>2, NewItems DEF Collected
  <2> QED
    BY <2>1, <2>2
<1>2. ASSUME NEW c \in Claims, items'[c] /= None, Is(crs'[c], items'[c].uid)
      PROVE  /\ items'[c].del = crs'[c].deleting
             /\ items'[c].allowed => items'[c].gen = crs'[c].gen
  <2>1. crs' = crs
    BY <1>2, PhaseSteps
  <2>2. CASE items'[c] = items[c]
    BY <1>2, <2>1, <2>2 DEF CollectedAsRead
  <2>3. CASE Collected(c)
    BY <1>2, <2>1, <2>3, CollectedHeld
  <2>4. CASE PendingPredecessor(c) /\ items'[c] = cunit.spec[c]
    BY <1>2, <2>1, <2>4 DEF PendingPredecessor, Is
  <2> QED
    BY <1>2, <2>2, <2>3, <2>4, NewItems
<1> QED
  BY <1>1, <1>2 DEF CollectedAsRead, Is

\* A finalizer that was read stays until its claim is visited, and then if the
\* visit made an item of it.
LEMMA NextReadHeld ==
    ASSUME TypeInv, EndedItems, Attestation, ~Forced, ~Lag, [Next]_vars
    PROVE  ReadStaysHeld'
<1> USE DEF Attestation
<1> SUFFICES ASSUME pc' /= "idle", NEW c \in Claims, crs'[c] /= None, crs'[c].fin,
                    c \in todo' \/ Is(items'[c], crs'[c].uid)
             PROVE  Is(rs'[c], crs'[c].uid) /\ rs'[c].fin
  BY DEF ReadStaysHeld, Is
<1>1. CASE crs' = rs /\ UNCHANGED rs
  BY <1>1 DEF Is
<1>2. CASE crs' = crs /\ ~(crs' = rs /\ UNCHANGED rs)
  <2>2. pc /= "idle" /\ todo' \subseteq todo
    BY <1>2, PhaseSteps
  <2>3. c \in todo \/ Is(items[c], crs[c].uid)
    <3>1. CASE c \in todo'
      BY <2>2, <3>1
    <3>2. CASE items'[c] = items[c]
      BY <1>2, <2>2, <3>2
    <3>3. CASE Is(items'[c], crs[c].uid) /\ items'[c] /= items[c]
      BY <3>3, NewItems DEF Collected, PendingPredecessor, Is
    <3> QED
      BY <1>2, <3>1, <3>2, <3>3
  <2>4. Is(rs[c], crs[c].uid) /\ rs[c].fin
    BY <1>2, <2>2, <2>3 DEF ReadStaysHeld
  <2>5. ASSUME NEW d \in Claims, NEW i \in Idents, NEW b \in Bodies, CreateClaim(d, i, b)
        PROVE  rs'[c] = rs[c]
    BY <2>4, <2>5, Creation DEF Is
  <2>6. CASE ~\E d \in Claims, i \in Idents, b \in Bodies : CreateClaim(d, i, b)
    <3>1. ~Released(c)
      <4>1. ASSUME Released(c)
            PROVE  FALSE
        <5>1. c \in todo /\ c \notin todo' /\ items'[c] = items[c]
          BY <4>1 DEF Released
        <5>2. items[c] = None
          BY <5>1 DEF CollectedAsRead
        <5> QED
          BY <5>1, <5>2 DEF Is
      <4> QED
        BY <4>1
    <3> QED
      BY <1>2, <2>4, <2>6, <3>1, ClaimStep DEF Steady, ClaimKept, Is
  <2> QED
    BY <1>2, <2>4, <2>5, <2>6
<1> QED
  BY <1>1, <1>2, PhaseSteps

\* What the ledger calls programmed was attested.
LEMMA NextLedgerAttested ==
    ASSUME TypeInv, Attestation, ~Lag, [Next]_vars
    PROVE  LedgerAttested'
<1> USE DEF Attestation
<1>0. attested \subseteq attested'
  BY AttestedGrows
<1>1. ASSUME NEW c \in Claims, unit'.ledger[c] /= None, ~unit'.ledger[c].done,
             unit'.ledger[c].prog /= 0
      PROVE  <<unit'.ledger[c].uid, unit'.ledger[c].prog>> \in attested'
  <2>1. CASE unit'.ledger[c] = unit.ledger[c]
    BY <1>0, <1>1, <2>1 DEF LedgerAttested
  <2>2. CASE unit'.ledger[c] /= unit.ledger[c]
    BY <1>1, <2>2, LedgerWrites
  <2> QED
    BY <2>1, <2>2
<1>2. ASSUME NEW c \in Claims, cunit'.ledger[c] /= None, ~cunit'.ledger[c].done,
             cunit'.ledger[c].prog /= 0
      PROVE  <<cunit'.ledger[c].uid, cunit'.ledger[c].prog>> \in attested'
  <2>1. cunit' = cunit \/ cunit' = unit
    BY FreshCopies
  <2> QED
    BY <1>0, <1>2, <2>1 DEF LedgerAttested
<1> QED
  BY <1>1, <1>2 DEF LedgerAttested


\* Finalizer patches leave the status alone.
LEMMA FinalizerProg ==
    ASSUME TypeInv, NEW d \in Claims, AddFinalizer(d) \/ DropFinalizer(d)
    PROVE  \A c \in Claims : rs'[c] /= None => rs'[c].prog = rs[c].prog
<1>1. rs \in [Claims -> RecordSet \cup {None}]
  BY DEF TypeInv, TypeOK
<1>2. CASE UNCHANGED rs
  BY <1>2
<1>3. CASE \E b \in BOOLEAN : rs[d] /= None /\ rs' = [rs EXCEPT ![d] = [rs[d] EXCEPT !.fin = b]]
  <2>1. PICK b \in BOOLEAN :
            /\ rs[d] \in RecordSet
            /\ rs'[d] = [rs[d] EXCEPT !.fin = b]
            /\ \A c \in Claims \ {d} : rs'[c] = rs[c]
    BY <1>1, <1>3
  <2> QED
    BY <2>1 DEF RecordSet
<1>4. CASE rs' = [rs EXCEPT ![d] = None]
  BY <1>1, <1>4
<1> QED
  BY <1>2, <1>3, <1>4 DEF AddFinalizer, DropFinalizer

\* The only step that calls a claim programmed is the projection of a compatible
\* ledger entry.
LEMMA ProgWrites ==
    ASSUME TypeInv, DeletionHasFinalizer, ~Forced, [Next]_vars,
           ~\E d \in Claims, i \in Idents, b \in Bodies : CreateClaim(d, i, b),
           NEW c \in Claims, rs'[c] /= None
    PROVE  \/ rs'[c].prog = rs[c].prog
           \/ rs'[c].prog = 0
           \/ /\ pc = "project"
              /\ Projectable(c)
              /\ ~Incompatible(c)
              /\ rs'[c].prog = Projected(c)
<1> USE DEF apiVars, userVars, cacheVars, loopVars, coreVars, providerVars
<1>1. CASE UNCHANGED rs
  BY <1>1
<1>2. CASE User
  BY <1>2, UserSteady
<1>3. ASSUME NEW d \in Claims, AcceptNext(d) \/ RetainNext(d)
      PROVE  rs'[c].prog = rs[c].prog
  BY <1>3, FinalizerProg DEF AcceptNext, AcceptConversionError, AcceptFinalized,
     AcceptRejected, AcceptOwner, RetainNext
<1>4. CASE WriteRejected
  <2> DEFINE st == [d \in rejected |-> 0]
  <2>1. PatchStatus(rejected, st) /\ \A d \in rejected : st[d] = 0
    BY <1>4 DEF WriteRejected
  <2> HIDE DEF st
  <2> QED
    BY <2>1, PatchSteady
<1>5. CASE ProjectStatus
  <2> DEFINE S == {d \in Claims : Projectable(d)}
             st == [d \in S |-> IF Incompatible(d) THEN 0 ELSE Projected(d)]
  <2>1. PatchStatus(S, st) /\ pc = "project"
    BY <1>5 DEF ProjectStatus
  <2>2. c \in S => Projectable(c) /\ st[c] = IF Incompatible(c) THEN 0 ELSE Projected(c)
    OBVIOUS
  <2> HIDE DEF S, st
  <2> QED
    BY <2>1, <2>2, PatchSteady
<1>6. CASE BeginReconcile \/ ApplyUnit \/ AbortReconcile
  BY <1>1, <1>6 DEF BeginReconcile, ApplyUnit, AbortReconcile
<1>7. CASE Provider
  BY <1>1, <1>7 DEF Provider, ProviderConflict, ProviderReady, ProviderReceipt,
     ProviderDispatch, ProviderCompleted, ProviderLand, ProviderPrune
<1> QED
  BY <1>1, <1>2, <1>3, <1>4, <1>5, <1>6, <1>7 DEF Next, Core, vars

\* What is projected as programmed on a claim that is not deleting was attested
\* for the incarnation that takes the patch.
LEMMA ProjectedIsAttested ==
    ASSUME TypeInv, EndedItems, Attestation, NEW c \in Claims, pc = "project",
           Projectable(c), ~Incompatible(c), Projected(c) /= 0,
           rs[c] /= None, ~rs[c].deleting
    PROVE  <<rs[c].uid, Projected(c)>> \in attested
<1> USE DEF Attestation
<1>1. /\ crs[c] /= None
      /\ items[c] /= None
      /\ items[c].uid = crs[c].uid
      /\ items[c].allowed \/ items[c].del
      /\ cunit.ledger[c] /= None
      /\ cunit.ledger[c].uid = crs[c].uid
      /\ cunit.ledger[c].done => items[c].del
  BY DEF Projectable, Cached, Incompatible
<1>2. crs[c].fin
  BY <1>1 DEF WrittenHasFinalizer, HasFinalizer, Is
<1>3. Is(rs[c], crs[c].uid)
  BY <1>1, <1>2 DEF ReadStaysHeld, Is
<1>4. ~crs[c].deleting
  BY <1>1, <1>3 DEF EndedItems, Ended
<1>5. ~items[c].del /\ items[c].gen = crs[c].gen
  BY <1>1, <1>4 DEF CollectedAsRead, Is
<1>6. Projected(c) = crs[c].gen /\ cunit.ledger[c].prog = items[c].gen
  BY DEF Projected
<1>7. <<cunit.ledger[c].uid, cunit.ledger[c].prog>> \in attested
  BY <1>1, <1>5, <1>6 DEF LedgerAttested
<1> QED
  BY <1>1, <1>3, <1>5, <1>6, <1>7 DEF Is

LEMMA NextProgrammed ==
    ASSUME TypeInv, EndedItems, Attestation, ~Forced, ~Lag, [Next]_vars
    PROVE  ProgrammedIsAttested'
<1> USE DEF Attestation
<1> SUFFICES ASSUME NEW c \in Claims, rs'[c] /= None, ~rs'[c].deleting, rs'[c].prog /= 0
             PROVE  <<rs'[c].uid, rs'[c].prog>> \in attested'
  BY DEF ProgrammedIsAttested
<1>1. ASSUME NEW d \in Claims, NEW i \in Idents, NEW b \in Bodies, CreateClaim(d, i, b)
      PROVE  <<rs'[c].uid, rs'[c].prog>> \in attested'
  BY <1>1, Creation DEF ProgrammedIsAttested
<1>2. CASE ~\E d \in Claims, i \in Idents, b \in Bodies : CreateClaim(d, i, b)
  <2>1. rs[c] /= None /\ rs'[c].uid = rs[c].uid /\ ~rs[c].deleting
    BY <1>2, ClaimsKept DEF ClaimKept
  <2>2. CASE rs'[c].prog = rs[c].prog
    BY <2>1, <2>2, AttestedGrows DEF ProgrammedIsAttested
  <2>3. CASE pc = "project" /\ Projectable(c) /\ ~Incompatible(c) /\ rs'[c].prog = Projected(c)
    BY <2>1, <2>3, ProjectedIsAttested, AttestedGrows
  <2> QED
    BY <1>2, <2>2, <2>3, ProgWrites
<1> QED
  BY <1>1, <1>2

LEMMA InitAttestation == Init => Attestation
  BY DEF Init, Attestation, DeletionHasFinalizer, WrittenHasFinalizer, ReadStaysHeld,
     CollectedAsRead, LedgerAttested, ProgrammedIsAttested

LEMMA NextAttestation ==
    ASSUME TypeInv, HomesExist, EndedItems, Attestation, ~Forced, ~Lag, [Next]_vars
    PROVE  Attestation'
<1>1. DeletionHasFinalizer' /\ WrittenHasFinalizer' /\ ReadStaysHeld'
  BY NextDeletionHasFinalizer, NextWrittenHasFinalizer, NextReadHeld
<1>2. CollectedAsRead' /\ LedgerAttested' /\ ProgrammedIsAttested'
  BY NextCollected, NextLedgerAttested, NextProgrammed
<1> QED
  BY <1>1, <1>2 DEF Attestation

\* Programmed=True on a claim (projectZoneUnitStatus) is an observation by the
\* provider of exactly that incarnation at exactly that generation, whatever the
\* interleaving of users, policy changes, core, failures and the provider, when
\* reconciles read current objects and no administrator strips a finalizer.
THEOREM ProgrammedIsObserved == ~Lag /\ ~Forced => (Spec => []ProgrammedIsAttested)
<1> SUFFICES ASSUME ~Lag, ~Forced PROVE Spec => []ProgrammedIsAttested
  OBVIOUS
<1>1. Init => Attestation
  BY InitAttestation
<1>2. TypeInv /\ Completion /\ Attestation /\ [Next]_vars => Attestation'
  BY NextAttestation DEF Completion
<1>3. Attestation => ProgrammedIsAttested
  BY DEF Attestation
<1> QED
  BY <1>1, <1>2, <1>3, CompletionInvariant, PTL DEF Spec
-----------------------------------------------------------------------------
(***************************************************************************)
(* One claimant per record, and owners that keep what they own: the        *)
(* theorems about RecordHasOneClaimant and OwnerLosesForCause, while the   *)
(* policy stays what it is.                                                *)
(*                                                                         *)
(* Neither property is inductive.  What a reconcile publishes is decided   *)
(* by what it read, so the invariant says of every item collected so far   *)
(* that its claim is one acceptedRecordSetItems lets pass, and of every    *)
(* owner that has no reason to leave that it is still to be visited or has *)
(* been collected.  The items WriteRejected adds, those of predecessors    *)
(* whose cleanup goes on, were conflict-checked as owners of the unit that *)
(* was read; while nobody strips finalizers there are none.                *)
(***************************************************************************)

\* No stale reads, no stripped finalizers.
Orderly == ~Lag /\ ~Forced

\* The records that may not have two claimants: equal ones, and in an orderly
\* world conflicting ones.
Joined(i, j) == i = j \/ (Orderly /\ Conflict(i, j))

Apart(spec) ==
    \A c, d \in Claims :
        (c /= d /\ Active(spec[c]) /\ spec[d] /= None) => ~Joined(spec[c].ident, spec[d].ident)

\* A claim that policy disallows from the start never has an item.
NothingRetained ==
    \A c \in Claims :
        standing[c] = "notAllowed" =>
            items[c] = None /\ unit.spec[c] = None /\ cunit.spec[c] = None

\* While claims are visited the items are those of claims that passed the checks
\* of acceptedRecordSetItems, and they do not conflict.
Passed(c) ==
    /\ c \in Supported
    /\ items[c] = ItemOf(c)
    /\ crs[c].deleting => PendingDeletion(c)
    /\ ~LosesToDeletion(c)
    /\ ~LosesToOwner(c)
ItemsPassed ==
    pc = "accept" =>
        /\ \A c \in Claims : items[c] /= None => Passed(c)
        /\ \A c, d \in Claims :
              (c /= d /\ items[c] /= None /\ items[d] /= None)
                  => ~Conflict(items[c].ident, items[d].ident)

Claimants ==
    /\ Apart(unit.spec)
    /\ Apart(items)
    /\ NothingRetained
    /\ ItemsPassed

\* An item that asks for deletion is that of the claim which is there, or its
\* cleanup is complete.
DeletionHeld ==
    \A c \in Claims :
        Deleting(unit.spec[c]) => \/ Is(rs[c], unit.spec[c].uid)
                                  \/ Completed(unit.ledger[c], unit.spec[c].uid)

\* A completion that was read is still in the ledger as long as its item is.
CompletionKept ==
    \A c \in Claims :
        (pc /= "idle" /\ Deleting(unit.spec[c]) /\ Completed(cunit.ledger[c], unit.spec[c].uid))
            => Completed(unit.ledger[c], unit.spec[c].uid)

\* What is collected belongs to the incarnation that was read; no predecessor is
\* pending.
NoPredecessor ==
    \A c \in Claims :
        /\ pc /= "idle" => ~PendingPredecessor(c)
        /\ items[c] /= None => Is(crs[c], items[c].uid)
        /\ Deleting(items[c]) => ~Completed(cunit.ledger[c], items[c].uid)

Successions == DeletionHeld /\ CompletionKept /\ NoPredecessor

\* An owner of the unit that was read, for which nothing that was read is a
\* reason to leave.
Secure(c) ==
    /\ Active(cunit.spec[c])
    /\ Is(crs[c], cunit.spec[c].uid)
    /\ ~crs[c].deleting
    /\ crs[c].body = cunit.spec[c].body
    /\ standing[c] = "allowed"
    /\ ~\E d \in PendingDeletions \ {c} : Conflict(cunit.spec[c].ident, crs[d].ident)

OwnersKept ==
    /\ pc \in {"accept", "apply"} => cunit.spec = unit.spec
    /\ faults = 0 =>
          \A c \in Claims : Secure(c) =>
              /\ pc = "accept" => c \in todo \/ items[c] = ItemOf(c)
              /\ pc = "apply" => items[c] = ItemOf(c)

\* Records that may not have two claimants conflict, in either order.
LEMMA JoinedConflict ==
    ASSUME NEW i, NEW j, Joined(i, j)
    PROVE  Conflict(i, j) /\ Joined(j, i)
<1>1. i = j => Conflict(i, j)
  BY DEF Conflict
<1>2. Conflict(i, j) => Conflict(j, i)
  BY ConflictSymmetric
<1> QED
  BY <1>1, <1>2 DEF Joined

\* Without changes of policy every step leaves the standing of the claims.
LEMMA SamePolicy ==
    ASSUME TypeInv, MaxPolicyChanges = 0, [Next]_vars
    PROVE  standing' = standing
<1> USE DEF apiVars, userVars, cacheVars, loopVars, coreVars, providerVars
<1>1. ASSUME NEW c \in Claims, NEW s \in Standings, ChangeStanding(c, s)
      PROVE  FALSE
  BY <1>1 DEF ChangeStanding, TypeInv, TypeOK
<1>2. CASE User
  BY <1>1, <1>2 DEF User, CreateClaim, EditClaim, DeleteClaim, ForceFinalize
<1>3. CASE Core
  BY <1>3 DEF Core, BeginReconcile, AcceptNext, RetainNext, WriteRejected, ApplyUnit,
     ProjectStatus, AbortReconcile
<1>4. CASE Provider
  BY <1>4 DEF Provider, ProviderConflict, ProviderReady, ProviderReceipt,
     ProviderDispatch, ProviderCompleted, ProviderLand, ProviderPrune
<1> QED
  BY <1>2, <1>3, <1>4 DEF Next, vars

\* Users and the provider leave the reconciler alone, and the items of the unit.
LEMMA OutsideCore ==
    ASSUME TypeInv, [Next]_vars, ~Core
    PROVE  UNCHANGED <<crs, cunit, pc, todo, items, faults>> /\ unit'.spec = unit.spec
<1> USE DEF apiVars, userVars, cacheVars, loopVars, coreVars, providerVars
<1>1. CASE User
  BY <1>1 DEF User, CreateClaim, EditClaim, DeleteClaim, ForceFinalize, ChangeStanding
<1>2. CASE Provider
  <2>1. unit \in Unit
    BY DEF TypeInv, TypeOK
  <2>2. \A c \in Claims : \A e : WriteEntry(c, e) => unit'.spec = unit.spec
    BY <2>1 DEF WriteEntry, Unit
  <2> QED
    BY <1>2, <2>1, <2>2 DEF Provider, ProviderConflict, ProviderReady, ProviderReceipt,
       ProviderDispatch, ProviderCompleted, ProviderLand, ProviderPrune, Unit
<1> QED
  BY <1>1, <1>2 DEF Next, vars

\* What decides on a claim is what was read.
LEMMA SameVerdict ==
    ASSUME UNCHANGED <<crs, cunit, standing>>, NEW c \in Claims
    PROVE  /\ Supported' = Supported
           /\ ItemOf(c)' = ItemOf(c)
           /\ PendingDeletions' = PendingDeletions
           /\ ExistingOwners' = ExistingOwners
           /\ PendingDeletion(c)' <=> PendingDeletion(c)
           /\ PendingPredecessor(c)' <=> PendingPredecessor(c)
           /\ LosesToDeletion(c)' <=> LosesToDeletion(c)
           /\ LosesToOwner(c)' <=> LosesToOwner(c)
<1>1. /\ Supported' = Supported
      /\ ItemOf(c)' = ItemOf(c)
      /\ PendingDeletion(c)' <=> PendingDeletion(c)
      /\ PendingPredecessor(c)' <=> PendingPredecessor(c)
  BY DEF Supported, Cached, ItemOf, PendingDeletion, PendingPredecessor, Completed
<1>2. PendingDeletions' = PendingDeletions
  BY <1>1 DEF PendingDeletions, PendingDeletion, Completed
<1>3. \A d \in Claims : Kept(d)' <=> Kept(d)
  BY <1>1 DEF Kept, Completed
<1>4. ExistingOwners' = ExistingOwners
  BY <1>2, <1>3 DEF ExistingOwners, Conflict
<1> QED
  BY <1>1, <1>2, <1>4 DEF LosesToDeletion, LosesToOwner, Conflict

\* A claim that passed stays so as long as the reconcile lasts.
LEMMA PassedStays ==
    ASSUME UNCHANGED <<crs, cunit, standing>>, NEW c \in Claims, items'[c] = items[c], Passed(c)
    PROVE  Passed(c)'
BY SameVerdict DEF Passed

\* AcceptOwner adds the item of a claim that passes.
LEMMA AcceptedPasses ==
    ASSUME TypeInv, Claimants, standing' = standing, NEW c \in Claims, AcceptNext(c)
    PROVE  Claimants'
<1> USE DEF userVars, cacheVars, providerVars
<1>0. /\ items \in [Claims -> Item \cup {None}]
      /\ pc = "accept" /\ First(c) /\ UNCHANGED <<unit, crs, cunit, pc>>
  BY DEF AcceptNext, TypeInv, TypeOK, Visit
<1>1. c \in Supported /\ standing[c] = "allowed" /\ crs[c] /= None
  BY <1>0 DEF First, Supported, Cached
<1>2. /\ \A d \in Claims : items[d] /= None => Passed(d)
      /\ \A d, e \in Claims : (d /= e /\ items[d] /= None /\ items[e] /= None)
                                  => ~Conflict(items[d].ident, items[e].ident)
  BY <1>0 DEF Claimants, ItemsPassed
<1>3. ASSUME items' = items
      PROVE  Claimants'
  <2>1. \A d \in Claims : items'[d] /= None => Passed(d)'
    BY <1>0, <1>2, <1>3, PassedStays
  <2> QED
    BY <1>0, <1>2, <1>3, <2>1 DEF Claimants, Apart, NothingRetained, ItemsPassed, Active, Joined,
       Conflict
<1>4. CASE AcceptOwner(c)
  <2>1. /\ items'[c] = ItemOf(c)
        /\ \A d \in Claims \ {c} : items'[d] = items[d]
        /\ crs[c].deleting => PendingDeletion(c)
        /\ ~LosesToDeletion(c) /\ ~LosesToOwner(c) /\ ~LosesToItem(c)
    BY <1>0, <1>4 DEF AcceptOwner, LosesOwnership
  <2>2. items'[c].ident = crs[c].ident
    BY <2>1 DEF ItemOf
  <2>3. Passed(c)'
    BY <1>0, <1>1, <2>1, SameVerdict DEF Passed
  <2>4. \A d \in Claims : items'[d] /= None => Passed(d)'
    BY <1>0, <1>2, <2>1, <2>3, PassedStays
  <2>5. \A d \in Claims \ {c} : items[d] /= None =>
            /\ ~Conflict(items'[c].ident, items'[d].ident)
            /\ ~Conflict(items'[d].ident, items'[c].ident)
    BY <2>1, <2>2, ConflictSymmetric DEF LosesToItem
  <2>6. \A d, e \in Claims : (d /= e /\ items'[d] /= None /\ items'[e] /= None)
                                  => ~Conflict(items'[d].ident, items'[e].ident)
    BY <1>2, <2>1, <2>5
  <2>7. Apart(items')
    BY <2>6, JoinedConflict DEF Apart, Active
  <2>8. NothingRetained' /\ Apart(unit'.spec)
    BY <1>0, <1>1, <2>1 DEF Claimants, NothingRetained
  <2>9. ItemsPassed'
    BY <2>4, <2>6 DEF ItemsPassed, Conflict
  <2>10. Apart(items)' /\ Apart(unit.spec)'
    BY <2>7, <2>8 DEF Apart, Active, Joined, Conflict
  <2> QED
    BY <2>8, <2>9, <2>10 DEF Claimants
<1> QED
  BY <1>3, <1>4 DEF AcceptNext, AcceptConversionError, AcceptFinalized, AcceptRejected

\* The items of pending predecessors were conflict-checked as existing owners.
LEMMA PredecessorsApart ==
    ASSUME TypeInv, Claimants, Orderly => NoPredecessor, standing' = standing, WriteRejected
    PROVE  Claimants'
<1> USE DEF userVars, cacheVars, providerVars
<1>0. /\ items \in [Claims -> Item \cup {None}]
      /\ pc = "accept" /\ pc' = "apply" /\ UNCHANGED <<unit, crs, cunit>>
      /\ \A c \in Claims : items'[c] = IF PendingPredecessor(c) THEN cunit.spec[c] ELSE items[c]
  BY DEF WriteRejected, TypeInv, TypeOK
<1>1. ASSUME NEW c \in Claims, NEW d \in Claims, c /= d, Active(items'[c]), items'[d] /= None,
             Joined(items'[c].ident, items'[d].ident)
      PROVE  FALSE
  <2>1. ~PendingPredecessor(c) /\ items'[c] = items[c] /\ items[c] /= None
    BY <1>0, <1>1 DEF PendingPredecessor, Active
  <2>2. Passed(c) /\ items[c].ident = crs[c].ident /\ ~crs[c].deleting
    <3>1. Passed(c)
      BY <1>0, <2>1 DEF Claimants, ItemsPassed
    <3>2. ~ItemOf(c).del
      BY <1>1, <2>1, <3>1 DEF Active, Passed
    <3> QED
      BY <3>1, <3>2 DEF Passed, ItemOf
  <2>3. CASE ~PendingPredecessor(d)
    <3>1. items'[d] = items[d]
      BY <1>0, <2>3
    <3> QED
      BY <1>0, <1>1, <2>1, <3>1, JoinedConflict DEF Claimants, ItemsPassed
  <2>4. CASE PendingPredecessor(d)
    <3>1. /\ items'[d] = cunit.spec[d]
          /\ pc /= "idle"
      BY <1>0, <2>4
    <3>2. crs[c].ident = cunit.spec[d].ident
      BY <1>1, <2>1, <2>2, <2>4, <3>1 DEF Joined, NoPredecessor
    <3>3. Kept(d)
      BY <2>4 DEF Kept, PendingPredecessor
    <3>4. ~\E e \in PendingDeletions \ {d} : Conflict(cunit.spec[d].ident, crs[e].ident)
      <4>1. c \notin PendingDeletions
        BY <2>2 DEF PendingDeletions, PendingDeletion
      <4> QED
        BY <2>2, <3>2, <4>1 DEF Passed, LosesToDeletion
    <3>5. d \in ExistingOwners \ {c}
      BY <1>1, <3>3, <3>4 DEF ExistingOwners
    <3>6. Conflict(crs[c].ident, cunit.spec[d].ident)
      BY <3>2 DEF Conflict
    <3> QED
      BY <2>2, <3>5, <3>6 DEF Passed, LosesToOwner
  <2> QED
    BY <2>3, <2>4
<1>2. Apart(items')
  BY <1>1 DEF Apart
<1>3. Apart(items)' /\ Apart(unit.spec)'
  BY <1>0, <1>2 DEF Claimants, Apart, Active, Joined, Conflict
<1>4. NothingRetained'
  BY <1>0 DEF Claimants, NothingRetained, PendingPredecessor
<1>5. ItemsPassed'
  BY <1>0 DEF ItemsPassed
<1> QED
  BY <1>3, <1>4, <1>5 DEF Claimants

\* Every step keeps the published and the collected items apart.
LEMMA NextClaimants ==
    ASSUME TypeInv, Claimants, Orderly => NoPredecessor, MaxPolicyChanges = 0, [Next]_vars
    PROVE  Claimants'
<1> USE DEF apiVars, userVars, cacheVars, loopVars, coreVars, providerVars
<1>0. standing' = standing
  BY SamePolicy
<1>1. CASE ~Core
  <2>1. UNCHANGED <<crs, cunit, pc, items>> /\ unit'.spec = unit.spec
    BY <1>1, OutsideCore
  <2>2. ItemsPassed'
    <3>1. \A c \in Claims : Passed(c) => Passed(c)'
      BY <1>0, <2>1, PassedStays
    <3> QED
      BY <2>1, <3>1 DEF Claimants, ItemsPassed, Conflict
  <2>3. Apart(items)' /\ Apart(unit.spec)'
    <3>1. Apart(items') /\ Apart(unit'.spec)
      BY <2>1 DEF Claimants
    <3> QED
      BY <3>1 DEF Apart, Active, Joined, Conflict
  <2>4. NothingRetained'
    BY <1>0, <2>1 DEF Claimants, NothingRetained
  <2> QED
    BY <2>2, <2>3, <2>4 DEF Claimants
<1>2. ASSUME \A c \in Claims : items'[c] = None, UNCHANGED unit, cunit' \in {cunit, unit}
      PROVE  Claimants'
  BY <1>0, <1>2 DEF Claimants, Apart, NothingRetained, ItemsPassed, Active, Joined, Conflict
<1>3. CASE BeginReconcile
  BY <1>2, <1>3 DEF BeginReconcile, ReadCache
<1>4. ASSUME NEW c \in Claims, AcceptNext(c)
      PROVE  Claimants'
  BY <1>0, <1>4, AcceptedPasses
<1>5. ASSUME NEW c \in Claims, RetainNext(c)
      PROVE  FALSE
  BY <1>5 DEF RetainNext, Retainable, PolicyRejected, Claimants, NothingRetained
<1>6. CASE WriteRejected
  BY <1>0, <1>6, PredecessorsApart
<1>7. CASE ApplyUnit
  <2>1. /\ UNCHANGED <<crs, cunit, items>>
        /\ pc' = "project"
        /\ unit'.spec = unit.spec \/ unit'.spec = items
    <3>1. unit \in Unit
      BY DEF TypeInv, TypeOK
    <3> QED
      BY <1>7, <3>1 DEF ApplyUnit, Unit
  <2> QED
    <3>1. Apart(items) /\ Apart(unit.spec) /\ NothingRetained
      BY DEF Claimants
    <3>2. Apart(items') /\ Apart(unit'.spec)
      BY <2>1, <3>1
    <3>3. Apart(items)' /\ Apart(unit.spec)'
      BY <3>2 DEF Apart, Active, Joined, Conflict
    <3>4. NothingRetained' /\ ItemsPassed'
      BY <1>0, <2>1, <3>1 DEF NothingRetained, ItemsPassed
    <3> QED
      BY <3>3, <3>4 DEF Claimants
<1>8. CASE ProjectStatus \/ AbortReconcile
  BY <1>2, <1>8 DEF ProjectStatus, AbortReconcile
<1> QED
  BY <1>1, <1>3, <1>4, <1>5, <1>6, <1>7, <1>8 DEF Core

\* The copies change, and the reconciler leaves idle, only when a reconcile begins.
LEMMA CopiesStay ==
    ASSUME TypeInv, [Next]_vars, ~BeginReconcile
    PROVE  UNCHANGED <<crs, cunit>> /\ (pc' /= "idle" => pc /= "idle")
<1> USE DEF apiVars, userVars, cacheVars, loopVars, coreVars, providerVars
<1>1. CASE ~Core
  BY <1>1, OutsideCore
<1>2. CASE Core
  BY <1>2 DEF Core, AcceptNext, RetainNext, Visit, WriteRejected, ApplyUnit, ProjectStatus,
     AbortReconcile
<1> QED
  BY <1>1, <1>2

\* The completion of a deleting item stays in the ledger while the item stays.
LEMMA CompletionStays ==
    ASSUME TypeInv, [Next]_vars, NEW c \in Claims, Deleting(unit.spec[c]),
           Completed(unit.ledger[c], unit.spec[c].uid)
    PROVE  Completed(unit'.ledger[c], unit.spec[c].uid)
<1> USE DEF apiVars, userVars, cacheVars, loopVars, coreVars, providerVars
<1>0. /\ unit \in Unit
      /\ unit.ledger \in [Claims -> Entry \cup {None}]
      /\ unit.spec[c] \in Item /\ unit.spec[c].del
      /\ unit.ledger[c] \in Entry /\ unit.ledger[c].done
      /\ unit.ledger[c].uid = unit.spec[c].uid
  BY DEF TypeInv, TypeOK, Unit, Deleting, Completed
<1>1. CASE unit'.ledger[c] = unit.ledger[c]
  BY <1>1
<1>2. OwnEntry(c) = unit.ledger[c]
  BY <1>0 DEF OwnEntry, Completed
<1>3. ASSUME NEW d \in Claims, NEW e, WriteEntry(d, e), d = c => e \in Entry /\ e.done
      PROVE  Completed(unit'.ledger[c], unit.spec[c].uid)
  <2>1. unit'.ledger = [unit.ledger EXCEPT ![d] =
                           [e EXCEPT !.uid = unit.spec[d].uid, !.gen = unit.spec[d].gen]]
    BY <1>0, <1>3 DEF WriteEntry, Unit
  <2>2. CASE d = c
    <3>1. unit'.ledger[c] = [e EXCEPT !.uid = unit.spec[c].uid, !.gen = unit.spec[c].gen]
      BY <1>0, <2>1, <2>2
    <3>2. unit'.ledger[c].done /\ unit'.ledger[c].uid = unit.spec[c].uid
          /\ unit'.ledger[c] /= None
      BY <1>3, <2>2, <3>1 DEF Entry, None
    <3> QED
      BY <3>2 DEF Completed
  <2>3. CASE d /= c
    BY <1>0, <1>1, <2>1, <2>3
  <2> QED
    BY <2>2, <2>3
<1>4. ASSUME NEW d \in Claims,
             \/ ProviderConflict(d)
             \/ ProviderReady(d)
             \/ ProviderReceipt(d)
             \/ ProviderCompleted(d)
      PROVE  Completed(unit'.ledger[c], unit.spec[c].uid)
  <2>1. /\ 0 \in Generations
        /\ unit.spec[c].ident \in Idents
        /\ unit.spec[c].gen \in Generations
    BY <1>0, BoundsAssumption DEF Generations, Item
  <2>2. CASE ProviderConflict(d)
    <3>1. [OwnEntry(c) EXCEPT !.prog = 0] \in Entry /\ [OwnEntry(c) EXCEPT !.prog = 0].done
      BY <1>0, <1>2, <2>1 DEF Entry
    <3> QED
      BY <1>3, <2>2, <3>1 DEF ProviderConflict
  <2>3. CASE ProviderReady(d)
    BY <1>0, <1>1, <1>3, <2>3 DEF ProviderReady, Active, WriteEntry, Unit
  <2>4. CASE ProviderReceipt(d)
    BY <1>0, <1>1, <1>3, <2>4 DEF ProviderReceipt, Active, WriteEntry, Unit
  <2>5. CASE ProviderCompleted(d)
    <3> DEFINE e == [OwnEntry(d) EXCEPT !.done = TRUE, !.prog = unit.spec[d].gen]
    <3>1. d = c => e \in Entry /\ e.done
      BY <1>0, <1>2, <2>1 DEF Entry
    <3> QED
      BY <1>3, <2>5, <3>1 DEF ProviderCompleted
  <2> QED
    BY <1>4, <2>2, <2>3, <2>4, <2>5
<1>5. CASE ProviderPrune
  <2>1. ~Prunable(c)
    BY <1>0 DEF Prunable, Item, None
  <2> QED
    BY <1>0, <1>1, <1>5, <2>1 DEF ProviderPrune, Unit
<1>6. CASE ProviderLand \/ (\E d \in Claims : ProviderDispatch(d)) \/ User
  BY <1>1, <1>6 DEF ProviderLand, ProviderDispatch, User, CreateClaim, EditClaim, DeleteClaim,
     ForceFinalize, ChangeStanding
<1>7. CASE Core
  BY <1>0, <1>1, <1>7 DEF Core, BeginReconcile, AcceptNext, RetainNext, WriteRejected, ApplyUnit,
     ProjectStatus, AbortReconcile, Unit
<1> QED
  BY <1>1, <1>4, <1>5, <1>6, <1>7 DEF Next, Provider, vars

\* A deleting item keeps its claim until the completion is in the ledger.
LEMMA NextDeletionHeld ==
    ASSUME TypeInv, EndedItems, Attestation, Successions, ~Forced, [Next]_vars
    PROVE  DeletionHeld'
<1> USE DEF Attestation, Successions
<1> SUFFICES ASSUME NEW c \in Claims, Deleting(unit'.spec[c])
             PROVE  \/ Is(rs'[c], unit'.spec[c].uid)
                    \/ Completed(unit'.ledger[c], unit'.spec[c].uid)
  BY DEF DeletionHeld, Deleting, Is, Completed
<1>1. CASE unit'.spec = items /\ UNCHANGED rs
  <2>1. Deleting(items[c]) /\ Is(crs[c], items[c].uid) /\ pc /= "idle"
    BY <1>1 DEF NoPredecessor, CollectedAsRead, Deleting
  <2>2. crs[c].deleting /\ crs[c].fin
    BY <2>1 DEF CollectedAsRead, DeletionHasFinalizer, Deleting, Is
  <2>3. Is(rs[c], crs[c].uid)
    BY <2>1, <2>2 DEF ReadStaysHeld, Is, Deleting
  <2> QED
    BY <1>1, <2>1, <2>3 DEF Is
<1>2. CASE unit'.spec = unit.spec
  <2>1. CASE Completed(unit.ledger[c], unit.spec[c].uid)
    BY <1>2, <2>1, CompletionStays
  <2>2. CASE Is(rs[c], unit.spec[c].uid) /\ ~Completed(unit.ledger[c], unit.spec[c].uid)
    <3>1. rs[c].fin
      BY <1>2, <2>2 DEF WrittenHasFinalizer, HasFinalizer, Is, Deleting
    <3>2. ASSUME NEW d \in Claims, NEW i \in Idents, NEW b \in Bodies, CreateClaim(d, i, b)
          PROVE  rs'[c] = rs[c]
      BY <2>2, <3>2, Creation DEF Is
    <3>3. ~Released(c)
      <4>1. ASSUME Released(c)
            PROVE  FALSE
        <5>1. crs[c].fin /\ Is(rs[c], crs[c].uid)
          BY <4>1 DEF Released, DeletionHasFinalizer, ReadStaysHeld
        <5>2. Completed(cunit.ledger[c], unit.spec[c].uid)
          BY <2>2, <4>1, <5>1 DEF Released, PendingDeletion, Is
        <5> QED
          BY <1>2, <2>2, <4>1, <5>2 DEF Released, CompletionKept
      <4> QED
        BY <4>1
    <3>4. CASE ~\E d \in Claims, i \in Idents, b \in Bodies : CreateClaim(d, i, b)
      BY <1>2, <2>2, <3>1, <3>3, <3>4, ClaimStep DEF Steady, ClaimKept, Is
    <3> QED
      BY <1>2, <2>2, <3>2, <3>4
  <2> QED
    BY <1>2, <2>1, <2>2 DEF DeletionHeld
<1> QED
  BY <1>1, <1>2, UnitSteps

LEMMA NextCompletionKept ==
    ASSUME TypeInv, Successions, ~Lag, [Next]_vars
    PROVE  CompletionKept'
<1> USE DEF Successions
<1> SUFFICES ASSUME NEW c \in Claims, pc' /= "idle", Deleting(unit'.spec[c]),
                    Completed(cunit'.ledger[c], unit'.spec[c].uid)
             PROVE  Completed(unit'.ledger[c], unit'.spec[c].uid)
  BY DEF CompletionKept, Deleting, Completed
<1>1. CASE BeginReconcile
  BY <1>1 DEF BeginReconcile, ReadCache, apiVars
<1>2. CASE ~BeginReconcile
  <2>1. pc /= "idle" /\ cunit' = cunit
    BY <1>2, CopiesStay
  <2>2. CASE unit'.spec = unit.spec
    BY <2>1, <2>2, CompletionStays DEF CompletionKept
  <2>3. CASE unit'.spec = items
    BY <2>1, <2>3 DEF NoPredecessor
  <2> QED
    BY <2>2, <2>3, UnitSteps
<1> QED
  BY <1>1, <1>2

LEMMA NextNoPredecessor ==
    ASSUME TypeInv, Attestation, Successions, ~Lag, [Next]_vars
    PROVE  NoPredecessor'
<1> USE DEF Attestation, Successions
<1>1. CASE BeginReconcile
  <2>1. crs' = rs /\ cunit' = unit /\ \A c \in Claims : items'[c] = None
    <3>1. rs \in [Claims -> RecordSet \cup {None}]
      BY DEF TypeInv, TypeOK
    <3> QED
      BY <1>1, <3>1 DEF BeginReconcile, ReadCache
  <2>2. \A c \in Claims : ~PendingPredecessor(c)'
    BY <2>1 DEF PendingPredecessor, Cached, DeletionHeld, Deleting, Is
  <2> QED
    BY <2>1, <2>2 DEF NoPredecessor, Deleting
<1>2. CASE ~BeginReconcile
  <2>1. UNCHANGED <<crs, cunit>> /\ (pc' /= "idle" => pc /= "idle")
    BY <1>2, CopiesStay
  <2>2. \A c \in Claims : PendingPredecessor(c)' <=> PendingPredecessor(c)
    BY <2>1 DEF PendingPredecessor, Cached, Completed
  <2>3. ASSUME NEW c \in Claims, items'[c] /= None
        PROVE  /\ Is(crs[c], items'[c].uid)
               /\ Deleting(items'[c]) => ~Completed(cunit.ledger[c], items'[c].uid)
    <3>1. CASE items'[c] = items[c]
      BY <2>3, <3>1 DEF NoPredecessor
    <3>2. CASE Collected(c)
      <4>1. crs[c] /= None /\ items'[c].uid = crs[c].uid /\ items'[c].del = crs[c].deleting
        BY <2>3, <3>2, CollectedHeld DEF Collected
      <4> QED
        BY <3>2, <4>1 DEF Collected, PendingDeletion, Deleting, Is
    <3>3. ~(PendingPredecessor(c) /\ pc' = "apply")
      BY <2>1 DEF NoPredecessor
    <3> QED
      BY <2>3, <3>1, <3>2, <3>3, NewItems
  <2> QED
    BY <2>1, <2>2, <2>3 DEF NoPredecessor, Deleting, Is, Completed
<1> QED
  BY <1>1, <1>2

LEMMA NextSuccessions ==
    ASSUME TypeInv, EndedItems, Attestation, Successions, ~Forced, ~Lag, [Next]_vars
    PROVE  Successions'
BY NextDeletionHeld, NextCompletionKept, NextNoPredecessor DEF Successions

\* In an orderly world: whose incarnation everything is, and what holds of the
\* claims and of their successors.
OrderlyInv == Orderly => Attestation /\ Successions

LEMMA InitClaimants == Init => Claimants /\ OrderlyInv
<1> SUFFICES ASSUME Init PROVE Claimants /\ OrderlyInv
  OBVIOUS
<1>1. Claimants
  BY DEF Init, Claimants, Apart, NothingRetained, ItemsPassed, Active
<1>2. Attestation
  BY InitAttestation
<1>3. Successions
  BY DEF Init, Successions, DeletionHeld, CompletionKept, NoPredecessor, Deleting
<1> QED
  BY <1>1, <1>2, <1>3 DEF OrderlyInv

LEMMA NextOrderly == TypeInv /\ Completion /\ OrderlyInv /\ [Next]_vars => OrderlyInv'
<1> SUFFICES ASSUME TypeInv, Completion, Orderly, Attestation, Successions, [Next]_vars
             PROVE  Attestation' /\ Successions'
  BY DEF OrderlyInv, Orderly
<1>1. HomesExist /\ EndedItems
  BY DEF Completion
<1> QED
  BY <1>1, NextAttestation, NextSuccessions DEF Orderly

LEMMA ClaimantsInvariant ==
    MaxPolicyChanges = 0 => (Spec => [](TypeInv /\ Completion /\ OrderlyInv /\ Claimants))
<1> SUFFICES ASSUME MaxPolicyChanges = 0
             PROVE  Spec => [](TypeInv /\ Completion /\ OrderlyInv /\ Claimants)
  OBVIOUS
<1>1. Init => Claimants /\ OrderlyInv
  BY InitClaimants
<1>2. TypeInv /\ Completion /\ OrderlyInv /\ Claimants /\ [Next]_vars
          => (OrderlyInv /\ Claimants)'
  BY NextOrderly, NextClaimants DEF OrderlyInv, Successions
<1> QED
  BY <1>1, <1>2, CompletionInvariant, PTL DEF Spec

\* A record that acceptedRecordSetItems gives an owner has no second item in the
\* unit, neither a rival's nor a pending predecessor's, whatever the caches
\* showed, whichever reconciles were cut off and with finalizers stripped or
\* not, as long as the standing of the claims does not change.
THEOREM OneClaimantPerRecord == MaxPolicyChanges = 0 => (Spec => []RecordHasOneClaimant)
<1> SUFFICES ASSUME MaxPolicyChanges = 0 PROVE Spec => []RecordHasOneClaimant
  OBVIOUS
<1>1. Claimants => RecordHasOneClaimant
  BY DEF Claimants, Apart, Joined, RecordHasOneClaimant
<1> QED
  BY <1>1, ClaimantsInvariant, PTL

\* What acceptedRecordSetItems would decide of an owner with no reason to leave.
LEMMA SecureIsKept ==
    ASSUME TypeInv, HomesExist, Orderly, Claimants, cunit.spec = unit.spec, pc = "accept",
           NEW c \in Claims, Secure(c)
    PROVE  ~LosesOwnership(c)
<1>0. /\ cunit.spec[c] \in Item /\ cunit.spec[c] /= None
      /\ cunit.spec[c].allowed /\ ~cunit.spec[c].del
      /\ crs[c] \in RecordSet /\ crs[c] /= None
      /\ crs[c].uid = cunit.spec[c].uid
      /\ c \in Supported
  BY DEF Secure, Active, Is, TypeInv, TypeOK, Unit, Supported, Cached
<1>1. crs[c].ident = cunit.spec[c].ident
  <2>1. PICK home \in Placed : Homes(home)
    BY DEF HomesExist
  <2>2. AtHome(home, crs[c], c) /\ AtHome(home, cunit.spec[c], c)
    BY <2>1 DEF Homes
  <2>3. home[crs[c].uid] = [claim |-> c, ident |-> crs[c].ident]
        /\ home[crs[c].uid] = [claim |-> c, ident |-> cunit.spec[c].ident]
    BY <1>0, <2>2 DEF AtHome
  <2> QED
    BY <2>3
<1>2. ~Superseded(c)
  <2>1. SpecEqual(cunit.spec[c], ItemOf(c))
    <3> DEFINE i == cunit.spec[c]
               j == ItemOf(c)
    <3>1. i \in Item /\ j \in Item
      BY <1>0, ItemTypes DEF TypeInv
    <3>2. i.uid = j.uid /\ i.ident = j.ident /\ i.body = j.body /\ i.del = j.del
      BY <1>0, <1>1 DEF ItemOf, Secure, Item, RecordSet
    <3> HIDE DEF i, j
    <3>3. [i EXCEPT !.gen = j.gen, !.allowed = j.allowed]
              = [uid |-> j.uid, ident |-> j.ident, body |-> j.body, gen |-> j.gen,
                 allowed |-> j.allowed, del |-> j.del]
      BY <3>1, <3>2 DEF Item
    <3>4. j = [uid |-> j.uid, ident |-> j.ident, body |-> j.body, gen |-> j.gen,
               allowed |-> j.allowed, del |-> j.del]
      BY <3>1 DEF Item
    <3>5. SpecEqual(i, j)
      BY <3>3, <3>4 DEF SpecEqual
    <3> QED
      BY <3>5 DEF i, j
  <2> QED
    BY <1>0, <2>1 DEF Superseded, PendingPredecessor
<1>3. ~\E d \in PendingDeletions \ {c} : Conflict(crs[c].ident, crs[d].ident)
  BY <1>1 DEF Secure
<1>4. ~LosesToDeletion(c)
  BY <1>3 DEF LosesToDeletion
<1>5. ~LosesToOwner(c)
  <2>1. ASSUME NEW o \in ExistingOwners \ {c}, Conflict(crs[c].ident, cunit.spec[o].ident)
        PROVE  FALSE
    <3>1. o \in Claims /\ cunit.spec[o] /= None
      BY DEF ExistingOwners, Kept
    <3>2. Joined(cunit.spec[c].ident, cunit.spec[o].ident)
      BY <1>1, <2>1 DEF Joined
    <3> QED
      BY <3>1, <3>2 DEF Claimants, Apart, Secure
  <2> QED
    BY <2>1 DEF LosesToOwner
<1>6. c \in ExistingOwners
  BY <1>0, <1>1, <1>3 DEF ExistingOwners, Kept
<1>7. ~LosesToItem(c)
  <2>1. ASSUME NEW o \in Claims \ {c}, items[o] /= None, Conflict(crs[c].ident, items[o].ident)
        PROVE  FALSE
    <3>1. Passed(o)
      BY <2>1 DEF Claimants, ItemsPassed
    <3>2. items[o].ident = crs[o].ident
      BY <3>1 DEF Passed, ItemOf
    <3>3. Conflict(crs[o].ident, cunit.spec[c].ident)
      BY <1>1, <2>1, <3>2, ConflictSymmetric
    <3> QED
      BY <1>6, <3>1, <3>3 DEF Passed, LosesToOwner
  <2> QED
    BY <2>1 DEF LosesToItem
<1> QED
  BY <1>2, <1>4, <1>5, <1>7 DEF LosesOwnership

\* An owner with no reason to leave is visited, and is collected on the visit.
LEMMA NextOwnersKept ==
    ASSUME TypeInv, HomesExist, Orderly, Claimants, OwnersKept, MaxPolicyChanges = 0, [Next]_vars
    PROVE  OwnersKept'
<1> USE DEF apiVars, userVars, cacheVars, loopVars, coreVars, providerVars
<1>0. /\ standing' = standing
      /\ faults \in Nat
      /\ items \in [Claims -> Item \cup {None}]
  BY SamePolicy DEF TypeInv, TypeOK
<1>1. ASSUME UNCHANGED <<crs, cunit>>, NEW c \in Claims
      PROVE  (Secure(c)' <=> Secure(c)) /\ ItemOf(c)' = ItemOf(c)
  BY <1>0, <1>1, SameVerdict DEF Secure, Is, Active, Conflict
<1>2. CASE ~Core
  <2>1. UNCHANGED <<crs, cunit, pc, todo, items, faults>> /\ unit'.spec = unit.spec
    BY <1>2, OutsideCore
  <2> QED
    BY <1>1, <2>1 DEF OwnersKept
<1>3. CASE BeginReconcile
  <2>1. cunit' = unit /\ unit' = unit /\ pc' = "accept" /\ todo' = (Supported \cup Retainable)'
    BY <1>3 DEF BeginReconcile, ReadCache, Orderly
  <2>2. \A c \in Claims : Secure(c)' => c \in Supported'
    BY DEF Secure, Is, Supported, Cached
  <2> QED
    BY <2>1, <2>2 DEF OwnersKept
<1>4. ASSUME NEW d \in Claims, AcceptNext(d)
      PROVE  OwnersKept'
  <2>1. /\ pc = "accept" /\ pc' = "accept"
        /\ UNCHANGED <<unit, crs, cunit>>
        /\ todo' = todo \ {d}
    BY <1>4 DEF AcceptNext, Visit
  <2>2. ASSUME faults' = 0, NEW c \in Claims, Secure(c)
        PROVE  c \in todo' \/ items'[c] = ItemOf(c)
    <3>1. faults = 0
      BY <1>0, <1>4, <2>2 DEF AcceptNext, AcceptConversionError, Fault, AcceptFinalized,
         AcceptRejected, AcceptOwner
    <3>2. c \in todo \/ items[c] = ItemOf(c)
      BY <2>1, <2>2, <3>1 DEF OwnersKept
    <3>3. CASE c /= d
      <4>1. items'[c] = items[c]
        BY <1>0, <1>4, <3>3 DEF AcceptNext, AcceptConversionError, AcceptFinalized,
           AcceptRejected, AcceptOwner
      <4> QED
        BY <2>1, <3>2, <3>3, <4>1
    <3>4. CASE c = d
      <4>1. ~crs[d].deleting /\ ~LosesOwnership(d)
        BY <2>1, <2>2, <3>4, SecureIsKept DEF Secure, OwnersKept
      <4>2. ~AcceptConversionError(d)
        BY <1>0, <2>2 DEF AcceptConversionError, Fault
      <4>3. AcceptOwner(d)
        BY <1>4, <4>1, <4>2 DEF AcceptNext, AcceptFinalized, AcceptRejected
      <4> QED
        BY <1>0, <3>4, <4>3 DEF AcceptOwner
    <3> QED
      BY <3>3, <3>4
  <2> QED
    BY <1>1, <2>1, <2>2 DEF OwnersKept
<1>5. ASSUME NEW c \in Claims, RetainNext(c)
      PROVE  FALSE
  BY <1>5 DEF RetainNext, Retainable, PolicyRejected, Claimants, NothingRetained
<1>6. CASE WriteRejected
  <2>1. /\ pc = "accept" /\ pc' = "apply" /\ todo = {}
        /\ UNCHANGED <<unit, crs, cunit, faults>>
        /\ \A c \in Claims : ~PendingPredecessor(c) => items'[c] = items[c]
    BY <1>6 DEF WriteRejected
  <2>2. \A c \in Claims : Secure(c) => ~PendingPredecessor(c)
    BY DEF Secure, Active, PendingPredecessor
  <2> QED
    BY <1>1, <2>1, <2>2 DEF OwnersKept
<1>7. CASE ApplyUnit \/ ProjectStatus \/ AbortReconcile
  <2>1. pc' \in {"project", "idle"}
    BY <1>7 DEF ApplyUnit, ProjectStatus, AbortReconcile
  <2> QED
    BY <2>1 DEF OwnersKept
<1> QED
  BY <1>2, <1>3, <1>4, <1>5, <1>6, <1>7 DEF Core

\* Of the owners of the unit that was read only those go which have a reason to.
LEMMA StepKeepsOwners ==
    ASSUME TypeInv, OwnersKept, [Next]_vars, NEW c \in Claims, Active(unit.spec[c]),
           ~(Active(unit'.spec[c]) /\ unit'.spec[c].uid = unit.spec[c].uid)
    PROVE  \/ crs[c] = None
           \/ crs[c].uid /= unit.spec[c].uid
           \/ crs[c].deleting
           \/ crs[c].body /= unit.spec[c].body
           \/ standing[c] /= "allowed"
           \/ faults > 0
           \/ \E d \in PendingDeletions \ {c} : Conflict(unit.spec[c].ident, crs[d].ident)
<1> SUFFICES ASSUME ~(faults > 0), cunit.spec = unit.spec => Secure(c)
             PROVE  FALSE
  BY DEF Secure, Is
<1>1. unit'.spec /= unit.spec
  OBVIOUS
<1>2. ApplyUnit
  <2>1. Core
    BY <1>1, OutsideCore
  <2>2. unit' /= unit
    BY <1>1
  <2> QED
    BY <2>1, <2>2 DEF Core, BeginReconcile, AcceptNext, RetainNext, WriteRejected, ProjectStatus,
       AbortReconcile, apiVars
<1>3. pc = "apply" /\ unit'.spec = items
  <2>1. unit \in Unit
    BY DEF TypeInv, TypeOK
  <2> QED
    BY <1>1, <1>2, <2>1 DEF ApplyUnit, Unit
<1>4. faults = 0
  BY DEF TypeInv, TypeOK
<1>5. Secure(c) /\ items[c] = ItemOf(c) /\ cunit.spec = unit.spec
  BY <1>3, <1>4 DEF OwnersKept
<1>6. crs[c] \in RecordSet /\ items[c] \in Item \cup {None}
  BY <1>5 DEF Secure, Is, TypeInv, TypeOK
<1>7. items[c].allowed /\ ~items[c].del /\ items[c].uid = unit.spec[c].uid /\ items[c] /= None
  BY <1>5, <1>6, ItemTypes DEF ItemOf, Secure, Is, TypeInv, Item, None
<1> QED
  BY <1>3, <1>7 DEF Active

\* An owner leaves the unit, or stops being active, only because of what its own
\* claim became or because a conflicting claim is being deleted: while policy
\* stays, reconciles read current objects and nobody strips finalizers, no
\* later, older or recreated rival takes its record, in whatever order claims
\* are created, edited and deleted.
THEOREM OwnersLoseForCause ==
    MaxPolicyChanges = 0 /\ ~Lag /\ ~Forced => (Spec => OwnerLosesForCause)
<1> SUFFICES ASSUME MaxPolicyChanges = 0, Orderly PROVE Spec => OwnerLosesForCause
  BY DEF Orderly
<1>1. Init => OwnersKept
  BY DEF Init, OwnersKept
<1>2. TypeInv /\ Completion /\ Claimants /\ OwnersKept /\ [Next]_vars => OwnersKept'
  BY NextOwnersKept DEF Completion
<1>3. TypeInv /\ OwnersKept /\ [Next]_vars =>
          [\A c \in Claims :
             (/\ Active(unit.spec[c])
              /\ ~(Active(unit'.spec[c]) /\ unit'.spec[c].uid = unit.spec[c].uid)) =>
               \/ crs[c] = None
               \/ crs[c].uid /= unit.spec[c].uid
               \/ crs[c].deleting
               \/ crs[c].body /= unit.spec[c].body
               \/ standing[c] /= "allowed"
               \/ faults > 0
               \/ \E d \in PendingDeletions \ {c} :
                     Conflict(unit.spec[c].ident, crs[d].ident)]_vars
  BY StepKeepsOwners
<1>4. Spec => [](TypeInv /\ Completion /\ OrderlyInv /\ Claimants)
  BY ClaimantsInvariant
<1> QED
  BY <1>1, <1>2, <1>3, <1>4, PTL DEF Spec, OwnerLosesForCause

=============================================================================
