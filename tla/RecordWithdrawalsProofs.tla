----------------------- MODULE RecordWithdrawalsProofs -----------------------
(***************************************************************************)
(* Proofs about RecordWithdrawals: what claims show was established for    *)
(* them, the history of a live claim is kept, a gap in it blocks success,  *)
(* and a verified address is absent.                                       *)
(*                                                                         *)
(* Base is the type invariant.  Established follows a success from the     *)
(* provider to the claim; Keeping says that core and provider work on one  *)
(* inventory; Gaps marks what lost its private state; Absences orders the  *)
(* snapshots and ties every window and every success to the DNS.  Lemmas   *)
(* named ...Is say what an operator or an action does, for the lemmas      *)
(* named ...Step, which show that every step keeps one part.               *)
(***************************************************************************)
EXTENDS RecordWithdrawals, FiniteSetTheorems, WellFoundedInduction, TLAPS
-----------------------------------------------------------------------------
(* Types.                                                                  *)

UidsOrNone == 0..MaxUids
Bindings == Configs \X Nat
Snapshots == [serial : Nat, content : Content]
Evidences == [id : UidsOrNone, policy : {<<>>} \cup (Configs \X Content), views : SUBSET Views,
              min : Nat, positive : 0..Ttl, window : 0..(Horizon + 1), notBefore : 0..Horizon,
              next : -2..1, missing : BOOLEAN]
Policies == {<<>>} \cup (Bindings \X Content \X BOOLEAN \X UidsOrNone)
Schedules == [id : UidsOrNone, policy : Policies, binding : {<<>>} \cup Bindings,
              omission : {<<>>} \cup Snapshots, next : -2..1, st : Evidences]
Units == [observed : BOOLEAN, has : BOOLEAN, class : Nat, items : [Keys -> Item],
          results : [Keys -> Result], sched : [Keys -> Schedules], pub : 0..Ttl,
          cursor : Keys \cup {0}]
Envs == [wanted : BOOLEAN, granted : BOOLEAN, accepted : BOOLEAN, config : Configs,
         class : Nat, others : 0..MaxClaims]
Dns == [snap : Snapshots, told : Seq(Snapshots), server : Snapshots,
        cache : [Views -> 0..Ttl], since : 0..Horizon]
Reads == [at : {"read"}, uids : [Keys -> UidsOrNone]]
Writes == [at : {"status"}, locked : BOOLEAN, items : [Keys -> Item], rest : SUBSET Keys,
           todo : [Keys -> Claim]]
Probes == [at : {"probe"}, snap : Snapshots, ack : Snapshots, env : Bindings,
           probed : BOOLEAN, left : Nat, due : SUBSET Keys, new : Units]
Budgets == [uids : UidsOrNone, flips : 0..MaxFlips, events : 0..MaxEvents,
            verified : SUBSET UidsOrNone, lost : SUBSET UidsOrNone]

\* A window has an end only while it is open.
Windowed(u) == \A k \in Keys : u.sched[k].st.notBefore > 0 => u.sched[k].st.window > 0

\* The types of all variables, and of what a pass of the hosted controller holds.
Base ==
    /\ claim \in [Keys -> Claim] /\ waiver \in [Keys -> Waiver] /\ env \in Envs
    /\ unit \in Units /\ dns \in Dns /\ budget \in Budgets
    /\ core \in {Idle} \cup Reads \cup Writes
    /\ hosted \in {Idle} \cup Probes
    /\ Windowed(unit) /\ (hosted.at = "probe" => Windowed(hosted.new))

-----------------------------------------------------------------------------
(* What claims show.                                                       *)

\* Successes are in the results, on their way to a claim, or in its status.
Established ==
    /\ \A k \in Keys : unit.results[k].withdrawn = "True" => unit.results[k].uid \in budget.verified
    /\ NoInheritedSuccess /\ OverrideBound
    /\ core.at = "status" => \A k \in Keys :
          /\ core.todo[k].withdrawn = "True" => core.todo[k].uid \in budget.verified
          /\ core.todo[k].override \in {0, core.todo[k].uid}

-----------------------------------------------------------------------------
(* Items.                                                                  *)

\* The UIDs of claim k that core knows, and those that the provider knows.
Asked(k) ==
    {claim[k].uid} \cup (IF core.at = "read" THEN {core.uids[k]}
                         ELSE IF core.at = "status" THEN {core.items[k].uid} ELSE {})
Known(k) ==
    {unit.results[k].uid, unit.sched[k].id}
    \cup (IF hosted.at = "probe" THEN {hosted.new.results[k].uid, hosted.new.sched[k].id} ELSE {})

\* A UID that anyone knows has been given out, and to one key only.
Homes ==
    \A k \in Keys : \A uid \in Asked(k) \cup Known(k) \cup {unit.items[k].uid} :
        /\ uid <= budget.uids
        /\ \A j \in Keys : uid \in Asked(j) \cup Known(j) \cup {unit.items[j].uid} => uid = 0 \/ j = k

\* The inventory that a reconcile of core starts from or will write.
Inventory(k, uid) ==
    /\ core.at = "read" => core.uids[k] = uid
    /\ core.at = "status" => core.items[k].uid = uid

\* What core and provider both know of a claim is in the unit, and core does not
\* take the item of a live claim out of it.
ItemsStay ==
    /\ \A k \in Keys : unit.items[k].uid = 0 => unit.items[k] = NoItem
    /\ core.at = "status" => \A k \in Keys : core.items[k].uid = 0 => core.items[k] = NoItem
    /\ \A k \in Keys : \A uid \in Asked(k) \cap Known(k) : uid # 0 => unit.items[k].uid = uid
    /\ \A k \in Keys : claim[k].uid # 0 /\ unit.items[k].uid = claim[k].uid => Inventory(k, claim[k].uid)

\* A pass works on the spec that the unit has: a change of it ends the pass.
PassAgrees ==
    hosted.at = "probe" =>
        /\ hosted.new.observed = unit.observed /\ hosted.new.has = unit.has
        /\ hosted.new.class = unit.class /\ hosted.new.items = unit.items
        /\ \A k \in Keys : hosted.new.sched[k].id = unit.items[k].uid

\* Evidence is for the claim of its schedule, or for none yet.
Bound(s) == s.st.id \in {0, s.id}
EvidenceBound ==
    \A k \in Keys : Bound(unit.sched[k]) /\ (hosted.at = "probe" => Bound(hosted.new.sched[k]))

\* A pass has not forgotten what the unit remembers.
Retained ==
    hosted.at = "probe" => \A k \in Keys :
        LET s == unit.sched[k]
        IN  s.id # 0 /\ s.id = unit.items[k].uid =>
                /\ hosted.new.sched[k].id = s.id
                /\ hosted.new.sched[k].st.positive >= s.st.positive

Keeping == Homes /\ ItemsStay /\ PassAgrees /\ EvidenceBound /\ Retained

-----------------------------------------------------------------------------
(* Lost state.                                                             *)

\* The result of claim uid says that it was probed; evidence gathered since then
\* says that there is a gap.
Marked(r, s, uid) ==
    /\ r.uid = uid /\ r.probed
    /\ s.id \in {0, uid}
    /\ s.id = uid => s.st.missing

\* What lost its state is marked where it is listed, in the unit and in the pass,
\* and no pass holds a success for it that the unit does not have.
Gaps ==
    /\ \A uid \in budget.lost : uid # 0 /\ uid <= budget.uids
    /\ \A k \in Keys : \A uid \in Asked(k) \cap budget.lost : unit.items[k].uid = uid
    /\ \A k \in Keys : unit.items[k].uid \in budget.lost =>
          /\ Marked(unit.results[k], unit.sched[k], unit.items[k].uid)
          /\ hosted.at = "probe" => /\ Marked(hosted.new.results[k], hosted.new.sched[k], unit.items[k].uid)
                                    /\ hosted.new.sched[k].id = unit.items[k].uid
    /\ hosted.at = "probe" => \A k \in Keys :
          hosted.new.results[k].withdrawn = "True" /\ hosted.new.results[k].uid \in budget.lost
              => unit.results[k].withdrawn = "True"
    /\ \A k \in Keys : unit.results[k].probed => unit.results[k].uid # 0
    /\ hosted.at = "probe" => \A k \in Keys :
            /\ hosted.new.results[k].probed => hosted.new.results[k].uid # 0
            /\ unit.items[k] = NoItem => k \notin hosted.due

-----------------------------------------------------------------------------
(* Snapshots and absence.                                                  *)

\* The snapshots that somebody still knows.
Omissions(u) == {u.sched[k].omission : k \in Keys} \ {<<>>}
Snaps ==
    {dns.snap, dns.server} \cup {dns.told[n] : n \in 1..Len(dns.told)} \cup Omissions(unit)
    \cup (IF hosted.at = "probe" THEN {hosted.ack} \cup Omissions(hosted.new) ELSE {})

Lists(x) == x.content.has

\* Snapshots are numbered as they are made and told in that order; an omission
\* does omit the address, and one of a pass is of a unit that does.
Serials ==
    /\ \A x, y \in Snaps : x.serial = y.serial => x = y
    /\ \A x \in Snaps : x.serial <= dns.snap.serial
    /\ \A n \in 1..Len(dns.told) :
          /\ dns.server.serial <= dns.told[n].serial
          /\ \A m \in 1..n : dns.told[m].serial <= dns.told[n].serial
    /\ \A x \in Omissions(unit) : ~Lists(x)
    /\ hosted.at = "probe" =>
          /\ hosted.snap = dns.snap /\ Lists(dns.snap) = unit.has
          /\ hosted.ack.serial <= dns.server.serial
          /\ \A x \in Omissions(hosted.new) : ~Lists(x) /\ ~unit.has

\* While the address was not retired every snapshot lists it; while it is
\* retired no snapshot lists it again after one that omits it.
Turns ==
    /\ env.wanted = (budget.flips # 1)
    /\ unit.has /\ budget.flips < 2 => \A x \in Snaps : Lists(x)
    /\ ~unit.has => /\ budget.flips > 0
                    /\ \A x, y \in Snaps : ~Lists(x) /\ x.serial <= y.serial => ~Lists(y)

\* Result r and schedule s of an item with UID uid, when the DNS is d.
Blank(r, s) == s.st.window = 0 /\ r.withdrawn # "True"
Absent(d, r, s, uid) ==
    /\ s.st.window > 0 => ~Lists(d.server) /\ d.since >= Min({s.st.window - 1, Horizon})
    /\ r.withdrawn = "True" /\ r.uid = uid =>
          ~Lists(d.server) /\ d.since >= s.st.min /\ \A v \in s.st.views : d.cache[v] = 0

\* Before the address is retired nothing was found; once it is retired, what was
\* found is so.
Absence(u) ==
    \A k \in Keys :
        /\ unit.has /\ budget.flips < 2 => Blank(u.results[k], u.sched[k])
        /\ ~unit.has => Absent(dns, u.results[k], u.sched[k], unit.items[k].uid)

\* Success was reported for an item under a policy with an omission that was served.
Successes(u) ==
    \A k \in Keys : u.results[k].withdrawn = "True" =>
        /\ u.results[k].uid # 0
        /\ u.sched[k].id = u.results[k].uid => u.sched[k].policy[3]

\* A success for an item that is listed is of a unit without the address.
Retired(u) ==
    \A k \in Keys : u.results[k].withdrawn = "True" /\ u.results[k].uid = unit.items[k].uid
                      => ~unit.has

Presence ==
    /\ Successes(unit) /\ (unit.observed => Retired(unit))
    /\ hosted.at = "probe" => Successes(hosted.new) /\ Retired(hosted.new)

Absences == Serials /\ Turns /\ Absence(unit) /\ (hosted.at = "probe" => Absence(hosted.new)) /\ Presence

-----------------------------------------------------------------------------
(* Operators.                                                              *)

LEMMA Parameters ==
    /\ Ttl \in Nat /\ MaxClaims \in Nat /\ PassBudget \in Nat
    /\ MaxUids \in Nat /\ MaxFlips \in Nat /\ MaxEvents \in Nat
    /\ Keys \subseteq Nat \ {0} /\ IsFiniteSet(Keys)
    /\ Configs \subseteq [views : SUBSET Views, min : Nat]
<1> DEFINE bounds == {Ttl, MaxClaims, PassBudget, MaxUids, MaxFlips, MaxEvents}
<1>1. \A n \in bounds : n \in Nat
  BY WithdrawalAssumption
<1>2. Configs \subseteq [views : (SUBSET Views) \ {{}}, min : Nat]
  BY WithdrawalAssumption
<1> QED
  BY <1>1, <1>2, WithdrawalAssumption

LEMMA Greatest ==
    ASSUME NEW bound \in Nat, NEW S \in SUBSET (0..bound), S # {}
    PROVE  \E n \in S : \A m \in S : m <= n
<1> DEFINE T == {bound - n : n \in S}
<1>1. T \subseteq Nat /\ T # {}
  <2>1. \A n \in S : bound - n \in Nat
    OBVIOUS
  <2>2. PICK n \in S : TRUE
    OBVIOUS
  <2> QED
    BY <2>1, <2>2
<1>2. PICK x \in T : \A y \in T : ~(<<y, x>> \in OpToRel(<, Nat))
  BY <1>1, NatLessThanWellFounded, WFMin
<1>3. \A y \in T : ~(y < x)
  BY <1>1, <1>2 DEF OpToRel
<1>4. PICK n \in S : x = bound - n
  BY <1>2
<1>5. \A m \in S : m <= n
  <2>1. ASSUME NEW m \in S PROVE m <= n
    <3>1. bound - m \in T
      OBVIOUS
    <3>2. ~(bound - m < bound - n) /\ m \in Int /\ n \in Int
      BY <1>3, <1>4, <3>1
    <3> QED
      BY <3>2
  <2> QED
    BY <2>1
<1> QED
  BY <1>5

LEMMA MaxIs ==
    ASSUME NEW bound \in Nat, NEW S \in SUBSET (0..bound), S # {}
    PROVE  Max(S) \in S /\ \A n \in S : n <= Max(S)
<1>1. PICK n \in S : \A m \in S : n >= m
  BY Greatest
<1> QED
  BY <1>1 DEF Max

LEMMA MaxTwo ==
    ASSUME NEW a \in Int, NEW b \in Int
    PROVE  Max({a, b}) = IF a >= b THEN a ELSE b
<1>1. (IF a >= b THEN a ELSE b) \in {a, b} /\ \A y \in {a, b} : (IF a >= b THEN a ELSE b) >= y
  OBVIOUS
<1>2. Max({a, b}) \in {a, b} /\ \A y \in {a, b} : Max({a, b}) >= y
  BY <1>1 DEF Max
<1> QED
  BY <1>1, <1>2

LEMMA MinTwo ==
    ASSUME NEW a \in Int, NEW b \in Int
    PROVE  Min({a, b}) = IF a <= b THEN a ELSE b
<1>1. (IF a <= b THEN a ELSE b) \in {a, b} /\ \A y \in {a, b} : (IF a <= b THEN a ELSE b) <= y
  OBVIOUS
<1>2. Min({a, b}) \in {a, b} /\ \A y \in {a, b} : Min({a, b}) <= y
  BY <1>1 DEF Min
<1> QED
  BY <1>1, <1>2

LEMMA MaxThree ==
    ASSUME NEW a \in Int, NEW b \in Int, NEW c \in Int
    PROVE  /\ Max({a, b, c}) \in {a, b, c}
           /\ a <= Max({a, b, c}) /\ b <= Max({a, b, c}) /\ c <= Max({a, b, c})
<1>1. \E x \in {a, b, c} : \A y \in {a, b, c} : x >= y
  <2>1. CASE a >= b /\ a >= c
    BY <2>1
  <2>2. CASE b >= a /\ b >= c
    BY <2>2
  <2>3. CASE c >= a /\ c >= b
    BY <2>3
  <2> QED
    BY <2>1, <2>2, <2>3
<1>2. Max({a, b, c}) \in {a, b, c} /\ \A y \in {a, b, c} : Max({a, b, c}) >= y
  BY <1>1 DEF Max
<1> QED
  BY <1>2

\* Keys have a least one.
LEMMA MinIs ==
    ASSUME NEW S \in SUBSET Keys, S # {}
    PROVE  Min(S) \in S
<1>1. S \subseteq Nat /\ S # {}
  BY Parameters
<1>2. PICK x \in S : \A y \in S : ~(<<y, x>> \in OpToRel(<, Nat))
  BY <1>1, NatLessThanWellFounded, WFMin
<1>3. \A y \in S : ~(y < x)
  BY <1>1, <1>2 DEF OpToRel
<1>4. \A y \in S : x <= y
  BY <1>1, <1>3
<1> QED
  BY <1>4 DEF Min

LEMMA HorizonIs ==
    /\ Horizon \in Nat /\ Ttl < Horizon
    /\ \A c \in Configs : c.min \in Nat /\ c.min < Horizon
<1>1. PICK top \in Configs : \A d \in Configs : d.min <= top.min
  BY WithdrawalAssumption
<1>2. \A c \in Configs : c.min \in Nat
  BY Parameters
<1> DEFINE S == {Ttl + 1} \cup {c.min + 1 : c \in Configs}
           bound == IF Ttl > top.min THEN Ttl + 1 ELSE top.min + 1
<1>3. bound \in Nat
  BY <1>1, <1>2, Parameters
<1>4. \A n \in S : n \in 0..bound
  BY <1>1, <1>2, Parameters
<1>5. S \in SUBSET (0..bound) /\ S # {}
  BY <1>4
<1>6. Max(S) \in S /\ \A n \in S : n <= Max(S)
  <2> HIDE DEF S, bound
  <2> QED
    BY <1>3, <1>5, MaxIs
<1>7. Horizon = Max(S)
  BY DEF Horizon
<1>8. Ttl + 1 <= Horizon /\ \A c \in Configs : c.min + 1 <= Horizon
  BY <1>6, <1>7
<1>9. Horizon \in Nat
  <2>1. Horizon \in 0..bound
    <3> HIDE DEF S, bound
    <3> QED
      BY <1>4, <1>6, <1>7
  <2> QED
    BY <1>3, <2>1
<1> QED
  BY <1>2, <1>8, <1>9, Parameters

\* The ages of a window.
LEMMA OlderIs ==
    ASSUME NEW n \in 0..(Horizon + 1)
    PROVE  /\ Older(n) \in 0..(Horizon + 1)
           /\ n = 0 => Older(n) = 0
           /\ n # 0 => Older(n) = IF n <= Horizon THEN n + 1 ELSE n
  BY HorizonIs, MinTwo DEF Older

LEMMA LessIs ==
    ASSUME NEW n \in Nat
    PROVE  Less(n) \in Nat /\ Less(n) <= n /\ (n = 0 => Less(n) = 0) /\ (n > 0 => Less(n) = n - 1)
  BY DEF Less

LEMMA LaterIs ==
    ASSUME NEW x, x.next \in -2..1 PROVE Later(x) \in -2..1
  BY MaxTwo DEF Later

-----------------------------------------------------------------------------
(* Schedules in time.                                                      *)

LEMMA EvidenceAged ==
    ASSUME NEW e \in Evidences
    PROVE  /\ AgedEvidence(e) \in Evidences
           /\ AgedEvidence(e).id = e.id /\ AgedEvidence(e).views = e.views
           /\ AgedEvidence(e).min = e.min /\ AgedEvidence(e).missing = e.missing
           /\ AgedEvidence(e).positive = Less(e.positive)
           /\ AgedEvidence(e).window = Older(e.window)
           /\ AgedEvidence(e).notBefore = Less(e.notBefore)
<1>1. Less(e.positive) \in 0..Ttl /\ Less(e.notBefore) \in 0..Horizon
  <2>1. e.positive \in 0..Ttl /\ e.notBefore \in 0..Horizon
    BY DEF Evidences
  <2> QED
    BY <2>1, Parameters, HorizonIs DEF Less
<1>2. Older(e.window) \in 0..(Horizon + 1) /\ Later(e) \in -2..1
  BY OlderIs, LaterIs DEF Evidences
<1> QED
  BY <1>1, <1>2 DEF AgedEvidence, Evidences

\* What time leaves of schedule s.
AgedSchedule(new, s) ==
    /\ new.id = s.id /\ new.policy = s.policy /\ new.binding = s.binding
    /\ new.omission = s.omission /\ new.st = AgedEvidence(s.st)

LEMMA UnitAged ==
    ASSUME NEW u \in Units
    PROVE  /\ Aged(u) \in Units
           /\ Aged(u).observed = u.observed /\ Aged(u).has = u.has /\ Aged(u).class = u.class
           /\ Aged(u).items = u.items /\ Aged(u).results = u.results
           /\ \A k \in Keys : AgedSchedule(Aged(u).sched[k], u.sched[k])
           /\ Windowed(u) => Windowed(Aged(u))
<1> DEFINE New(k) == [u.sched[k] EXCEPT !.next = Later(u.sched[k]), !.st = AgedEvidence(@)]
<1>1. \A k \in Keys : u.sched[k] \in Schedules /\ u.sched[k].st \in Evidences
  BY DEF Units, Schedules
<1>2. ASSUME NEW k \in Keys
      PROVE  New(k) \in Schedules /\ AgedSchedule(New(k), u.sched[k])
  <2>1. Later(u.sched[k]) \in -2..1
    BY <1>1, LaterIs DEF Schedules
  <2>2. AgedEvidence(u.sched[k].st) \in Evidences
    BY <1>1, EvidenceAged
  <2> QED
    BY <1>1, <2>1, <2>2 DEF Schedules, AgedSchedule
<1>3. Less(u.pub) \in 0..Ttl
  BY LessIs, Parameters DEF Units
<1>4. Aged(u) = [u EXCEPT !.pub = Less(u.pub), !.sched = [k \in Keys |-> New(k)]]
  BY DEF Aged, Units
<1>5. [k \in Keys |-> New(k)] \in [Keys -> Schedules]
  BY <1>2
<1>6. Aged(u) \in Units /\ Aged(u).sched = [k \in Keys |-> New(k)]
      /\ Aged(u).observed = u.observed /\ Aged(u).has = u.has /\ Aged(u).class = u.class
      /\ Aged(u).items = u.items /\ Aged(u).results = u.results
  <2> HIDE DEF New
  <2> QED
    BY <1>3, <1>4, <1>5 DEF Units
<1>7. \A k \in Keys : AgedSchedule(Aged(u).sched[k], u.sched[k])
  BY <1>2, <1>6
<1>8. ASSUME Windowed(u), NEW k \in Keys, Aged(u).sched[k].st.notBefore > 0
      PROVE  Aged(u).sched[k].st.window > 0
  <2> DEFINE e == u.sched[k].st
  <2>1. e \in Evidences /\ Aged(u).sched[k].st = AgedEvidence(e)
    BY <1>1, <1>7 DEF AgedSchedule
  <2>2. e.notBefore \in Nat /\ e.window \in 0..(Horizon + 1)
    BY <2>1, HorizonIs DEF Evidences
  <2>3. Less(e.notBefore) > 0 => e.notBefore > 0
    BY <2>2 DEF Less
  <2>4. e.window > 0 /\ Older(e.window) > 0
    BY <1>8, <2>1, <2>2, <2>3, EvidenceAged, OlderIs, HorizonIs DEF Windowed
  <2> QED
    BY <2>1, <2>4, EvidenceAged
<1> QED
  BY <1>6, <1>7, <1>8 DEF Windowed

-----------------------------------------------------------------------------
(* Surveys.                                                                *)

LEMMA NoScheduleTyped ==
    /\ NoEvidence \in Evidences /\ NoSchedule \in Schedules /\ NoResult \in Result
    /\ NoSchedule.st = NoEvidence /\ NoSchedule.omission = <<>>
    /\ NoItem \in Item /\ NoClaim \in Claim /\ NoWaiver \in Waiver
  BY HorizonIs, Parameters
     DEF NoEvidence, Evidences, NoSchedule, Schedules, Policies, UidsOrNone, NoResult, Result,
         NoItem, Item, NoClaim, Claim, NoWaiver, Waiver, Verdicts

LEMMA ClosedTyped ==
    ASSUME NEW e \in Evidences
    PROVE  /\ Closed(e) \in Evidences /\ Closed(e).window = 0 /\ Closed(e).notBefore = 0
           /\ Closed(e).id = e.id /\ Closed(e).positive = e.positive /\ Closed(e).views = e.views
           /\ Closed(e).min = e.min /\ Closed(e).missing = e.missing
           /\ Closed(e).policy = e.policy /\ Closed(e).next = e.next
<1>1. 0 \in 0..(Horizon + 1) /\ 0 \in 0..Horizon
  BY HorizonIs
<1> QED
  BY <1>1 DEF Closed, Evidences

LEMMA SnapshotContent ==
    ASSUME NEW x \in Snapshots
    PROVE  x.serial \in Nat /\ x.content \in Content /\ x.content.has \in BOOLEAN /\ x # <<>>
<1>1. x.serial \in Nat /\ x.content \in Content /\ x.content.has \in BOOLEAN
  BY DEF Snapshots, Content
<1>2. DOMAIN x = {"serial", "content"}
  BY DEF Snapshots
<1>3. DOMAIN <<>> = {}
  OBVIOUS
<1> QED
  BY <1>1, <1>2, <1>3

LEMMA PolicyTyped ==
    ASSUME NEW fp \in Bindings, NEW i \in Item, NEW s, NEW snap \in Snapshots, NEW ack
    PROVE  PolicyOf(fp, i, s, snap, ack) \in Policies
<1>1. Served(s.omission, snap, ack) \in BOOLEAN
  BY DEF Served
<1>2. i.waiver \in UidsOrNone /\ snap.content \in Content
  BY SnapshotContent DEF Item, UidsOrNone
<1> QED
  BY <1>1, <1>2 DEF PolicyOf, Policies

\* What the schedule of an item starts from.
Preparation(s, u, k, snap) ==
    LET i == u.items[k]
        old == u.sched[k]
    IN  /\ s \in Schedules /\ s.id = i.uid
        /\ s.omission \in {<<>>, old.omission, snap}
        /\ s.omission # <<>> => ~snap.content.has
        /\ SameClaim(old, i) => s.st = old.st /\ s.policy = old.policy
        /\ ~SameClaim(old, i) => /\ s.st.id = 0 /\ s.st.window = 0 /\ s.st.notBefore = 0
                                 /\ s.st.missing = Gap(old, i, u.results[k])

LEMMA PreparedIs ==
    ASSUME NEW u \in Units, NEW k \in Keys, NEW pub \in 0..Ttl, NEW snap \in Snapshots
    PROVE  Preparation(Prepared(u, k, pub, snap), u, k, snap)
<1> DEFINE i == u.items[k]
           old == u.sched[k]
           gap == Gap(old, i, u.results[k])
           fresh == [NoSchedule EXCEPT !.id = i.uid, !.st.positive = pub, !.st.missing = gap]
           kept == IF SameClaim(old, i) THEN old ELSE fresh
           excluded == i.allowed /\ ~snap.content.has
           mark == IF ~excluded THEN <<>> ELSE IF kept.omission = <<>> THEN snap ELSE kept.omission
           s == Prepared(u, k, pub, snap)
<1>1. i \in Item /\ old \in Schedules /\ i.uid \in UidsOrNone /\ u.results[k] \in Result
  BY DEF Units, Item, UidsOrNone
<1>2. fresh \in Schedules /\ fresh.id = i.uid /\ fresh.omission = <<>>
      /\ fresh.st.id = 0 /\ fresh.st.window = 0 /\ fresh.st.notBefore = 0 /\ fresh.st.missing = gap
  <2>1. gap \in BOOLEAN
    BY <1>1 DEF Gap, Result
  <2>2. fresh = [NoSchedule EXCEPT !.id = i.uid,
                    !.st = [NoEvidence EXCEPT !.positive = pub, !.missing = gap]]
    BY DEF NoSchedule, NoEvidence
  <2> DEFINE e == [NoEvidence EXCEPT !.positive = pub, !.missing = gap]
  <2>3. e \in Evidences /\ e.id = 0 /\ e.window = 0 /\ e.notBefore = 0 /\ e.missing = gap
    BY <2>1, NoScheduleTyped DEF Evidences, NoEvidence
  <2> QED
    BY <1>1, <2>2, <2>3, NoScheduleTyped DEF Schedules, NoSchedule
<1>3. kept \in Schedules /\ kept.id = i.uid
  BY <1>1, <1>2 DEF SameClaim
<1>4. kept.omission \in {<<>>, old.omission} /\ old.omission \in {<<>>} \cup Snapshots
  BY <1>1, <1>2 DEF Schedules
<1>5. mark \in {<<>>, old.omission, snap} /\ (mark # <<>> => ~snap.content.has)
      /\ mark \in {<<>>} \cup Snapshots
  BY <1>4
<1>6. s = [kept EXCEPT !.omission = mark]
  BY <1>3 DEF Prepared, Schedules
<1>7. s \in Schedules /\ s.id = i.uid /\ s.omission = mark /\ s.st = kept.st /\ s.policy = kept.policy
  <2> HIDE DEF kept, mark
  <2> QED
    BY <1>3, <1>5, <1>6 DEF Schedules
<1> QED
  BY <1>2, <1>5, <1>7 DEF Preparation

\* What a survey finds for key k of unit u.
Survey(w, u, k, snap) ==
    LET i == u.items[k]
        old == u.sched[k]
        r == u.results[k]
    IN  /\ w.s \in Schedules /\ w.r \in Result /\ w.due \in BOOLEAN
        /\ w.s.id = i.uid
        /\ w.s.omission \in {<<>>, old.omission, snap}
        /\ w.s.omission # <<>> => ~snap.content.has
        /\ Bound(old) => Bound(w.s)
        /\ w.s.st.window = 0 \/ w.s.st.window = old.st.window
        /\ (old.st.notBefore > 0 => old.st.window > 0) => (w.s.st.notBefore > 0 => w.s.st.window > 0)
        /\ i # NoItem /\ SameClaim(old, i) =>
              w.s.st.positive = old.st.positive /\ w.s.st.missing = old.st.missing
        /\ i # NoItem /\ ~SameClaim(old, i) => w.s.st.missing = Gap(old, i, r)
        /\ w.r.uid \in {0, i.uid, r.uid}
        /\ w.r.probed => r.probed /\ w.r.uid = r.uid
        /\ i # NoItem /\ r.uid = i.uid /\ r.probed => w.r.uid = i.uid /\ w.r.probed
        /\ w.r.withdrawn = "True" =>
              /\ r.withdrawn = "True" /\ w.r.uid = r.uid
              /\ i # NoItem /\ w.s.st = old.st
              /\ SameClaim(old, i) /\ w.s.policy = old.policy /\ (old.policy[3] => ~snap.content.has)
        /\ w.due => i # NoItem

LEMMA SurveyedIs ==
    ASSUME NEW u \in Units, NEW k \in Keys, NEW pub \in 0..Ttl, NEW snap \in Snapshots, NEW ack
    PROVE  Survey(Surveyed(u, k, pub, snap, ack), u, k, snap)
<1> DEFINE i == u.items[k]
           old == u.sched[k]
           r == u.results[k]
           s == Prepared(u, k, pub, snap)
           plain == Unverified(i, r)
           same == s.policy = PolicyOf(Fingerprint(u), i, s, snap, ack)
           w == Surveyed(u, k, pub, snap, ack)
           off == [s EXCEPT !.policy = <<>>, !.st = Closed(@)]
           shown == IF same /\ SameClaim(old, i) THEN [r EXCEPT !.waiver = i.waiver]
                    ELSE [plain EXCEPT !.waiver = i.waiver]
<1>1. i \in Item /\ old \in Schedules /\ r \in Result /\ Preparation(s, u, k, snap)
  BY PreparedIs DEF Units
<1>2. ASSUME i = NoItem PROVE Survey(w, u, k, snap)
  <2>1. w.s = NoSchedule /\ w.r = NoResult /\ w.due = FALSE
    BY <1>2 DEF Surveyed
  <2>2. /\ NoSchedule.id = 0 /\ NoEvidence.id = 0 /\ NoEvidence.window = 0 /\ NoEvidence.notBefore = 0
        /\ NoResult.uid = 0 /\ NoResult.probed = FALSE /\ NoResult.withdrawn = "Unknown" /\ i.uid = 0
    BY <1>2 DEF NoSchedule, NoEvidence, NoResult, NoItem
  <2> HIDE DEF w
  <2> QED
    BY <1>2, <2>1, <2>2, NoScheduleTyped DEF Survey, Bound
<1>3. plain \in Result /\ plain.uid = i.uid /\ plain.probed = (r.uid = i.uid /\ r.probed)
      /\ plain.withdrawn = "Unknown"
  <2>1. (r.uid = i.uid /\ r.probed) \in BOOLEAN
    OBVIOUS
  <2>2. plain = [uid |-> i.uid, withdrawn |-> "Unknown", waiver |-> 0, probed |-> (r.uid = i.uid /\ r.probed)]
    BY DEF Unverified
  <2>3. 0 \in 0..MaxUids /\ i.uid \in 0..MaxUids
    BY <1>1, Parameters DEF Item
  <2> HIDE DEF plain
  <2> QED
    BY <2>1, <2>2, <2>3 DEF Result, Verdicts
<1>4. s \in Schedules /\ s.id = i.uid /\ s.st \in Evidences /\ old.st \in Evidences
      /\ s.omission \in {<<>>, old.omission, snap} /\ (s.omission # <<>> => ~snap.content.has)
      /\ (SameClaim(old, i) => s.st = old.st /\ s.policy = old.policy)
      /\ (~SameClaim(old, i) => /\ s.st.id = 0 /\ s.st.window = 0 /\ s.st.notBefore = 0
                                /\ s.st.missing = Gap(old, i, r))
  BY <1>1 DEF Preparation, Schedules
<1>5. ASSUME i # NoItem, ~Accepts(u, i) PROVE Survey(w, u, k, snap)
  <2>1. w.s = off /\ w.r = plain /\ w.due = FALSE
    BY <1>5 DEF Surveyed
  <2>2. Closed(s.st) \in Evidences /\ Closed(s.st).window = 0 /\ Closed(s.st).notBefore = 0
        /\ Closed(s.st).id = s.st.id /\ Closed(s.st).positive = s.st.positive
        /\ Closed(s.st).missing = s.st.missing
    BY <1>4, ClosedTyped
  <2>3. off \in Schedules /\ off.id = s.id /\ off.omission = s.omission /\ off.st = Closed(s.st)
    BY <1>4, <2>2 DEF Schedules, Policies
  <2>4. Bound(old) => Bound(off)
    BY <1>4, <2>2, <2>3 DEF Bound, SameClaim
  <2> HIDE DEF off, plain, w, s
  <2> QED
    BY <1>3, <1>4, <2>1, <2>2, <2>3, <2>4 DEF Survey
<1>6. ASSUME i # NoItem, Accepts(u, i) PROVE Survey(w, u, k, snap)
  <2>1. w.s = s /\ w.r = shown /\ w.due \in BOOLEAN
    BY <1>6 DEF Surveyed
  <2>2. \/ shown \in Result /\ shown.uid = r.uid /\ shown.probed = r.probed
           /\ shown.withdrawn = r.withdrawn /\ SameClaim(old, i) /\ same
        \/ shown \in Result /\ shown.uid = plain.uid /\ shown.probed = plain.probed
           /\ shown.withdrawn = plain.withdrawn
    BY <1>1, <1>3 DEF Result, Item
  <2>3. Bound(old) => Bound(s)
    BY <1>4 DEF Bound, SameClaim
  <2>4. same => (s.policy[3] => ~snap.content.has)
    <3>1. PolicyOf(Fingerprint(u), i, s, snap, ack)[3] = Served(s.omission, snap, ack)
      BY DEF PolicyOf
    <3>2. Served(s.omission, snap, ack) => s.omission # <<>>
      BY DEF Served
    <3> QED
      BY <1>4, <3>1, <3>2
  <2> HIDE DEF shown, plain, w, s, same
  <2> QED
    BY <1>3, <1>4, <1>6, <2>1, <2>2, <2>3, <2>4 DEF Survey
<1> QED
  BY <1>2, <1>5, <1>6

-----------------------------------------------------------------------------
(* Evaluations.                                                            *)

\* What evaluating item i from evidence s0 with answers c finds.
Evaluation(e, s0, i, served, c) ==
    /\ e.st \in Evidences /\ e.withdrawn \in Verdicts
    /\ e.st.notBefore > 0 => e.st.window > 0
    /\ e.st.id = i.uid /\ e.st.missing = s0.missing
    /\ s0.id \in {0, i.uid} => e.st.positive >= s0.positive
    /\ e.st.window > 0 => served /\ e.st.window \in {1, s0.window}
    /\ e.withdrawn = "True" =>
          /\ served /\ ~s0.missing
          /\ e.st.window > 0 /\ e.st.min < e.st.window
          /\ \A v \in e.st.views : c[v] = 0

LEMMA WindowIs ==
    ASSUME NEW s \in Evidences, NEW min \in 0..Horizon
    PROVE  LET w == Window(s, min)
           IN  /\ w.st \in Evidences
               /\ w.st.id = s.id /\ w.st.missing = s.missing /\ w.st.positive = s.positive
               /\ w.st.min = s.min /\ w.st.views = s.views
               /\ w.st.window > 0 /\ w.st.window \in {1, s.window}
               /\ w.verified => min < w.st.window
<1> DEFINE open == Max({s.window, 1})
           rest == min - (open - 1)
           end == Max({s.notBefore, rest, s.positive})
<1>1. s.window \in 0..(Horizon + 1) /\ s.notBefore \in 0..Horizon /\ s.positive \in 0..Ttl
  BY DEF Evidences
<1>2. open \in 1..(Horizon + 1) /\ open \in {1, s.window}
  BY <1>1, HorizonIs, MaxTwo
<1>3. rest \in Int /\ rest <= Horizon
  BY <1>2, HorizonIs
<1>4. end \in {s.notBefore, rest, s.positive} /\ s.notBefore <= end /\ rest <= end
  <2>1. s.notBefore \in Int /\ rest \in Int /\ s.positive \in Int
    BY <1>1, <1>3, HorizonIs, Parameters
  <2> HIDE DEF open, rest
  <2> QED
    BY <2>1, MaxThree
<1>5. end \in 0..Horizon /\ (end = 0 => min < open)
  <2>1. end \in Int /\ end <= Horizon /\ 0 <= end
    <3> HIDE DEF open, rest, end
    <3> QED
      BY <1>1, <1>3, <1>4, HorizonIs, Parameters
  <2>2. rest = min - (open - 1)
    OBVIOUS
  <2>3. min \in Int /\ open \in Int
    BY <1>2, HorizonIs
  <2> HIDE DEF open, rest, end
  <2> QED
    BY <1>3, <1>4, <2>1, <2>2, <2>3, HorizonIs
<1>6. Window(s, min) = [st |-> [s EXCEPT !.window = open, !.notBefore = end],
                        verified |-> s.window # 0 /\ end = 0]
  BY DEF Window, Evidences
<1> HIDE DEF open, rest, end
<1>7. open \in 0..(Horizon + 1)
  BY <1>2, HorizonIs
<1> DEFINE t == [s EXCEPT !.window = open, !.notBefore = end]
<1>8. /\ t \in Evidences /\ t.id = s.id /\ t.missing = s.missing /\ t.positive = s.positive
      /\ t.min = s.min /\ t.views = s.views /\ t.window = open
  BY <1>5, <1>7 DEF Evidences
<1> HIDE DEF t
<1> DEFINE known == s.window # 0 /\ end = 0
<1>9. Window(s, min).st = t /\ (Window(s, min).verified => end = 0)
  <2>1. Window(s, min) = [st |-> t, verified |-> known]
    BY <1>6 DEF t
  <2>2. Window(s, min).verified = known
    <3> HIDE DEF known
    <3> QED
      BY <2>1
  <2>3. known => end = 0
    OBVIOUS
  <2> HIDE DEF known
  <2> QED
    BY <2>1, <2>2, <2>3
<1>10. open > 0
  BY <1>2
<1> QED
  BY <1>2, <1>5, <1>8, <1>9, <1>10

LEMMA InitialIs ==
    ASSUME NEW s \in Evidences, NEW i \in Item
    PROVE  LET s1 == Initial(s, i)
           IN  /\ s1 \in Evidences /\ s1.id = i.uid /\ s1.missing = s.missing
               /\ (s1.window = 0 /\ s1.notBefore = 0) \/ s1 = s
               /\ s.id \in {0, i.uid} => s1.positive = s.positive
<1>1. CASE s.id = i.uid
  BY <1>1 DEF Initial
<1>2. CASE s.id # i.uid
  <2> DEFINE p == IF s.id = 0 THEN s.positive ELSE 0
             s1 == [NoEvidence EXCEPT !.id = i.uid, !.missing = s.missing, !.positive = p]
  <2>1. Initial(s, i) = s1
    BY <1>2 DEF Initial
  <2>2. p \in 0..Ttl /\ i.uid \in UidsOrNone /\ s.missing \in BOOLEAN
    BY Parameters DEF Evidences, Item, UidsOrNone
  <2>3. s1 \in Evidences /\ s1.id = i.uid /\ s1.missing = s.missing /\ s1.positive = p
        /\ s1.window = 0 /\ s1.notBefore = 0
    <3> HIDE DEF p
    <3> QED
      BY <2>2, NoScheduleTyped DEF Evidences, NoEvidence
  <2>4. s.id \in {0, i.uid} => p = s.positive
    BY <1>2
  <2> HIDE DEF s1, p
  <2> QED
    BY <2>1, <2>3, <2>4
<1> QED
  BY <1>1, <1>2

LEMMA PassFields ==
    ASSUME Base, hosted.at = "probe"
    PROVE  /\ hosted \in Probes /\ hosted.snap \in Snapshots /\ hosted.ack \in Snapshots
           /\ hosted.env \in Bindings /\ hosted.due \in SUBSET Keys /\ hosted.left \in Nat
           /\ hosted.new \in Units /\ Windowed(hosted.new)
           /\ hosted.env[1] \in Configs
           /\ hosted.env[1].views \in SUBSET Views /\ hosted.env[1].min \in 0..Horizon
<1>1. hosted \in Probes
  BY DEF Base, Idle
<1>2. hosted.env \in Bindings
  BY <1>1 DEF Probes
<1>3. hosted.env[1] \in Configs
  BY <1>2 DEF Bindings
<1> QED
  BY <1>1, <1>2, <1>3, HorizonIs, Parameters DEF Probes, Base

LEMMA EvaluatedIs ==
    ASSUME Base, hosted.at = "probe", NEW s0 \in Evidences, s0.notBefore > 0 => s0.window > 0,
           NEW i \in Item, NEW served \in BOOLEAN, NEW failing, NEW c \in [Views -> 0..Ttl]
    PROVE  Evaluation(Evaluated(s0, i, served, failing, c), s0, i, served, c)
<1> DEFINE config == hosted.env[1]
           policy == <<config, hosted.snap.content>>
           s1 == Initial(s0, i)
           changed == Moved(s1, policy)
           weakened == s1.missing \/ config.min < s1.min \/ ~(s1.views \subseteq config.views)
           stale == s1.policy # <<>> /\ s1.next < -1
           heard == Evidence(config.views \ failing, c) \cup OwnEvidence
           b == IF changed \/ weakened \/ stale THEN Closed(s1) ELSE s1
           pos == Max({b.positive} \cup heard)
           views == IF weakened THEN b.views ELSE config.views
           min == IF weakened THEN b.min ELSE Max({b.min, config.min})
           s2 == [b EXCEPT !.positive = pos, !.policy = policy, !.next = 1, !.views = views, !.min = min]
           verdict == IF changed \/ weakened THEN "Unknown" ELSE Outcome(failing, heard, served)
           w == Window(s2, config.min)
           e == Evaluated(s0, i, served, failing, c)
<1>1. /\ config \in Configs /\ config.views \in SUBSET Views /\ config.min \in 0..Horizon
      /\ hosted.snap \in Snapshots
  BY PassFields
<1>2. /\ s1 \in Evidences /\ s1.id = i.uid /\ s1.missing = s0.missing
      /\ (s1.window = 0 /\ s1.notBefore = 0) \/ s1 = s0
      /\ s0.id \in {0, i.uid} => s1.positive = s0.positive
  BY InitialIs
<1> HIDE DEF s1
<1>3. /\ b \in Evidences /\ b.id = s1.id /\ b.missing = s1.missing /\ b.positive = s1.positive
      /\ b.min = s1.min /\ b.views = s1.views
      /\ b.window = 0 \/ b.window = s1.window
  BY <1>2, ClosedTyped
<1> HIDE DEF b
<1>4. heard \subseteq 0..Ttl /\ heard # {}
  BY <1>1, Parameters DEF Evidence, OwnEvidence
<1>5. pos \in 0..Ttl /\ pos >= b.positive
  <2>1. b.positive \in 0..Ttl
    BY <1>3 DEF Evidences
  <2> DEFINE S == {b.positive} \cup heard
  <2>2. S \in SUBSET (0..Ttl) /\ S # {}
    BY <1>4, <2>1
  <2>3. Max(S) \in S /\ \A n \in S : n <= Max(S)
    <3> HIDE DEF S
    <3> QED
      BY <2>2, MaxIs, Parameters
  <2> QED
    BY <2>2, <2>3
<1>6. policy \in Configs \X Content
  BY <1>1, SnapshotContent
<1>7. views \in SUBSET Views /\ min \in Nat /\ (~weakened => min = config.min)
  <2>1. b.min \in Nat /\ config.min \in Nat /\ b.views \in SUBSET Views
    BY <1>1, <1>3, HorizonIs DEF Evidences
  <2> QED
    BY <1>1, <1>3, <2>1, MaxTwo
<1> HIDE DEF policy, views, min, pos, heard
<1>8. /\ s2 \in Evidences /\ s2.id = i.uid /\ s2.missing = s0.missing /\ s2.positive = pos
      /\ s2.views = views /\ s2.min = min
      /\ s2.window = 0 \/ s2.window = s0.window
  <2>1. /\ s2 \in Evidences /\ s2.id = b.id /\ s2.missing = b.missing /\ s2.positive = pos
        /\ s2.views = views /\ s2.min = min /\ s2.window = b.window
    <3>1. /\ pos \in 0..Ttl /\ policy \in {<<>>} \cup (Configs \X Content) /\ 1 \in -2..1
          /\ views \in SUBSET Views /\ min \in Nat /\ b \in Evidences
      BY <1>3, <1>5, <1>6, <1>7
    <3> QED
      BY <3>1 DEF Evidences
  <2> HIDE DEF s2
  <2> QED
    BY <1>2, <1>3, <2>1
<1>9. s0.id \in {0, i.uid} => pos >= s0.positive
  BY <1>2, <1>3, <1>5
<1>10. e = IF verdict # "True" THEN [st |-> Closed(s2), withdrawn |-> verdict]
           ELSE [st |-> w.st, withdrawn |-> IF w.verified THEN "True" ELSE "False"]
  BY DEF Evaluated, s1, b, policy, views, min, pos, heard
<1>11. verdict \in Verdicts
  BY DEF Outcome, Verdicts
<1>12. ASSUME verdict # "True" PROVE Evaluation(e, s0, i, served, c)
  <2>1. e.st = Closed(s2) /\ e.withdrawn = verdict
    BY <1>10, <1>12
  <2> HIDE DEF e, s2, verdict
  <2> QED
    BY <1>8, <1>9, <1>11, <1>12, <2>1, ClosedTyped DEF Evaluation
<1>13. ASSUME verdict = "True" PROVE Evaluation(e, s0, i, served, c)
  <2>1. ~weakened /\ failing = {} /\ heard = {0} /\ served
    BY <1>13 DEF Outcome
  <2>2. \A v \in views : c[v] = 0
    BY <2>1 DEF views, heard, Evidence
  <2>3. ~s0.missing
    BY <1>2, <2>1
  <2>4. min = config.min
    BY <1>7, <2>1
  <2>5. /\ w.st \in Evidences
        /\ w.st.id = s2.id /\ w.st.missing = s2.missing /\ w.st.positive = s2.positive
        /\ w.st.min = s2.min /\ w.st.views = s2.views
        /\ w.st.window > 0 /\ w.st.window \in {1, s2.window}
        /\ w.verified => config.min < w.st.window
    <3> HIDE DEF s2
    <3> QED
      BY <1>1, <1>8, WindowIs
  <2>6. e.st = w.st /\ e.withdrawn \in Verdicts /\ (e.withdrawn = "True" => w.verified)
    BY <1>10, <1>13 DEF Verdicts
  <2>7. served
    BY <2>1
  <2> HIDE DEF e, s2, verdict, w, weakened, config
  <2>8. w.st.window # 0 /\ (w.st.window = s2.window => s2.window = s0.window)
    BY <1>8, <2>5
  <2> QED
    BY <1>8, <1>9, <2>2, <2>3, <2>4, <2>5, <2>6, <2>7, <2>8 DEF Evaluation
<1> QED
  BY <1>12, <1>13

-----------------------------------------------------------------------------
(* Probes.                                                                 *)

SameSpec(u, v) == u.observed = v.observed /\ u.has = v.has /\ u.class = v.class /\ u.items = v.items

\* The pass stores t and r for claim k, in place of s, with caches c.
Probing(k, c) ==
    LET i == unit.items[k]
        s == hosted.new.sched[k]
        t == hosted'.new.sched[k]
        r == hosted'.new.results[k]
        served == Served(s.omission, hosted.snap, hosted.ack)
    IN  /\ hosted.at = "probe" /\ k \in hosted.due /\ k \in Keys
        /\ hosted' \in Probes /\ hosted'.snap = hosted.snap /\ hosted'.ack = hosted.ack
        /\ hosted'.due \subseteq hosted.due
        /\ SameSpec(hosted'.new, hosted.new)
        /\ \A j \in Keys \ {k} : /\ hosted'.new.sched[j] = hosted.new.sched[j]
                                 /\ hosted'.new.results[j] = hosted.new.results[j]
        /\ t.id = s.id /\ t.omission = s.omission /\ t.policy[3] = served
        /\ t.st.notBefore > 0 => t.st.window > 0
        /\ t.st.missing = s.st.missing /\ t.st.id \in {s.st.id, i.uid}
        /\ s.st.id \in {0, i.uid} => t.st.positive >= s.st.positive
        /\ t.st.window > 0 => served /\ t.st.window \in {1, s.st.window}
        /\ r.uid = i.uid /\ r.probed
        /\ r.withdrawn = "True" => /\ served /\ ~s.st.missing
                                   /\ t.st.window > 0 /\ t.st.min < t.st.window
                                   /\ \A v \in t.st.views : c[v] = 0

LEMMA StoreIs ==
    ASSUME Base, hosted.at = "probe", hosted.left > 0, NEW k \in hosted.due,
           NEW e, e.st \in Evidences, e.withdrawn \in Verdicts, Store(k, e)
    PROVE  LET t == hosted'.new.sched[k]
               r == hosted'.new.results[k]
           IN  /\ hosted' \in Probes /\ hosted'.snap = hosted.snap /\ hosted'.ack = hosted.ack
               /\ hosted'.due \subseteq hosted.due
               /\ SameSpec(hosted'.new, hosted.new)
               /\ \A j \in Keys \ {k} : /\ hosted'.new.sched[j] = hosted.new.sched[j]
                                        /\ hosted'.new.results[j] = hosted.new.results[j]
               /\ t.id = hosted.new.sched[k].id /\ t.omission = hosted.new.sched[k].omission
               /\ t.policy[3] = Served(hosted.new.sched[k].omission, hosted.snap, hosted.ack)
               /\ t.st = e.st \/ t.st = Closed(e.st)
               /\ r.uid = unit.items[k].uid /\ r.probed
               /\ r.withdrawn = "True" => e.withdrawn = "True" /\ t.st = e.st
<1> DEFINE i == unit.items[k]
           s == hosted.new.sched[k]
           moved == s.binding # <<>> /\ s.binding # hosted.env
           policy == PolicyOf(hosted.env, i, s, hosted.snap, hosted.ack)
           st == IF moved THEN Closed(e.st) ELSE e.st
           said == IF moved THEN "Unknown" ELSE e.withdrawn
           t == [s EXCEPT !.policy = policy, !.binding = hosted.env, !.next = 1, !.st = st]
           r == [uid |-> i.uid, waiver |-> i.waiver, probed |-> TRUE, withdrawn |-> said]
           h1 == [hosted EXCEPT !.due = @ \ {k}, !.left = @ - 1, !.probed = TRUE]
           h2 == [h1 EXCEPT !.new.cursor = k]
           h3 == [h2 EXCEPT !.new.sched[k] = t]
           h4 == [h3 EXCEPT !.new.results[k] = r]
<1>1. /\ hosted \in Probes /\ hosted.snap \in Snapshots /\ hosted.env \in Bindings
      /\ hosted.due \in SUBSET Keys /\ hosted.left \in Nat /\ hosted.new \in Units /\ k \in Keys
  BY PassFields
<1>2. i \in Item /\ s \in Schedules
  BY <1>1 DEF Units, Base
<1>3. policy \in Policies
  BY <1>1, <1>2, PolicyTyped
<1>4. st \in Evidences /\ (st = e.st \/ st = Closed(e.st)) /\ said \in Verdicts
      /\ (said = "True" => e.withdrawn = "True" /\ st = e.st)
  BY ClosedTyped DEF Verdicts
<1>5. t \in Schedules /\ t.id = s.id /\ t.omission = s.omission /\ t.st = st /\ t.policy = policy
  <2>1. /\ policy \in Policies /\ hosted.env \in {<<>>} \cup Bindings /\ 1 \in -2..1
        /\ st \in Evidences /\ s \in Schedules
    BY <1>1, <1>2, <1>3, <1>4
  <2> HIDE DEF policy, st, s
  <2> QED
    BY <2>1 DEF Schedules
<1>6. r \in Result /\ r.uid = i.uid /\ r.probed /\ r.withdrawn = said
  <2> HIDE DEF said
  <2> QED
    BY <1>2, <1>4 DEF Result, Item
<1>7. hosted' = h4
  BY DEF Store
<1> HIDE DEF t, r, h4
<1>8. hosted.left - 1 \in Nat
  BY <1>1
<1>9. /\ h1 \in Probes /\ h1.snap = hosted.snap /\ h1.ack = hosted.ack
      /\ h1.due \subseteq hosted.due /\ h1.new = hosted.new
  BY <1>1, <1>8 DEF Probes
<1> HIDE DEF h1
<1>10. /\ h2 \in Probes /\ h2.snap = h1.snap /\ h2.ack = h1.ack /\ h2.due = h1.due
       /\ SameSpec(h2.new, h1.new) /\ h2.new.sched = h1.new.sched /\ h2.new.results = h1.new.results
  BY <1>1, <1>9 DEF Probes, Units, SameSpec
<1> HIDE DEF h2
<1>11. /\ h3 \in Probes /\ h3.snap = h2.snap /\ h3.ack = h2.ack /\ h3.due = h2.due
       /\ SameSpec(h3.new, h2.new) /\ h3.new.sched = [h2.new.sched EXCEPT ![k] = t]
       /\ h3.new.results = h2.new.results
  BY <1>1, <1>5, <1>10 DEF Probes, Units, SameSpec
<1> HIDE DEF h3
<1>12. /\ h4 \in Probes /\ h4.snap = h3.snap /\ h4.ack = h3.ack /\ h4.due = h3.due
       /\ SameSpec(h4.new, h3.new) /\ h4.new.sched = h3.new.sched
       /\ h4.new.results = [h3.new.results EXCEPT ![k] = r]
  BY <1>1, <1>6, <1>11 DEF Probes, Units, SameSpec, h4
<1>13. hosted.new.sched \in [Keys -> Schedules] /\ hosted.new.results \in [Keys -> Result]
  BY <1>1 DEF Units
<1>14. hosted'.new.sched = [hosted.new.sched EXCEPT ![k] = t]
       /\ hosted'.new.results = [hosted.new.results EXCEPT ![k] = r]
  BY <1>7, <1>9, <1>10, <1>11, <1>12
<1>15. /\ hosted'.new.sched[k] = t /\ hosted'.new.results[k] = r
       /\ \A j \in Keys \ {k} : /\ hosted'.new.sched[j] = hosted.new.sched[j]
                                /\ hosted'.new.results[j] = hosted.new.results[j]
  BY <1>1, <1>13, <1>14
<1>16. SameSpec(hosted'.new, hosted.new)
  BY <1>7, <1>9, <1>10, <1>11, <1>12 DEF SameSpec
<1>17. policy[3] = Served(s.omission, hosted.snap, hosted.ack)
  BY DEF PolicyOf
<1> HIDE DEF st, said, policy
<1> QED
  BY <1>17, <1>4, <1>5, <1>6, <1>7, <1>9, <1>10, <1>11, <1>12, <1>15, <1>16

LEMMA DueIs == ASSUME Base, More PROVE hosted.at = "probe" /\ NextDue \in hosted.due /\ NextDue \in Keys
<1>1. hosted.at = "probe" /\ hosted.due \in SUBSET Keys /\ hosted.due # {}
  BY PassFields DEF More
<1> DEFINE after == {k \in hosted.due : k > hosted.new.cursor}
<1>2. after \in SUBSET Keys /\ after \subseteq hosted.due
  BY <1>1
<1>3. NextDue = IF after # {} THEN Min(after) ELSE Min(hosted.due)
  BY DEF NextDue
<1>4. NextDue \in hosted.due
  <2> HIDE DEF after
  <2> QED
    BY <1>1, <1>2, <1>3, MinIs
<1> QED
  BY <1>1, <1>4

LEMMA ProbeIs ==
    ASSUME Base, HostedProbe
    PROVE  /\ Probing(NextDue, dns'.cache)
           /\ dns' = [dns EXCEPT !.cache = dns'.cache] /\ dns'.cache \in [Views -> 0..Ttl]
           /\ ~Lists(dns.server) => dns'.cache = dns.cache
<1> DEFINE k == NextDue
           s == hosted.new.sched[k]
           st == IF s.binding # <<>> /\ s.binding # hosted.env THEN Closed(s.st) ELSE s.st
           views == hosted.env[1].views
           served == Served(s.omission, hosted.snap, hosted.ack)
           C(failing) == [v \in Views |-> IF v \in views \ failing
                                          THEN Answered(dns.cache, v) ELSE dns.cache[v]]
           E(failing) == Evaluated(st, unit.items[k], served, failing, C(failing))
<1>1. More /\ hosted.left > 0 /\ hosted.at = "probe" /\ k \in hosted.due /\ k \in Keys
  BY DueIs DEF HostedProbe, More
<1>2. PICK failing : dns' = [dns EXCEPT !.cache = C(failing)] /\ Store(k, E(failing))
  BY DEF HostedProbe
<1>3. dns \in Dns /\ dns.cache \in [Views -> 0..Ttl]
  BY DEF Base, Dns
<1> DEFINE c == C(failing)
<1>4. c \in [Views -> 0..Ttl] /\ dns' = [dns EXCEPT !.cache = c] /\ dns'.cache = c
  BY <1>2, <1>3, Parameters DEF Answered, Dns
<1>5. ~Lists(dns.server) => c = dns.cache
  BY <1>3 DEF Lists, Answered
<1>6. s \in Schedules /\ s.st \in Evidences /\ (s.st.notBefore > 0 => s.st.window > 0) /\ unit.items[k] \in Item
  BY <1>1, PassFields DEF Units, Schedules, Windowed, Base
<1>7. /\ st \in Evidences /\ (st.notBefore > 0 => st.window > 0)
      /\ st.id = s.st.id /\ st.missing = s.st.missing /\ st.positive = s.st.positive
      /\ st.window = 0 \/ st.window = s.st.window
  BY <1>6, ClosedTyped
<1>8. served \in BOOLEAN
  BY DEF Served
<1> DEFINE e == Evaluated(st, unit.items[k], served, failing, c)
<1> HIDE DEF c, st, served
<1>9. Evaluation(e, st, unit.items[k], served, c)
  BY <1>1, <1>4, <1>6, <1>7, <1>8, EvaluatedIs
<1>10. Store(k, e)
  BY <1>2 DEF c, st, served
<1> HIDE DEF e
<1>11. e.st \in Evidences /\ e.withdrawn \in Verdicts /\ Closed(e.st).window = 0 /\ Closed(e.st).notBefore = 0
       /\ Closed(e.st).id = e.st.id /\ Closed(e.st).missing = e.st.missing
       /\ Closed(e.st).positive = e.st.positive
  BY <1>9, ClosedTyped DEF Evaluation
<1> DEFINE t == hosted'.new.sched[k]
           r == hosted'.new.results[k]
<1>12. /\ hosted' \in Probes /\ hosted'.snap = hosted.snap /\ hosted'.ack = hosted.ack
       /\ hosted'.due \subseteq hosted.due
       /\ SameSpec(hosted'.new, hosted.new)
       /\ \A j \in Keys \ {k} : /\ hosted'.new.sched[j] = hosted.new.sched[j]
                                /\ hosted'.new.results[j] = hosted.new.results[j]
       /\ t.id = s.id /\ t.omission = s.omission
       /\ t.policy[3] = Served(s.omission, hosted.snap, hosted.ack)
       /\ t.st = e.st \/ t.st = Closed(e.st)
       /\ r.uid = unit.items[k].uid /\ r.probed
       /\ r.withdrawn = "True" => e.withdrawn = "True" /\ t.st = e.st
  BY <1>1, <1>10, <1>11, StoreIs
<1>13. /\ t.st.notBefore > 0 => t.st.window > 0
       /\ t.st.missing = s.st.missing /\ t.st.id = unit.items[k].uid
       /\ s.st.id \in {0, unit.items[k].uid} => t.st.positive >= s.st.positive
       /\ t.st.window > 0 => served /\ t.st.window \in {1, s.st.window}
       /\ r.withdrawn = "True" => /\ served /\ ~s.st.missing
                                  /\ t.st.window > 0 /\ t.st.min < t.st.window
                                  /\ \A v \in t.st.views : c[v] = 0
  <2>1. e.st.window \in Int
    BY <1>11, HorizonIs DEF Evidences
  <2> HIDE DEF t, r, s
  <2> QED
    BY <1>7, <1>9, <1>11, <1>12, <2>1 DEF Evaluation
<1>14. Probing(k, c)
  BY <1>1, <1>12, <1>13 DEF Probing, served
<1> QED
  BY <1>4, <1>5, <1>14

LEMMA NoViewsIs == ASSUME Base, HostedNoViews PROVE \A c : Probing(NextDue, c)
<1> DEFINE k == NextDue
           s == hosted.new.sched[k]
           st == [Closed(s.st) EXCEPT !.next = 1]
           e == [st |-> st, withdrawn |-> "Unknown"]
<1>1. hosted.left > 0 /\ hosted.at = "probe" /\ k \in hosted.due /\ k \in Keys
  BY DueIs DEF HostedNoViews, More
<1>2. s \in Schedules /\ s.st \in Evidences
  BY <1>1, PassFields DEF Units, Schedules
<1>3. st \in Evidences /\ st.window = 0 /\ st.notBefore = 0 /\ st.id = s.st.id
      /\ st.missing = s.st.missing /\ st.positive = s.st.positive
  <2>1. Closed(s.st) \in Evidences /\ Closed(s.st).window = 0 /\ Closed(s.st).notBefore = 0
        /\ Closed(s.st).id = s.st.id /\ Closed(s.st).missing = s.st.missing
        /\ Closed(s.st).positive = s.st.positive /\ 1 \in -2..1
    BY <1>2, ClosedTyped
  <2> QED
    BY <2>1 DEF Evidences
<1> HIDE DEF st
<1>4. e.st = st /\ e.withdrawn = "Unknown" /\ "Unknown" \in Verdicts
  BY DEF Verdicts
<1>5. Store(k, e)
  BY DEF HostedNoViews, st
<1> HIDE DEF e
<1> DEFINE t == hosted'.new.sched[k]
           r == hosted'.new.results[k]
<1>6. /\ hosted' \in Probes /\ hosted'.snap = hosted.snap /\ hosted'.ack = hosted.ack
      /\ hosted'.due \subseteq hosted.due
      /\ SameSpec(hosted'.new, hosted.new)
      /\ \A j \in Keys \ {k} : /\ hosted'.new.sched[j] = hosted.new.sched[j]
                               /\ hosted'.new.results[j] = hosted.new.results[j]
      /\ t.id = s.id /\ t.omission = s.omission
      /\ t.policy[3] = Served(s.omission, hosted.snap, hosted.ack)
      /\ t.st = e.st \/ t.st = Closed(e.st)
      /\ r.uid = unit.items[k].uid /\ r.probed
      /\ r.withdrawn = "True" => e.withdrawn = "True" /\ t.st = e.st
  BY <1>1, <1>3, <1>4, <1>5, StoreIs
<1>7. /\ t.st.window = 0 /\ t.st.notBefore = 0 /\ t.st.id = s.st.id
      /\ t.st.missing = s.st.missing /\ t.st.positive = s.st.positive /\ r.withdrawn # "True"
  <2> HIDE DEF t, s, r
  <2> QED
    BY <1>3, <1>4, <1>6, ClosedTyped
<1>8. t.st.positive \in Nat
  BY <1>2, <1>7, Parameters DEF Evidences
<1> QED
  BY <1>1, <1>6, <1>7, <1>8 DEF Probing

-----------------------------------------------------------------------------
(* Steps of core and of the hosted controller.                             *)

LEMMA Fields ==
    ASSUME Base
    PROVE  /\ unit \in Units /\ dns \in Dns /\ budget \in Budgets /\ env \in Envs
           /\ unit.items \in [Keys -> Item] /\ unit.results \in [Keys -> Result]
           /\ unit.sched \in [Keys -> Schedules]
           /\ dns.snap \in Snapshots /\ dns.server \in Snapshots /\ dns.told \in Seq(Snapshots)
           /\ dns.cache \in [Views -> 0..Ttl] /\ dns.since \in 0..Horizon
           /\ env.config \in Configs
           /\ budget.uids \in 0..MaxUids /\ budget.flips \in 0..MaxFlips
           /\ core.at = "idle" => core = Idle
           /\ core.at = "read" => core \in Reads /\ core.uids \in [Keys -> UidsOrNone]
           /\ core.at = "status" => core \in Writes /\ core.items \in [Keys -> Item]
                                    /\ core.rest \in SUBSET Keys /\ core.todo \in [Keys -> Claim]
           /\ core.at \in {"idle", "read", "status"}
           /\ hosted.at \in {"idle", "probe"} /\ (hosted.at = "idle" => hosted = Idle)
           /\ Idle.at = "idle"
<1>1. /\ unit \in Units /\ dns \in Dns /\ budget \in Budgets /\ env \in Envs
      /\ core \in {Idle} \cup Reads \cup Writes /\ hosted \in {Idle} \cup Probes
  BY DEF Base
<1>2. /\ unit.items \in [Keys -> Item] /\ unit.results \in [Keys -> Result]
      /\ unit.sched \in [Keys -> Schedules]
  BY <1>1 DEF Units
<1>3. /\ dns.snap \in Snapshots /\ dns.server \in Snapshots /\ dns.told \in Seq(Snapshots)
      /\ dns.cache \in [Views -> 0..Ttl] /\ dns.since \in 0..Horizon
  BY <1>1 DEF Dns
<1>4. env.config \in Configs /\ budget.uids \in 0..MaxUids /\ budget.flips \in 0..MaxFlips
  BY <1>1 DEF Envs, Budgets, UidsOrNone
<1>5. /\ Idle.at = "idle" /\ \A x \in Reads : x.at = "read" /\ x.uids \in [Keys -> UidsOrNone]
      /\ \A x \in Writes : x.at = "status" /\ x.items \in [Keys -> Item]
                           /\ x.rest \in SUBSET Keys /\ x.todo \in [Keys -> Claim]
      /\ \A x \in Probes : x.at = "probe"
  BY DEF Idle, Reads, Writes, Probes
<1> QED
  BY <1>1, <1>2, <1>3, <1>4, <1>5

\* Everything in units u and v but what is observed.
SameState(u, v) ==
    /\ u.has = v.has /\ u.class = v.class /\ u.items = v.items
    /\ u.results = v.results /\ u.sched = v.sched

Respecified(u) ==
    \/ unit' = unit /\ hosted' = hosted /\ u = unit
    \/ SameState(unit', u) /\ unit'.observed = FALSE /\ hosted' = Idle

LEMMA PatchSpecIs ==
    ASSUME Base, NEW u \in Units, PatchSpec(u)
    PROVE  Respecified(u) /\ unit' \in Units
<1>1. CASE u = unit
  BY <1>1 DEF PatchSpec, Respecified, Base
<1>2. CASE u # unit
  <2>1. unit' = [u EXCEPT !.observed = FALSE] /\ hosted' = Idle
    BY <1>2 DEF PatchSpec
  <2> QED
    BY <2>1 DEF Respecified, SameState, Units
<1> QED
  BY <1>1, <1>2

\* core may have lost its lock.
CoreKept == core' = core \/ (core.at = "status" /\ core' = [core EXCEPT !.locked = FALSE])

LEMMA CoreKeptIs ==
    ASSUME Base, CoreKept
    PROVE  /\ core' \in {Idle} \cup Reads \cup Writes /\ core'.at = core.at
           /\ core.at = "read" => core'.uids = core.uids
           /\ core.at = "status" => core'.items = core.items /\ core'.todo = core.todo
<1>1. CASE core' = core
  BY <1>1 DEF Base
<1>2. CASE core.at = "status" /\ core' = [core EXCEPT !.locked = FALSE]
  <2>1. core \in Writes
    BY <1>2, Fields
  <2> QED
    BY <1>2, <2>1 DEF Writes
<1> QED
  BY <1>1, <1>2 DEF CoreKept

LEMMA PatchStatusIs ==
    ASSUME Base, NEW u \in Units, PatchStatus(u)
    PROVE  /\ unit' \in Units /\ SameState(unit', u) /\ unit'.observed = TRUE
           /\ CoreKept
  BY DEF PatchStatus, Units, SameState, CoreKept

\* rejectWithdrawals
Rejection(u) ==
    /\ u \in Units /\ u.has = unit.has /\ u.class = unit.class /\ u.items = unit.items
    /\ \A k \in Keys :
          LET i == unit.items[k]
              r == unit.results[k]
              s == unit.sched[k]
          IN  /\ i = NoItem => u.results[k] = NoResult /\ u.sched[k] = s
              /\ i # NoItem =>
                    /\ u.results[k].uid = i.uid /\ u.results[k].withdrawn = "Unknown"
                    /\ u.results[k].probed = (r.uid = i.uid /\ r.probed)
                    /\ u.sched[k].id = s.id /\ u.sched[k].omission = s.omission
                    /\ u.sched[k].st = Closed(s.st)

LEMMA UnverifiedIs ==
    ASSUME NEW i \in Item, NEW r \in Result
    PROVE  LET p == Unverified(i, r)
           IN  /\ p \in Result /\ p.uid = i.uid /\ p.withdrawn = "Unknown"
               /\ p.probed = (r.uid = i.uid /\ r.probed)
<1> DEFINE known == r.uid = i.uid /\ r.probed
           p == Unverified(i, r)
<1>1. p = [uid |-> i.uid, withdrawn |-> "Unknown", waiver |-> 0, probed |-> known]
  BY DEF Unverified
<1>2. known \in BOOLEAN /\ 0 \in 0..MaxUids /\ i.uid \in 0..MaxUids
  BY Parameters DEF Item
<1>3. p \in Result /\ p.uid = i.uid /\ p.withdrawn = "Unknown" /\ p.probed = known
  <2> HIDE DEF p, known
  <2> QED
    BY <1>1, <1>2 DEF Result, Verdicts
<1> QED
  BY <1>3

LEMMA RejectIs ==
    ASSUME Base, HostedReject
    PROVE  /\ \E u : Rejection(u) /\ SameState(unit', u)
           /\ unit' \in Units /\ unit'.observed = TRUE /\ CoreKept
           /\ hosted.at = "idle" /\ UNCHANGED <<claim, waiver, env, dns, hosted, budget>>
<1> DEFINE R(k) == IF unit.items[k] = NoItem THEN NoResult
                   ELSE Unverified(unit.items[k], unit.results[k])
           S(k) == IF unit.items[k] = NoItem THEN unit.sched[k]
                   ELSE [unit.sched[k] EXCEPT !.next = 0, !.st = Closed(@)]
           u == [unit EXCEPT !.results = [k \in Keys |-> R(k)], !.sched = [k \in Keys |-> S(k)]]
<1>1. unit \in Units /\ \A k \in Keys : /\ unit.items[k] \in Item /\ unit.results[k] \in Result
                                        /\ unit.sched[k] \in Schedules /\ unit.sched[k].st \in Evidences
  BY Fields DEF Schedules
<1>2. ASSUME NEW k \in Keys
      PROVE  /\ R(k) \in Result
             /\ unit.items[k] # NoItem =>
                   /\ R(k).uid = unit.items[k].uid /\ R(k).withdrawn = "Unknown"
                   /\ R(k).probed = (unit.results[k].uid = unit.items[k].uid /\ unit.results[k].probed)
  BY <1>1, UnverifiedIs, NoScheduleTyped
<1>3. ASSUME NEW k \in Keys
      PROVE  /\ S(k) \in Schedules
             /\ unit.items[k] # NoItem =>
                   /\ S(k).id = unit.sched[k].id /\ S(k).omission = unit.sched[k].omission
                   /\ S(k).st = Closed(unit.sched[k].st)
  <2>1. Closed(unit.sched[k].st) \in Evidences /\ 0 \in -2..1
    BY <1>1, ClosedTyped
  <2> QED
    BY <1>1, <2>1 DEF Schedules
<1>4. [k \in Keys |-> R(k)] \in [Keys -> Result] /\ [k \in Keys |-> S(k)] \in [Keys -> Schedules]
  BY <1>2, <1>3
<1>5. \A k \in Keys : unit.items[k] = NoItem => R(k) = NoResult /\ S(k) = unit.sched[k]
  OBVIOUS
<1>6. PatchStatus(u)
  BY DEF HostedReject
<1> HIDE DEF R, S
<1>7. /\ u \in Units /\ u.has = unit.has /\ u.class = unit.class /\ u.items = unit.items
      /\ u.results = [k \in Keys |-> R(k)] /\ u.sched = [k \in Keys |-> S(k)]
  BY <1>1, <1>4 DEF Units
<1> HIDE DEF u
<1>8. Rejection(u)
  BY <1>2, <1>3, <1>5, <1>7 DEF Rejection
<1> QED
  BY <1>6, <1>7, <1>8, PatchStatusIs DEF HostedReject

\* What starts a hosted pass.
Rendering ==
    /\ hosted.at = "idle" /\ UNCHANGED <<claim, waiver, env, unit, core, budget>>
    /\ hosted' \in Probes /\ hosted'.at = "probe" /\ hosted'.ack = dns.server
    /\ hosted'.snap = dns'.snap /\ SameSpec(hosted'.new, unit)
    /\ \A k \in Keys :
          \E w : /\ Survey(w, unit, k, dns'.snap)
                 /\ hosted'.new.sched[k] = w.s /\ hosted'.new.results[k] = w.r
                 /\ w.due = (k \in hosted'.due)
    /\ dns' \in Dns /\ dns'.server = dns.server /\ dns'.cache = dns.cache /\ dns'.since = dns.since
    /\ Lists(dns'.snap) = unit.has
    /\ \/ dns'.snap = dns.snap /\ dns'.told = dns.told
       \/ dns'.snap.serial = dns.snap.serial + 1 /\ dns'.told = Append(dns.told, dns'.snap)

LEMMA RenderIs == ASSUME Base, HostedRender PROVE Rendering
<1> DEFINE snap == Rendered(unit)
           pub == Published(unit)
           W(k) == Surveyed(unit, k, pub, snap, dns.server)
           none == \A k \in Keys : unit.items[k] = NoItem
           new == [unit EXCEPT !.pub = pub, !.cursor = IF none THEN 0 ELSE @,
                               !.sched = [k \in Keys |-> W(k).s], !.results = [k \in Keys |-> W(k).r]]
           pass == [at |-> "probe", snap |-> snap, ack |-> dns.server,
                    env |-> Fingerprint(unit), probed |-> FALSE, left |-> PassBudget,
                    due |-> {k \in Keys : W(k).due}, new |-> new]
           told == IF snap = dns.snap THEN dns.told ELSE Append(dns.told, snap)
<1>1. /\ hosted.at = "idle" /\ UNCHANGED <<claim, waiver, env, unit, core, budget>>
      /\ dns' = [dns EXCEPT !.snap = snap, !.told = told]
  BY DEF HostedRender
<1>2. hosted' = pass
  <2> DEFINE all == [k \in Keys |-> W(k)]
             pass2 == [at |-> "probe", snap |-> snap, ack |-> dns.server,
                    env |-> Fingerprint(unit), probed |-> FALSE, left |-> PassBudget,
                    due |-> {k \in Keys : all[k].due},
                    new |-> [unit EXCEPT !.pub = pub, !.cursor = IF none THEN 0 ELSE @,
                               !.sched = [k \in Keys |-> all[k].s], !.results = [k \in Keys |-> all[k].r]]]
  <2>1. hosted' = pass2
    BY DEF HostedRender
  <2>2. /\ {k \in Keys : all[k].due} = {k \in Keys : W(k).due}
        /\ [k \in Keys |-> all[k].s] = [k \in Keys |-> W(k).s]
        /\ [k \in Keys |-> all[k].r] = [k \in Keys |-> W(k).r]
    <3> HIDE DEF W
    <3> QED
      OBVIOUS
  <2> HIDE DEF W, snap, pub, none
  <2> QED
    BY <2>1, <2>2
<1>3. pub \in 0..Ttl
  <2>1. unit.pub \in 0..Ttl
    BY Fields DEF Units
  <2> QED
    BY <2>1, MaxTwo, Parameters DEF Published
<1>4. snap \in Snapshots /\ Lists(snap) = unit.has
      /\ (snap = dns.snap \/ snap.serial = dns.snap.serial + 1)
  <2> DEFINE c == [has |-> unit.has, min |-> env.config.min]
  <2>1. c \in Content /\ c.has = unit.has
    BY Fields DEF Content, Units
  <2>2. dns.snap.serial \in Nat /\ dns.snap \in Snapshots
    BY Fields DEF Snapshots
  <2>3. snap = IF dns.snap.content = c THEN dns.snap ELSE Snapshot(dns.snap.serial + 1, c)
    BY DEF Rendered
  <2> HIDE DEF c
  <2> QED
    BY <2>1, <2>2, <2>3 DEF Snapshot, Snapshots, Lists
<1> HIDE DEF snap, pub
<1>5. \A k \in Keys : Survey(W(k), unit, k, snap)
  BY <1>3, <1>4, SurveyedIs, Fields
<1>6. \A k \in Keys : W(k).s \in Schedules /\ W(k).r \in Result /\ W(k).due \in BOOLEAN
  BY <1>5 DEF Survey
<1> HIDE DEF W
<1>7. /\ new \in Units /\ SameSpec(new, unit) /\ new.sched = [k \in Keys |-> W(k).s]
      /\ new.results = [k \in Keys |-> W(k).r]
  BY <1>3, <1>6, Fields DEF Units, SameSpec
<1> HIDE DEF new
<1>8. Fingerprint(unit) \in Bindings
  BY Fields DEF Fingerprint, Bindings, Units
<1>9. pass \in Probes /\ pass.at = "probe" /\ pass.ack = dns.server /\ pass.snap = snap
      /\ pass.new = new /\ pass.due = {k \in Keys : W(k).due}
  BY <1>4, <1>7, <1>8, Fields, Parameters DEF Probes
<1> HIDE DEF pass
<1>10. told \in Seq(Snapshots)
  BY <1>4, Fields
<1>11. /\ dns' \in Dns /\ dns'.snap = snap /\ dns'.told = told /\ dns'.server = dns.server
       /\ dns'.cache = dns.cache /\ dns'.since = dns.since
  <2> HIDE DEF told
  <2> QED
    BY <1>1, <1>4, <1>10, Fields DEF Dns
<1>12. \A k \in Keys : /\ Survey(W(k), unit, k, dns'.snap)
                       /\ hosted'.new.sched[k] = W(k).s /\ hosted'.new.results[k] = W(k).r
                       /\ W(k).due = (k \in hosted'.due)
  BY <1>2, <1>5, <1>6, <1>7, <1>9, <1>11
<1> QED
  BY <1>1, <1>2, <1>4, <1>7, <1>9, <1>11, <1>12 DEF Rendering

-----------------------------------------------------------------------------
(* Every step keeps the types.                                             *)

LEMMA Counted ==
    ASSUME Base
    PROVE  /\ budget.events < MaxEvents => [budget EXCEPT !.events = @ + 1] \in Budgets
           /\ budget.flips < MaxFlips => [budget EXCEPT !.flips = @ + 1] \in Budgets
           /\ budget.uids < MaxUids => [budget EXCEPT !.uids = @ + 1] \in Budgets
<1>1. budget \in Budgets /\ budget.events \in 0..MaxEvents /\ budget.flips \in 0..MaxFlips
      /\ budget.uids \in 0..MaxUids
  BY DEF Base, Budgets, UidsOrNone
<1>2. budget.events < MaxEvents => budget.events + 1 \in 0..MaxEvents
  BY <1>1, Parameters
<1>3. budget.flips < MaxFlips => budget.flips + 1 \in 0..MaxFlips
  BY <1>1, Parameters
<1>4. budget.uids < MaxUids => budget.uids + 1 \in UidsOrNone
  BY <1>1, Parameters DEF UidsOrNone
<1> QED
  BY <1>1, <1>2, <1>3, <1>4 DEF Budgets

LEMMA ItemTyped ==
    ASSUME Base, NEW uids \in [Keys -> UidsOrNone], NEW k \in Keys
    PROVE  /\ ItemOf(uids, k) \in Item /\ ItemOf(uids, k).uid = uids[k]
           /\ ItemOf(uids, k).waiver \in {0, uids[k]}
           /\ uids[k] = 0 => ItemOf(uids, k) = NoItem
<1> DEFINE w == IF Allowed(uids) /\ WaiverMatches(waiver[k], uids[k]) THEN waiver[k].for ELSE 0
<1>1. w \in {0, uids[k]} /\ uids[k] \in 0..MaxUids
  BY DEF WaiverMatches, UidsOrNone
<1>2. Allowed(uids) \in BOOLEAN
  BY Fields DEF Allowed, Envs
<1>3. CASE uids[k] = 0
  BY <1>3, NoScheduleTyped DEF ItemOf, NoItem
<1>4. CASE uids[k] # 0
  <2>1. ItemOf(uids, k) = [uid |-> uids[k], allowed |-> Allowed(uids), waiver |-> w]
    BY <1>4 DEF ItemOf
  <2> HIDE DEF w
  <2> QED
    BY <1>1, <1>2, <1>4, <2>1, Parameters DEF Item
<1> QED
  BY <1>3, <1>4

\* The inventory that core computes.
LEMMA ItemsIs ==
    ASSUME Base, NEW uids \in [Keys -> UidsOrNone]
    PROVE  /\ Items(uids) \in [Keys -> Item]
           /\ \A k \in Keys :
                 \/ /\ Items(uids)[k].uid = unit.items[k].uid
                    /\ unit.items[k] = NoItem => Items(uids)[k] = NoItem
                 \/ Items(uids)[k].uid = uids[k] /\ (uids[k] = 0 => Items(uids)[k] = NoItem)
<1>1. CASE TooMany(uids)
  <2>1. Items(uids) = [k \in Keys |-> [unit.items[k] EXCEPT !.allowed = FALSE, !.waiver = 0]]
    BY <1>1 DEF Items
  <2> DEFINE I(k) == [unit.items[k] EXCEPT !.allowed = FALSE, !.waiver = 0]
  <2>2. ASSUME NEW k \in Keys PROVE I(k) \in Item /\ I(k).uid = unit.items[k].uid
    <3>1. unit.items[k] \in Item /\ 0 \in 0..MaxUids
      BY Fields, Parameters
    <3> QED
      BY <3>1 DEF Item
  <2>3. ASSUME NEW k \in Keys, unit.items[k] = NoItem PROVE I(k) = NoItem
    <3> DEFINE m == [NoItem EXCEPT !.allowed = FALSE, !.waiver = 0]
    <3>1. NoItem \in Item /\ NoItem.allowed = FALSE /\ NoItem.waiver = 0
      BY NoScheduleTyped DEF NoItem
    <3>2. m \in Item /\ m.uid = NoItem.uid /\ m.allowed = NoItem.allowed /\ m.waiver = NoItem.waiver
      BY <3>1 DEF Item
    <3>3. I(k) = m
      BY <2>3
    <3> HIDE DEF m
    <3>4. m = NoItem
      BY <3>1, <3>2 DEF Item
    <3> QED
      BY <3>3, <3>4
  <2>4. Items(uids) = [k \in Keys |-> I(k)]
    BY <2>1
  <2> HIDE DEF I
  <2> QED
    BY <2>2, <2>3, <2>4
<1>2. CASE ~TooMany(uids)
  <2>1. Items(uids) = [k \in Keys |-> ItemOf(uids, k)]
    BY <1>2 DEF Items
  <2> QED
    BY <2>1, ItemTyped
<1> QED
  BY <1>1, <1>2

LEMMA ProjectedIs ==
    ASSUME Base, NEW k \in Keys, NEW i \in Item, i.waiver \in {0, i.uid}
    PROVE  LET p == Projected(i, k)
           IN  /\ p \in Claim /\ p.uid = i.uid /\ p.override \in {0, i.uid}
               /\ p.withdrawn = "True" => /\ unit.results[k].withdrawn = "True"
                                          /\ unit.results[k].uid = i.uid
<1> DEFINE r == unit.results[k]
           said == IF Projects(i, k) THEN r.withdrawn ELSE "Unknown"
           over == IF Projects(i, k) /\ i.waiver # 0 /\ r.waiver = i.waiver THEN r.waiver ELSE 0
           p == Projected(i, k)
<1>1. r \in Result
  BY Fields
<1>2. said \in Verdicts /\ (said = "True" => r.withdrawn = "True" /\ r.uid = i.uid)
  BY <1>1 DEF Result, Verdicts, Projects
<1>3. over \in {0, i.uid} /\ over \in 0..MaxUids
  BY Parameters DEF Item
<1>4. p = [uid |-> i.uid, accepted |-> i.allowed, withdrawn |-> said, override |-> over]
  BY DEF Projected
<1>5. p \in Claim /\ p.uid = i.uid /\ p.override = over /\ p.withdrawn = said
  <2> HIDE DEF said, over, p
  <2> QED
    BY <1>2, <1>3, <1>4 DEF Claim, Item
<1> QED
  BY <1>2, <1>3, <1>5

LEMMA CoreReadIs ==
    ASSUME Base, CoreRead
    PROVE  /\ core.at = "read" /\ core'.at = "status" /\ core' \in Writes
           /\ core'.items = Items(core.uids)
           /\ \A k \in Keys :
                 LET p == core'.todo[k]
                 IN  /\ p.override \in {0, p.uid}
                     /\ p.withdrawn = "True" => /\ unit.results[k].withdrawn = "True"
                                                /\ unit.results[k].uid = p.uid
           /\ UNCHANGED <<claim, waiver, env, unit, dns, hosted, budget>>
<1>1. core.at = "read" /\ core.uids \in [Keys -> UidsOrNone]
  BY Fields DEF CoreRead
<1> DEFINE P(k) == Projected(ItemOf(core.uids, k), k)
           new == [at |-> "status", locked |-> TRUE, items |-> Items(core.uids),
                   rest |-> {k \in Keys : core.uids[k] # 0}, todo |-> [k \in Keys |-> P(k)]]
<1>2. core' = new /\ UNCHANGED <<claim, waiver, env, unit, dns, hosted, budget>>
  BY DEF CoreRead
<1>3. ASSUME NEW k \in Keys
      PROVE  /\ P(k) \in Claim /\ P(k).override \in {0, P(k).uid}
             /\ P(k).withdrawn = "True" => /\ unit.results[k].withdrawn = "True"
                                           /\ unit.results[k].uid = P(k).uid
  <2> DEFINE i == ItemOf(core.uids, k)
  <2>1. i \in Item /\ i.waiver \in {0, i.uid}
    BY <1>1, ItemTyped
  <2> HIDE DEF i
  <2>2. LET p == Projected(i, k)
        IN  /\ p \in Claim /\ p.uid = i.uid /\ p.override \in {0, i.uid}
            /\ p.withdrawn = "True" => /\ unit.results[k].withdrawn = "True"
                                       /\ unit.results[k].uid = i.uid
    BY <2>1, ProjectedIs
  <2> QED
    BY <2>2 DEF i
<1> HIDE DEF P
<1>4. /\ new \in Writes /\ new.at = "status" /\ new.items = Items(core.uids)
      /\ new.todo = [k \in Keys |-> P(k)]
  BY <1>1, <1>3, ItemsIs DEF Writes
<1> HIDE DEF new
<1> QED
  BY <1>1, <1>2, <1>3, <1>4

LEMMA CoreUnitIs ==
    ASSUME Base, CoreUnit
    PROVE  /\ core.at = "status" /\ core' = Idle /\ UNCHANGED <<claim, waiver, env, dns, budget>>
           /\ \E u \in Units :
                 /\ Respecified(u) /\ unit' \in Units
                 /\ u.has = unit.has /\ u.class = unit.class /\ u.results = unit.results
                 /\ u.sched = unit.sched /\ u.items \in {unit.items, core.items}
<1>1. core.at = "status" /\ core' = Idle /\ UNCHANGED <<claim, waiver, env, dns, budget>>
  BY DEF CoreUnit
<1> DEFINE u == IF core.locked THEN [unit EXCEPT !.items = core.items] ELSE unit
<1>2. PatchSpec(u)
  BY DEF CoreUnit
<1>3. /\ u \in Units /\ u.has = unit.has /\ u.class = unit.class /\ u.results = unit.results
      /\ u.sched = unit.sched /\ u.items \in {unit.items, core.items}
  BY <1>1, Fields DEF Units
<1> QED
  BY <1>1, <1>2, <1>3, PatchSpecIs

LEMMA CoreZoneIs ==
    ASSUME Base, CoreZone
    PROVE  /\ core.at = "idle" /\ core' = [at |-> "read", uids |-> [k \in Keys |-> claim[k].uid]]
           /\ UNCHANGED <<claim, waiver, env, dns, budget>>
           /\ \E u \in Units :
                 /\ Respecified(u) /\ unit' \in Units
                 /\ u.has = env.wanted /\ u.results = unit.results /\ u.sched = unit.sched
                 /\ u.items = unit.items
<1>1. /\ core.at = "idle" /\ core' = [at |-> "read", uids |-> [k \in Keys |-> claim[k].uid]]
      /\ UNCHANGED <<claim, waiver, env, dns, budget>>
  BY DEF CoreZone
<1> DEFINE u == [unit EXCEPT !.has = env.wanted, !.class = env.class]
<1>2. PatchSpec(u)
  BY DEF CoreZone
<1>3. env.wanted \in BOOLEAN /\ env.class \in Nat
  BY Fields DEF Envs
<1>4. /\ u \in Units /\ u.has = env.wanted /\ u.results = unit.results /\ u.sched = unit.sched
      /\ u.items = unit.items
  BY <1>3, Fields DEF Units
<1> QED
  BY <1>1, <1>2, <1>4, PatchSpecIs

\* The save of a pass.
LEMMA SaveIs ==
    ASSUME Base, HostedSave
    PROVE  /\ hosted.at = "probe" /\ hosted' = Idle /\ UNCHANGED <<claim, waiver, env, dns>>
           /\ \/ unit' = unit /\ core' = core
              \/ SameState(unit', hosted.new) /\ unit'.observed = TRUE /\ CoreKept
           /\ unit' \in Units
           /\ budget' \in Budgets
           /\ budget'.uids = budget.uids /\ budget'.flips = budget.flips /\ budget'.lost = budget.lost
           /\ budget.verified \subseteq budget'.verified
           /\ \A k \in Keys : unit'.results[k].withdrawn = "True" =>
                 unit'.results[k].uid \in budget'.verified
<1> DEFINE more == {unit'.results[k].uid : k \in {k \in Keys : unit'.results[k].withdrawn = "True"}}
<1>1. /\ hosted.at = "probe" /\ hosted' = Idle /\ UNCHANGED <<claim, waiver, env, dns>>
      /\ budget' = [budget EXCEPT !.verified = @ \cup more]
      /\ IF Rechecked THEN PatchStatus(hosted.new) ELSE UNCHANGED <<unit, core>>
  BY DEF HostedSave
<1>2. hosted.new \in Units
  BY <1>1, PassFields
<1>3. /\ \/ unit' = unit /\ core' = core
         \/ SameState(unit', hosted.new) /\ unit'.observed = TRUE /\ CoreKept
      /\ unit' \in Units
  BY <1>1, <1>2, PatchStatusIs, Fields
<1>4. more \subseteq UidsOrNone
  BY <1>3 DEF Units, Result, UidsOrNone
<1>5. /\ budget' \in Budgets
      /\ budget'.uids = budget.uids /\ budget'.flips = budget.flips /\ budget'.lost = budget.lost
      /\ budget'.verified = budget.verified \cup more
  <2> HIDE DEF more
  <2> QED
    BY <1>1, <1>4, Fields DEF Budgets
<1> QED
  BY <1>1, <1>3, <1>5

LEMMA LossIs ==
    ASSUME Base, LoseState
    PROVE  /\ unit' \in Units /\ unit'.has = unit.has /\ unit'.items = unit.items
           /\ unit'.class = unit.class /\ unit'.observed = unit.observed /\ unit'.results = unit.results
           /\ \A k \in Keys : unit'.sched[k] = NoSchedule
           /\ budget' \in Budgets
           /\ budget'.uids = budget.uids /\ budget'.flips = budget.flips
           /\ budget'.verified = budget.verified
           /\ budget'.lost = budget.lost \cup
                 {unit.results[k].uid : k \in {k \in Keys : unit.results[k].probed}}
           /\ hosted' = Idle /\ CoreKept /\ UNCHANGED <<claim, waiver, env, dns>>
<1> DEFINE more == {unit.results[k].uid : k \in {k \in Keys : unit.results[k].probed}}
<1>1. /\ budget.events < MaxEvents
      /\ unit' = [unit EXCEPT !.sched = [k \in Keys |-> NoSchedule], !.pub = 0, !.cursor = 0]
      /\ budget' = [budget EXCEPT !.events = @ + 1, !.lost = @ \cup more]
      /\ hosted' = Idle /\ CoreKept /\ UNCHANGED <<claim, waiver, env, dns>>
  BY DEF LoseState, CoreKept
<1>2. more \subseteq UidsOrNone
  BY Fields DEF Result, UidsOrNone
<1>3. budget.events + 1 \in 0..MaxEvents
  BY <1>1, Fields, Parameters DEF Budgets
<1>4. /\ budget' \in Budgets
      /\ budget'.uids = budget.uids /\ budget'.flips = budget.flips
      /\ budget'.verified = budget.verified /\ budget'.lost = budget.lost \cup more
  <2> HIDE DEF more
  <2> QED
    BY <1>1, <1>2, <1>3, Fields DEF Budgets
<1>5. [k \in Keys |-> NoSchedule] \in [Keys -> Schedules]
  BY NoScheduleTyped
<1>6. 0 \in 0..Ttl
  BY Parameters
<1>7. /\ unit' \in Units /\ unit'.has = unit.has /\ unit'.items = unit.items
      /\ unit'.class = unit.class /\ unit'.observed = unit.observed /\ unit'.results = unit.results
      /\ unit'.sched = [k \in Keys |-> NoSchedule]
  BY <1>1, <1>5, <1>6, Fields DEF Units
<1> QED
  BY <1>1, <1>4, <1>7

\* Nothing that core and the hosted controller work on.
Aside == /\ UNCHANGED <<claim, unit, core, hosted>>
         /\ budget'.uids = budget.uids /\ budget'.verified = budget.verified
         /\ budget'.lost = budget.lost

LEMMA SpendIs ==
    ASSUME Base
    PROVE  /\ Spend("events") => /\ budget'.uids = budget.uids /\ budget'.flips = budget.flips
                                 /\ budget'.verified = budget.verified /\ budget'.lost = budget.lost
           /\ Spend("flips") => /\ budget'.uids = budget.uids /\ budget'.flips = budget.flips + 1
                                /\ budget'.verified = budget.verified /\ budget'.lost = budget.lost
           /\ Spend("uids") => /\ budget'.uids = budget.uids + 1 /\ budget'.flips = budget.flips
                               /\ budget'.verified = budget.verified /\ budget'.lost = budget.lost
<1>1. budget \in Budgets
  BY DEF Base
<1> QED
  BY <1>1 DEF Spend, Budgets

\* What time changes.
Passing ==
    /\ UNCHANGED <<claim, waiver, env, core, budget>>
    /\ unit' \in Units /\ SameSpec(unit', unit) /\ unit'.results = unit.results
    /\ \A k \in Keys : AgedSchedule(unit'.sched[k], unit.sched[k])
    /\ Windowed(unit')
    /\ hosted' \in {Idle} \cup Probes /\ hosted'.at = hosted.at
    /\ hosted.at = "probe" =>
          /\ hosted'.snap = hosted.snap /\ hosted'.ack = hosted.ack /\ hosted'.due = hosted.due
          /\ SameSpec(hosted'.new, hosted.new) /\ hosted'.new.results = hosted.new.results
          /\ \A k \in Keys : AgedSchedule(hosted'.new.sched[k], hosted.new.sched[k])
          /\ Windowed(hosted'.new)
    /\ dns' \in Dns /\ dns'.snap = dns.snap /\ dns'.told = dns.told /\ dns'.server = dns.server
    /\ \A v \in Views : dns'.cache[v] = Less(dns.cache[v])
    /\ dns'.since = IF Lists(dns.server) THEN 0
                    ELSE IF dns.since < Horizon THEN dns.since + 1 ELSE Horizon

LEMMA TickIs == ASSUME Base, Tick PROVE Passing
<1>1. /\ unit' = Aged(unit) /\ hosted' = AgedPass
      /\ UNCHANGED <<claim, waiver, env, core, budget>>
  BY DEF Tick
<1>2. /\ unit' \in Units /\ SameSpec(unit', unit) /\ unit'.results = unit.results
      /\ \A k \in Keys : AgedSchedule(unit'.sched[k], unit.sched[k])
      /\ Windowed(unit')
  BY <1>1, UnitAged DEF SameSpec, Base
<1>3. /\ hosted' \in {Idle} \cup Probes /\ hosted'.at = hosted.at
      /\ hosted.at = "probe" =>
          /\ hosted'.snap = hosted.snap /\ hosted'.ack = hosted.ack /\ hosted'.due = hosted.due
          /\ SameSpec(hosted'.new, hosted.new) /\ hosted'.new.results = hosted.new.results
          /\ \A k \in Keys : AgedSchedule(hosted'.new.sched[k], hosted.new.sched[k])
          /\ Windowed(hosted'.new)
  <2>1. CASE hosted.at = "idle"
    BY <1>1, <2>1, Fields DEF AgedPass
  <2>2. CASE hosted.at = "probe"
    <3>1. hosted \in Probes /\ hosted.new \in Units /\ Windowed(hosted.new)
      BY <2>2, PassFields
    <3> DEFINE new == Aged(hosted.new)
    <3>2. /\ new \in Units /\ SameSpec(new, hosted.new) /\ new.results = hosted.new.results
          /\ \A k \in Keys : AgedSchedule(new.sched[k], hosted.new.sched[k])
          /\ Windowed(new)
      BY <3>1, UnitAged DEF SameSpec
    <3>3. hosted' = [hosted EXCEPT !.new = new]
      BY <1>1, <2>2 DEF AgedPass
    <3> HIDE DEF new
    <3>4. /\ hosted' \in Probes /\ hosted'.at = hosted.at /\ hosted'.snap = hosted.snap
          /\ hosted'.ack = hosted.ack /\ hosted'.due = hosted.due /\ hosted'.new = new
      BY <3>1, <3>2, <3>3 DEF Probes
    <3> QED
      BY <3>2, <3>4
  <2> QED
    BY <2>1, <2>2, Fields
<1>4. /\ dns' \in Dns /\ dns'.snap = dns.snap /\ dns'.told = dns.told /\ dns'.server = dns.server
      /\ \A v \in Views : dns'.cache[v] = Less(dns.cache[v])
      /\ dns'.since = IF Lists(dns.server) THEN 0
                      ELSE IF dns.since < Horizon THEN dns.since + 1 ELSE Horizon
  <2> DEFINE c == [v \in Views |-> Less(dns.cache[v])]
             n == IF dns.server.content.has THEN 0 ELSE Min({dns.since + 1, Horizon})
  <2>1. dns' = [dns EXCEPT !.cache = c, !.since = n]
    BY DEF Tick
  <2>2. c \in [Views -> 0..Ttl]
    <3>1. \A v \in Views : dns.cache[v] \in 0..Ttl
      BY Fields
    <3> QED
      BY <3>1, Parameters DEF Less
  <2>3. /\ n \in 0..Horizon
        /\ n = IF Lists(dns.server) THEN 0
                      ELSE IF dns.since < Horizon THEN dns.since + 1 ELSE Horizon
    <3>1. dns.since \in 0..Horizon /\ Horizon \in Nat
      BY Fields, HorizonIs
    <3>2. Min({dns.since + 1, Horizon}) = IF dns.since < Horizon THEN dns.since + 1 ELSE Horizon
      BY <3>1, MinTwo
    <3> QED
      BY <3>1, <3>2 DEF Lists
  <2>4. dns'.cache = c /\ dns'.since = n /\ dns' \in Dns /\ dns'.snap = dns.snap
        /\ dns'.told = dns.told /\ dns'.server = dns.server
    <3> HIDE DEF c, n
    <3> QED
      BY <2>1, <2>2, <2>3, Fields DEF Dns
  <2> QED
    BY <2>3, <2>4
<1> QED
  BY <1>1, <1>2, <1>3, <1>4 DEF Passing

\* Probing by either action.
ProbeStep ==
    /\ UNCHANGED <<claim, waiver, env, unit, core>>
    /\ \E k \in Keys : Probing(k, dns'.cache)
    /\ dns' \in Dns /\ dns'.snap = dns.snap /\ dns'.told = dns.told /\ dns'.server = dns.server
    /\ dns'.since = dns.since /\ (~Lists(dns.server) => dns'.cache = dns.cache)
    /\ budget' \in Budgets
    /\ budget'.uids = budget.uids /\ budget'.flips = budget.flips
    /\ budget'.verified = budget.verified /\ budget'.lost = budget.lost

LEMMA ProbeStepIs == ASSUME Base, HostedProbe \/ HostedNoViews PROVE ProbeStep
<1>1. CASE HostedProbe
  <2>1. UNCHANGED <<claim, waiver, env, unit, core>>
    BY <1>1 DEF HostedProbe
  <2>2. NextDue \in Keys /\ Probing(NextDue, dns'.cache)
    BY <1>1, ProbeIs, DueIs DEF HostedProbe
  <2>3. /\ dns' \in Dns /\ dns'.snap = dns.snap /\ dns'.told = dns.told /\ dns'.server = dns.server
        /\ dns'.since = dns.since /\ (~Lists(dns.server) => dns'.cache = dns.cache)
    <3>1. PICK c : dns' = [dns EXCEPT !.cache = c] /\ c \in [Views -> 0..Ttl]
      BY <1>1, ProbeIs
    <3>2. ~Lists(dns.server) => dns'.cache = dns.cache
      BY <1>1, ProbeIs
    <3> QED
      BY <3>1, <3>2, Fields DEF Dns
  <2>4. budget' = budget \/ (budget.events < MaxEvents /\ budget' = [budget EXCEPT !.events = @ + 1])
    <3>1. PICK failing : /\ failing # {} => budget.events < MaxEvents
                         /\ budget' = [budget EXCEPT !.events = IF failing = {} THEN @ ELSE @ + 1]
      BY <1>1 DEF HostedProbe
    <3>2. [budget EXCEPT !.events = budget.events] = budget
      BY Fields DEF Budgets
    <3> QED
      BY <3>1, <3>2
  <2>5. /\ budget' \in Budgets
        /\ budget'.uids = budget.uids /\ budget'.flips = budget.flips
        /\ budget'.verified = budget.verified /\ budget'.lost = budget.lost
    BY <2>4, Counted, Fields DEF Budgets
  <2> QED
    BY <2>1, <2>2, <2>3, <2>5 DEF ProbeStep
<1>2. CASE HostedNoViews
  <2>1. UNCHANGED <<claim, waiver, env, unit, dns, core>> /\ budget.events < MaxEvents /\ Spend("events")
    BY <1>2 DEF HostedNoViews
  <2>2. NextDue \in Keys /\ Probing(NextDue, dns'.cache)
    BY <1>2, NoViewsIs, DueIs DEF HostedNoViews
  <2>3. budget' \in Budgets
    BY <2>1, Counted DEF Spend
  <2> QED
    BY <2>1, <2>2, <2>3, SpendIs, Fields DEF ProbeStep
<1> QED
  BY <1>1, <1>2

\* A step of core, or of someone else.
LEMMA CrashIs ==
    ASSUME Base, Crash
    PROVE  /\ UNCHANGED <<claim, waiver, env, unit, dns>>
           /\ \/ core' = Idle /\ hosted' = hosted
              \/ hosted' = Idle /\ core' = core
           /\ budget' \in Budgets
           /\ budget'.uids = budget.uids /\ budget'.flips = budget.flips
           /\ budget'.verified = budget.verified /\ budget'.lost = budget.lost
<1>1. budget.events < MaxEvents /\ Spend("events") /\ UNCHANGED <<claim, waiver, env, unit, dns>>
      /\ ((core' = Idle /\ hosted' = hosted) \/ (hosted' = Idle /\ core' = core))
  BY DEF Crash
<1>2. budget' \in Budgets
  BY <1>1, Counted DEF Spend
<1> QED
  BY <1>1, <1>2, SpendIs

LEMMA LoadIs ==
    ASSUME Base, Load
    PROVE  /\ UNCHANGED <<claim, waiver, env, unit, core, hosted, budget>>
           /\ dns' \in Dns /\ dns'.snap = dns.snap /\ dns'.cache = dns.cache
           /\ dns.told # <<>> /\ dns'.server = Head(dns.told) /\ dns'.told = Tail(dns.told)
           /\ ~Lists(dns.server) => dns'.since = dns.since
<1>1. /\ UNCHANGED <<claim, waiver, env, unit, core, hosted, budget>> /\ dns.told # <<>>
      /\ dns' = [dns EXCEPT !.server = Head(dns.told), !.told = Tail(dns.told),
                            !.since = IF dns.server.content.has THEN 0 ELSE dns.since]
  BY DEF Load
<1>2. Head(dns.told) \in Snapshots /\ Tail(dns.told) \in Seq(Snapshots) /\ 0 \in 0..Horizon
  BY <1>1, Fields, HorizonIs
<1> QED
  BY <1>1, <1>2, Fields DEF Dns, Lists

LEMMA QueryIs ==
    ASSUME Base, NEW v \in Views, Query(v)
    PROVE  /\ UNCHANGED <<claim, waiver, env, unit, core, hosted, budget>>
           /\ dns' \in Dns /\ dns'.snap = dns.snap /\ dns'.server = dns.server
           /\ dns'.told = dns.told /\ dns'.since = dns.since /\ Lists(dns.server)
<1> DEFINE a == Answered(dns.cache, v)
<1>1. /\ UNCHANGED <<claim, waiver, env, unit, core, hosted, budget>> /\ Lists(dns.server)
      /\ dns' = [dns EXCEPT !.cache[v] = a]
  BY DEF Query, Lists
<1>2. a \in 0..Ttl
  BY Fields, Parameters DEF Answered
<1> HIDE DEF a
<1> QED
  BY <1>1, <1>2, Fields DEF Dns

LEMMA CoreStatusIs ==
    ASSUME Base, CoreStatus
    PROVE  /\ core.at = "status" /\ UNCHANGED <<waiver, env, unit, dns, hosted, budget>>
           /\ claim' \in [Keys -> Claim]
           /\ \A k \in Keys :
                 \/ claim'[k] = claim[k]
                 \/ claim'[k] = core.todo[k] /\ claim'[k].uid = claim[k].uid
           /\ \/ core' = Idle
              \/ /\ core' \in Writes /\ core'.at = "status"
                 /\ core'.items = core.items /\ core'.todo = core.todo
<1> DEFINE k == Min(core.rest)
           same == claim[k].uid = core.todo[k].uid
<1>1. /\ core.at = "status" /\ core.rest # {} /\ UNCHANGED <<waiver, env, unit, dns, hosted, budget>>
      /\ claim' = IF same THEN [claim EXCEPT ![k] = core.todo[k]] ELSE claim
      /\ core' = IF same \/ ~Exists(k) THEN [core EXCEPT !.rest = @ \ {k}] ELSE Idle
  BY DEF CoreStatus
<1>2. core \in Writes /\ core.rest \in SUBSET Keys /\ core.todo \in [Keys -> Claim]
  BY <1>1, Fields
<1>3. k \in Keys
  BY <1>1, <1>2, MinIs
<1>4. claim \in [Keys -> Claim]
  BY DEF Base
<1> HIDE DEF k
<1>5. /\ claim' \in [Keys -> Claim]
      /\ \A j \in Keys : \/ claim'[j] = claim[j]
                         \/ claim'[j] = core.todo[j] /\ claim'[j].uid = claim[j].uid
  BY <1>1, <1>2, <1>3, <1>4
<1>6. \/ core' = Idle
      \/ core' \in Writes /\ core'.at = "status" /\ core'.items = core.items /\ core'.todo = core.todo
  BY <1>1, <1>2 DEF Writes
<1> QED
  BY <1>1, <1>5, <1>6

LEMMA CreateIs ==
    ASSUME Base, NEW k \in Keys, CreateClaim(k)
    PROVE  /\ claim[k].uid = 0 /\ UNCHANGED <<waiver, env, unit, dns, core, hosted>>
           /\ claim' \in [Keys -> Claim]
           /\ claim'[k].uid = budget.uids + 1 /\ claim'[k].withdrawn = "Unknown" /\ claim'[k].override = 0
           /\ \A j \in Keys \ {k} : claim'[j] = claim[j]
           /\ budget' \in Budgets /\ Spend("uids")
<1> DEFINE new == [NoClaim EXCEPT !.uid = budget.uids + 1]
<1>1. /\ claim[k].uid = 0 /\ UNCHANGED <<waiver, env, unit, dns, core, hosted>>
      /\ budget.uids < MaxUids /\ Spend("uids") /\ claim' = [claim EXCEPT ![k] = new]
  BY DEF CreateClaim, Exists
<1>2. budget.uids + 1 \in 0..MaxUids
  <2>1. budget.uids \in 0..MaxUids /\ MaxUids \in Nat
    BY Fields, Parameters
  <2> QED
    BY <1>1, <2>1
<1>3. new \in Claim /\ new.uid = budget.uids + 1 /\ new.withdrawn = "Unknown" /\ new.override = 0
  BY <1>2, NoScheduleTyped DEF Claim, NoClaim
<1>4. budget' \in Budgets
  BY <1>1, Counted DEF Spend
<1> HIDE DEF new
<1>5. claim \in [Keys -> Claim]
  BY DEF Base
<1> QED
  BY <1>1, <1>3, <1>4, <1>5

LEMMA DeleteIs ==
    ASSUME Base, NEW k \in Keys, DeleteClaim(k)
    PROVE  /\ UNCHANGED <<waiver, env, unit, dns, core, hosted>>
           /\ claim' = [claim EXCEPT ![k] = NoClaim] /\ claim' \in [Keys -> Claim]
           /\ budget' \in Budgets /\ Spend("events")
<1>1. /\ UNCHANGED <<waiver, env, unit, dns, core, hosted>> /\ budget.events < MaxEvents
      /\ claim' = [claim EXCEPT ![k] = NoClaim] /\ Spend("events")
  BY DEF DeleteClaim
<1>2. budget' \in Budgets
  BY <1>1, Counted DEF Spend
<1> QED
  BY <1>1, <1>2, NoScheduleTyped DEF Base

\* The kinds of steps.
Step ==
    \/ UNCHANGED vars
    \/ \E k \in Keys : CreateClaim(k) \/ DeleteClaim(k) \/ ChangeWaiver(k) \/ ReconcileWaiver(k)
    \/ Flip \/ ChangePolicy
    \/ CoreZone \/ CoreRead \/ CoreStatus \/ CoreUnit
    \/ HostedReject \/ HostedRender \/ (HostedProbe \/ HostedNoViews) \/ HostedSave
    \/ Load \/ (\E v \in Views : Query(v)) \/ Tick \/ Crash \/ LoseState

LEMMA NextIsStep == ASSUME [Next]_vars PROVE Step
  BY DEF Next, Users, Core, Hosted, Step

LEMMA WaiverTyped ==
    ASSUME Base, NEW k \in Keys, ChangeWaiver(k) \/ ReconcileWaiver(k)
    PROVE  /\ UNCHANGED <<claim, env, unit, dns, core, hosted>>
           /\ waiver' \in [Keys -> Waiver] /\ budget' \in Budgets
           /\ budget' = budget \/ Spend("events")
<1>1. waiver \in [Keys -> Waiver] /\ waiver[k].accepted \in BOOLEAN
  BY DEF Base, Waiver
<1>2. CASE ChangeWaiver(k)
  <2>1. /\ UNCHANGED <<claim, env, unit, dns, core, hosted>>
        /\ budget.events < MaxEvents /\ Spend("events")
    BY <1>2 DEF ChangeWaiver
  <2>2. budget' \in Budgets
    BY <2>1, Counted DEF Spend
  <2>3. waiver' \in [Keys -> Waiver]
    <3>1. CASE waiver[k] = NoWaiver
      <4>1. PICK uid \in Uids : waiver' = [waiver EXCEPT ![k].for = uid]
        BY <1>2, <3>1 DEF ChangeWaiver
      <4>2. uid \in 0..MaxUids
        BY Parameters DEF Uids
      <4>3. [waiver[k] EXCEPT !.for = uid] \in Waiver
        BY <1>1, <4>2 DEF Waiver
      <4> QED
        BY <1>1, <4>1, <4>3
    <3>2. CASE waiver[k] # NoWaiver
      BY <1>1, <1>2, <3>2, NoScheduleTyped DEF ChangeWaiver
    <3> QED
      BY <3>1, <3>2
  <2> QED
    BY <2>1, <2>2, <2>3
<1>3. CASE ReconcileWaiver(k)
  <2>1. /\ UNCHANGED <<claim, env, unit, dns, core, hosted, budget>>
        /\ waiver' = [waiver EXCEPT ![k].accepted = ~@]
    BY <1>3 DEF ReconcileWaiver
  <2>2. [waiver[k] EXCEPT !.accepted = ~@] \in Waiver
    BY <1>1 DEF Waiver
  <2>3. waiver' \in [Keys -> Waiver]
    BY <1>1, <2>1, <2>2
  <2> QED
    BY <2>1, <2>3, Fields
<1> QED
  BY <1>2, <1>3

LEMMA FlipIs ==
    ASSUME Base, Flip
    PROVE  /\ UNCHANGED <<claim, waiver, unit, dns, core, hosted>> /\ env' \in Envs
           /\ env'.wanted = ~env.wanted /\ budget' \in Budgets /\ Spend("flips")
<1>1. /\ UNCHANGED <<claim, waiver, unit, dns, core, hosted>> /\ budget.flips < MaxFlips
      /\ env' = [env EXCEPT !.wanted = ~@] /\ Spend("flips")
  BY DEF Flip
<1>2. env' \in Envs /\ env'.wanted = ~env.wanted
  BY <1>1, Fields DEF Envs
<1>3. budget' \in Budgets
  BY <1>1, Counted DEF Spend
<1> QED
  BY <1>1, <1>2, <1>3

LEMMA PolicyIs ==
    ASSUME Base, ChangePolicy
    PROVE  /\ UNCHANGED <<claim, waiver, unit, dns, core, hosted>> /\ env' \in Envs
           /\ env'.wanted = env.wanted /\ budget' \in Budgets /\ Spend("events")
<1>1. /\ UNCHANGED <<claim, waiver, unit, dns, core, hosted>> /\ budget.events < MaxEvents
      /\ Spend("events")
  BY DEF ChangePolicy
<1>2. env' \in Envs /\ env'.wanted = env.wanted
  <2>1. env \in Envs
    BY Fields
  <2>2. MaxClaims - env.others \in 0..MaxClaims /\ env.class + 1 \in Nat
    BY <2>1, Parameters DEF Envs
  <2> QED
    BY <2>1, <2>2 DEF ChangePolicy, Envs
<1>3. budget' \in Budgets
  BY <1>1, Counted DEF Spend
<1> QED
  BY <1>1, <1>2, <1>3

-----------------------------------------------------------------------------
LEMMA BaseStep == ASSUME Base, [Next]_vars PROVE Base'
<1>a. Step
  BY NextIsStep
<1>b. /\ claim \in [Keys -> Claim] /\ waiver \in [Keys -> Waiver] /\ env \in Envs
      /\ unit \in Units /\ dns \in Dns /\ budget \in Budgets
      /\ core \in {Idle} \cup Reads \cup Writes
      /\ hosted \in {Idle} \cup Probes
      /\ Windowed(unit) /\ (hosted.at = "probe" => Windowed(hosted.new))
      /\ Idle.at = "idle"
  BY DEF Base, Idle
<1>1. CASE UNCHANGED vars
  BY <1>1 DEF vars, Base, Windowed
<1>2. ASSUME NEW k \in Keys, CreateClaim(k) PROVE Base'
  BY <1>2, <1>b, CreateIs DEF Base, Windowed
<1>3. ASSUME NEW k \in Keys, DeleteClaim(k) PROVE Base'
  BY <1>3, <1>b, DeleteIs DEF Base, Windowed
<1>4. ASSUME NEW k \in Keys, ChangeWaiver(k) \/ ReconcileWaiver(k) PROVE Base'
  BY <1>4, <1>b, WaiverTyped DEF Base, Windowed
<1>5. CASE Flip
  BY <1>5, <1>b, FlipIs DEF Base, Windowed
<1>6. CASE ChangePolicy
  BY <1>6, <1>b, PolicyIs DEF Base, Windowed
<1>7. CASE CoreZone
  <2>1. PICK u \in Units : Respecified(u) /\ unit' \in Units /\ u.sched = unit.sched
    BY <1>7, CoreZoneIs
  <2>2. core' = [at |-> "read", uids |-> [k \in Keys |-> claim[k].uid]]
        /\ UNCHANGED <<claim, waiver, env, dns, budget>>
    BY <1>7, CoreZoneIs
  <2>3. core' \in Reads
    BY <1>b, <2>2 DEF Reads, Claim, UidsOrNone
  <2>4. unit'.sched = unit.sched /\ (hosted' = hosted \/ hosted' = Idle)
    BY <2>1 DEF Respecified, SameState
  <2> QED
    BY <1>b, <2>1, <2>2, <2>3, <2>4 DEF Base, Windowed
<1>8. CASE CoreRead
  BY <1>8, <1>b, CoreReadIs DEF Base, Windowed
<1>9. CASE CoreStatus
  BY <1>9, <1>b, CoreStatusIs DEF Base, Windowed
<1>10. CASE CoreUnit
  <2>1. PICK u \in Units : Respecified(u) /\ unit' \in Units /\ u.sched = unit.sched
    BY <1>10, CoreUnitIs
  <2>2. core' = Idle /\ UNCHANGED <<claim, waiver, env, dns, budget>>
    BY <1>10, CoreUnitIs
  <2>4. unit'.sched = unit.sched /\ (hosted' = hosted \/ hosted' = Idle)
    BY <2>1 DEF Respecified, SameState
  <2> QED
    BY <1>b, <2>1, <2>2, <2>4 DEF Base, Windowed
<1>11. CASE HostedReject
  <2>1. PICK u : Rejection(u) /\ SameState(unit', u)
    BY <1>11, RejectIs
  <2>2. unit' \in Units /\ CoreKept /\ UNCHANGED <<claim, waiver, env, dns, hosted, budget>>
    BY <1>11, RejectIs
  <2>3. ASSUME NEW k \in Keys
        PROVE  unit'.sched[k].st.notBefore > 0 => unit'.sched[k].st.window > 0
    <3>1. unit.sched[k].st \in Evidences
      BY Fields DEF Schedules
    <3>2. unit'.sched[k].st = unit.sched[k].st \/ unit'.sched[k].st = Closed(unit.sched[k].st)
      BY <2>1 DEF Rejection, SameState
    <3> QED
      BY <1>b, <3>1, <3>2, ClosedTyped DEF Windowed
  <2> QED
    BY <1>b, <2>2, <2>3, CoreKeptIs DEF Base, Windowed
<1>12. CASE HostedRender
  <2>1. Rendering
    BY <1>12, RenderIs
  <2>2. ASSUME NEW k \in Keys
        PROVE  hosted'.new.sched[k].st.notBefore > 0 => hosted'.new.sched[k].st.window > 0
    BY <1>b, <2>1 DEF Rendering, Survey, Windowed
  <2> QED
    BY <1>b, <2>1, <2>2 DEF Base, Windowed, Rendering
<1>13. CASE HostedProbe \/ HostedNoViews
  <2>1. ProbeStep
    BY <1>13, ProbeStepIs
  <2>2. PICK k \in Keys : Probing(k, dns'.cache)
    BY <2>1 DEF ProbeStep
  <2>3. hosted' \in Probes /\ hosted.at = "probe" /\ \A j \in Keys :
          hosted'.new.sched[j].st.notBefore > 0 => hosted'.new.sched[j].st.window > 0
    BY <1>b, <2>2 DEF Probing, Windowed
  <2> QED
    BY <1>b, <2>1, <2>3 DEF Base, Windowed, ProbeStep
<1>14. CASE HostedSave
  <2>1. /\ hosted.at = "probe" /\ hosted' = Idle /\ UNCHANGED <<claim, waiver, env, dns>>
        /\ unit' \in Units /\ budget' \in Budgets
        /\ \/ unit' = unit /\ core' = core
           \/ SameState(unit', hosted.new) /\ CoreKept
    BY <1>14, SaveIs
  <2>2. unit'.sched = unit.sched \/ unit'.sched = hosted.new.sched
    BY <2>1 DEF SameState
  <2>3. core' \in {Idle} \cup Reads \cup Writes
    BY <1>b, <2>1, CoreKeptIs
  <2> QED
    BY <1>b, <2>1, <2>2, <2>3 DEF Base, Windowed
<1>15. CASE Load
  BY <1>15, <1>b, LoadIs DEF Base, Windowed
<1>16. ASSUME NEW v \in Views, Query(v) PROVE Base'
  BY <1>16, <1>b, QueryIs DEF Base, Windowed
<1>17. CASE Tick
  BY <1>17, <1>b, TickIs DEF Base, Passing
<1>18. CASE Crash
  BY <1>18, <1>b, CrashIs DEF Base, Windowed
<1>19. CASE LoseState
  <2>1. NoSchedule.st.notBefore = 0
    BY NoScheduleTyped DEF NoEvidence
  <2> QED
    BY <1>19, <1>b, <2>1, LossIs, CoreKeptIs DEF Base, Windowed
<1> QED
  BY <1>a, <1>1, <1>2, <1>3, <1>4, <1>5, <1>6, <1>7, <1>8, <1>9, <1>10, <1>11, <1>12, <1>13, <1>14,
     <1>15, <1>16, <1>17, <1>18, <1>19 DEF Step

LEMMA BaseInit == ASSUME Init PROVE Base
<1>1. PICK c \in Configs :
          LET snap == Snapshot(1, [has |-> TRUE, min |-> c.min])
          IN  /\ env = [wanted |-> TRUE, granted |-> TRUE, accepted |-> TRUE, config |-> c,
                        class |-> 1, others |-> 0]
              /\ dns = [snap |-> snap, told |-> <<>>, server |-> snap,
                        cache |-> [v \in Views |-> 0], since |-> 0]
  BY DEF Init
<1>2. [serial |-> 1, content |-> [has |-> TRUE, min |-> c.min]] \in Snapshots
  BY <1>1 DEF Snapshots, Content
<1>3. 0 \in 0..Ttl /\ 0 \in 0..Horizon /\ 0 \in 0..MaxClaims /\ 0 \in 0..MaxUids /\ 0 \in 0..MaxFlips
      /\ 0 \in 0..MaxEvents
  BY HorizonIs, Parameters
<1>4. env \in Envs
  BY <1>1, <1>3 DEF Envs
<1>5. dns \in Dns
  BY <1>1, <1>2, <1>3 DEF Dns, Snapshot
<1>6. unit \in Units /\ unit.sched = [k \in Keys |-> NoSchedule]
  BY <1>3, NoScheduleTyped DEF Init, Units
<1>7. budget \in Budgets
  BY <1>3 DEF Init, Budgets, UidsOrNone
<1>8. claim \in [Keys -> Claim] /\ waiver \in [Keys -> Waiver] /\ core = Idle /\ hosted = Idle
  BY NoScheduleTyped DEF Init
<1>9. NoSchedule.st.notBefore = 0 /\ Idle.at = "idle"
  BY NoScheduleTyped DEF NoEvidence, Idle
<1> QED
  BY <1>4, <1>5, <1>6, <1>7, <1>8, <1>9 DEF Base, Windowed

LEMMA BaseIsTypeOK == ASSUME Base PROVE TypeOK
<1>1. /\ claim \in [Keys -> Claim] /\ waiver \in [Keys -> Waiver]
      /\ unit.items \in [Keys -> Item] /\ unit.results \in [Keys -> Result]
      /\ unit.pub \in 0..Ttl /\ unit.cursor \in Keys \cup {0}
  BY DEF Base, Units
<1>2. ASSUME NEW k \in Keys
      PROVE  LET s == unit.sched[k].st
             IN  /\ unit.sched[k].id \in 0..MaxUids /\ unit.sched[k].next \in -2..1
                 /\ s.positive \in 0..Ttl /\ s.window \in 0..(Horizon + 1)
                 /\ s.notBefore \in 0..Horizon /\ s.views \subseteq Views
                 /\ s.notBefore > 0 => s.window > 0
  <2>1. unit.sched[k] \in Schedules /\ Windowed(unit)
    BY Fields DEF Base
  <2>2. unit.sched[k].st \in Evidences /\ unit.sched[k].id \in 0..MaxUids /\ unit.sched[k].next \in -2..1
    BY <2>1 DEF Schedules, UidsOrNone
  <2> QED
    BY <2>1, <2>2 DEF Evidences, Windowed
<1>3. /\ dns.snap.content \in Content /\ dns.server.content \in Content
      /\ dns.cache \in [Views -> 0..Ttl] /\ dns.since \in 0..Horizon
  BY Fields, SnapshotContent
<1> QED
  BY <1>1, <1>2, <1>3 DEF TypeOK

-----------------------------------------------------------------------------
(* What claims show.                                                       *)

LEMMA EstablishedStep == ASSUME Base, Established, [Next]_vars PROVE Established'
<1>a. Step
  BY NextIsStep
<1>1. CASE /\ claim' = claim /\ core' = core /\ budget'.verified = budget.verified
           /\ unit'.results = unit.results
  BY <1>1 DEF Established, NoInheritedSuccess, OverrideBound
<1>2. CASE UNCHANGED vars \/ Load \/ (\E v \in Views : Query(v)) \/ Flip \/ ChangePolicy
  BY <1>1, <1>2, LoadIs, QueryIs, FlipIs, PolicyIs, SpendIs DEF vars
<1>3. ASSUME NEW k \in Keys, ChangeWaiver(k) \/ ReconcileWaiver(k) PROVE Established'
  BY <1>1, <1>3, WaiverTyped, SpendIs
<1>4. ASSUME NEW k \in Keys, CreateClaim(k) PROVE Established'
  <2>1. budget'.verified = budget.verified
    BY <1>4, CreateIs, SpendIs
  <2>2. \A j \in Keys : claim'[j] = claim[j] \/ (claim'[j].withdrawn = "Unknown" /\ claim'[j].override = 0)
    BY <1>4, CreateIs
  <2>3. UNCHANGED <<unit, core>>
    BY <1>4, CreateIs
  <2> QED
    BY <2>1, <2>2, <2>3 DEF Established, NoInheritedSuccess, OverrideBound
<1>5. ASSUME NEW k \in Keys, DeleteClaim(k) PROVE Established'
  <2>1. budget'.verified = budget.verified /\ UNCHANGED <<unit, core>>
    BY <1>5, DeleteIs, SpendIs
  <2>2. \A j \in Keys : claim'[j] = claim[j] \/ (claim'[j].withdrawn = "Unknown" /\ claim'[j].override = 0)
    <3>1. claim' = [claim EXCEPT ![k] = NoClaim] /\ claim \in [Keys -> Claim]
      BY <1>5, DeleteIs DEF Base
    <3>2. NoClaim.withdrawn = "Unknown" /\ NoClaim.override = 0
      BY DEF NoClaim
    <3> QED
      BY <3>1, <3>2
  <2> QED
    BY <2>1, <2>2 DEF Established, NoInheritedSuccess, OverrideBound
<1>6. CASE CoreZone
  <2>1. core'.at = "read"
    BY <1>6, CoreZoneIs
  <2>2. unit'.results = unit.results /\ UNCHANGED <<claim, budget>>
    BY <1>6, CoreZoneIs DEF Respecified, SameState
  <2> QED
    BY <2>1, <2>2 DEF Established, NoInheritedSuccess, OverrideBound
<1>7. CASE CoreRead
  BY <1>7, CoreReadIs DEF Established, NoInheritedSuccess, OverrideBound
<1>8. CASE CoreStatus
  <2>1. /\ core.at = "status" /\ UNCHANGED <<unit, budget>>
        /\ \A k \in Keys : claim'[k] = claim[k] \/ claim'[k] = core.todo[k]
    BY <1>8, CoreStatusIs
  <2>2. core'.at = "status" => core'.todo = core.todo
    BY <1>8, CoreStatusIs, Fields
  <2> QED
    BY <2>1, <2>2 DEF Established, NoInheritedSuccess, OverrideBound
<1>9. CASE CoreUnit
  <2>1. core' = Idle
    BY <1>9, CoreUnitIs
  <2>2. unit'.results = unit.results /\ UNCHANGED <<claim, budget>>
    BY <1>9, CoreUnitIs DEF Respecified, SameState
  <2> QED
    BY <2>1, <2>2, Fields DEF Established, NoInheritedSuccess, OverrideBound
<1>10. CASE HostedReject
  <2>1. \A k \in Keys : unit'.results[k].withdrawn = "Unknown"
    <3>1. PICK u : Rejection(u) /\ SameState(unit', u)
      BY <1>10, RejectIs
    <3> QED
      BY <3>1 DEF Rejection, SameState, NoResult
  <2>2. CoreKept /\ UNCHANGED <<claim, budget>>
    BY <1>10, RejectIs
  <2>3. core'.at = core.at /\ (core.at = "status" => core'.todo = core.todo)
    BY <2>2, CoreKeptIs
  <2> QED
    BY <2>1, <2>2, <2>3 DEF Established, NoInheritedSuccess, OverrideBound
<1>11. CASE HostedRender \/ HostedProbe \/ HostedNoViews
  BY <1>1, <1>11, RenderIs, ProbeStepIs DEF Rendering, ProbeStep
<1>12. CASE HostedSave
  <2>1. /\ UNCHANGED claim /\ budget.verified \subseteq budget'.verified
        /\ \A k \in Keys : unit'.results[k].withdrawn = "True" =>
              unit'.results[k].uid \in budget'.verified
        /\ core' = core \/ CoreKept
    BY <1>12, SaveIs
  <2>2. core'.at = core.at /\ (core.at = "status" => core'.todo = core.todo)
    BY <2>1, CoreKeptIs
  <2> QED
    BY <2>1, <2>2 DEF Established, NoInheritedSuccess, OverrideBound
<1>13. CASE Tick
  BY <1>1, <1>13, TickIs DEF Passing
<1>14. CASE Crash
  <2>1. /\ UNCHANGED <<claim, unit>> /\ budget'.verified = budget.verified
        /\ core' = Idle \/ core' = core
    BY <1>14, CrashIs
  <2> QED
    BY <2>1, Fields DEF Established, NoInheritedSuccess, OverrideBound
<1>15. CASE LoseState
  <2>1. CoreKept /\ UNCHANGED claim /\ unit'.results = unit.results
        /\ budget'.verified = budget.verified
    BY <1>15, LossIs
  <2>2. core'.at = core.at /\ (core.at = "status" => core'.todo = core.todo)
    BY <2>1, CoreKeptIs
  <2> QED
    BY <2>1, <2>2 DEF Established, NoInheritedSuccess, OverrideBound
<1> QED
  BY <1>a, <1>2, <1>3, <1>4, <1>5, <1>6, <1>7, <1>8, <1>9, <1>10, <1>11, <1>12, <1>13, <1>14, <1>15
     DEF Step

LEMMA EstablishedInit == ASSUME Init PROVE Established
<1>1. \A k \in Keys : unit.results[k].withdrawn = "Unknown" /\ claim[k].withdrawn = "Unknown"
                      /\ claim[k].override = 0
  BY DEF Init, NoResult, NoClaim
<1>2. core.at = "idle"
  BY DEF Init, Idle
<1> QED
  BY <1>1, <1>2 DEF Established, NoInheritedSuccess, OverrideBound

\* What a claim shows was established for this very incarnation of it: a
\* success that the provider verified, an override that its own waiver asked
\* for (projectWithdrawalResult, WithdrawalWaiverMatches).
THEOREM StatusIsEarned == Spec => []StatusInvariant
<1>1. Init => Base /\ Established
  BY BaseInit, EstablishedInit
<1>2. Base /\ Established /\ [Next]_vars => (Base /\ Established)'
  BY BaseStep, EstablishedStep
<1>3. Base /\ Established => StatusInvariant
  BY BaseIsTypeOK DEF Established, StatusInvariant
<1> QED
  BY <1>1, <1>2, <1>3, PTL DEF Spec

-----------------------------------------------------------------------------
(* Items.                                                                  *)

\* Every UID that is about claim k.
Mine(k) == Asked(k) \cup Known(k) \cup {unit.items[k].uid}

\* Nothing that Keeping speaks of.
LEMMA AsideIs ==
    ASSUME Base, [Next]_vars
    PROVE  \/ Aside
           \/ \E k \in Keys : CreateClaim(k) \/ DeleteClaim(k)
           \/ CoreZone \/ CoreRead \/ CoreStatus \/ CoreUnit
           \/ HostedReject \/ Rendering \/ ProbeStep \/ HostedSave
           \/ Passing \/ Crash \/ LoseState
<1>a. Step
  BY NextIsStep
<1>1. CASE UNCHANGED vars
  BY <1>1 DEF vars, Aside
<1>2. CASE Flip \/ ChangePolicy
  BY <1>2, FlipIs, PolicyIs, SpendIs DEF Aside
<1>3. ASSUME NEW k \in Keys, ChangeWaiver(k) \/ ReconcileWaiver(k) PROVE Aside
  BY <1>3, WaiverTyped, SpendIs DEF Aside
<1>4. CASE Load \/ (\E v \in Views : Query(v))
  BY <1>4, LoadIs, QueryIs DEF Aside
<1>5. CASE HostedRender \/ HostedProbe \/ HostedNoViews \/ Tick
  BY <1>5, RenderIs, ProbeStepIs, TickIs
<1> QED
  BY <1>a, <1>1, <1>2, <1>3, <1>4, <1>5 DEF Step

\* The UIDs that core asks for and the provider knows, after a step.
AskedLess == \A k \in Keys : Asked(k)' \subseteq Asked(k) \cup {0, unit.items[k].uid}
KnownLess == \A k \in Keys : Known(k)' \subseteq Known(k) \cup {0, unit.items[k].uid}

LEMMA CoreForgets ==
    ASSUME Base, claim' = claim,
           \/ core' = core \/ core' = Idle \/ CoreKept
           \/ core'.at = "status" /\ core.at = "status" /\ core'.items = core.items
    PROVE  \A k \in Keys : Asked(k)' \subseteq Asked(k)
<1>1. \/ core'.at = "idle"
      \/ /\ core'.at = core.at
         /\ core.at = "read" => core'.uids = core.uids
         /\ core.at = "status" => core'.items = core.items
  BY CoreKeptIs, Fields
<1> QED
  BY <1>1 DEF Asked

LEMMA AskedStep ==
    ASSUME Base, [Next]_vars, \A k \in Keys : ~CreateClaim(k)
    PROVE  AskedLess
<1>1. CASE Aside
  BY <1>1 DEF Aside, AskedLess, Asked
<1>2. CASE (\E k \in Keys : DeleteClaim(k))
  <2>1. PICK k \in Keys : DeleteClaim(k)
    BY <1>2
  <2>2. core' = core /\ claim \in [Keys -> Claim] /\ claim' = [claim EXCEPT ![k] = NoClaim] /\ NoClaim.uid = 0
    BY <2>1, DeleteIs DEF NoClaim, Base
  <2>3. \A j \in Keys : claim'[j].uid \in {0, claim[j].uid}
    BY <2>2
  <2> QED
    BY <2>2, <2>3 DEF AskedLess, Asked
<1>3. CASE CoreZone
  <2>1. core'.at = "read" /\ claim' = claim /\ \A k \in Keys : core'.uids[k] = claim[k].uid
    BY <1>3, CoreZoneIs
  <2> QED
    BY <2>1 DEF AskedLess, Asked
<1>4. CASE CoreRead
  <2>1. core.at = "read" /\ core'.at = "status" /\ core'.items = Items(core.uids) /\ claim' = claim
    BY <1>4, CoreReadIs
  <2>2. \A k \in Keys : Items(core.uids)[k].uid \in {unit.items[k].uid, core.uids[k]}
    BY <2>1, Fields, ItemsIs
  <2> QED
    BY <2>1, <2>2 DEF AskedLess, Asked
<1>5. CASE CoreStatus
  <2>1. \A k \in Keys : claim'[k].uid = claim[k].uid
    BY <1>5, CoreStatusIs
  <2>2. core.at = "status" /\ (core'.at = "idle" \/ (core'.at = "status" /\ core'.items = core.items))
    BY <1>5, CoreStatusIs, Fields
  <2> QED
    BY <2>1, <2>2 DEF AskedLess, Asked
<1>6. CASE CoreUnit \/ HostedReject \/ Rendering \/ ProbeStep \/ HostedSave \/ Passing \/ Crash \/ LoseState
  <2>1. claim' = claim /\ (core' = core \/ core' = Idle \/ CoreKept)
    BY <1>6, CoreUnitIs, RejectIs, SaveIs, CrashIs, LossIs DEF Rendering, ProbeStep, Passing
  <2> QED
    BY <2>1, CoreForgets DEF AskedLess
<1> QED
  BY <1>1, <1>2, <1>3, <1>4, <1>5, <1>6, AsideIs

LEMMA KnownStep ==
    ASSUME Base, [Next]_vars
    PROVE  KnownLess
<1>1. CASE unit' = unit /\ (hosted' = hosted \/ hosted' = Idle)
  BY <1>1, Fields DEF KnownLess, Known
<1>2. CASE Aside \/ (\E k \in Keys : CreateClaim(k) \/ DeleteClaim(k)) \/ CoreRead \/ CoreStatus \/ Crash
  BY <1>1, <1>2, CreateIs, DeleteIs, CoreReadIs, CoreStatusIs, CrashIs DEF Aside
<1>3. CASE CoreZone \/ CoreUnit
  <2>1. /\ unit'.results = unit.results /\ unit'.sched = unit.sched
        /\ hosted' = hosted \/ hosted' = Idle
    BY <1>3, CoreZoneIs, CoreUnitIs DEF Respecified, SameState
  <2> QED
    BY <2>1, Fields DEF KnownLess, Known
<1>4. CASE HostedReject
  <2>1. PICK u : Rejection(u) /\ SameState(unit', u)
    BY <1>4, RejectIs
  <2>2. hosted' = hosted /\ hosted.at = "idle"
    BY <1>4, RejectIs
  <2>3. \A k \in Keys : /\ unit'.sched[k].id = unit.sched[k].id
                        /\ unit'.results[k].uid \in {0, unit.items[k].uid}
    BY <2>1 DEF Rejection, SameState, NoResult
  <2> QED
    BY <2>2, <2>3 DEF KnownLess, Known
<1>5. CASE Rendering
  <2>1. unit' = unit /\ hosted'.at = "probe"
    BY <1>5 DEF Rendering
  <2>2. \A k \in Keys : /\ hosted'.new.sched[k].id = unit.items[k].uid
                        /\ hosted'.new.results[k].uid \in {0, unit.items[k].uid, unit.results[k].uid}
    BY <1>5 DEF Rendering, Survey
  <2> QED
    BY <2>1, <2>2 DEF KnownLess, Known
<1>6. CASE ProbeStep
  <2>1. PICK k \in Keys : Probing(k, dns'.cache)
    BY <1>6 DEF ProbeStep
  <2>2. unit' = unit /\ hosted.at = "probe"
    BY <1>6, <2>1 DEF ProbeStep, Probing
  <2>3. \A j \in Keys : /\ hosted'.new.sched[j].id = hosted.new.sched[j].id
                        /\ hosted'.new.results[j].uid \in {unit.items[j].uid, hosted.new.results[j].uid}
    BY <2>1 DEF Probing
  <2> QED
    BY <2>2, <2>3 DEF KnownLess, Known
<1>7. CASE HostedSave
  <2>1. /\ hosted'.at = "idle" /\ hosted.at = "probe"
        /\ unit' = unit \/ (unit'.results = hosted.new.results /\ unit'.sched = hosted.new.sched)
    BY <1>7, SaveIs, Fields DEF SameState
  <2> QED
    BY <2>1 DEF KnownLess, Known
<1>8. CASE Passing
  <2>1. /\ unit'.results = unit.results /\ \A k \in Keys : unit'.sched[k].id = unit.sched[k].id
        /\ hosted'.at = hosted.at
        /\ hosted.at = "probe" => /\ hosted'.new.results = hosted.new.results
                                  /\ \A k \in Keys : hosted'.new.sched[k].id = hosted.new.sched[k].id
    BY <1>8 DEF Passing, AgedSchedule
  <2> QED
    BY <2>1 DEF KnownLess, Known
<1>9. CASE LoseState
  <2>1. hosted'.at = "idle" /\ unit'.results = unit.results /\ \A k \in Keys : unit'.sched[k].id = 0
    BY <1>9, LossIs, Fields DEF NoSchedule
  <2> QED
    BY <2>1 DEF KnownLess, Known
<1> QED
  BY <1>2, <1>3, <1>4, <1>5, <1>6, <1>7, <1>8, <1>9, AsideIs

LEMMA MineTyped == ASSUME Base, NEW k \in Keys PROVE Mine(k) \subseteq Int
<1>1. claim[k].uid \in Int /\ (core.at = "read" => core.uids[k] \in Int)
      /\ (core.at = "status" => core.items[k].uid \in Int)
  <2>1. claim[k] \in Claim /\ (core.at = "read" => core.uids[k] \in UidsOrNone)
        /\ (core.at = "status" => core.items[k] \in Item)
    BY Fields DEF Base
  <2>2. core.at = "read" => core.uids[k] \in Int
    BY <2>1, Parameters DEF UidsOrNone
  <2> QED
    BY <2>1, <2>2 DEF Claim, Item
<1>2. unit.results[k].uid \in Int /\ unit.items[k].uid \in Int
  BY Fields DEF Result, Item
<1>3. unit.sched[k].id \in Int
  BY Fields DEF Schedules, UidsOrNone
<1>4. hosted.at = "probe" => hosted.new.results[k].uid \in Int /\ hosted.new.sched[k].id \in Int
  <2>1. ASSUME hosted.at = "probe"
        PROVE  hosted.new.results[k] \in Result /\ hosted.new.sched[k] \in Schedules
    BY <2>1, PassFields DEF Units
  <2> QED
    BY <2>1 DEF Result, Schedules, UidsOrNone
<1> QED
  BY <1>1, <1>2, <1>3, <1>4 DEF Mine, Asked, Known

\* The items change only when core writes them.
LEMMA ItemsChange ==
    ASSUME Base, PassAgrees, [Next]_vars
    PROVE  \/ unit'.items = unit.items
           \/ CoreUnit /\ core.at = "status" /\ core' = Idle /\ claim' = claim /\ unit'.items = core.items
<1>1. CASE Aside \/ (\E k \in Keys : CreateClaim(k) \/ DeleteClaim(k)) \/ CoreRead \/ CoreStatus
           \/ Rendering \/ ProbeStep \/ Crash
  BY <1>1, CreateIs, DeleteIs, CoreReadIs, CoreStatusIs, CrashIs DEF Aside, Rendering, ProbeStep
<1>2. CASE CoreZone
  BY <1>2, CoreZoneIs DEF Respecified, SameState
<1>3. CASE CoreUnit
  <2>1. PICK u \in Units : Respecified(u) /\ u.items \in {unit.items, core.items}
    BY <1>3, CoreUnitIs
  <2>2. unit'.items = u.items
    BY <2>1 DEF Respecified, SameState
  <2> QED
    BY <1>3, <2>1, <2>2, CoreUnitIs
<1>4. CASE HostedReject
  BY <1>4, RejectIs DEF Rejection, SameState
<1>5. CASE HostedSave
  BY <1>5, SaveIs DEF SameState, PassAgrees
<1>6. CASE Passing \/ LoseState
  BY <1>6, LossIs DEF Passing, SameSpec
<1> QED
  BY <1>1, <1>2, <1>3, <1>4, <1>5, <1>6, AsideIs

LEMMA UidsGrow ==
    ASSUME Base, [Next]_vars
    PROVE  /\ budget'.uids = budget.uids \/ (\E k \in Keys : CreateClaim(k))
           /\ budget'.lost = budget.lost \/ LoseState
           /\ budget'.verified = budget.verified \/ HostedSave
<1>1. CASE Aside \/ CoreZone \/ CoreRead \/ CoreStatus \/ CoreUnit \/ HostedReject \/ Rendering
           \/ ProbeStep \/ Passing
  BY <1>1, CoreZoneIs, CoreReadIs, CoreStatusIs, CoreUnitIs, RejectIs
     DEF Aside, Rendering, ProbeStep, Passing
<1>2. CASE (\E k \in Keys : CreateClaim(k) \/ DeleteClaim(k))
  BY <1>2, CreateIs, DeleteIs, SpendIs
<1>3. CASE HostedSave \/ Crash \/ LoseState
  BY <1>3, SaveIs, CrashIs, LossIs
<1> QED
  BY <1>1, <1>2, <1>3, AsideIs

\* A new claim has a UID that nobody knows.
LEMMA Fresh ==
    ASSUME Base, Homes, NEW k \in Keys, CreateClaim(k)
    PROVE  /\ budget'.uids = budget.uids + 1 /\ budget.uids + 1 \in Nat \ {0}
           /\ \A j \in Keys : budget.uids + 1 \notin Mine(j)
           /\ Mine(k)' \subseteq Mine(k) \cup {budget.uids + 1}
           /\ \A j \in Keys \ {k} : Mine(j)' = Mine(j)
           /\ \A j \in Keys : Known(j)' = Known(j)
           /\ Asked(k)' \subseteq Asked(k) \cup {budget.uids + 1}
           /\ \A j \in Keys \ {k} : Asked(j)' = Asked(j)
<1>1. budget'.uids = budget.uids + 1 /\ budget.uids \in Nat
  BY CreateIs, SpendIs, Fields, Parameters
<1>2. \A j \in Keys : \A uid \in Mine(j) : uid <= budget.uids
  BY DEF Homes, Mine
<1>3. /\ UNCHANGED <<unit, core, hosted>> /\ claim'[k].uid = budget.uids + 1
      /\ \A j \in Keys \ {k} : claim'[j] = claim[j]
  BY CreateIs
<1>4. \A j \in Keys : Known(j)' = Known(j)
  BY <1>3 DEF Known
<1>5. Asked(k)' \subseteq Asked(k) \cup {budget.uids + 1} /\ \A j \in Keys \ {k} : Asked(j)' = Asked(j)
  BY <1>3 DEF Asked
<1>6. \A j \in Keys : budget.uids + 1 \notin Mine(j)
  <2>1. ~(budget.uids + 1 <= budget.uids)
    BY <1>1
  <2> QED
    BY <1>2, <2>1
<1> QED
  BY <1>1, <1>3, <1>4, <1>5, <1>6 DEF Mine

LEMMA HomesStep == ASSUME Base, Homes, PassAgrees, [Next]_vars PROVE Homes'
<1>a. \A k \in Keys : \A uid \in Mine(k) :
        uid <= budget.uids /\ \A j \in Keys : uid \in Mine(j) => uid = 0 \/ j = k
  BY DEF Homes, Mine
<1>b. budget.uids \in Nat
  BY Fields, Parameters
<1>1. ASSUME NEW k \in Keys, CreateClaim(k)
      PROVE  Homes'
  <2>1. /\ budget'.uids = budget.uids + 1
        /\ \A j \in Keys : budget.uids + 1 \notin Mine(j)
        /\ Mine(k)' \subseteq Mine(k) \cup {budget.uids + 1}
        /\ \A j \in Keys \ {k} : Mine(j)' = Mine(j)
    BY <1>1, Fresh
  <2>2. ASSUME NEW i \in Keys, NEW uid \in Mine(i)'
        PROVE  uid <= budget'.uids /\ \A j \in Keys : uid \in Mine(j)' => uid = 0 \/ j = i
    <3>1. CASE uid = budget.uids + 1
      <4>1. i = k /\ \A j \in Keys : uid \in Mine(j)' => j = k
        BY <2>1, <2>2, <3>1
      <4> QED
        BY <1>b, <2>1, <3>1, <4>1
    <3>2. CASE uid # budget.uids + 1
      <4>1. uid \in Mine(i) /\ \A j \in Keys : uid \in Mine(j)' => uid \in Mine(j)
        BY <2>1, <2>2, <3>2
      <4>2. uid <= budget.uids
        BY <1>a, <4>1
      <4>3. uid \in Int
        BY <4>1, MineTyped
      <4> QED
        BY <1>a, <1>b, <2>1, <4>1, <4>2, <4>3
    <3> QED
      BY <3>1, <3>2
  <2> QED
    BY <2>2 DEF Homes, Mine
<1>2. CASE \A k \in Keys : ~CreateClaim(k)
  <2>1. budget'.uids = budget.uids
    BY <1>2, UidsGrow
  <2>2. \A k \in Keys : Mine(k)' \subseteq Mine(k) \cup {0}
    <3>1. AskedLess /\ KnownLess
      BY <1>2, AskedStep, KnownStep
    <3>2. \A k \in Keys : unit'.items[k].uid \in Mine(k)
      BY ItemsChange DEF Mine, Asked
    <3> QED
      BY <3>1, <3>2 DEF AskedLess, KnownLess, Mine
  <2>3. ASSUME NEW i \in Keys, NEW uid \in Mine(i)'
        PROVE  uid <= budget'.uids /\ \A j \in Keys : uid \in Mine(j)' => uid = 0 \/ j = i
    <3>1. uid \in Mine(i) \cup {0}
      BY <2>2, <2>3
    <3>2. uid <= budget.uids
      BY <1>a, <1>b, <3>1
    <3> QED
      BY <1>a, <2>1, <2>2, <3>1, <3>2
  <2> QED
    BY <2>3 DEF Homes, Mine
<1> QED
  BY <1>1, <1>2

LEMMA ItemsStayStep ==
    ASSUME Base, Homes, ItemsStay, PassAgrees, [Next]_vars
    PROVE  ItemsStay'
<1>a. /\ \A k \in Keys : unit.items[k].uid = 0 => unit.items[k] = NoItem
      /\ core.at = "status" => \A k \in Keys : core.items[k].uid = 0 => core.items[k] = NoItem
      /\ \A k \in Keys : \A uid \in Asked(k) \cap Known(k) : uid # 0 => unit.items[k].uid = uid
      /\ \A k \in Keys : claim[k].uid # 0 /\ unit.items[k].uid = claim[k].uid
                            => Inventory(k, claim[k].uid)
  BY DEF ItemsStay
<1>b. NoItem.uid = 0
  BY DEF NoItem
<1>1. \A k \in Keys : unit'.items[k].uid = 0 => unit'.items[k] = NoItem
  BY <1>a, ItemsChange
<1>2. core'.at = "status" => \A k \in Keys : core'.items[k].uid = 0 => core'.items[k] = NoItem
  <2>1. CASE CoreRead
    <3>1. core'.items = Items(core.uids) /\ core.uids \in [Keys -> UidsOrNone]
      BY <2>1, CoreReadIs, Fields
    <3>2. ASSUME NEW k \in Keys, core'.items[k].uid = 0 PROVE core'.items[k] = NoItem
      <4>1. \/ /\ Items(core.uids)[k].uid = unit.items[k].uid
               /\ unit.items[k] = NoItem => Items(core.uids)[k] = NoItem
            \/ Items(core.uids)[k].uid = core.uids[k] /\ (core.uids[k] = 0 => Items(core.uids)[k] = NoItem)
        BY <3>1, ItemsIs
      <4> QED
        BY <1>a, <3>1, <3>2, <4>1
    <3> QED
      BY <3>2
  <2>2. CASE core'.at # "status" \/ (core'.at = core.at /\ core'.items = core.items)
    BY <1>a, <2>2
  <2>3. CASE CoreZone \/ CoreStatus \/ CoreUnit
    BY <2>2, <2>3, CoreZoneIs, CoreStatusIs, CoreUnitIs, Fields
  <2>4. CASE Aside \/ (\E k \in Keys : CreateClaim(k) \/ DeleteClaim(k)) \/ HostedReject \/ Rendering
             \/ ProbeStep \/ HostedSave \/ Passing \/ Crash \/ LoseState
    <3>1. core' = core \/ core' = Idle \/ CoreKept
      BY <2>4, CreateIs, DeleteIs, RejectIs, SaveIs, CrashIs, LossIs DEF Aside, Rendering, ProbeStep, Passing
    <3> QED
      BY <1>a, <3>1, CoreKeptIs, Fields
  <2> QED
    BY <2>1, <2>3, <2>4, AsideIs
<1>3. ASSUME NEW k \in Keys, NEW uid \in Asked(k)' \cap Known(k)', uid # 0
      PROVE  unit'.items[k].uid = uid
  <2>1. CASE CoreUnit /\ core.at = "status" /\ core' = Idle /\ claim' = claim /\ unit'.items = core.items
    <3>1. uid = claim[k].uid
      BY <1>3, <2>1, Fields DEF Asked
    <3>2. uid \in Known(k) \cup {0, unit.items[k].uid}
      BY <1>3, KnownStep DEF KnownLess
    <3>3. uid \in Asked(k)
      BY <3>1 DEF Asked
    <3>4. unit.items[k].uid = uid
      BY <1>3, <1>a, <3>2, <3>3
    <3>5. core.items[k].uid = uid
      BY <1>3, <1>a, <2>1, <3>1, <3>4 DEF Inventory
    <3> QED
      BY <2>1, <3>5
  <2>2. CASE unit'.items = unit.items /\ \A j \in Keys : ~CreateClaim(j)
    <3>1. uid \in Known(k) \cup {0, unit.items[k].uid} /\ uid \in Asked(k) \cup {0, unit.items[k].uid}
      BY <1>3, <2>2, KnownStep, AskedStep DEF KnownLess, AskedLess
    <3> QED
      BY <1>3, <1>a, <2>2, <3>1
  <2>3. ASSUME NEW j \in Keys, CreateClaim(j) PROVE unit'.items[k].uid = uid
    <3>1. /\ \A i \in Keys : budget.uids + 1 \notin Mine(i) /\ Known(i)' = Known(i)
          /\ Asked(j)' \subseteq Asked(j) \cup {budget.uids + 1}
          /\ \A i \in Keys \ {j} : Asked(i)' = Asked(i)
          /\ unit' = unit
      BY <2>3, Fresh, CreateIs
    <3>2. uid \in Asked(k)
      BY <1>3, <3>1 DEF Mine
    <3> QED
      BY <1>3, <1>a, <3>1, <3>2
  <2> QED
    BY <2>1, <2>2, <2>3, ItemsChange
<1>4. ASSUME NEW k \in Keys, claim'[k].uid # 0, unit'.items[k].uid = claim'[k].uid
      PROVE  Inventory(k, claim[k].uid)'
  <2>1. CASE core'.at = "idle"
    BY <2>1 DEF Inventory
  <2>2. CASE CoreZone
    <3>1. core'.at = "read" /\ core'.uids[k] = claim[k].uid /\ claim' = claim
      BY <2>2, CoreZoneIs
    <3> QED
      BY <3>1 DEF Inventory
  <2>3. CASE CoreUnit
    BY <2>1, <2>3, CoreUnitIs, Fields
  <2>4. CASE CoreRead
    <3>1. core.at = "read" /\ core'.at = "status" /\ core'.items = Items(core.uids) /\ claim' = claim /\ unit' = unit
      BY <2>4, CoreReadIs
    <3>2. Items(core.uids)[k].uid \in {unit.items[k].uid, core.uids[k]}
      BY <3>1, Fields, ItemsIs
    <3>3. core.uids[k] = claim[k].uid
      BY <1>4, <1>a, <3>1 DEF Inventory
    <3> QED
      BY <1>4, <3>1, <3>2, <3>3 DEF Inventory
  <2>5. ASSUME unit'.items[k] = unit.items[k], claim'[k].uid = claim[k].uid,
               \/ core'.at = "idle"
               \/ /\ core'.at = core.at
                  /\ core.at = "read" => core'.uids = core.uids
                  /\ core.at = "status" => core'.items = core.items
        PROVE  Inventory(k, claim[k].uid)'
    BY <1>4, <1>a, <2>5 DEF Inventory
  <2>6. CASE CoreStatus
    <3>1. /\ core.at = "status" /\ unit' = unit /\ claim'[k].uid = claim[k].uid
          /\ core' = Idle \/ (core'.at = "status" /\ core'.items = core.items)
      BY <2>6, CoreStatusIs
    <3> QED
      BY <2>5, <3>1, Fields
  <2>7. ASSUME NEW j \in Keys, CreateClaim(j) PROVE Inventory(k, claim[k].uid)'
    <3>1. /\ budget.uids + 1 \notin Mine(k) /\ unit' = unit /\ core' = core
          /\ claim'[j].uid = budget.uids + 1 /\ \A i \in Keys \ {j} : claim'[i] = claim[i]
      BY <2>7, Fresh, CreateIs
    <3>2. k # j
      BY <1>4, <3>1 DEF Mine
    <3> QED
      BY <2>5, <3>1, <3>2
  <2>8. ASSUME NEW j \in Keys, DeleteClaim(j) PROVE Inventory(k, claim[k].uid)'
    <3>1. claim' = [claim EXCEPT ![j] = NoClaim] /\ unit' = unit /\ core' = core /\ NoClaim.uid = 0
          /\ claim \in [Keys -> Claim]
      BY <2>8, DeleteIs DEF NoClaim, Base
    <3>2. k # j
      BY <1>4, <3>1
    <3> QED
      BY <2>5, <3>1, <3>2
  <2>9. CASE Aside \/ HostedReject \/ Rendering \/ ProbeStep \/ HostedSave \/ Passing \/ Crash \/ LoseState
    <3>1. claim' = claim /\ (core' = core \/ core' = Idle \/ CoreKept)
      BY <2>9, RejectIs, SaveIs, CrashIs, LossIs DEF Aside, Rendering, ProbeStep, Passing
    <3>2. unit'.items = unit.items \/ core' = Idle
      BY ItemsChange
    <3> QED
      BY <2>1, <2>5, <3>1, <3>2, CoreKeptIs, Fields
  <2> QED
    BY <2>2, <2>3, <2>4, <2>6, <2>7, <2>8, <2>9, AsideIs
<1> QED
  BY <1>1, <1>2, <1>3, <1>4 DEF ItemsStay

\* Steps that leave the schedules as they are.
Elsewhere == \/ Aside \/ (\E j \in Keys : CreateClaim(j) \/ DeleteClaim(j)) \/ CoreZone \/ CoreRead
             \/ CoreStatus \/ CoreUnit \/ Rendering \/ ProbeStep \/ Crash

LEMMA SchedulesKept == ASSUME Base, Elsewhere PROVE unit'.sched = unit.sched
<1>1. CASE Aside \/ (\E j \in Keys : CreateClaim(j) \/ DeleteClaim(j)) \/ CoreRead
           \/ CoreStatus \/ Rendering \/ ProbeStep \/ Crash
  BY <1>1, CreateIs, DeleteIs, CoreReadIs, CoreStatusIs, CrashIs DEF Aside, Rendering, ProbeStep
<1>2. CASE CoreZone \/ CoreUnit
  <2>1. PICK u \in Units : Respecified(u) /\ u.sched = unit.sched
    BY <1>2, CoreZoneIs, CoreUnitIs
  <2> QED
    BY <2>1 DEF Respecified, SameState
<1> QED
  BY <1>1, <1>2 DEF Elsewhere

LEMMA PositiveIs == \A e \in Evidences : e.positive \in Nat
<1>1. \A e \in Evidences : e.positive \in 0..Ttl
  BY DEF Evidences
<1> QED
  BY <1>1, Parameters

\* Steps that leave a pass of the hosted controller as it is, or end it.
LEMMA PassFrame ==
    ASSUME Base, [Next]_vars
    PROVE  \/ Rendering \/ ProbeStep \/ Passing
           \/ hosted'.at = "idle"
           \/ hosted' = hosted /\ (hosted.at = "probe" => unit' = unit)
<1>1. CASE Aside \/ (\E k \in Keys : CreateClaim(k) \/ DeleteClaim(k)) \/ CoreRead \/ CoreStatus
  BY <1>1, CreateIs, DeleteIs, CoreReadIs, CoreStatusIs DEF Aside
<1>2. CASE CoreZone \/ CoreUnit
  BY <1>2, CoreZoneIs, CoreUnitIs, Fields DEF Respecified
<1>3. CASE HostedReject \/ HostedSave \/ Crash \/ LoseState
  BY <1>3, RejectIs, SaveIs, CrashIs, LossIs, Fields
<1> QED
  BY <1>1, <1>2, <1>3, AsideIs

LEMMA PassAgreesStep == ASSUME Base, PassAgrees, [Next]_vars PROVE PassAgrees'
<1>1. CASE Rendering
  <2>1. SameSpec(hosted'.new, unit) /\ unit' = unit
    BY <1>1 DEF Rendering
  <2>2. \A k \in Keys : hosted'.new.sched[k].id = unit.items[k].uid
    BY <1>1 DEF Rendering, Survey
  <2> QED
    BY <2>1, <2>2 DEF PassAgrees, SameSpec
<1>2. CASE ProbeStep
  <2>1. PICK k \in Keys : Probing(k, dns'.cache)
    BY <1>2 DEF ProbeStep
  <2>2. unit' = unit /\ hosted.at = "probe" /\ SameSpec(hosted'.new, hosted.new)
        /\ \A j \in Keys : hosted'.new.sched[j].id = hosted.new.sched[j].id
    BY <1>2, <2>1 DEF ProbeStep, Probing
  <2> QED
    BY <2>2 DEF PassAgrees, SameSpec
<1>3. CASE Passing
  <2>1. /\ SameSpec(unit', unit) /\ hosted'.at = hosted.at
        /\ hosted.at = "probe" =>
              /\ SameSpec(hosted'.new, hosted.new)
              /\ \A k \in Keys : hosted'.new.sched[k].id = hosted.new.sched[k].id
    BY <1>3 DEF Passing, AgedSchedule
  <2> QED
    BY <2>1 DEF PassAgrees, SameSpec
<1>4. CASE hosted'.at = "idle" \/ (hosted' = hosted /\ (hosted.at = "probe" => unit' = unit))
  BY <1>4 DEF PassAgrees
<1> QED
  BY <1>1, <1>2, <1>3, <1>4, PassFrame

LEMMA EvidenceBoundStep ==
    ASSUME Base, PassAgrees, EvidenceBound, [Next]_vars
    PROVE  EvidenceBound'
<1>a. /\ \A k \in Keys : unit.sched[k].st \in Evidences
      /\ hosted.at = "probe" => \A k \in Keys : hosted.new.sched[k].st \in Evidences
  BY Fields, PassFields DEF Units, Schedules
<1>b. \A k \in Keys : Bound(unit.sched[k]) /\ (hosted.at = "probe" => Bound(hosted.new.sched[k]))
  BY DEF EvidenceBound
<1>1. ASSUME NEW k \in Keys PROVE unit'.sched[k].st.id \in {0, unit'.sched[k].id}
  <2>1. CASE unit'.sched[k] = unit.sched[k]
    BY <1>b, <2>1 DEF Bound
  <2>2. CASE Elsewhere
    <3>1. unit'.sched = unit.sched
      BY <2>2, SchedulesKept
    <3> QED
      BY <2>1, <3>1
  <2>3. CASE HostedReject
    <3>1. PICK u : Rejection(u) /\ SameState(unit', u)
      BY <2>3, RejectIs
    <3>2. /\ unit'.sched[k].id = unit.sched[k].id
          /\ unit'.sched[k].st = unit.sched[k].st \/ unit'.sched[k].st = Closed(unit.sched[k].st)
      BY <3>1 DEF Rejection, SameState
    <3> QED
      BY <1>a, <1>b, <3>2, ClosedTyped DEF Bound
  <2>4. CASE HostedSave
    <3>1. hosted.at = "probe" /\ (unit' = unit \/ unit'.sched = hosted.new.sched)
      BY <2>4, SaveIs DEF SameState
    <3> QED
      BY <1>b, <3>1 DEF Bound
  <2>5. CASE Passing
    <3>1. unit'.sched[k].id = unit.sched[k].id /\ unit'.sched[k].st = AgedEvidence(unit.sched[k].st)
      BY <2>5 DEF Passing, AgedSchedule
    <3> QED
      BY <1>a, <1>b, <3>1, EvidenceAged DEF Bound
  <2>6. CASE LoseState
    <3>1. unit'.sched[k] = NoSchedule
      BY <2>6, LossIs
    <3> QED
      BY <3>1 DEF NoSchedule, NoEvidence
  <2> QED
    BY <2>2, <2>3, <2>4, <2>5, <2>6, AsideIs DEF Elsewhere
<1>2. ASSUME NEW k \in Keys, hosted'.at = "probe"
      PROVE  hosted'.new.sched[k].st.id \in {0, hosted'.new.sched[k].id}
  <2>1. CASE Rendering
    <3>1. PICK w : Survey(w, unit, k, dns'.snap) /\ hosted'.new.sched[k] = w.s
      BY <2>1 DEF Rendering
    <3> QED
      BY <1>b, <3>1 DEF Survey, Bound
  <2>2. CASE ProbeStep
    <3>1. PICK j \in Keys : Probing(j, dns'.cache)
      BY <2>2 DEF ProbeStep
    <3>2. hosted.at = "probe" /\ hosted'.new.sched[k].id = hosted.new.sched[k].id
          /\ hosted'.new.sched[k].st.id \in {hosted.new.sched[k].st.id, unit.items[k].uid}
      BY <3>1 DEF Probing
    <3> QED
      BY <1>b, <3>2 DEF PassAgrees, Bound
  <2>3. CASE Passing
    <3>1. hosted.at = "probe" /\ hosted'.new.sched[k].id = hosted.new.sched[k].id
          /\ hosted'.new.sched[k].st = AgedEvidence(hosted.new.sched[k].st)
      BY <1>2, <2>3 DEF Passing, AgedSchedule
    <3> QED
      BY <1>a, <1>b, <3>1, EvidenceAged DEF Bound
  <2> QED
    BY <1>b, <1>2, <2>1, <2>2, <2>3, PassFrame DEF Bound
<1> QED
  BY <1>1, <1>2 DEF EvidenceBound, Bound

LEMMA RetainedStep ==
    ASSUME Base, PassAgrees, EvidenceBound, Retained, [Next]_vars
    PROVE  Retained'
<1> SUFFICES ASSUME hosted'.at = "probe", NEW k \in Keys,
                    unit'.sched[k].id # 0, unit'.sched[k].id = unit'.items[k].uid
             PROVE  /\ hosted'.new.sched[k].id = unit'.sched[k].id
                    /\ hosted'.new.sched[k].st.positive >= unit'.sched[k].st.positive
  BY DEF Retained
<1>a. /\ unit.sched[k].st.positive \in Nat
      /\ hosted.at = "probe" => hosted.new.sched[k].st.positive \in Nat
      /\ hosted'.new.sched[k].st.positive \in Nat
  <2>1. Base'
    BY BaseStep
  <2>2. hosted' \in Probes
    BY <2>1 DEF Base, Idle
  <2>3. hosted'.new.sched[k].st \in Evidences
    BY <2>2 DEF Probes, Units, Schedules
  <2>4. unit.sched[k].st \in Evidences /\ (hosted.at = "probe" => hosted.new.sched[k].st \in Evidences)
    BY Fields, PassFields DEF Units, Schedules
  <2> QED
    BY <2>3, <2>4, PositiveIs
<1>1. CASE Rendering
  <2>1. PICK w : Survey(w, unit, k, dns'.snap) /\ hosted'.new.sched[k] = w.s
    BY <1>1 DEF Rendering
  <2>2. unit' = unit /\ unit.items[k] # NoItem
    BY <1>1 DEF Rendering, NoItem
  <2> QED
    BY <1>a, <2>1, <2>2 DEF Survey, SameClaim
<1>2. CASE ProbeStep
  <2>1. PICK j \in Keys : Probing(j, dns'.cache)
    BY <1>2 DEF ProbeStep
  <2>2. unit' = unit /\ hosted.at = "probe"
    BY <1>2, <2>1 DEF ProbeStep, Probing
  <2>3. /\ hosted.new.sched[k].id = unit.sched[k].id
        /\ hosted.new.sched[k].st.positive >= unit.sched[k].st.positive
        /\ hosted.new.sched[k].st.id \in {0, unit.items[k].uid}
    BY <2>2 DEF Retained, EvidenceBound, Bound
  <2>4. /\ hosted'.new.sched[k].id = hosted.new.sched[k].id
        /\ hosted'.new.sched[k].st.positive >= hosted.new.sched[k].st.positive
    <3>1. CASE j = k
      <4>1. /\ hosted'.new.sched[k].id = hosted.new.sched[k].id
            /\ hosted.new.sched[k].st.id \in {0, unit.items[k].uid} =>
                  hosted'.new.sched[k].st.positive >= hosted.new.sched[k].st.positive
        BY <2>1, <3>1 DEF Probing
      <4> QED
        BY <2>3, <4>1
    <3>2. CASE j # k
      <4>1. hosted'.new.sched[k] = hosted.new.sched[k]
        BY <2>1, <3>2 DEF Probing
      <4> QED
        BY <1>a, <2>2, <4>1
    <3> QED
      BY <3>1, <3>2
  <2> QED
    BY <1>a, <2>2, <2>3, <2>4
<1>3. CASE Passing
  <2>1. /\ hosted.at = "probe" /\ unit'.items = unit.items
        /\ AgedSchedule(unit'.sched[k], unit.sched[k])
        /\ AgedSchedule(hosted'.new.sched[k], hosted.new.sched[k])
    BY <1>3 DEF Passing, SameSpec
  <2>2. /\ hosted.new.sched[k].id = unit.sched[k].id
        /\ hosted.new.sched[k].st.positive >= unit.sched[k].st.positive
    BY <2>1 DEF Retained, AgedSchedule
  <2>3. unit.sched[k].st \in Evidences /\ hosted.new.sched[k].st \in Evidences
    BY <2>1, Fields, PassFields DEF Units, Schedules
  <2>4. /\ unit'.sched[k].st.positive = Less(unit.sched[k].st.positive)
        /\ hosted'.new.sched[k].st.positive = Less(hosted.new.sched[k].st.positive)
        /\ unit'.sched[k].id = unit.sched[k].id /\ hosted'.new.sched[k].id = hosted.new.sched[k].id
    BY <2>1, <2>3, EvidenceAged DEF AgedSchedule
  <2> QED
    BY <1>a, <2>1, <2>2, <2>4 DEF Less
<1>4. CASE hosted' = hosted /\ (hosted.at = "probe" => unit' = unit)
  BY <1>4 DEF Retained
<1> QED
  BY <1>1, <1>2, <1>3, <1>4, PassFrame

LEMMA KeepingInit == ASSUME Init PROVE Keeping
<1>1. /\ \A k \in Keys : claim[k].uid = 0 /\ unit.items[k] = NoItem /\ unit.results[k].uid = 0
                         /\ unit.sched[k] = NoSchedule
      /\ core.at = "idle" /\ hosted.at = "idle" /\ budget.uids = 0
      /\ NoSchedule.id = 0 /\ NoSchedule.st.id = 0 /\ NoItem.uid = 0
  BY DEF Init, NoClaim, NoResult, NoItem, NoSchedule, NoEvidence, Idle
<1>2. \A k \in Keys : Asked(k) = {0} /\ Known(k) = {0}
  BY <1>1 DEF Asked, Known
<1>3. Homes
  BY <1>1, <1>2 DEF Homes
<1>4. ItemsStay /\ PassAgrees /\ EvidenceBound /\ Retained
  BY <1>1, <1>2 DEF ItemsStay, PassAgrees, EvidenceBound, Bound, Retained
<1> QED
  BY <1>3, <1>4 DEF Keeping

LEMMA KeepingStep == ASSUME Base, Keeping, [Next]_vars PROVE Keeping'
  BY HomesStep, ItemsStayStep, PassAgreesStep, EvidenceBoundStep, RetainedStep DEF Keeping

\* One step keeps the history.
LEMMA HistoryStep ==
    ASSUME Base, Keeping, [Next]_vars, ~LoseState, NEW k \in Keys,
           unit.sched[k].id # 0, unit.sched[k].id = claim[k].uid, claim'[k].uid = claim[k].uid
    PROVE  /\ unit'.sched[k].id = unit.sched[k].id
           /\ unit'.sched[k].st.positive >= Less(unit.sched[k].st.positive)
<1>a. unit.sched[k].st \in Evidences /\ unit.sched[k].st.positive \in Nat
  <2>1. unit.sched[k].st \in Evidences
    BY Fields DEF Schedules
  <2> QED
    BY <2>1, PositiveIs
<1>b. unit.items[k].uid = unit.sched[k].id
  BY DEF Keeping, ItemsStay, Asked, Known
<1>c. Less(unit.sched[k].st.positive) \in Nat /\ Less(unit.sched[k].st.positive) <= unit.sched[k].st.positive
  BY <1>a, LessIs
<1>1. CASE unit'.sched[k] = unit.sched[k]
  BY <1>a, <1>c, <1>1
<1>2. CASE Elsewhere
  <2>1. unit'.sched = unit.sched
    BY <1>2, SchedulesKept
  <2> QED
    BY <1>1, <2>1
<1>3. CASE HostedReject
  <2>1. PICK u : Rejection(u) /\ SameState(unit', u)
    BY <1>3, RejectIs
  <2>2. /\ unit'.sched[k].id = unit.sched[k].id
        /\ unit'.sched[k].st = unit.sched[k].st \/ unit'.sched[k].st = Closed(unit.sched[k].st)
    BY <2>1 DEF Rejection, SameState
  <2> QED
    BY <1>a, <1>c, <2>2, ClosedTyped
<1>4. CASE HostedSave
  <2>1. hosted.at = "probe" /\ (unit' = unit \/ unit'.sched = hosted.new.sched)
    BY <1>4, SaveIs DEF SameState
  <2>2. /\ hosted.new.sched[k].id = unit.sched[k].id
        /\ hosted.new.sched[k].st.positive >= unit.sched[k].st.positive
    BY <1>b, <2>1 DEF Keeping, Retained
  <2>3. hosted.new.sched[k].st \in Evidences
    BY <2>1, PassFields DEF Units, Schedules
  <2>4. hosted.new.sched[k].st.positive \in Nat
    BY <2>3, PositiveIs
  <2> QED
    BY <1>1, <1>a, <1>c, <2>1, <2>2, <2>4
<1>5. CASE Passing
  <2>1. unit'.sched[k].id = unit.sched[k].id /\ unit'.sched[k].st = AgedEvidence(unit.sched[k].st)
    BY <1>5 DEF Passing, AgedSchedule
  <2> QED
    BY <1>a, <1>c, <2>1, EvidenceAged
<1> QED
  BY <1>2, <1>3, <1>4, <1>5, AsideIs DEF Elsewhere

\* While a claim lives the provider does not forget how long answers with its
\* address may be cached, whatever core does to the inventory, unless the
\* private state is lost as a whole (withdrawalSchedule, Evaluate).
THEOREM HistoryIsKept == Spec => HistoryKept
<1>1. Init => Base /\ Keeping
  BY BaseInit, KeepingInit
<1>2. Base /\ Keeping /\ [Next]_vars => (Base /\ Keeping)'
  BY BaseStep, KeepingStep
<1>3. Base /\ Keeping /\ [Next]_vars =>
        [LoseState \/ \A k \in Keys :
          LET s == unit.sched[k]
          IN  s.id # 0 /\ s.id = claim[k].uid /\ claim'[k].uid = claim[k].uid
              => /\ unit'.sched[k].id = s.id
                 /\ unit'.sched[k].st.positive >= Less(s.st.positive)]_vars
  BY HistoryStep
<1> QED
  BY <1>1, <1>2, <1>3, PTL DEF Spec, HistoryKept

-----------------------------------------------------------------------------
(* Lost state.                                                             *)

LEMMA ResultsKept ==
    ASSUME Base, Elsewhere \/ Passing \/ LoseState
    PROVE  unit'.results = unit.results
<1>1. CASE Aside \/ (\E j \in Keys : CreateClaim(j) \/ DeleteClaim(j)) \/ CoreRead
           \/ CoreStatus \/ Rendering \/ ProbeStep \/ Crash
  BY <1>1, CreateIs, DeleteIs, CoreReadIs, CoreStatusIs, CrashIs DEF Aside, Rendering, ProbeStep
<1>2. CASE CoreZone \/ CoreUnit
  <2>1. PICK u \in Units : Respecified(u) /\ u.results = unit.results
    BY <1>2, CoreZoneIs, CoreUnitIs
  <2> QED
    BY <2>1 DEF Respecified, SameState
<1>3. CASE Passing \/ LoseState
  BY <1>3, LossIs DEF Passing
<1> QED
  BY <1>1, <1>2, <1>3 DEF Elsewhere

\* The parts of Gaps.
LostKnown == \A uid \in budget.lost : uid # 0 /\ uid <= budget.uids
LostAsked == \A k \in Keys : \A uid \in Asked(k) \cap budget.lost : unit.items[k].uid = uid
LostMarked ==
    \A k \in Keys : unit.items[k].uid \in budget.lost =>
          /\ Marked(unit.results[k], unit.sched[k], unit.items[k].uid)
          /\ hosted.at = "probe" => /\ Marked(hosted.new.results[k], hosted.new.sched[k], unit.items[k].uid)
                                    /\ hosted.new.sched[k].id = unit.items[k].uid
NewSuccess ==
    hosted.at = "probe" => \A k \in Keys :
          hosted.new.results[k].withdrawn = "True" /\ hosted.new.results[k].uid \in budget.lost
              => unit.results[k].withdrawn = "True"
ProbedItems ==
    /\ \A k \in Keys : unit.results[k].probed => unit.results[k].uid # 0
    /\ hosted.at = "probe" => \A k \in Keys :
            /\ hosted.new.results[k].probed => hosted.new.results[k].uid # 0
            /\ unit.items[k] = NoItem => k \notin hosted.due

LEMMA GapsAre == Gaps <=> LostKnown /\ LostAsked /\ LostMarked /\ NewSuccess /\ ProbedItems
  BY DEF Gaps, LostKnown, LostAsked, LostMarked, NewSuccess, ProbedItems

\* What losing the private state adds.
LEMMA LossAdds ==
    ASSUME Base, Keeping, ProbedItems, LoseState, NEW uid \in budget'.lost, uid \notin budget.lost
    PROVE  /\ uid # 0 /\ uid <= budget.uids
           /\ \E k \in Keys : uid = unit.results[k].uid /\ unit.results[k].probed
           /\ \A k \in Keys : uid \in Asked(k) => unit.items[k].uid = uid
           /\ \A k \in Keys : uid = unit.items[k].uid => unit.results[k].uid = uid /\ unit.results[k].probed
<1>1. PICK j \in Keys : uid = unit.results[j].uid /\ unit.results[j].probed
  BY LossIs
<1>2. uid # 0 /\ uid \in Known(j)
  BY <1>1 DEF ProbedItems, Known
<1>3. uid <= budget.uids /\ \A k \in Keys : uid \in Asked(k) \cup {unit.items[k].uid} => k = j
  BY <1>2 DEF Keeping, Homes
<1>4. uid \in Asked(j) => unit.items[j].uid = uid
  BY <1>2 DEF Keeping, ItemsStay
<1> QED
  BY <1>1, <1>2, <1>3, <1>4

LEMMA LostKnownStep ==
    ASSUME Base, Keeping, LostKnown, ProbedItems, [Next]_vars PROVE LostKnown'
<1>1. CASE LoseState
  <2>1. budget'.uids = budget.uids
    BY <1>1, LossIs
  <2> QED
    BY <1>1, <2>1, LossAdds DEF LostKnown
<1>2. ASSUME NEW k \in Keys, CreateClaim(k) PROVE LostKnown'
  <2>1. budget'.uids = budget.uids + 1 /\ budget'.lost = budget.lost
    BY <1>2, CreateIs, SpendIs
  <2>2. budget.uids \in Nat /\ budget.lost \subseteq Nat
    BY Fields, Parameters DEF Budgets, UidsOrNone
  <2> QED
    BY <2>1, <2>2 DEF LostKnown
<1>3. CASE ~LoseState /\ \A k \in Keys : ~CreateClaim(k)
  BY <1>3, UidsGrow DEF LostKnown
<1> QED
  BY <1>1, <1>2, <1>3

LEMMA LostAskedStep ==
    ASSUME Base, Keeping, LostKnown, LostAsked, ProbedItems, [Next]_vars PROVE LostAsked'
<1> SUFFICES ASSUME NEW k \in Keys, NEW uid \in Asked(k)', uid \in budget'.lost
             PROVE  unit'.items[k].uid = uid
  BY DEF LostAsked
<1>a. PassAgrees
  BY DEF Keeping
<1>1. CASE LoseState
  <2>1. claim' = claim /\ CoreKept /\ unit'.items = unit.items
    BY <1>1, LossIs
  <2>2. uid \in Asked(k)
    BY <2>1, CoreForgets
  <2> QED
    BY <1>1, <2>1, <2>2, LossAdds DEF LostAsked
<1>2. ASSUME NEW j \in Keys, CreateClaim(j) PROVE unit'.items[k].uid = uid
  <2>1. /\ budget'.lost = budget.lost /\ unit' = unit
        /\ Asked(k)' \subseteq Asked(k) \cup {budget.uids + 1}
    BY <1>2, Fresh, CreateIs, SpendIs DEF Keeping
  <2>2. budget.uids \in Nat
    BY Fields, Parameters
  <2>3. uid # budget.uids + 1
    BY <2>1, <2>2 DEF LostKnown
  <2> QED
    BY <2>1, <2>3 DEF LostAsked
<1>3. CASE ~LoseState /\ \A j \in Keys : ~CreateClaim(j)
  <2>1. uid \in budget.lost /\ uid # 0
    BY <1>3, UidsGrow DEF LostKnown
  <2>2. uid \in Asked(k) \cup {unit.items[k].uid}
    BY <1>3, <2>1, AskedStep DEF AskedLess
  <2>3. unit.items[k].uid = uid
    BY <2>1, <2>2 DEF LostAsked
  <2>4. CASE unit'.items = unit.items
    BY <2>3, <2>4
  <2>5. CASE core.at = "status" /\ core' = Idle /\ claim' = claim /\ unit'.items = core.items
    <3>1. uid = claim[k].uid
      BY <2>5, Fields DEF Asked
    <3>2. core.items[k].uid = uid
      BY <2>1, <2>3, <2>5, <3>1 DEF Keeping, ItemsStay, Inventory
    <3> QED
      BY <2>5, <3>2
  <2> QED
    BY <1>a, <2>4, <2>5, ItemsChange
<1> QED
  BY <1>1, <1>2, <1>3

LEMMA ProbedItemsStep ==
    ASSUME Base, Keeping, ProbedItems, [Next]_vars PROVE ProbedItems'
<1>1. ASSUME NEW k \in Keys, unit'.results[k].probed PROVE unit'.results[k].uid # 0
  <2>1. CASE unit'.results = unit.results
    BY <1>1, <2>1 DEF ProbedItems
  <2>2. CASE HostedReject
    <3>1. PICK u : Rejection(u) /\ SameState(unit', u)
      BY <2>2, RejectIs
    <3>2. unit.items[k] # NoItem
      BY <1>1, <3>1 DEF Rejection, SameState, NoResult
    <3>3. unit'.results[k].uid = unit.results[k].uid /\ unit.results[k].probed
      <4>1. /\ unit'.results[k].uid = unit.items[k].uid
            /\ unit'.results[k].probed =
                  (unit.results[k].uid = unit.items[k].uid /\ unit.results[k].probed)
        BY <3>1, <3>2 DEF Rejection, SameState
      <4>2. unit.results[k].uid = unit.items[k].uid /\ unit.results[k].probed
        BY <1>1, <4>1, Zenon
      <4> QED
        BY <4>1, <4>2
    <3> QED
      BY <3>3 DEF ProbedItems
  <2>3. CASE HostedSave
    <3>1. hosted.at = "probe" /\ (unit' = unit \/ unit'.results = hosted.new.results)
      BY <2>3, SaveIs DEF SameState
    <3> QED
      BY <1>1, <3>1 DEF ProbedItems
  <2> QED
    BY <2>1, <2>2, <2>3, ResultsKept, AsideIs DEF Elsewhere
<1>2. ASSUME NEW k \in Keys, hosted'.at = "probe"
      PROVE  /\ hosted'.new.results[k].probed => hosted'.new.results[k].uid # 0
             /\ unit'.items[k] = NoItem => k \notin hosted'.due
  <2>1. CASE Rendering
    <3>1. PICK w : /\ Survey(w, unit, k, dns'.snap)
                   /\ hosted'.new.results[k] = w.r /\ w.due = (k \in hosted'.due)
      BY <2>1 DEF Rendering
    <3>2. unit' = unit
      BY <2>1 DEF Rendering
    <3> QED
      BY <3>1, <3>2 DEF Survey, ProbedItems
  <2>2. CASE ProbeStep
    <3>1. PICK j \in Keys : Probing(j, dns'.cache)
      BY <2>2 DEF ProbeStep
    <3>2. /\ hosted.at = "probe" /\ j \in hosted.due /\ hosted'.due \subseteq hosted.due /\ unit' = unit
          /\ hosted'.new.results[j].uid = unit.items[j].uid
          /\ k # j => hosted'.new.results[k] = hosted.new.results[k]
      BY <2>2, <3>1 DEF Probing, ProbeStep
    <3>3. unit.items[j].uid # 0
      BY <3>2 DEF ProbedItems, Keeping, ItemsStay
    <3> QED
      BY <3>2, <3>3 DEF ProbedItems
  <2>3. CASE Passing
    <3>1. hosted.at = "probe" /\ unit'.items = unit.items /\ hosted'.due = hosted.due
          /\ hosted'.new.results = hosted.new.results
      BY <1>2, <2>3 DEF Passing, SameSpec
    <3> QED
      BY <3>1 DEF ProbedItems
  <2>4. CASE hosted' = hosted /\ (hosted.at = "probe" => unit' = unit)
    BY <1>2, <2>4 DEF ProbedItems
  <2> QED
    BY <1>2, <2>1, <2>2, <2>3, <2>4, PassFrame
<1> QED
  BY <1>1, <1>2 DEF ProbedItems

LEMMA NewSuccessStep ==
    ASSUME Base, Keeping, LostMarked, NewSuccess, [Next]_vars PROVE NewSuccess'
<1> SUFFICES ASSUME NEW k \in Keys, hosted'.at = "probe", hosted'.new.results[k].withdrawn = "True",
                    hosted'.new.results[k].uid \in budget'.lost
             PROVE  unit'.results[k].withdrawn = "True"
  BY DEF NewSuccess
<1>a. budget'.lost = budget.lost
  BY UidsGrow, LossIs, Fields
<1>1. CASE Rendering
  <2>1. PICK w : Survey(w, unit, k, dns'.snap) /\ hosted'.new.results[k] = w.r
    BY <1>1 DEF Rendering
  <2>2. unit' = unit
    BY <1>1 DEF Rendering
  <2> QED
    BY <2>1, <2>2 DEF Survey
<1>2. CASE ProbeStep
  <2>1. PICK j \in Keys : Probing(j, dns'.cache)
    BY <1>2 DEF ProbeStep
  <2>2. hosted.at = "probe" /\ unit' = unit
    BY <1>2, <2>1 DEF ProbeStep, Probing
  <2>3. CASE k # j
    BY <1>a, <2>1, <2>2, <2>3 DEF Probing, NewSuccess
  <2>4. CASE k = j
    <3>1. unit.items[k].uid \in budget.lost /\ ~hosted.new.sched[k].st.missing
      BY <1>a, <2>1, <2>4 DEF Probing
    <3> QED
      BY <2>2, <3>1 DEF LostMarked, Marked
  <2> QED
    BY <2>3, <2>4
<1>3. CASE Passing
  BY <1>a, <1>3 DEF Passing, NewSuccess
<1>4. CASE hosted' = hosted /\ (hosted.at = "probe" => unit' = unit)
  BY <1>a, <1>4 DEF NewSuccess
<1> QED
  BY <1>1, <1>2, <1>3, <1>4, PassFrame

LEMMA LostItems ==
    ASSUME Base, Keeping, LostAsked, [Next]_vars, ~LoseState,
           NEW k \in Keys, unit'.items[k].uid \in budget'.lost
    PROVE  unit.items[k].uid = unit'.items[k].uid /\ unit.items[k].uid \in budget.lost
<1>1. budget'.lost = budget.lost
  BY UidsGrow
<1>2. CASE unit'.items = unit.items
  BY <1>1, <1>2
<1>3. CASE core.at = "status" /\ unit'.items = core.items
  <2>1. core.items[k].uid \in Asked(k)
    BY <1>3 DEF Asked
  <2> QED
    BY <1>1, <1>3, <2>1 DEF LostAsked
<1> QED
  BY <1>2, <1>3, ItemsChange DEF Keeping

LEMMA LostMarkedStep ==
    ASSUME Base, Keeping, LostKnown, LostAsked, LostMarked, ProbedItems, [Next]_vars
    PROVE  LostMarked'
<1> SUFFICES ASSUME NEW k \in Keys, unit'.items[k].uid \in budget'.lost
             PROVE  /\ Marked(unit'.results[k], unit'.sched[k], unit'.items[k].uid)
                    /\ hosted'.at = "probe" =>
                         /\ Marked(hosted'.new.results[k], hosted'.new.sched[k], unit'.items[k].uid)
                         /\ hosted'.new.sched[k].id = unit'.items[k].uid
  BY DEF LostMarked, Marked
<1> DEFINE uid == unit.items[k].uid
<1>1. CASE LoseState
  <2>1. /\ unit'.items = unit.items /\ unit'.results = unit.results /\ unit'.sched[k] = NoSchedule
        /\ hosted'.at = "idle" /\ NoSchedule.id = 0
    BY <1>1, LossIs, Fields DEF NoSchedule
  <2>2. uid # 0 /\ unit.results[k].uid = uid /\ unit.results[k].probed
    <3>1. CASE uid \in budget.lost
      BY <3>1 DEF LostMarked, Marked, LostKnown
    <3>2. CASE uid \notin budget.lost
      BY <1>1, <2>1, <3>2, LossAdds
    <3> QED
      BY <3>1, <3>2
  <2> QED
    BY <2>1, <2>2 DEF Marked
<1>2. CASE ~LoseState
  <2>a. unit'.items[k].uid = uid /\ uid \in budget.lost /\ uid # 0
    BY <1>2, LostItems DEF LostKnown
  <2>b. /\ Marked(unit.results[k], unit.sched[k], uid)
        /\ hosted.at = "probe" => /\ Marked(hosted.new.results[k], hosted.new.sched[k], uid)
                                  /\ hosted.new.sched[k].id = uid
    BY <2>a DEF LostMarked
  <2>c. unit.sched[k].st \in Evidences
        /\ (hosted.at = "probe" => hosted.new.sched[k].st \in Evidences)
    BY Fields, PassFields DEF Units, Schedules
  <2>d. unit.items[k] # NoItem
    BY <2>a DEF NoItem
  <2>1. Marked(unit'.results[k], unit'.sched[k], uid)
    <3>1. CASE Elsewhere
      BY <2>b, <3>1, ResultsKept, SchedulesKept
    <3>2. CASE HostedReject
      <4>1. PICK u : Rejection(u) /\ SameState(unit', u)
        BY <3>2, RejectIs
      <4>2. /\ unit'.results[k].uid = uid
            /\ unit'.results[k].probed = (unit.results[k].uid = uid /\ unit.results[k].probed)
            /\ unit'.sched[k].id = unit.sched[k].id /\ unit'.sched[k].st = Closed(unit.sched[k].st)
        BY <2>d, <4>1 DEF Rejection, SameState
      <4> QED
        BY <2>b, <2>c, <4>2, ClosedTyped DEF Marked
    <3>3. CASE HostedSave
      <4>1. \/ unit' = unit
            \/ /\ hosted.at = "probe" /\ unit'.results = hosted.new.results
               /\ unit'.sched = hosted.new.sched
        BY <3>3, SaveIs DEF SameState
      <4> QED
        BY <2>b, <4>1
    <3>4. CASE Passing
      <4>1. unit'.results = unit.results /\ AgedSchedule(unit'.sched[k], unit.sched[k])
        BY <3>4 DEF Passing
      <4> QED
        BY <2>b, <2>c, <4>1, EvidenceAged DEF Marked, AgedSchedule
    <3> QED
      BY <1>2, <3>1, <3>2, <3>3, <3>4, AsideIs DEF Elsewhere
  <2>2. ASSUME hosted'.at = "probe"
        PROVE  Marked(hosted'.new.results[k], hosted'.new.sched[k], uid) /\ hosted'.new.sched[k].id = uid
    <3>1. CASE Rendering
      <4>1. PICK w : /\ Survey(w, unit, k, dns'.snap)
                     /\ hosted'.new.sched[k] = w.s /\ hosted'.new.results[k] = w.r
        BY <3>1 DEF Rendering
      <4>2. w.r.uid = uid /\ w.r.probed /\ w.s.id = uid
        BY <2>b, <2>d, <4>1 DEF Survey, Marked
      <4>3. w.s.st.missing
        <5>1. CASE unit.sched[k].id = uid
          BY <2>b, <2>d, <4>1, <5>1 DEF Survey, Marked, SameClaim
        <5>2. CASE unit.sched[k].id # uid
          <6>1. Gap(unit.sched[k], unit.items[k], unit.results[k])
            BY <2>b, <5>2 DEF Marked, Gap
          <6> QED
            BY <2>d, <4>1, <5>2, <6>1 DEF Survey, SameClaim
        <5> QED
          BY <5>1, <5>2
      <4> QED
        BY <4>1, <4>2, <4>3 DEF Marked
    <3>2. CASE ProbeStep
      <4>1. PICK j \in Keys : Probing(j, dns'.cache)
        BY <3>2 DEF ProbeStep
      <4>2. hosted.at = "probe"
        BY <4>1 DEF Probing
      <4>3. CASE j # k
        BY <2>b, <4>1, <4>2, <4>3 DEF Probing
      <4>4. CASE j = k
        BY <2>b, <4>1, <4>2, <4>4 DEF Probing, Marked
      <4> QED
        BY <4>3, <4>4
    <3>3. CASE Passing
      <4>1. /\ hosted.at = "probe" /\ hosted'.new.results = hosted.new.results
            /\ AgedSchedule(hosted'.new.sched[k], hosted.new.sched[k])
        BY <2>2, <3>3 DEF Passing
      <4> QED
        BY <2>b, <2>c, <4>1, EvidenceAged DEF Marked, AgedSchedule
    <3>4. CASE hosted' = hosted /\ (hosted.at = "probe" => unit' = unit)
      BY <2>2, <2>b, <3>4
    <3> QED
      BY <2>2, <3>1, <3>2, <3>3, <3>4, PassFrame
  <2> HIDE DEF uid
  <2> QED
    BY <2>a, <2>1, <2>2
<1> QED
  BY <1>1, <1>2

LEMMA GapsInit == ASSUME Init PROVE Gaps
<1>1. /\ budget.lost = {} /\ hosted.at = "idle"
      /\ \A k \in Keys : ~unit.results[k].probed
  BY DEF Init, NoResult, Idle
<1> QED
  BY <1>1 DEF Gaps

LEMMA GapsStep == ASSUME Base, Keeping, Gaps, [Next]_vars PROVE Gaps'
<1>1. LostKnown /\ LostAsked /\ LostMarked /\ NewSuccess /\ ProbedItems
  BY GapsAre
<1>2. LostKnown' /\ LostAsked' /\ LostMarked' /\ NewSuccess' /\ ProbedItems'
  BY <1>1, LostKnownStep, LostAskedStep, LostMarkedStep, NewSuccessStep, ProbedItemsStep
<1> QED
  BY <1>2 DEF Gaps, LostKnown, LostAsked, LostMarked, NewSuccess, ProbedItems

\* One step reports no success across a gap.
LEMMA GapStep ==
    ASSUME Base, Gaps, [Next]_vars, NEW k \in Keys,
           unit'.results[k].uid \in budget.lost, unit'.results[k].withdrawn = "True"
    PROVE  unit.results[k].withdrawn = "True"
<1>1. CASE unit'.results = unit.results
  BY <1>1
<1>2. CASE HostedReject
  <2>1. PICK u : Rejection(u) /\ SameState(unit', u)
    BY <1>2, RejectIs
  <2> QED
    BY <2>1 DEF Rejection, SameState, NoResult
<1>3. CASE HostedSave
  <2>1. hosted.at = "probe" /\ (unit' = unit \/ unit'.results = hosted.new.results)
    BY <1>3, SaveIs DEF SameState
  <2> QED
    BY <2>1 DEF Gaps
<1> QED
  BY <1>1, <1>2, <1>3, ResultsKept, AsideIs DEF Elsewhere

\* Once the private state of a probed claim is lost no pass reports success
\* for it again: the gap is found by the next pass and stays with the evidence
\* (State.MissingHistory).
THEOREM GapsBlockSuccess == Spec => GapBlocksSuccess
<1>1. Init => Base /\ Keeping /\ Gaps
  BY BaseInit, KeepingInit, GapsInit
<1>2. Base /\ Keeping /\ Gaps /\ [Next]_vars => (Base /\ Keeping /\ Gaps)'
  BY BaseStep, KeepingStep, GapsStep
<1>3. Base /\ Keeping /\ Gaps /\ [Next]_vars =>
        [\A k \in Keys :
          unit'.results[k].uid \in budget.lost /\ unit'.results[k].withdrawn = "True"
              => unit.results[k].withdrawn = "True"]_vars
  BY GapStep
<1> QED
  BY <1>1, <1>2, <1>3, PTL DEF Spec, GapBlocksSuccess

-----------------------------------------------------------------------------
(* Snapshots.                                                              *)

LEMMA SnapsTyped == ASSUME Base PROVE Snaps \subseteq Snapshots
<1>1. dns.snap \in Snapshots /\ dns.server \in Snapshots /\ dns.told \in Seq(Snapshots)
  BY Fields
<1>2. {dns.told[n] : n \in 1..Len(dns.told)} \subseteq Snapshots
  BY <1>1
<1>3. Omissions(unit) \subseteq Snapshots
  BY Fields DEF Omissions, Schedules
<1>4. hosted.at = "probe" => hosted.ack \in Snapshots /\ Omissions(hosted.new) \subseteq Snapshots
  BY PassFields DEF Omissions, Units, Schedules
<1> QED
  BY <1>1, <1>2, <1>3, <1>4 DEF Snaps

\* Where the omissions of the unit come from.
LEMMA UnitOmissions ==
    ASSUME Base, [Next]_vars
    PROVE  Omissions(unit)' \subseteq Omissions(unit) \cup (IF hosted.at = "probe" THEN Omissions(hosted.new) ELSE {})
<1> SUFFICES \A k \in Keys :
                \/ unit'.sched[k].omission \in {<<>>, unit.sched[k].omission}
                \/ hosted.at = "probe" /\ unit'.sched[k].omission = hosted.new.sched[k].omission
  BY DEF Omissions
<1>1. CASE Elsewhere
  BY <1>1, SchedulesKept
<1>2. CASE HostedReject
  <2>1. PICK u : Rejection(u) /\ SameState(unit', u)
    BY <1>2, RejectIs
  <2> QED
    BY <2>1 DEF Rejection, SameState
<1>3. CASE HostedSave
  BY <1>3, SaveIs DEF SameState
<1>4. CASE Passing
  BY <1>4 DEF Passing, AgedSchedule
<1>5. CASE LoseState
  BY <1>5, LossIs, NoScheduleTyped
<1> QED
  BY <1>1, <1>2, <1>3, <1>4, <1>5, AsideIs DEF Elsewhere

\* Where those of a pass come from.
LEMMA PassOmissions ==
    ASSUME Base, [Next]_vars, hosted'.at = "probe"
    PROVE  \/ /\ Rendering /\ Omissions(hosted.new)' \subseteq Omissions(unit) \cup {dns'.snap}
           \/ /\ hosted.at = "probe" /\ hosted'.ack = hosted.ack /\ hosted'.snap = hosted.snap
              /\ Omissions(hosted.new)' = Omissions(hosted.new)
              /\ unit'.has = unit.has
<1>1. CASE Rendering
  <2>1. \A k \in Keys : hosted'.new.sched[k].omission \in {<<>>, unit.sched[k].omission, dns'.snap}
    BY <1>1 DEF Rendering, Survey
  <2> QED
    BY <1>1, <2>1 DEF Omissions
<1>2. CASE ProbeStep
  <2>1. PICK j \in Keys : Probing(j, dns'.cache)
    BY <1>2 DEF ProbeStep
  <2>2. \A k \in Keys : hosted'.new.sched[k].omission = hosted.new.sched[k].omission
    BY <2>1 DEF Probing
  <2>3. hosted.at = "probe" /\ hosted'.ack = hosted.ack /\ hosted'.snap = hosted.snap /\ unit' = unit
    BY <1>2, <2>1 DEF Probing, ProbeStep
  <2> QED
    BY <2>2, <2>3 DEF Omissions
<1>3. CASE Passing
  <2>1. /\ hosted.at = "probe" /\ hosted'.ack = hosted.ack /\ hosted'.snap = hosted.snap /\ unit'.has = unit.has
        /\ \A k \in Keys : hosted'.new.sched[k].omission = hosted.new.sched[k].omission
    BY <1>3 DEF Passing, AgedSchedule, SameSpec
  <2> QED
    BY <2>1 DEF Omissions
<1>4. CASE hosted' = hosted /\ (hosted.at = "probe" => unit' = unit)
  BY <1>4 DEF Omissions
<1> QED
  BY <1>1, <1>2, <1>3, <1>4, PassFrame

\* What becomes of the snapshot and the server.
LEMMA ServerStep ==
    ASSUME Base, [Next]_vars
    PROVE  \/ /\ dns'.snap = dns.snap /\ dns'.told = dns.told /\ dns'.server = dns.server
              /\ ~Rendering
           \/ Load /\ UNCHANGED <<unit, hosted>>
           \/ Rendering
<1>a. Step
  BY NextIsStep
<1>1. CASE dns' = dns
  BY <1>1
<1>2. CASE UNCHANGED vars
  BY <1>1, <1>2 DEF vars
<1>3. ASSUME NEW k \in Keys, CreateClaim(k) \/ DeleteClaim(k) \/ ChangeWaiver(k) \/ ReconcileWaiver(k)
      PROVE  dns' = dns
  BY <1>3, CreateIs, DeleteIs, WaiverTyped
<1>4. CASE Flip \/ ChangePolicy \/ CoreZone \/ CoreRead \/ CoreStatus \/ CoreUnit
  BY <1>1, <1>4, FlipIs, PolicyIs, CoreZoneIs, CoreReadIs, CoreStatusIs, CoreUnitIs
<1>5. CASE HostedReject \/ HostedSave \/ Crash \/ LoseState
  BY <1>1, <1>5, RejectIs, SaveIs, CrashIs, LossIs
<1>6. CASE HostedRender \/ HostedProbe \/ HostedNoViews \/ Tick
  BY <1>6, RenderIs, ProbeStepIs, TickIs DEF ProbeStep, Passing
<1>7. CASE Load
  BY <1>7, LoadIs
<1>8. ASSUME NEW v \in Views, Query(v)
      PROVE  dns'.snap = dns.snap /\ dns'.told = dns.told /\ dns'.server = dns.server
  BY <1>8, QueryIs
<1> QED
  BY <1>a, <1>1, <1>2, <1>3, <1>4, <1>5, <1>6, <1>7, <1>8 DEF Step

LEMMA SnapsStep ==
    ASSUME Base, [Next]_vars
    PROVE  Snaps' \subseteq Snaps \cup {dns'.snap}
<1>1. dns'.server \in Snaps \cup {dns'.snap}
      /\ {dns'.told[n] : n \in 1..Len(dns'.told)} \subseteq Snaps \cup {dns'.snap}
  <2>1. CASE dns'.told = dns.told /\ dns'.server = dns.server
    BY <2>1 DEF Snaps
  <2>2. CASE Load
    <3>1. dns.told \in Seq(Snapshots) /\ dns.told # <<>> /\ dns'.server = Head(dns.told) /\ dns'.told = Tail(dns.told)
      BY <2>2, LoadIs, Fields
    <3>2. Head(dns.told) = dns.told[1] /\ Len(dns.told) \in Nat /\ Len(dns.told) >= 1
          /\ Len(Tail(dns.told)) = Len(dns.told) - 1
          /\ \A n \in 1..(Len(dns.told) - 1) : Tail(dns.told)[n] = dns.told[n + 1]
      BY <3>1
    <3>3. \A n \in 1..Len(dns.told) : dns.told[n] \in Snaps
      BY DEF Snaps
    <3>4. dns'.server \in Snaps
      BY <3>1, <3>2, <3>3
    <3>5. \A n \in 1..Len(dns'.told) : dns'.told[n] \in Snaps
      BY <3>1, <3>2, <3>3
    <3> QED
      BY <3>4, <3>5
  <2>3. CASE Rendering
    <3>1. dns.told \in Seq(Snapshots) /\ dns'.server = dns.server
          /\ (dns'.told = dns.told \/ dns'.told = Append(dns.told, dns'.snap))
      BY <2>3, Fields DEF Rendering
    <3>2. \A n \in 1..Len(dns'.told) : dns'.told[n] \in Snaps \cup {dns'.snap}
      <4>1. \A n \in 1..Len(dns.told) : dns.told[n] \in Snaps
        BY DEF Snaps
      <4>2. CASE dns'.told = dns.told
        BY <4>1, <4>2
      <4>3. CASE dns'.told = Append(dns.told, dns'.snap)
        <5>1. Len(dns.told) \in Nat /\ Len(dns'.told) = Len(dns.told) + 1
              /\ \A n \in 1..(Len(dns.told) + 1) :
                    dns'.told[n] = IF n <= Len(dns.told) THEN dns.told[n] ELSE dns'.snap
          BY <3>1, <4>3
        <5> QED
          BY <4>1, <5>1
      <4> QED
        BY <3>1, <4>2, <4>3
    <3> QED
      BY <3>1, <3>2 DEF Snaps
  <2> QED
    BY <2>1, <2>2, <2>3, ServerStep
<1>2. Omissions(unit)' \subseteq Snaps
  BY UnitOmissions DEF Snaps
<1>3. hosted'.at = "probe" => hosted'.ack \in Snaps /\ Omissions(hosted.new)' \subseteq Snaps \cup {dns'.snap}
  BY PassOmissions DEF Snaps, Rendering
<1> QED
  BY <1>1, <1>2, <1>3 DEF Snaps

\* The new snapshot follows all others.
LEMMA SnapNext ==
    ASSUME Base, [Next]_vars
    PROVE  \/ dns'.snap = dns.snap
           \/ /\ Rendering /\ dns'.snap.serial = dns.snap.serial + 1 /\ dns.snap.serial \in Nat
              /\ dns'.told = Append(dns.told, dns'.snap)
<1>1. dns.snap.serial \in Nat
  BY Fields, SnapshotContent
<1>2. CASE Load
  BY <1>2, LoadIs
<1>3. CASE Rendering
  BY <1>1, <1>3 DEF Rendering
<1> QED
  BY <1>2, <1>3, ServerStep

LEMMA SerialsStep == ASSUME Base, PassAgrees, Serials, [Next]_vars PROVE Serials'
<1>a. /\ \A x, y \in Snaps : x.serial = y.serial => x = y
      /\ \A x \in Snaps : x.serial <= dns.snap.serial
      /\ \A n \in 1..Len(dns.told) :
            /\ dns.server.serial <= dns.told[n].serial
            /\ \A m \in 1..n : dns.told[m].serial <= dns.told[n].serial
      /\ \A x \in Omissions(unit) : ~Lists(x)
      /\ hosted.at = "probe" =>
            /\ hosted.snap = dns.snap /\ Lists(dns.snap) = unit.has
            /\ hosted.ack.serial <= dns.server.serial
            /\ \A x \in Omissions(hosted.new) : ~Lists(x) /\ ~unit.has
  BY DEF Serials
<1>b. \A x \in Snaps : x.serial \in Nat
  BY SnapsTyped, SnapshotContent
<1>c. dns.snap \in Snaps /\ dns.server \in Snaps
  BY DEF Snaps
<1>d. dns.told \in Seq(Snapshots) /\ \A n \in 1..Len(dns.told) : dns.told[n] \in Snaps
  BY Fields DEF Snaps
<1>1. /\ \A x, y \in Snaps' : x.serial = y.serial => x = y
      /\ \A x \in Snaps' : x.serial <= dns'.snap.serial
  <2>1. CASE dns'.snap = dns.snap
    BY <1>a, <1>c, <2>1, SnapsStep
  <2>2. CASE dns'.snap.serial = dns.snap.serial + 1
    <3>1. \A x \in Snaps : x.serial < dns'.snap.serial
      BY <1>a, <1>b, <1>c, <2>2
    <3> QED
      BY <1>a, <1>b, <1>c, <2>2, <3>1, SnapsStep
  <2> QED
    BY <2>1, <2>2, SnapNext
<1>2. ASSUME NEW n \in 1..Len(dns'.told)
      PROVE  /\ dns'.server.serial <= dns'.told[n].serial
             /\ \A m \in 1..n : dns'.told[m].serial <= dns'.told[n].serial
  <2>1. CASE dns'.told = dns.told /\ dns'.server = dns.server
    BY <1>2, <1>a, <2>1
  <2>2. CASE Load
    <3>1. dns.told # <<>> /\ dns'.server = Head(dns.told) /\ dns'.told = Tail(dns.told)
      BY <2>2, LoadIs
    <3>2. Head(dns.told) = dns.told[1] /\ Len(dns.told) \in Nat /\ Len(dns.told) >= 1
          /\ Len(Tail(dns.told)) = Len(dns.told) - 1
          /\ \A j \in 1..(Len(dns.told) - 1) : Tail(dns.told)[j] = dns.told[j + 1]
      BY <1>d, <3>1
    <3>3. n \in 1..(Len(dns.told) - 1) /\ n + 1 \in 1..Len(dns.told) /\ 1 \in 1..(n + 1)
          /\ \A m \in 1..n : m + 1 \in 1..(n + 1) /\ m \in 1..(Len(dns.told) - 1)
      BY <1>2, <3>1, <3>2
    <3>4. dns'.told[n] = dns.told[n + 1] /\ \A m \in 1..n : dns'.told[m] = dns.told[m + 1]
      BY <3>1, <3>2, <3>3
    <3>5. \A m \in 1..(n + 1) : dns.told[m].serial <= dns.told[n + 1].serial
      BY <1>a, <3>3
    <3> QED
      BY <3>1, <3>2, <3>3, <3>4, <3>5
  <2>3. CASE Rendering
    <3>1. dns'.server = dns.server /\ (dns'.told = dns.told \/ dns'.told = Append(dns.told, dns'.snap))
      BY <2>3 DEF Rendering
    <3>2. CASE dns'.told = Append(dns.told, dns'.snap)
      <4>1. Len(dns.told) \in Nat /\ Len(dns'.told) = Len(dns.told) + 1
            /\ \A j \in 1..(Len(dns.told) + 1) :
                  dns'.told[j] = IF j <= Len(dns.told) THEN dns.told[j] ELSE dns'.snap
        BY <1>d, <3>2
      <4>2. dns.server.serial <= dns'.snap.serial
            /\ \A j \in 1..Len(dns.told) : dns.told[j].serial <= dns'.snap.serial
        <5>1. \A x \in Snaps : x.serial <= dns'.snap.serial
          BY <1>a, <1>b, <1>c, SnapNext
        <5> QED
          BY <1>c, <1>d, <5>1
      <4>3. dns'.snap.serial <= dns'.snap.serial
        <5>1. dns'.snap.serial \in Nat
          BY <1>b, <1>c, SnapNext
        <5> QED
          BY <5>1
      <4>4. CASE n <= Len(dns.told)
        <5>1. n \in 1..Len(dns.told) /\ \A m \in 1..n : m <= Len(dns.told) /\ m \in 1..(Len(dns.told) + 1)
          BY <1>2, <4>1, <4>4
        <5>2. dns'.told[n] = dns.told[n] /\ \A m \in 1..n : dns'.told[m] = dns.told[m]
          BY <4>1, <5>1
        <5> QED
          BY <1>a, <3>1, <5>1, <5>2
      <4>5. CASE ~(n <= Len(dns.told))
        <5>1. dns'.told[n] = dns'.snap /\ n \in 1..(Len(dns.told) + 1)
          BY <1>2, <4>1, <4>5
        <5>2. \A m \in 1..n : dns'.told[m].serial <= dns'.snap.serial
          <6>1. ASSUME NEW m \in 1..n PROVE dns'.told[m].serial <= dns'.snap.serial
            <7>1. m \in 1..(Len(dns.told) + 1) /\ (m <= Len(dns.told) => m \in 1..Len(dns.told))
              BY <4>1, <5>1
            <7> QED
              BY <4>1, <4>2, <4>3, <7>1
          <6> QED
            BY <6>1
        <5> QED
          BY <3>1, <4>2, <5>1, <5>2
      <4> QED
        BY <4>4, <4>5
    <3> QED
      BY <2>1, <3>1, <3>2
  <2> QED
    BY <2>1, <2>2, <2>3, ServerStep
<1>3. \A x \in Omissions(unit)' : ~Lists(x)
  BY <1>a, UnitOmissions
<1>4. ASSUME hosted'.at = "probe"
      PROVE  /\ hosted'.snap = dns'.snap /\ Lists(dns'.snap) = unit'.has
             /\ hosted'.ack.serial <= dns'.server.serial
             /\ \A x \in Omissions(hosted.new)' : ~Lists(x) /\ ~unit'.has
  <2>1. CASE Rendering
    <3>1. /\ unit' = unit /\ hosted'.snap = dns'.snap /\ Lists(dns'.snap) = unit.has
          /\ hosted'.ack = dns.server /\ dns'.server = dns.server
      BY <2>1 DEF Rendering
    <3>2. hosted'.ack.serial <= dns'.server.serial
      BY <1>b, <1>c, <3>1
    <3>3. \A k \in Keys : hosted'.new.sched[k].omission # <<>> =>
              /\ ~dns'.snap.content.has
              /\ hosted'.new.sched[k].omission \in {unit.sched[k].omission, dns'.snap}
      BY <2>1 DEF Rendering, Survey
    <3>4. \A x \in Omissions(hosted.new)' : ~Lists(x) /\ ~Lists(dns'.snap)
      BY <1>a, <3>3 DEF Omissions, Lists
    <3> QED
      BY <3>1, <3>2, <3>4
  <2>2. CASE /\ hosted.at = "probe" /\ hosted'.ack = hosted.ack /\ hosted'.snap = hosted.snap
             /\ Omissions(hosted.new)' = Omissions(hosted.new)
             /\ unit'.has = unit.has
    <3>1. dns'.snap = dns.snap
      BY <2>2, SnapNext DEF Rendering, Idle
    <3>2. dns.server.serial <= dns'.server.serial
      <4>1. CASE dns'.server = dns.server
        BY <1>b, <1>c, <4>1
      <4>2. CASE Load
        <5>1. dns.told # <<>> /\ dns'.server = Head(dns.told)
          BY <4>2, LoadIs
        <5>2. 1 \in 1..Len(dns.told) /\ dns'.server = dns.told[1]
          BY <1>d, <5>1
        <5> QED
          BY <1>a, <5>2
      <4> QED
        BY <2>2, <4>1, <4>2, ServerStep DEF Rendering
    <3>3. hosted.ack \in Snaps /\ dns'.server \in Snaps
      <4>1. dns'.server \in Snaps'
        BY DEF Snaps
      <4> QED
        BY <1>c, <2>2, <3>1, <4>1, SnapsStep DEF Snaps
    <3>4. hosted'.ack.serial <= dns'.server.serial
      BY <1>a, <1>b, <1>c, <2>2, <3>2, <3>3
    <3> QED
      BY <1>a, <2>2, <3>1, <3>4
  <2> QED
    BY <1>4, <2>1, <2>2, PassOmissions
<1> QED
  BY <1>1, <1>2, <1>3, <1>4 DEF Serials

LEMMA HasStep ==
    ASSUME Base, PassAgrees, [Next]_vars
    PROVE  \/ unit'.has = unit.has
           \/ /\ CoreZone /\ unit'.has = env.wanted /\ UNCHANGED <<env, dns, budget>>
              /\ unit'.results = unit.results /\ unit'.sched = unit.sched /\ unit'.observed = FALSE
              /\ unit'.items = unit.items /\ hosted'.at = "idle"
<1>1. CASE Aside \/ (\E j \in Keys : CreateClaim(j) \/ DeleteClaim(j)) \/ CoreRead
           \/ CoreStatus \/ Rendering \/ ProbeStep \/ Crash
  BY <1>1, CreateIs, DeleteIs, CoreReadIs, CoreStatusIs, CrashIs DEF Aside, Rendering, ProbeStep
<1>2. CASE CoreZone
  <2>1. PICK u \in Units : /\ Respecified(u) /\ u.has = env.wanted /\ u.results = unit.results
                           /\ u.sched = unit.sched /\ u.items = unit.items
    BY <1>2, CoreZoneIs
  <2>2. UNCHANGED <<env, dns, budget>>
    BY <1>2, CoreZoneIs
  <2>3. CASE unit' = unit
    BY <2>3
  <2>4. CASE SameState(unit', u) /\ unit'.observed = FALSE /\ hosted' = Idle
    BY <1>2, <2>1, <2>2, <2>4, Fields DEF SameState
  <2> QED
    BY <2>1, <2>3, <2>4 DEF Respecified
<1>3. CASE CoreUnit
  <2>1. PICK u \in Units : Respecified(u) /\ u.has = unit.has
    BY <1>3, CoreUnitIs
  <2> QED
    BY <2>1 DEF Respecified, SameState
<1>4. CASE HostedReject
  BY <1>4, RejectIs DEF Rejection, SameState
<1>5. CASE HostedSave
  BY <1>5, SaveIs DEF SameState, PassAgrees
<1>6. CASE Passing \/ LoseState
  BY <1>6, LossIs DEF Passing, SameSpec
<1> QED
  BY <1>1, <1>2, <1>3, <1>4, <1>5, <1>6, AsideIs

LEMMA FlipsStep ==
    ASSUME Base, [Next]_vars
    PROVE  \/ budget'.flips = budget.flips /\ env'.wanted = env.wanted
           \/ Flip /\ budget'.flips = budget.flips + 1 /\ env'.wanted = ~env.wanted /\ UNCHANGED <<unit, dns, hosted>>
<1>a. Step
  BY NextIsStep
<1>1. CASE UNCHANGED vars
  BY <1>1 DEF vars
<1>2. ASSUME NEW k \in Keys, CreateClaim(k) \/ DeleteClaim(k) \/ ChangeWaiver(k) \/ ReconcileWaiver(k)
      PROVE  budget'.flips = budget.flips /\ env'.wanted = env.wanted
  BY <1>2, CreateIs, DeleteIs, WaiverTyped, SpendIs
<1>3. CASE Flip
  BY <1>3, FlipIs, SpendIs
<1>4. CASE ChangePolicy
  BY <1>4, PolicyIs, SpendIs
<1>5. CASE CoreZone \/ CoreRead \/ CoreStatus \/ CoreUnit
  BY <1>5, CoreZoneIs, CoreReadIs, CoreStatusIs, CoreUnitIs
<1>6. CASE HostedReject \/ HostedSave \/ Crash \/ LoseState
  BY <1>6, RejectIs, SaveIs, CrashIs, LossIs
<1>7. CASE HostedRender \/ HostedProbe \/ HostedNoViews \/ Tick
  BY <1>7, RenderIs, ProbeStepIs, TickIs DEF Rendering, ProbeStep, Passing
<1>8. CASE Load \/ (\E v \in Views : Query(v))
  BY <1>8, LoadIs, QueryIs
<1> QED
  BY <1>a, <1>1, <1>2, <1>3, <1>4, <1>5, <1>6, <1>7, <1>8 DEF Step

LEMMA TurnsStep ==
    ASSUME Base, PassAgrees, Serials, Turns, MaxFlips <= 2, [Next]_vars
    PROVE  Turns'
<1>a. budget.flips \in Nat /\ budget'.flips \in Nat /\ budget.flips <= budget'.flips /\ budget'.flips <= 2
  <2>1. budget.flips \in 0..MaxFlips /\ budget'.flips \in 0..MaxFlips
    <3>1. Base'
      BY BaseStep
    <3>2. budget' \in Budgets
      BY <3>1 DEF Base
    <3> QED
      BY <3>2, Fields DEF Budgets
  <2> QED
    BY <2>1, FlipsStep, Parameters
<1>b. env.wanted = (budget.flips # 1) /\ env.wanted \in BOOLEAN
  BY Fields DEF Turns, Envs
<1>1. env'.wanted = (budget'.flips # 1)
  <2>1. CASE budget'.flips = budget.flips + 1 /\ env'.wanted = ~env.wanted
    <3>1. budget.flips \in 0..1 /\ (budget.flips # 1 <=> budget.flips = 0) /\ (budget'.flips # 1 <=> budget.flips # 0)
      BY <1>a, <2>1
    <3>2. env.wanted <=> budget.flips = 0
      BY <1>b, <3>1
    <3>3. env'.wanted <=> (budget'.flips # 1)
      BY <2>1, <3>1, <3>2
    <3>4. env'.wanted \in BOOLEAN
      BY <2>1
    <3> QED
      BY <3>3, <3>4
  <2> QED
    BY <1>b, <2>1, FlipsStep
<1>c. dns.snap \in Snaps /\ \A x \in Snaps : x.serial <= dns.snap.serial /\ x.serial \in Nat
  BY SnapsTyped, SnapshotContent DEF Snaps, Serials
<1>d. Rendering => unit' = unit /\ Lists(dns'.snap) = unit.has
  BY DEF Rendering
<1>e. /\ unit.has /\ budget.flips < 2 => \A x \in Snaps : Lists(x)
      /\ ~unit.has => /\ budget.flips > 0
                      /\ \A x, y \in Snaps : ~Lists(x) /\ x.serial <= y.serial => ~Lists(y)
  BY DEF Turns
<1>2. ASSUME unit'.has, budget'.flips < 2 PROVE \A x \in Snaps' : Lists(x)
  <2>1. unit.has
    <3>1. CASE ~unit.has
      <4>1. env.wanted /\ budget' = budget
        BY <1>2, <3>1, HasStep
      <4>2. budget.flips = 1
        BY <1>2, <1>a, <1>e, <3>1, <4>1
      <4> QED
        BY <1>b, <4>1, <4>2
    <3> QED
      BY <3>1
  <2>2. budget.flips < 2
    BY <1>2, <1>a
  <2>3. Lists(dns'.snap)
    BY <1>c, <1>d, <1>e, <2>1, <2>2, SnapNext
  <2> QED
    BY <1>e, <2>1, <2>2, <2>3, SnapsStep
<1>3. ASSUME ~unit'.has
      PROVE  /\ budget'.flips > 0
             /\ \A x, y \in Snaps' : ~Lists(x) /\ x.serial <= y.serial => ~Lists(y)
  <2>1. CASE ~unit.has
    <3>1. budget'.flips > 0
      BY <1>a, <1>e, <2>1
    <3>2. CASE dns'.snap = dns.snap
      <4>1. Snaps' \subseteq Snaps
        BY <1>c, <3>2, SnapsStep
      <4> QED
        BY <1>e, <2>1, <3>1, <4>1
    <3>3. CASE Rendering /\ dns'.snap.serial = dns.snap.serial + 1 /\ dns.snap.serial \in Nat
      <4>1. ~Lists(dns'.snap)
        BY <1>d, <2>1, <3>3
      <4>2. \A y \in Snaps : ~(dns'.snap.serial <= y.serial)
        BY <1>c, <3>3
      <4> QED
        BY <1>e, <2>1, <3>1, <4>1, <4>2, SnapsStep
    <3> QED
      BY <3>2, <3>3, SnapNext
  <2>2. CASE unit.has
    <3>1. env.wanted = FALSE /\ budget' = budget /\ dns' = dns
      BY <1>3, <1>b, <2>2, HasStep
    <3>2. budget.flips = 1
      BY <1>b, <3>1
    <3>3. Snaps' \subseteq Snaps
      BY <1>c, <3>1, SnapsStep
    <3> QED
      BY <1>e, <2>2, <3>1, <3>2, <3>3
  <2> QED
    BY <2>1, <2>2, Fields DEF Units
<1> QED
  BY <1>1, <1>2, <1>3 DEF Turns

-----------------------------------------------------------------------------
(* Successes.                                                              *)

LEMMA SuccessesStep ==
    ASSUME Base, Keeping, ProbedItems, Presence, [Next]_vars
    PROVE  Successes(unit)' /\ (hosted'.at = "probe" => Successes(hosted.new)')
<1>a. /\ \A k \in Keys : unit.results[k].withdrawn = "True" =>
            /\ unit.results[k].uid # 0
            /\ unit.sched[k].id = unit.results[k].uid => unit.sched[k].policy[3]
      /\ hosted.at = "probe" => \A k \in Keys : hosted.new.results[k].withdrawn = "True" =>
            /\ hosted.new.results[k].uid # 0
            /\ hosted.new.sched[k].id = hosted.new.results[k].uid => hosted.new.sched[k].policy[3]
  BY DEF Presence, Successes
<1>1. ASSUME NEW k \in Keys, unit'.results[k].withdrawn = "True"
      PROVE  /\ unit'.results[k].uid # 0
             /\ unit'.sched[k].id = unit'.results[k].uid => unit'.sched[k].policy[3]
  <2>1. CASE Elsewhere
    BY <1>a, <1>1, <2>1, ResultsKept, SchedulesKept
  <2>2. CASE HostedReject
    <3>1. PICK u : Rejection(u) /\ SameState(unit', u)
      BY <2>2, RejectIs
    <3> QED
      BY <1>1, <3>1 DEF Rejection, SameState, NoResult
  <2>3. CASE HostedSave
    <3>1. \/ unit' = unit
          \/ /\ hosted.at = "probe" /\ unit'.results = hosted.new.results
             /\ unit'.sched = hosted.new.sched
      BY <2>3, SaveIs DEF SameState
    <3> QED
      BY <1>a, <1>1, <3>1
  <2>4. CASE Passing
    <3>1. unit'.results = unit.results /\ unit'.sched[k].id = unit.sched[k].id
          /\ unit'.sched[k].policy = unit.sched[k].policy
      BY <2>4 DEF Passing, AgedSchedule
    <3> QED
      BY <1>a, <1>1, <3>1
  <2>5. CASE LoseState
    <3>1. unit'.results = unit.results /\ unit'.sched[k] = NoSchedule /\ NoSchedule.id = 0
      BY <2>5, LossIs DEF NoSchedule
    <3> QED
      BY <1>a, <1>1, <3>1
  <2> QED
    BY <2>1, <2>2, <2>3, <2>4, <2>5, AsideIs DEF Elsewhere
<1>2. ASSUME NEW k \in Keys, hosted'.at = "probe", hosted'.new.results[k].withdrawn = "True"
      PROVE  /\ hosted'.new.results[k].uid # 0
             /\ hosted'.new.sched[k].id = hosted'.new.results[k].uid => hosted'.new.sched[k].policy[3]
  <2>1. CASE Rendering
    <3>1. PICK w : /\ Survey(w, unit, k, dns'.snap)
                   /\ hosted'.new.sched[k] = w.s /\ hosted'.new.results[k] = w.r
      BY <2>1 DEF Rendering
    <3>2. /\ unit.results[k].withdrawn = "True" /\ w.r.uid = unit.results[k].uid
          /\ w.s.id = unit.sched[k].id /\ w.s.policy = unit.sched[k].policy
      BY <1>2, <3>1 DEF Survey, SameClaim
    <3> QED
      BY <1>a, <3>1, <3>2
  <2>2. CASE ProbeStep
    <3>1. PICK j \in Keys : Probing(j, dns'.cache)
      BY <2>2 DEF ProbeStep
    <3>2. hosted.at = "probe"
      BY <3>1 DEF Probing
    <3>3. CASE j # k
      <4>1. /\ hosted'.new.sched[k] = hosted.new.sched[k]
            /\ hosted'.new.results[k] = hosted.new.results[k]
        BY <3>1, <3>3 DEF Probing
      <4> QED
        BY <1>a, <1>2, <3>2, <4>1
    <3>4. CASE j = k
      <4>1. /\ k \in hosted.due /\ hosted'.new.results[k].uid = unit.items[k].uid
            /\ hosted'.new.sched[k].policy[3]
        BY <1>2, <3>1, <3>4 DEF Probing
      <4>2. unit.items[k].uid # 0
        BY <3>2, <4>1 DEF ProbedItems, Keeping, ItemsStay
      <4> QED
        BY <4>1, <4>2
    <3> QED
      BY <3>3, <3>4
  <2>3. CASE Passing
    <3>1. /\ hosted.at = "probe" /\ hosted'.new.results = hosted.new.results
          /\ hosted'.new.sched[k].id = hosted.new.sched[k].id
          /\ hosted'.new.sched[k].policy = hosted.new.sched[k].policy
      BY <1>2, <2>3 DEF Passing, AgedSchedule
    <3> QED
      BY <1>a, <1>2, <3>1
  <2>4. CASE hosted' = hosted /\ (hosted.at = "probe" => unit' = unit)
    BY <1>a, <1>2, <2>4
  <2> QED
    BY <1>2, <2>1, <2>2, <2>3, <2>4, PassFrame
<1> QED
  BY <1>1, <1>2 DEF Successes

\* What the unit says when it counts.
LEMMA ObservedStep ==
    ASSUME Base, PassAgrees, [Next]_vars
    PROVE  \/ unit'.observed = FALSE
           \/ HostedSave \/ HostedReject
           \/ /\ unit'.observed = unit.observed /\ unit'.results = unit.results
              /\ unit'.items = unit.items /\ unit'.has = unit.has
<1>1. CASE Aside \/ (\E j \in Keys : CreateClaim(j) \/ DeleteClaim(j)) \/ CoreRead
           \/ CoreStatus \/ Rendering \/ ProbeStep \/ Crash
  BY <1>1, CreateIs, DeleteIs, CoreReadIs, CoreStatusIs, CrashIs DEF Aside, Rendering, ProbeStep
<1>2. CASE CoreZone \/ CoreUnit
  <2>1. PICK u \in Units : Respecified(u)
    BY <1>2, CoreZoneIs, CoreUnitIs
  <2> QED
    BY <2>1 DEF Respecified
<1>3. CASE Passing \/ LoseState
  BY <1>3, LossIs DEF Passing, SameSpec
<1> QED
  BY <1>1, <1>2, <1>3, AsideIs

LEMMA RetiredStep ==
    ASSUME Base, Keeping, Serials, Presence, [Next]_vars
    PROVE  (unit'.observed => Retired(unit)') /\ (hosted'.at = "probe" => Retired(hosted.new)')
<1>a. PassAgrees
  BY DEF Keeping
<1>b. /\ unit.observed => \A k \in Keys :
            unit.results[k].withdrawn = "True" /\ unit.results[k].uid = unit.items[k].uid => ~unit.has
      /\ hosted.at = "probe" => \A k \in Keys :
            hosted.new.results[k].withdrawn = "True" /\ hosted.new.results[k].uid = unit.items[k].uid
              => ~unit.has
  BY DEF Presence, Retired
<1>1. ASSUME NEW k \in Keys, unit'.observed, unit'.results[k].withdrawn = "True",
             unit'.results[k].uid = unit'.items[k].uid
      PROVE  ~unit'.has
  <2>1. CASE HostedReject
    <3>1. PICK u : Rejection(u) /\ SameState(unit', u)
      BY <2>1, RejectIs
    <3> QED
      BY <1>1, <3>1 DEF Rejection, SameState, NoResult
  <2>2. CASE HostedSave
    <3>1. \/ unit' = unit
          \/ /\ hosted.at = "probe" /\ unit'.results = hosted.new.results
             /\ unit'.items = unit.items /\ unit'.has = unit.has
      BY <1>a, <2>2, SaveIs DEF SameState, PassAgrees
    <3> QED
      BY <1>b, <1>1, <3>1
  <2>3. CASE unit'.observed = FALSE
    BY <1>1, <2>3
  <2> QED
    BY <1>a, <1>b, <1>1, <2>1, <2>2, <2>3, ObservedStep
<1>2. ASSUME NEW k \in Keys, hosted'.at = "probe", hosted'.new.results[k].withdrawn = "True",
             hosted'.new.results[k].uid = unit'.items[k].uid
      PROVE  ~unit'.has
  <2>1. CASE Rendering
    <3>1. PICK w : /\ Survey(w, unit, k, dns'.snap)
                   /\ hosted'.new.sched[k] = w.s /\ hosted'.new.results[k] = w.r
      BY <2>1 DEF Rendering
    <3>2. unit' = unit /\ Lists(dns'.snap) = unit.has
      BY <2>1 DEF Rendering
    <3>3. /\ unit.results[k].withdrawn = "True" /\ unit.results[k].uid = unit.items[k].uid
          /\ unit.sched[k].id = unit.items[k].uid
          /\ unit.sched[k].policy[3] => ~dns'.snap.content.has
      BY <1>2, <3>1, <3>2 DEF Survey, SameClaim
    <3>4. unit.sched[k].policy[3]
      BY <3>3 DEF Presence, Successes
    <3> QED
      BY <3>2, <3>3, <3>4 DEF Lists
  <2>2. CASE ProbeStep
    <3>1. PICK j \in Keys : Probing(j, dns'.cache)
      BY <2>2 DEF ProbeStep
    <3>2. hosted.at = "probe" /\ unit' = unit
      BY <2>2, <3>1 DEF Probing, ProbeStep
    <3>3. CASE j # k
      <4>1. hosted'.new.results[k] = hosted.new.results[k]
        BY <3>1, <3>3 DEF Probing
      <4> QED
        BY <1>b, <1>2, <3>2, <4>1
    <3>4. CASE j = k
      <4>1. hosted.new.sched[k].omission # <<>>
        BY <1>2, <3>1, <3>4 DEF Probing, Served
      <4>2. hosted.new.sched[k].omission \in Omissions(hosted.new)
        BY <4>1 DEF Omissions
      <4> QED
        BY <3>2, <4>2 DEF Serials
    <3> QED
      BY <3>3, <3>4
  <2>3. CASE Passing
    <3>1. /\ hosted.at = "probe" /\ hosted'.new.results = hosted.new.results
          /\ unit'.items = unit.items /\ unit'.has = unit.has
      BY <1>2, <2>3 DEF Passing, SameSpec
    <3> QED
      BY <1>b, <1>2, <3>1
  <2>4. CASE hosted' = hosted /\ (hosted.at = "probe" => unit' = unit)
    BY <1>b, <1>2, <2>4
  <2> QED
    BY <1>2, <2>1, <2>2, <2>3, <2>4, PassFrame
<1> QED
  BY <1>1, <1>2 DEF Retired

LEMMA PresenceStep ==
    ASSUME Base, Keeping, ProbedItems, Serials, Presence, [Next]_vars
    PROVE  Presence'
<1>1. Successes(unit)' /\ (hosted'.at = "probe" => Successes(hosted.new)')
  BY SuccessesStep
<1>2. (unit'.observed => Retired(unit)') /\ (hosted'.at = "probe" => Retired(hosted.new)')
  BY RetiredStep
<1> QED
  BY <1>1, <1>2 DEF Presence

-----------------------------------------------------------------------------
(* Absence.                                                                *)

\* Nothing blank stops being blank before the address is retired, and what is
\* absent was absent or blank.
LEMMA TurnsBack ==
    ASSUME Base, PassAgrees, Turns, [Next]_vars
    PROVE  /\ unit'.has /\ budget'.flips < 2 => unit.has /\ budget.flips < 2
           /\ ~unit'.has => \/ ~unit.has
                            \/ /\ unit.has /\ budget.flips < 2 /\ hosted'.at = "idle"
                               /\ unit'.results = unit.results /\ unit'.sched = unit.sched
<1>a. budget.flips \in Nat /\ budget'.flips \in {budget.flips, budget.flips + 1}
  BY Fields, FlipsStep, Parameters
<1>b. env.wanted = (budget.flips # 1)
  BY DEF Turns
<1>1. CASE unit'.has = unit.has
  BY <1>a, <1>1, Fields DEF Units
<1>2. CASE /\ unit'.has = env.wanted /\ UNCHANGED <<env, dns, budget>>
           /\ unit'.results = unit.results /\ unit'.sched = unit.sched /\ hosted'.at = "idle"
  <2>1. CASE env.wanted
    <3>1. ~unit.has => budget.flips > 0
      BY DEF Turns
    <3>3. budget.flips # 1
      BY <1>b, <2>1, Zenon
    <3>2. unit.has \/ ~(budget.flips < 2)
      BY <1>a, <3>1, <3>3
    <3> QED
      BY <1>2, <2>1, <3>2
  <2>2. CASE ~env.wanted
    <3>2. budget.flips = 1
      BY <1>b, <2>2, Zenon
    <3>1. budget.flips < 2
      BY <1>a, <3>2
    <3> QED
      BY <1>2, <2>2, <3>1
  <2> QED
    BY <2>1, <2>2
<1> QED
  BY <1>1, <1>2, HasStep

\* Once the address is retired and the server omits it, it goes on doing so.
LEMMA ServerOmits ==
    ASSUME Base, Serials, Turns, ~unit.has, [Next]_vars, ~Tick, ~Lists(dns.server)
    PROVE  ~Lists(dns'.server) /\ dns'.since = dns.since /\ dns'.cache = dns.cache
<1>a. Step
  BY NextIsStep
<1>1. CASE dns' = dns
  BY <1>1
<1>2. CASE UNCHANGED vars
  BY <1>1, <1>2 DEF vars
<1>3. ASSUME NEW k \in Keys, CreateClaim(k) \/ DeleteClaim(k) \/ ChangeWaiver(k) \/ ReconcileWaiver(k)
      PROVE  dns' = dns
  BY <1>3, CreateIs, DeleteIs, WaiverTyped
<1>4. CASE Flip \/ ChangePolicy \/ CoreZone \/ CoreRead \/ CoreStatus \/ CoreUnit
  BY <1>1, <1>4, FlipIs, PolicyIs, CoreZoneIs, CoreReadIs, CoreStatusIs, CoreUnitIs
<1>5. CASE HostedReject \/ HostedSave \/ Crash \/ LoseState
  BY <1>1, <1>5, RejectIs, SaveIs, CrashIs, LossIs
<1>6. CASE HostedRender \/ HostedProbe \/ HostedNoViews
  BY <1>6, RenderIs, ProbeStepIs DEF ProbeStep, Rendering
<1>7. CASE Load
  <2>1. dns.told # <<>> /\ dns'.server = Head(dns.told) /\ dns'.since = dns.since /\ dns'.cache = dns.cache
    BY <1>7, LoadIs
  <2>2. dns.told \in Seq(Snapshots)
    BY Fields
  <2>3. 1 \in 1..Len(dns.told) /\ dns'.server = dns.told[1]
    BY <2>1, <2>2
  <2>4. dns.server \in Snaps /\ dns'.server \in Snaps /\ dns.server.serial <= dns'.server.serial
    BY <2>3 DEF Snaps, Serials
  <2>5. ~Lists(dns'.server)
    BY <2>4 DEF Turns
  <2> QED
    BY <2>1, <2>5
<1>8. ASSUME NEW v \in Views, Query(v) PROVE FALSE
  BY <1>8, QueryIs
<1> QED
  BY <1>a, <1>1, <1>2, <1>3, <1>4, <1>5, <1>6, <1>7, <1>8 DEF Step

LEMMA AbsentStays ==
    ASSUME Base, Serials, Turns, ~unit.has, [Next]_vars, ~Tick,
           NEW r, NEW s, NEW uid, Absent(dns, r, s, uid)
    PROVE  Absent(dns', r, s, uid)
  BY ServerOmits DEF Absent

\* Time passes.
LEMMA AgedAbsent ==
    ASSUME Base, Passing, NEW r, NEW s \in Schedules, NEW t, AgedSchedule(t, s), NEW uid,
           Absent(dns, r, s, uid)
    PROVE  Absent(dns', r, t, uid)
<1>1. s.st \in Evidences /\ s.st.views \in SUBSET Views /\ s.st.window \in 0..(Horizon + 1) /\ s.st.min \in Nat
  <2>1. s.st \in Evidences
    BY DEF Schedules
  <2> QED
    BY <2>1 DEF Evidences
<1>2. t.st.min = s.st.min /\ t.st.views = s.st.views /\ t.st.window = Older(s.st.window)
  BY <1>1, EvidenceAged DEF AgedSchedule
<1>3. /\ dns'.server = dns.server /\ \A v \in Views : dns'.cache[v] = Less(dns.cache[v])
      /\ dns'.since = IF Lists(dns.server) THEN 0
                    ELSE IF dns.since < Horizon THEN dns.since + 1 ELSE Horizon
  BY DEF Passing
<1>4. dns.since \in 0..Horizon /\ Horizon \in Nat
  BY Fields, HorizonIs
<1>5. ASSUME t.st.window > 0
      PROVE  ~Lists(dns'.server) /\ dns'.since >= Min({t.st.window - 1, Horizon})
  <2>1. s.st.window > 0 /\ t.st.window = IF s.st.window <= Horizon THEN s.st.window + 1 ELSE s.st.window
    BY <1>1, <1>2, <1>5, OlderIs
  <2>2. ~Lists(dns.server) /\ dns.since >= Min({s.st.window - 1, Horizon})
    BY <2>1 DEF Absent
  <2>3. s.st.window - 1 \in Int /\ t.st.window - 1 \in Int /\ Horizon \in Int
    BY <1>1, <1>4, <2>1
  <2>4. /\ Min({s.st.window - 1, Horizon}) = IF s.st.window - 1 <= Horizon THEN s.st.window - 1 ELSE Horizon
        /\ Min({t.st.window - 1, Horizon}) = IF t.st.window - 1 <= Horizon THEN t.st.window - 1 ELSE Horizon
    BY <2>3, MinTwo
  <2> QED
    BY <1>1, <1>3, <1>4, <2>1, <2>2, <2>4
<1>6. ASSUME r.withdrawn = "True", r.uid = uid
      PROVE  /\ ~Lists(dns'.server) /\ dns'.since >= t.st.min
             /\ \A v \in t.st.views : dns'.cache[v] = 0
  <2>1. ~Lists(dns.server) /\ dns.since >= s.st.min /\ \A v \in s.st.views : dns.cache[v] = 0
    BY <1>6 DEF Absent
  <2>2. dns'.since >= t.st.min
    BY <1>1, <1>2, <1>3, <1>4, <2>1
  <2>3. ASSUME NEW v \in s.st.views PROVE dns'.cache[v] = 0
    BY <1>1, <1>3, <2>1 DEF Less
  <2> QED
    BY <1>2, <1>3, <2>1, <2>2, <2>3
<1> QED
  BY <1>5, <1>6 DEF Absent

\* A revision counts as served only when the server omits the address.
LEMMA ServedOmits ==
    ASSUME Base, Serials, Turns, hosted.at = "probe", NEW k \in Keys,
           Served(hosted.new.sched[k].omission, hosted.snap, hosted.ack)
    PROVE  ~unit.has /\ ~Lists(dns.server)
<1> DEFINE o == hosted.new.sched[k].omission
<1>1. o # <<>> /\ hosted.ack.serial \in o.serial..hosted.snap.serial
  BY DEF Served
<1>2. o \in Omissions(hosted.new)
  BY <1>1 DEF Omissions
<1>3. o \in Snaps /\ hosted.ack \in Snaps /\ dns.server \in Snaps /\ ~Lists(o) /\ ~unit.has
      /\ hosted.ack.serial <= dns.server.serial
  BY <1>2 DEF Snaps, Serials
<1>4. o.serial \in Nat /\ hosted.ack.serial \in Nat
  BY <1>3, SnapsTyped, SnapshotContent
<1>5. o.serial <= hosted.ack.serial
  <2> HIDE DEF o
  <2> QED
    BY <1>1, <1>4
<1> HIDE DEF o
<1>6. ~Lists(hosted.ack)
  BY <1>3, <1>5 DEF Turns
<1> QED
  BY <1>3, <1>6 DEF Turns

\* Nothing is found by reports and schedules that are blank.
LEMMA BlankUnit ==
    ASSUME Base, [Next]_vars, NEW k \in Keys, Blank(unit.results[k], unit.sched[k]),
           hosted.at = "probe" => Blank(hosted.new.results[k], hosted.new.sched[k])
    PROVE  Blank(unit'.results[k], unit'.sched[k])
<1>a. unit.sched[k].st \in Evidences
  BY Fields DEF Schedules
<1>1. CASE Elsewhere
  BY <1>1, ResultsKept, SchedulesKept
<1>2. CASE HostedReject
  <2>1. PICK u : Rejection(u) /\ SameState(unit', u)
    BY <1>2, RejectIs
  <2>2. /\ unit'.sched[k].st = unit.sched[k].st \/ unit'.sched[k].st = Closed(unit.sched[k].st)
        /\ unit'.results[k].withdrawn = "Unknown"
    BY <2>1 DEF Rejection, SameState, NoResult
  <2> QED
    BY <1>a, <2>2, ClosedTyped DEF Blank
<1>3. CASE HostedSave
  <2>1. \/ unit' = unit
        \/ /\ hosted.at = "probe" /\ unit'.results = hosted.new.results
           /\ unit'.sched = hosted.new.sched
    BY <1>3, SaveIs DEF SameState
  <2> QED
    BY <2>1
<1>4. CASE Passing
  <2>1. unit'.results = unit.results /\ unit'.sched[k].st = AgedEvidence(unit.sched[k].st)
    BY <1>4 DEF Passing, AgedSchedule
  <2>2. unit.sched[k].st.window = 0 /\ unit.results[k].withdrawn # "True"
    BY DEF Blank
  <2>3. unit'.sched[k].st.window = Older(0)
    BY <1>a, <2>1, <2>2, EvidenceAged
  <2> QED
    BY <2>1, <2>2, <2>3 DEF Blank, Older
<1>5. CASE LoseState
  <2>1. unit'.results = unit.results /\ unit'.sched[k].st.window = 0
    BY <1>5, LossIs, NoScheduleTyped DEF NoEvidence
  <2> QED
    BY <2>1 DEF Blank
<1> QED
  BY <1>1, <1>2, <1>3, <1>4, <1>5, AsideIs DEF Elsewhere

LEMMA BlankPass ==
    ASSUME Base, Serials, Turns, [Next]_vars, NEW k \in Keys, Blank(unit.results[k], unit.sched[k]),
           hosted.at = "probe" => Blank(hosted.new.results[k], hosted.new.sched[k]),
           hosted'.at = "probe", unit.has
    PROVE  Blank(hosted'.new.results[k], hosted'.new.sched[k])
<1>1. CASE Rendering
  <2>1. PICK w : /\ Survey(w, unit, k, dns'.snap)
                 /\ hosted'.new.sched[k] = w.s /\ hosted'.new.results[k] = w.r
    BY <1>1 DEF Rendering
  <2> QED
    BY <2>1 DEF Survey, Blank
<1>2. CASE ProbeStep
  <2>1. PICK j \in Keys : Probing(j, dns'.cache)
    BY <1>2 DEF ProbeStep
  <2>2. hosted.at = "probe"
    BY <2>1 DEF Probing
  <2>3. CASE j # k
    <3>1. hosted'.new.results[k] = hosted.new.results[k] /\ hosted'.new.sched[k] = hosted.new.sched[k]
      BY <2>1, <2>3 DEF Probing
    <3> QED
      BY <2>2, <3>1
  <2>4. CASE j = k
    <3>1. ~Served(hosted.new.sched[k].omission, hosted.snap, hosted.ack)
      BY <2>2, ServedOmits
    <3>2. ~(hosted'.new.sched[k].st.window > 0) /\ hosted'.new.results[k].withdrawn # "True"
      BY <2>1, <2>4, <3>1 DEF Probing
    <3>3. hosted'.new.sched[k].st.window \in 0..(Horizon + 1)
      <4>1. hosted' \in Probes
        BY <2>1 DEF Probing
      <4>2. hosted'.new.sched[k].st \in Evidences
        BY <4>1 DEF Probes, Units, Schedules
      <4> QED
        BY <4>2 DEF Evidences
    <3>4. hosted'.new.sched[k].st.window = 0
      BY <3>2, <3>3, HorizonIs
    <3> QED
      BY <3>2, <3>4 DEF Blank
  <2> QED
    BY <2>3, <2>4
<1>3. CASE Passing
  <2>1. /\ hosted.at = "probe" /\ hosted'.new.results = hosted.new.results
        /\ hosted'.new.sched[k].st = AgedEvidence(hosted.new.sched[k].st)
    BY <1>3 DEF Passing, AgedSchedule
  <2>2. hosted.new.sched[k].st \in Evidences
    BY <2>1, PassFields DEF Units, Schedules
  <2>3. hosted.new.sched[k].st.window = 0 /\ hosted.new.results[k].withdrawn # "True"
    BY <2>1 DEF Blank
  <2>4. hosted'.new.sched[k].st.window = 0
    <3>1. hosted'.new.sched[k].st.window = Older(0)
      BY <2>1, <2>2, <2>3, EvidenceAged
    <3> QED
      BY <3>1 DEF Older
  <2> QED
    BY <2>1, <2>3, <2>4 DEF Blank
<1>4. CASE hosted' = hosted /\ (hosted.at = "probe" => unit' = unit)
  BY <1>4
<1> QED
  BY <1>1, <1>2, <1>3, <1>4, PassFrame

\* The UID of the item of a success.
LEMMA ItemsAbsent ==
    ASSUME Base, Keeping, Presence, [Next]_vars, NEW k \in Keys,
           Absent(dns, unit.results[k], unit.sched[k], unit.items[k].uid)
    PROVE  Absent(dns, unit.results[k], unit.sched[k], unit'.items[k].uid)
<1>1. CASE unit'.items = unit.items
  BY <1>1
<1>2. CASE core.at = "status" /\ unit'.items = core.items
  <2>1. ASSUME unit.results[k].withdrawn = "True", unit.results[k].uid = core.items[k].uid
        PROVE  unit.results[k].uid = unit.items[k].uid
    <3>1. unit.results[k].uid # 0
      BY <2>1 DEF Presence, Successes
    <3>2. unit.results[k].uid \in Asked(k) \cap Known(k)
      BY <1>2, <2>1 DEF Asked, Known
    <3> QED
      BY <3>1, <3>2 DEF Keeping, ItemsStay
  <2> QED
    BY <1>2, <2>1 DEF Absent
<1> QED
  BY <1>1, <1>2, ItemsChange DEF Keeping

LEMMA AbsentUnit ==
    ASSUME Base, Keeping, Serials, Turns, Presence, ~unit.has, [Next]_vars, NEW k \in Keys,
           Absent(dns, unit.results[k], unit.sched[k], unit.items[k].uid),
           hosted.at = "probe" =>
               Absent(dns, hosted.new.results[k], hosted.new.sched[k], unit.items[k].uid)
    PROVE  Absent(dns', unit'.results[k], unit'.sched[k], unit'.items[k].uid)
<1>a. PICK uid : uid = unit'.items[k].uid
  OBVIOUS
<1>b. Absent(dns, unit.results[k], unit.sched[k], uid)
  BY <1>a, ItemsAbsent
<1>c. unit.sched[k] \in Schedules /\ unit.sched[k].st \in Evidences
  BY Fields DEF Schedules
<1>1. CASE Tick
  <2>1. Passing
    BY <1>1, TickIs
  <2>2. PICK t : t = unit'.sched[k]
    OBVIOUS
  <2>3. unit'.results = unit.results /\ AgedSchedule(t, unit.sched[k])
    BY <2>1, <2>2 DEF Passing
  <2> QED
    BY <1>a, <1>b, <1>c, <2>1, <2>2, <2>3, AgedAbsent
<1>2. CASE ~Tick /\ unit'.results = unit.results /\ unit'.sched = unit.sched
  <2>1. Absent(dns', unit.results[k], unit.sched[k], uid)
    BY <1>b, <1>2, AbsentStays
  <2> QED
    BY <1>a, <1>2, <2>1
<1>3. CASE HostedReject
  <2>1. PICK u : Rejection(u) /\ SameState(unit', u)
    BY <1>3, RejectIs
  <2>2. /\ unit'.sched[k].st = unit.sched[k].st \/ unit'.sched[k].st = Closed(unit.sched[k].st)
        /\ unit'.results[k].withdrawn = "Unknown"
    BY <2>1 DEF Rejection, SameState, NoResult
  <2>3. dns' = dns
    BY <1>3, RejectIs
  <2>4. unit'.sched[k].st.window > 0 => unit'.sched[k].st = unit.sched[k].st
    BY <1>c, <2>2, ClosedTyped
  <2>5. unit'.sched[k].st.window > 0 =>
            ~Lists(dns.server) /\ dns.since >= Min({unit'.sched[k].st.window - 1, Horizon})
    BY <1>b, <2>4 DEF Absent
  <2>6. unit'.results[k].withdrawn # "True"
    BY <2>2
  <2> QED
    BY <2>3, <2>5, <2>6 DEF Absent
<1>4. CASE HostedSave
  <2>1. \/ unit' = unit
        \/ /\ hosted.at = "probe" /\ unit'.results = hosted.new.results
           /\ unit'.sched = hosted.new.sched /\ unit'.items = unit.items
    BY <1>4, SaveIs DEF SameState, Keeping, PassAgrees
  <2>2. dns' = dns
    BY <1>4, SaveIs
  <2> QED
    BY <2>1, <2>2
<1>5. CASE LoseState
  <2>1. /\ unit'.results = unit.results /\ unit'.sched[k].st.window = 0 /\ unit'.sched[k].st.min = 0
        /\ unit'.sched[k].st.views = {} /\ dns' = dns /\ unit'.items = unit.items
    BY <1>5, LossIs, NoScheduleTyped DEF NoEvidence
  <2>2. dns.since >= 0
    BY Fields, HorizonIs
  <2> QED
    BY <2>1, <2>2 DEF Absent
<1>6. CASE Elsewhere
  BY <1>1, <1>2, <1>6, ResultsKept, SchedulesKept
<1>7. CASE Passing
  <2>2. PICK t : t = unit'.sched[k]
    OBVIOUS
  <2>3. unit'.results = unit.results /\ AgedSchedule(t, unit.sched[k])
    BY <1>7, <2>2 DEF Passing
  <2> QED
    BY <1>a, <1>b, <1>c, <1>7, <2>2, <2>3, AgedAbsent
<1> QED
  BY <1>3, <1>4, <1>5, <1>6, <1>7, AsideIs DEF Elsewhere

LEMMA AbsentPass ==
    ASSUME Base, Keeping, Serials, Turns, ~unit.has, [Next]_vars, NEW k \in Keys,
           Absent(dns, unit.results[k], unit.sched[k], unit.items[k].uid),
           hosted.at = "probe" =>
               Absent(dns, hosted.new.results[k], hosted.new.sched[k], unit.items[k].uid),
           hosted'.at = "probe"
    PROVE  Absent(dns', hosted'.new.results[k], hosted'.new.sched[k], unit'.items[k].uid)
<1>1. CASE Rendering
  <2>1. PICK w : /\ Survey(w, unit, k, dns'.snap)
                 /\ hosted'.new.sched[k] = w.s /\ hosted'.new.results[k] = w.r
    BY <1>1 DEF Rendering
  <2>2. /\ w.s.st.window = 0 \/ w.s.st.window = unit.sched[k].st.window
        /\ w.r.withdrawn = "True" =>
              /\ unit.results[k].withdrawn = "True" /\ w.r.uid = unit.results[k].uid
              /\ w.s.st = unit.sched[k].st
    BY <2>1 DEF Survey
  <2>3. unit' = unit /\ dns'.server = dns.server /\ dns'.since = dns.since /\ dns'.cache = dns.cache
    BY <1>1 DEF Rendering
  <2>4. w.s.st.window > 0 => ~Lists(dns.server) /\ dns.since >= Min({w.s.st.window - 1, Horizon})
    <3>1. CASE w.s.st.window = 0
      BY <3>1
    <3>2. CASE w.s.st.window = unit.sched[k].st.window
      BY <3>2 DEF Absent
    <3> QED
      BY <2>2, <3>1, <3>2
  <2>5. w.r.withdrawn = "True" /\ w.r.uid = unit.items[k].uid =>
            ~Lists(dns.server) /\ dns.since >= w.s.st.min /\ \A v \in w.s.st.views : dns.cache[v] = 0
    BY <2>2 DEF Absent
  <2>6. Absent(dns, w.r, w.s, unit.items[k].uid)
    BY <2>4, <2>5 DEF Absent
  <2> QED
    BY <2>1, <2>3, <2>6 DEF Absent
<1>2. CASE ProbeStep
  <2>1. PICK j \in Keys : Probing(j, dns'.cache)
    BY <1>2 DEF ProbeStep
  <2>2. /\ hosted.at = "probe" /\ unit' = unit /\ dns'.server = dns.server /\ dns'.since = dns.since
        /\ ~Lists(dns.server) => dns'.cache = dns.cache
    BY <1>2, <2>1 DEF ProbeStep, Probing
  <2>3. CASE j # k
    <3>1. hosted'.new.results[k] = hosted.new.results[k] /\ hosted'.new.sched[k] = hosted.new.sched[k]
      BY <2>1, <2>3 DEF Probing
    <3> QED
      BY <2>2, <3>1 DEF Absent
  <2>4. CASE j = k
    <3> DEFINE s == hosted.new.sched[k].st
               t == hosted'.new.sched[k].st
    <3>1. /\ t.window > 0 => /\ Served(hosted.new.sched[k].omission, hosted.snap, hosted.ack)
                             /\ t.window \in {1, s.window}
          /\ hosted'.new.results[k].withdrawn = "True" =>
                /\ t.window > 0 /\ t.min < t.window /\ \A v \in t.views : dns'.cache[v] = 0
      BY <2>1, <2>4 DEF Probing
    <3>2. t.window \in 0..(Horizon + 1) /\ t.min \in Nat
      <4>1. hosted' \in Probes
        BY <2>1 DEF Probing
      <4>2. t \in Evidences
        BY <4>1 DEF Probes, Units, Schedules
      <4> QED
        BY <4>2 DEF Evidences
    <3>3. dns.since \in 0..Horizon /\ Horizon \in Nat
      BY Fields, HorizonIs
    <3>4. /\ t.window > 0 => ~Lists(dns.server)
          /\ s.window > 0 => dns.since >= Min({s.window - 1, Horizon})
      BY <2>2, <3>1, ServedOmits DEF Absent
    <3> HIDE DEF s, t
    <3>5. ASSUME t.window > 0 PROVE dns.since >= t.window - 1 \/ dns.since >= Horizon
      <4>1. CASE t.window = 1
        BY <3>3, <4>1
      <4>2. CASE t.window = s.window
        <5>1. dns.since >= Min({t.window - 1, Horizon}) /\ t.window - 1 \in Int
          BY <3>2, <3>4, <3>5, <4>2
        <5> QED
          BY <3>3, <5>1, MinTwo
      <4> QED
        BY <3>1, <3>5, <4>1, <4>2
    <3>6. ASSUME t.window > 0 PROVE dns.since >= Min({t.window - 1, Horizon})
      <4>1. t.window - 1 \in Int /\ Horizon \in Int
        BY <3>2, <3>3
      <4> QED
        BY <3>2, <3>3, <3>5, <3>6, <4>1, MinTwo
    <3>7. ASSUME t.window > 0, t.min < t.window PROVE dns.since >= t.min
      BY <3>2, <3>3, <3>5, <3>7
    <3>8. /\ t.window > 0 => ~Lists(dns'.server) /\ dns'.since >= Min({t.window - 1, Horizon})
          /\ hosted'.new.results[k].withdrawn = "True" =>
                ~Lists(dns'.server) /\ dns'.since >= t.min /\ \A v \in t.views : dns'.cache[v] = 0
      BY <2>2, <3>1, <3>4, <3>6, <3>7
    <3> QED
      BY <3>8 DEF Absent, t
  <2> QED
    BY <2>3, <2>4
<1>3. CASE Passing
  <2>1. /\ hosted.at = "probe" /\ hosted'.new.results = hosted.new.results
        /\ unit'.items = unit.items /\ hosted.new.sched[k] \in Schedules
    BY <1>3, PassFields DEF Passing, SameSpec, Units
  <2>2. PICK t : t = hosted'.new.sched[k]
    OBVIOUS
  <2>3. AgedSchedule(t, hosted.new.sched[k])
    BY <1>3, <2>1, <2>2 DEF Passing
  <2>4. Absent(dns', hosted.new.results[k], t, unit.items[k].uid)
    BY <1>3, <2>1, <2>3, AgedAbsent
  <2> QED
    BY <2>1, <2>2, <2>4
<1>4. CASE hosted' = hosted /\ (hosted.at = "probe" => unit' = unit)
  <2>1. unit' = unit /\ hosted.at = "probe"
    BY <1>4
  <2>2. CASE Passing
    BY <1>3, <2>2
  <2>3. CASE ~Tick
    <3>1. Absent(dns', hosted.new.results[k], hosted.new.sched[k], unit.items[k].uid)
      BY <2>1, <2>3, AbsentStays
    <3> QED
      BY <1>4, <2>1, <3>1
  <2> QED
    BY <2>2, <2>3, TickIs
<1> QED
  BY <1>1, <1>2, <1>3, <1>4, PassFrame

LEMMA AbsenceStep ==
    ASSUME Base, Keeping, Serials, Turns, Presence, [Next]_vars,
           Absence(unit), hosted.at = "probe" => Absence(hosted.new)
    PROVE  Absence(unit)' /\ (hosted'.at = "probe" => Absence(hosted.new)')
<1>a. PassAgrees
  BY DEF Keeping
<1>b. \A k \in Keys :
          /\ unit.has /\ budget.flips < 2 => Blank(unit.results[k], unit.sched[k])
          /\ ~unit.has => Absent(dns, unit.results[k], unit.sched[k], unit.items[k].uid)
  BY DEF Absence
<1>c. hosted.at = "probe" => \A k \in Keys :
          /\ unit.has /\ budget.flips < 2 => Blank(hosted.new.results[k], hosted.new.sched[k])
          /\ ~unit.has => Absent(dns, hosted.new.results[k], hosted.new.sched[k], unit.items[k].uid)
  BY DEF Absence
<1>1. ASSUME NEW k \in Keys, unit'.has, budget'.flips < 2
      PROVE  /\ Blank(unit'.results[k], unit'.sched[k])
             /\ hosted'.at = "probe" => Blank(hosted'.new.results[k], hosted'.new.sched[k])
  <2>1. unit.has /\ budget.flips < 2
    BY <1>a, <1>1, TurnsBack
  <2>2. /\ Blank(unit.results[k], unit.sched[k])
        /\ hosted.at = "probe" => Blank(hosted.new.results[k], hosted.new.sched[k])
    BY <1>b, <1>c, <2>1
  <2>3. Blank(unit'.results[k], unit'.sched[k])
    BY <2>2, BlankUnit
  <2>4. hosted'.at = "probe" => Blank(hosted'.new.results[k], hosted'.new.sched[k])
    BY <2>1, <2>2, BlankPass
  <2> QED
    BY <2>3, <2>4
<1>2. ASSUME NEW k \in Keys, ~unit'.has
      PROVE  /\ Absent(dns', unit'.results[k], unit'.sched[k], unit'.items[k].uid)
             /\ hosted'.at = "probe" =>
                  Absent(dns', hosted'.new.results[k], hosted'.new.sched[k], unit'.items[k].uid)
  <2>1. CASE ~unit.has
    <3>1. /\ Absent(dns, unit.results[k], unit.sched[k], unit.items[k].uid)
          /\ hosted.at = "probe" =>
                Absent(dns, hosted.new.results[k], hosted.new.sched[k], unit.items[k].uid)
      BY <1>b, <1>c, <2>1
    <3>2. Absent(dns', unit'.results[k], unit'.sched[k], unit'.items[k].uid)
      BY <2>1, <3>1, AbsentUnit
    <3>3. hosted'.at = "probe" =>
              Absent(dns', hosted'.new.results[k], hosted'.new.sched[k], unit'.items[k].uid)
      BY <2>1, <3>1, AbsentPass
    <3> QED
      BY <3>2, <3>3
  <2>2. CASE /\ unit.has /\ budget.flips < 2 /\ hosted'.at = "idle"
             /\ unit'.results = unit.results /\ unit'.sched = unit.sched
    <3>1. Blank(unit.results[k], unit.sched[k])
      BY <1>b, <2>2
    <3>2. unit'.sched[k].st.window = 0 /\ unit'.results[k].withdrawn # "True"
      BY <2>2, <3>1 DEF Blank
    <3>3. Absent(dns', unit'.results[k], unit'.sched[k], unit'.items[k].uid)
      BY <3>2 DEF Absent
    <3> QED
      BY <2>2, <3>3
  <2> QED
    BY <1>a, <1>2, <2>1, <2>2, TurnsBack
<1> QED
  BY <1>1, <1>2 DEF Absence

LEMMA AbsencesInit == ASSUME Init PROVE Absences
<1>1. PICK c \in Configs :
          LET snap == Snapshot(1, [has |-> TRUE, min |-> c.min])
          IN  /\ env = [wanted |-> TRUE, granted |-> TRUE, accepted |-> TRUE, config |-> c,
                        class |-> 1, others |-> 0]
              /\ dns = [snap |-> snap, told |-> <<>>, server |-> snap,
                        cache |-> [v \in Views |-> 0], since |-> 0]
  BY DEF Init
<1>2. /\ unit.has = TRUE /\ hosted.at = "idle" /\ budget.flips = 0 /\ env.wanted = TRUE
      /\ \A k \in Keys : unit.sched[k] = NoSchedule /\ unit.results[k] = NoResult
  BY <1>1 DEF Init, Idle
<1>3. dns.snap = dns.server /\ Lists(dns.snap) /\ dns.told = <<>> /\ dns.snap.serial = 1
  BY <1>1 DEF Snapshot, Lists
<1>4. Omissions(unit) = {}
  BY <1>2, NoScheduleTyped DEF Omissions
<1>5. Snaps = {dns.snap}
  BY <1>2, <1>3, <1>4 DEF Snaps
<1>6. Serials
  BY <1>2, <1>3, <1>4, <1>5 DEF Serials
<1>7. Turns
  <2>1. env.wanted = (budget.flips # 1)
    <3>1. budget.flips # 1
      BY <1>2
    <3> QED
      BY <1>2, <3>1, Zenon
  <2>2. unit.has /\ \A x \in Snaps : Lists(x)
    BY <1>2, <1>3, <1>5
  <2> QED
    BY <2>1, <2>2 DEF Turns
<1>8. Absence(unit)
  BY <1>2, NoScheduleTyped DEF Absence, Blank, NoEvidence, NoResult
<1>9. Presence
  BY <1>2 DEF Presence, Successes, Retired, NoResult
<1> QED
  BY <1>2, <1>6, <1>7, <1>8, <1>9 DEF Absences

LEMMA AbsencesStep ==
    ASSUME Base, Keeping, Gaps, Absences, MaxFlips <= 2, [Next]_vars
    PROVE  Absences'
<1>1. /\ PassAgrees /\ ProbedItems /\ Serials /\ Turns /\ Presence
      /\ Absence(unit) /\ (hosted.at = "probe" => Absence(hosted.new))
  BY GapsAre DEF Keeping, Absences
<1>2. Serials' /\ Turns'
  BY <1>1, SerialsStep, TurnsStep
<1>3. Presence'
  BY <1>1, PresenceStep
<1>4. Absence(unit)' /\ (hosted'.at = "probe" => Absence(hosted.new)')
  BY <1>1, AbsenceStep
<1> QED
  BY <1>2, <1>3, <1>4 DEF Absences

LEMMA AbsencesHold ==
    ASSUME MaxFlips <= 2
    PROVE  Spec => [](Base /\ Keeping /\ Gaps /\ Absences)
<1>1. Init => Base /\ Keeping /\ Gaps /\ Absences
  BY BaseInit, KeepingInit, GapsInit, AbsencesInit
<1>2. Base /\ Keeping /\ Gaps /\ Absences /\ [Next]_vars => (Base /\ Keeping /\ Gaps /\ Absences)'
  BY BaseStep, KeepingStep, GapsStep, AbsencesStep
<1> QED
  BY <1>1, <1>2, PTL DEF Spec

\* What a success means for the DNS.
LEMMA SuccessIsAbsence ==
    ASSUME Absences, NEW k \in Keys, Verified(k)
    PROVE  /\ ~unit.has /\ ~dns.server.content.has /\ dns.since >= unit.sched[k].st.min
           /\ \A v \in unit.sched[k].st.views : dns.cache[v] = 0
<1>1. unit.observed /\ unit.results[k].withdrawn = "True" /\ unit.results[k].uid = unit.items[k].uid
  BY DEF Verified
<1>2. ~unit.has
  BY <1>1 DEF Absences, Presence, Retired
<1>3. Absent(dns, unit.results[k], unit.sched[k], unit.items[k].uid)
  BY <1>2 DEF Absences, Absence
<1> QED
  BY <1>1, <1>2, <1>3 DEF Absent, Lists

\* While a withdrawal is reported as verified the address is neither published
\* nor served, nor cached by a view that was required, provided the address
\* is retired and published again at most once: retired a second time it may
\* be verified by the evidence of the first (reconcileWithdrawals, Evaluate).
THEOREM VerifiedMeansAbsent ==
    ASSUME MaxFlips <= 2 PROVE Spec => []VerifiedIsAbsent
<1>1. Absences => VerifiedIsAbsent
  BY SuccessIsAbsence DEF VerifiedIsAbsent
<1> QED
  BY <1>1, AbsencesHold, PTL

\* Under the same condition the server has not answered with the address for
\* as long as the SOA minimum that the evidence is held to (State.window).
THEOREM AbsenceIsLong ==
    ASSUME MaxFlips <= 2 PROVE Spec => []AbsentLongEnough
<1>1. Absences => AbsentLongEnough
  BY SuccessIsAbsence DEF AbsentLongEnough
<1> QED
  BY <1>1, AbsencesHold, PTL
=============================================================================
