------------------------- MODULE RecordWithdrawals --------------------------
(***************************************************************************)
(* RecordWithdrawals: requests to prove that a retired address has left    *)
(* the DNS.  Core composes the claims and their waivers into the ZoneUnit  *)
(* and projects the provider's results back; the hosted controller renders *)
(* the snapshot without the address, probes every required view, and       *)
(* reports success only after a window of absence in which every cached    *)
(* answer it knows of has expired.                                         *)
(*                                                                         *)
(*   core/controllers/zoneunit/{withdrawals,withdrawal_waivers}.go,        *)
(*   core/declaration/withdrawal.go,                                       *)
(*   providers/hosted/controllers/zoneunit/{controller,model,withdrawal}.go*)
(*   providers/hosted/withdrawal/{evaluator,state}.go,                     *)
(*   core/dnsprobe/withdrawal.go                                           *)
(*                                                                         *)
(* All claims are for one name and address.  Times are kept relative to    *)
(* the present and saturate: a tick is one probe interval (30 s to 300 s). *)
(***************************************************************************)
EXTENDS Integers, Sequences, FiniteSets, FiniteSetsExt

CONSTANTS
    Keys,        \* the claims' keys, in the order of their names
    Views,       \* the resolvers that may be named as views
    Configs,     \* ZoneClass parameters: [views, min], min the SOA minimum
    Ttl,         \* the time to live of the address records
    MaxClaims,   \* how many claims a Zone may have (256)
    PassBudget,  \* names probed per pass (MaxNamesPerPass, 32)
    MaxUids,     \* bound: incarnations of claims
    MaxFlips,    \* bound: times the address is retired or published again
    MaxEvents    \* bound: deletions of claims, changes of waivers, grants and
                 \* the ZoneClass, failed probes, crashes, losses of state

ASSUME WithdrawalAssumption ==
    /\ Keys \subseteq Nat \ {0} /\ IsFiniteSet(Keys)
    /\ Configs \subseteq [views : (SUBSET Views) \ {{}}, min : Nat]
    \* SOA minima are bounded.
    /\ \E c \in Configs : \A d \in Configs : d.min <= c.min
    /\ {Ttl, MaxClaims, PassBudget, MaxUids, MaxFlips, MaxEvents} \subseteq Nat

VARIABLES
    claim,    \* the RecordWithdrawals, by key
    waiver,   \* the RecordWithdrawalWaivers, by the key they name
    env,      \* what core and provider are configured with
    unit,     \* the ZoneUnit: its spec, its results and the private state
    dns,      \* the snapshot, what the server answers, and the resolvers' caches
    core,     \* core's reconcile in progress
    hosted,   \* the hosted controller's reconcile in progress
    budget    \* bounds used so far

vars == <<claim, waiver, env, unit, dns, core, hosted, budget>>

Uids == 1..MaxUids
Horizon == Max({Ttl + 1} \cup {c.min + 1 : c \in Configs})

\* status of a claim: whether it is accepted, what was projected, and the
\* waiver projected as OverrideAccepted (0: none).
Verdicts == {"Unknown", "False", "True"}
Claim == [uid : 0..MaxUids, accepted : BOOLEAN, withdrawn : Verdicts, override : 0..MaxUids]
NoClaim == [uid |-> 0, accepted |-> FALSE, withdrawn |-> "Unknown", override |-> 0]

\* A waiver names one claim incarnation; it is known by that UID.
Waiver == [for : 0..MaxUids, accepted : BOOLEAN]
NoWaiver == [for |-> 0, accepted |-> FALSE]

\* spec.withdrawals[]
Item == [uid : 0..MaxUids, allowed : BOOLEAN, waiver : 0..MaxUids]
NoItem == [uid |-> 0, allowed |-> FALSE, waiver |-> 0]

\* status.withdrawals[]; probed is lastProbeTime # nil.
Result == [uid : 0..MaxUids, withdrawn : Verdicts, waiver : 0..MaxUids, probed : BOOLEAN]
NoResult == [uid |-> 0, withdrawn |-> "Unknown", waiver |-> 0, probed |-> FALSE]

\* What a snapshot says of the name; its digest.
Content == [has : BOOLEAN, min : {c.min : c \in Configs}]
Snapshot(serial, content) == [serial |-> serial, content |-> content]

\* Evidence (withdrawal.State): the probe policy and the floor it must not
\* fall below, the last expiry of an answer with the address, the window
\* (0 closed, n open for n - 1 ticks) and its end, and the next probe's time.
NoEvidence == [id |-> 0, policy |-> <<>>, views |-> {}, min |-> 0, positive |-> 0,
               window |-> 0, notBefore |-> 0, next |-> 0, missing |-> FALSE]

\* The schedule of one claim (withdrawalSchedule).
NoSchedule == [id |-> 0, policy |-> <<>>, binding |-> <<>>, omission |-> <<>>,
               next |-> 0, st |-> NoEvidence]

Idle == [at |-> "idle"]

-----------------------------------------------------------------------------
(* Time.                                                                   *)

Less(n) == IF n > 0 THEN n - 1 ELSE 0
Older(n) == IF n = 0 THEN 0 ELSE Min({n + 1, Horizon + 1})
\* Until the next probe, once one is planned; -2 is beyond the limit of 300 s.
Later(x) == IF x.id = 0 THEN x.next ELSE Max({x.next - 1, -2})

AgedEvidence(s) == [s EXCEPT !.positive = Less(@), !.window = Older(@),
                             !.notBefore = Less(@), !.next = Later(s)]

Aged(u) ==
    [u EXCEPT !.pub = Less(@),
              !.sched = [k \in Keys |-> [u.sched[k] EXCEPT !.next = Later(u.sched[k]),
                                                           !.st = AgedEvidence(@)]]]

AgedPass == IF hosted.at = "idle" THEN hosted ELSE [hosted EXCEPT !.new = Aged(@)]

\* The controller need not keep up with its own schedule.
Tick ==
    /\ unit' = Aged(unit)
    /\ hosted' = AgedPass
    /\ dns' = [dns EXCEPT !.cache = [v \in Views |-> Less(@[v])], 
                          !.since = IF dns.server.content.has THEN 0 ELSE Min({@ + 1, Horizon})]
    /\ UNCHANGED <<claim, waiver, env, core, budget>>

-----------------------------------------------------------------------------
(* Users, the server and the resolvers.                                    *)

Spend(what) == budget' = [budget EXCEPT ![what] = @ + 1]
Exists(k) == claim[k].uid # 0

\* Claims have no finalizer and an immutable spec; a new one has a new UID.
CreateClaim(k) ==
    /\ ~Exists(k) /\ budget.uids < MaxUids
    /\ claim' = [claim EXCEPT ![k] = [NoClaim EXCEPT !.uid = budget.uids + 1]]
    /\ Spend("uids")
    /\ UNCHANGED <<waiver, env, unit, dns, core, hosted>>

DeleteClaim(k) ==
    /\ Exists(k) /\ budget.events < MaxEvents
    /\ claim' = [claim EXCEPT ![k] = NoClaim]
    /\ Spend("events")
    /\ UNCHANGED <<waiver, env, unit, dns, core, hosted>>

\* A waiver is made for some claim incarnation, or deleted.
ChangeWaiver(k) ==
    /\ budget.events < MaxEvents
    /\ IF waiver[k] = NoWaiver
       THEN \E uid \in Uids : waiver' = [waiver EXCEPT ![k].for = uid]
       ELSE waiver' = [waiver EXCEPT ![k] = NoWaiver]
    /\ Spend("events")
    /\ UNCHANGED <<claim, env, unit, dns, core, hosted>>

\* The RecordSets with the address are retired, or published again.
Flip ==
    /\ budget.flips < MaxFlips
    /\ env' = [env EXCEPT !.wanted = ~@]
    /\ Spend("flips")
    /\ UNCHANGED <<claim, waiver, unit, dns, core, hosted>>

\* Grants and Provider support, the acceptance of the ZoneClass, its spec; the
\* number of the Zone's claims for other names.
ChangePolicy ==
    /\ budget.events < MaxEvents
    /\ \/ env' = [env EXCEPT !.granted = ~@]
       \/ env' = [env EXCEPT !.accepted = ~@]
       \/ env' = [env EXCEPT !.others = MaxClaims - @]
       \/ \E c \in Configs \ {env.config} :
             env' = [env EXCEPT !.config = c, !.class = @ + 1]
    /\ Spend("events")
    /\ UNCHANGED <<claim, waiver, unit, dns, core, hosted>>

\* The server loads the next snapshot it is told of, and acknowledges it.
Load ==
    /\ dns.told # <<>>
    /\ dns' = [dns EXCEPT !.server = Head(dns.told), !.told = Tail(@),
                          !.since = IF dns.server.content.has THEN 0 ELSE @]
    /\ UNCHANGED <<claim, waiver, env, unit, core, hosted, budget>>

\* A client asks a resolver that has no cached answer.
Answered(c, v) == IF c[v] = 0 /\ dns.server.content.has THEN Ttl ELSE c[v]

Query(v) ==
    /\ dns.server.content.has /\ dns.cache[v] = 0
    /\ dns' = [dns EXCEPT !.cache[v] = Answered(dns.cache, v)]
    /\ UNCHANGED <<claim, waiver, env, unit, core, hosted, budget>>

-----------------------------------------------------------------------------
(* Core.                                                                   *)

\* Writes to the unit are optimistically locked, so a change of the spec ends
\* a hosted reconcile: it could not save anything any more.  The new
\* generation is not the one that the status was computed for (observed).
PatchSpec(u) ==
    /\ unit' = IF u = unit THEN unit ELSE [u EXCEPT !.observed = FALSE]
    /\ hosted' = IF u = unit THEN hosted ELSE Idle

\* The claims of the Zone are listed, and reconcileZone writes the records
\* and the ZoneClass binding of the unit.
CoreZone ==
    /\ core.at = "idle"
    /\ PatchSpec([unit EXCEPT !.has = env.wanted, !.class = env.class])
    /\ core' = [at |-> "read", uids |-> [k \in Keys |-> claim[k].uid]]
    /\ UNCHANGED <<claim, waiver, env, dns, budget>>

\* WithdrawalWaiverMatches: exactly this claim incarnation.
WaiverMatches(w, uid) == w.for # 0 /\ w.for = uid

\* Whether core accepts claims: grants, the binding of the unit to the
\* ZoneClass, Provider support and the limit on claims.
TooMany(uids) == Cardinality({k \in Keys : uids[k] # 0}) + env.others > MaxClaims
Allowed(uids) == env.granted /\ unit.class = env.class /\ ~TooMany(uids)

\* The item core wants for claim k.
ItemOf(uids, k) ==
    IF uids[k] = 0 THEN NoItem
    ELSE [uid |-> uids[k], allowed |-> Allowed(uids),
          waiver |-> IF Allowed(uids) /\ WaiverMatches(waiver[k], uids[k])
                     THEN waiver[k].for ELSE 0]

MutantItems(uids) == [k \in Keys |-> IF TooMany(uids) THEN NoItem ELSE ItemOf(uids, k)]

\* spec.withdrawals: with too many claims the previous inventory stays, and
\* nothing in it is allowed.
Items(uids) ==
    [k \in Keys |-> IF TooMany(uids)
                    THEN [unit.items[k] EXCEPT !.allowed = FALSE, !.waiver = 0]
                    ELSE ItemOf(uids, k)]

MutantProjects(i, k) == i.allowed /\ unit.observed

\* projectWithdrawalResult: a result counts for this incarnation, computed
\* from the item i that the unit has and core wants.
Projects(i, k) ==
    /\ i.allowed /\ unit.observed
    /\ unit.items[k] = i /\ unit.results[k].uid = i.uid

Projected(i, k) ==
    LET r == unit.results[k]
    IN  [uid |-> i.uid, accepted |-> i.allowed,
         withdrawn |-> IF Projects(i, k) THEN r.withdrawn ELSE "Unknown",
         override |-> IF Projects(i, k) /\ i.waiver # 0 /\ r.waiver = i.waiver
                      THEN r.waiver ELSE 0]

\* reconcileWithdrawals reads unit, policy and waivers.
CoreRead ==
    /\ core.at = "read"
    /\ core' = [at |-> "status", locked |-> TRUE, items |-> Items(core.uids),
                rest |-> {k \in Keys : core.uids[k] # 0},
                todo |-> [k \in Keys |-> Projected(ItemOf(core.uids, k), k)]]
    /\ UNCHANGED <<claim, waiver, env, unit, dns, hosted, budget>>

\* setWithdrawalStatus, claim by claim; a claim that is gone is ignored, one
\* that was replaced ends the reconcile.
CoreStatus ==
    /\ core.at = "status" /\ core.rest # {}
    /\ LET k == Min(core.rest)
           same == claim[k].uid = core.todo[k].uid
       IN  /\ claim' = IF same THEN [claim EXCEPT ![k] = core.todo[k]] ELSE claim
           /\ core' = IF same \/ ~Exists(k) THEN [core EXCEPT !.rest = @ \ {k}] ELSE Idle
    /\ UNCHANGED <<waiver, env, unit, dns, hosted, budget>>

CoreUnit ==
    /\ core.at = "status" /\ core.rest = {}
    /\ PatchSpec(IF core.locked THEN [unit EXCEPT !.items = core.items] ELSE unit)
    /\ core' = Idle
    /\ UNCHANGED <<claim, waiver, env, dns, budget>>

\* RecordWithdrawalWaiverReconciler.
ReconcileWaiver(k) ==
    /\ waiver[k] # NoWaiver
    /\ waiver[k].accepted # WaiverMatches(waiver[k], claim[k].uid)
    /\ waiver' = [waiver EXCEPT ![k].accepted = ~@]
    /\ UNCHANGED <<claim, env, unit, dns, core, hosted, budget>>

-----------------------------------------------------------------------------
(* The hosted controller.                                                  *)

\* The policy the results depend on (environment.fingerprint).
Fingerprint(u) == <<env.config, u.class>>

\* A report that nothing is known of item i.
Unverified(i, r) == [uid |-> i.uid, withdrawn |-> "Unknown", waiver |-> 0,
                     probed |-> r.uid = i.uid /\ r.probed]

\* State.invalidate: the window has to open anew.
Closed(s) == [s EXCEPT !.window = 0, !.notBefore = 0]

\* A status patch makes core's patch of the spec lose its race.
PatchStatus(u) ==
    LET new == [u EXCEPT !.observed = TRUE]
    IN  /\ unit' = new
        /\ core' = IF new # unit /\ core.at = "status" THEN [core EXCEPT !.locked = FALSE] ELSE core

\* rejectWithdrawals: the ZoneClass is not accepted.
HostedReject ==
    /\ hosted.at = "idle" /\ ~env.accepted
    /\ PatchStatus([unit EXCEPT
          !.results = [k \in Keys |-> IF unit.items[k] = NoItem THEN NoResult
                                      ELSE Unverified(unit.items[k], unit.results[k])],
          !.sched = [k \in Keys |->
                        IF unit.items[k] = NoItem THEN unit.sched[k]
                        ELSE [unit.sched[k] EXCEPT !.next = 0, !.st = Closed(@)]]])
    /\ UNCHANGED <<claim, waiver, env, dns, hosted, budget>>

\* retainPublication: an acknowledged answer may be cached for its TTL.
Published(u) == IF dns.snap = dns.server /\ dns.snap.content.has THEN Max({u.pub, Ttl}) ELSE u.pub

\* The snapshot rendered from unit u: a new serial when its content changes.
Rendered(u) ==
    LET c == [has |-> u.has, min |-> env.config.min]
    IN  IF dns.snap.content = c THEN dns.snap ELSE Snapshot(dns.snap.serial + 1, c)

\* revisionServed for the serial and digest that first omitted the address.
Served(omission, snap, ack) ==
    /\ omission # <<>>
    /\ ack.serial \in omission.serial..snap.serial
    /\ ack.serial = omission.serial => ack.content = omission.content
    /\ ack.serial = snap.serial => ack.content = snap.content

MutantPolicyOf(fp, i, s, snap, ack) == <<fp, i.waiver>>

\* withdrawalFingerprint
PolicyOf(fp, i, s, snap, ack) ==
    <<fp, snap.content, Served(s.omission, snap, ack), i.waiver>>

\* A schedule is kept for the claim incarnation it was made for.
SameClaim(s, i) == s.id = i.uid

MutantGap(old, i, r) == FALSE

\* Private state is gone although a result says that there was some.
Gap(old, i, r) == old.id = 0 /\ r.uid = i.uid /\ r.probed

\* The schedule of item i at the start of a pass: evidence of another
\* incarnation is dropped for what is known of the name and address itself.
Prepared(u, k, pub, snap) ==
    LET i == u.items[k]
        old == u.sched[k]
        kept == IF SameClaim(old, i) THEN old
                ELSE [NoSchedule EXCEPT !.id = i.uid, !.st.positive = pub, !.st.missing = Gap(old, i, u.results[k])]
        excluded == i.allowed /\ ~snap.content.has
    IN  [kept EXCEPT !.omission = IF ~excluded THEN <<>>
                                  ELSE IF @ = <<>> THEN snap ELSE @]

\* The first part of reconcileWithdrawals, over all items: which are due.
Accepts(u, i) == i.allowed /\ u.class = env.class

Surveyed(u, k, pub, snap, ack) ==
    LET i == u.items[k]
        s == Prepared(u, k, pub, snap)
        r == Unverified(i, u.results[k])
        same == s.policy = PolicyOf(Fingerprint(u), i, s, snap, ack)
    IN  IF i = NoItem THEN [s |-> NoSchedule, r |-> NoResult, due |-> FALSE]
        ELSE IF ~Accepts(u, i)
        THEN [s |-> [s EXCEPT !.policy = <<>>, !.st = Closed(@)], r |-> r, due |-> FALSE]
        ELSE [s |-> s, due |-> ~same \/ s.next <= 0,
              r |-> IF same /\ SameClaim(u.sched[k], i)
                    THEN [u.results[k] EXCEPT !.waiver = i.waiver]
                    ELSE [r EXCEPT !.waiver = i.waiver]]

\* The snapshot is written (and the server told), the claims are surveyed.
HostedRender ==
    /\ hosted.at = "idle" /\ env.accepted
    /\ LET snap == Rendered(unit)
           pub == Published(unit)
           all == [k \in Keys |-> Surveyed(unit, k, pub, snap, dns.server)]
           none == \A k \in Keys : unit.items[k] = NoItem
       IN  /\ dns' = [dns EXCEPT !.snap = snap,
                                 !.told = IF snap = dns.snap THEN @ ELSE Append(@, snap)]
           /\ hosted' = [at |-> "probe", snap |-> snap, ack |-> dns.server,
                         env |-> Fingerprint(unit), probed |-> FALSE, left |-> PassBudget,
                         due |-> {k \in Keys : all[k].due},
                         new |-> [unit EXCEPT !.pub = pub,
                                     !.cursor = IF none THEN 0 ELSE @,
                                     !.sched = [k \in Keys |-> all[k].s],
                                     !.results = [k \in Keys |-> all[k].r]]]
    /\ UNCHANGED <<claim, waiver, env, unit, core, budget>>

\* The due claim that follows the cursor.
NextDue ==
    LET after == {k \in hosted.due : k > hosted.new.cursor}
    IN  IF after # {} THEN Min(after) ELSE Min(hosted.due)

\* The evidence an evaluation starts from (initialState).
Initial(s, i) ==
    IF s.id = i.uid THEN s
    ELSE [NoEvidence EXCEPT !.id = i.uid, !.missing = s.missing,
                            !.positive = IF s.id = 0 THEN s.positive ELSE 0]

MutantWindow(s, min) ==
    LET end == Max({s.notBefore, s.positive})
    IN  [st |-> [s EXCEPT !.window = Max({@, 1}), !.notBefore = end], verified |-> end = 0]

\* State.window: a complete probe without the address opens the window, or
\* confirms it once every horizon has passed.
Window(s, min) ==
    LET open == Max({s.window, 1})
        end == Max({s.notBefore, min - (open - 1), s.positive})
    IN  [st |-> [s EXCEPT !.window = open, !.notBefore = end],
         verified |-> s.window # 0 /\ end = 0]

\* The probe policy differs from that of the evidence.
Moved(s, policy) == s.policy # <<>> /\ s.policy # policy

\* The lifetimes of the answers with the address (0: without it) that the
\* views gave.
Evidence(views, c) == {c[v] : v \in views}

\* The lifetime of the address in the snapshot of the pass.
OwnEvidence == IF hosted.snap.content.has THEN {Ttl} ELSE {0}

\* EvaluateWithdrawal for all required views, combined with the snapshot: an
\* answer with the address refutes, a view without an answer settles nothing.
Outcome(failing, heard, served) ==
    IF failing # {} THEN "Unknown"
    ELSE IF heard # {0} THEN "False"
    ELSE IF ~served THEN "Unknown" ELSE "True"

\* Evaluate for item i, with answers from the caches c; failing views answer
\* nothing.  Positive answers are retained whatever the outcome is.
Evaluated(s0, i, served, failing, c) ==
    LET config == hosted.env[1]
        policy == <<config, hosted.snap.content>>
        s1 == Initial(s0, i)
        changed == Moved(s1, policy)
        weakened == s1.missing \/ config.min < s1.min \/ ~(s1.views \subseteq config.views)
        stale == s1.policy # <<>> /\ s1.next < -1
        heard == Evidence(config.views \ failing, c) \cup OwnEvidence
        s2 == [(IF changed \/ weakened \/ stale THEN Closed(s1) ELSE s1) EXCEPT
                   !.positive = Max({@} \cup heard), !.policy = policy, !.next = 1,
                   !.views = IF weakened THEN @ ELSE config.views,
                   !.min = IF weakened THEN @ ELSE Max({@, config.min})]
        verdict == IF changed \/ weakened THEN "Unknown" ELSE Outcome(failing, heard, served)
    IN  IF verdict # "True" THEN [st |-> Closed(s2), withdrawn |-> verdict]
        ELSE LET w == Window(s2, config.min)
             IN  [st |-> w.st, withdrawn |-> IF w.verified THEN "True" ELSE "False"]

\* Stores the outcome e of probing claim k.
Store(k, e) ==
    LET i == unit.items[k]
        s == hosted.new.sched[k]
        moved == s.binding # <<>> /\ s.binding # hosted.env
    IN  hosted' = [hosted EXCEPT
            !.due = @ \ {k}, !.left = @ - 1, !.probed = TRUE, !.new.cursor = k,
            !.new.sched[k] = [s EXCEPT !.policy = PolicyOf(hosted.env, i, s, hosted.snap, hosted.ack),
                                       !.binding = hosted.env, !.next = 1,
                                       !.st = IF moved THEN Closed(e.st) ELSE e.st],
            !.new.results[k] = [uid |-> i.uid, waiver |-> i.waiver, probed |-> TRUE,
                                withdrawn |-> IF moved THEN "Unknown" ELSE e.withdrawn]]

More == hosted.at = "probe" /\ hosted.due # {} /\ hosted.left > 0

\* One claim is probed in every view; asking a view fills its cache.
HostedProbe ==
    /\ More
    /\ LET k == NextDue
           s == hosted.new.sched[k]
           st == IF s.binding # <<>> /\ s.binding # hosted.env THEN Closed(s.st) ELSE s.st
           views == hosted.env[1].views
       IN  \E failing \in SUBSET views :
              LET c == [v \in Views |-> IF v \in views \ failing
                                        THEN Answered(dns.cache, v) ELSE dns.cache[v]]
              IN  /\ failing # {} => budget.events < MaxEvents
                  /\ budget' = [budget EXCEPT !.events = IF failing = {} THEN @ ELSE @ + 1]
                  /\ dns' = [dns EXCEPT !.cache = c]
                  /\ Store(k, Evaluated(st, unit.items[k],
                                        Served(s.omission, hosted.snap, hosted.ack), failing, c))
    /\ UNCHANGED <<claim, waiver, env, unit, core>>

\* The names of the default views do not resolve: nothing is probed.
HostedNoViews ==
    /\ More /\ budget.events < MaxEvents
    /\ Store(NextDue, [st |-> [Closed(hosted.new.sched[NextDue].st) EXCEPT !.next = 1],
                       withdrawn |-> "Unknown"])
    /\ Spend("events")
    /\ UNCHANGED <<claim, waiver, env, unit, dns, core>>

\* After probing, unit and policy are read again from the API server.
Rechecked ==
    hosted.probed => env.accepted /\ Fingerprint(unit) = hosted.env

HostedSave ==
    /\ hosted.at = "probe" /\ ~More
    /\ IF Rechecked THEN PatchStatus(hosted.new) ELSE UNCHANGED <<unit, core>>
    /\ budget' = [budget EXCEPT !.verified = @ \cup
          {unit'.results[k].uid : k \in {k \in Keys : unit'.results[k].withdrawn = "True"}}]
    /\ hosted' = Idle
    /\ UNCHANGED <<claim, waiver, env, dns>>

\* A controller stops, or the private state of the unit becomes unreadable.
Crash ==
    /\ budget.events < MaxEvents
    /\ \/ core # Idle /\ core' = Idle /\ UNCHANGED hosted
       \/ hosted # Idle /\ hosted' = Idle /\ UNCHANGED core
    /\ Spend("events")
    /\ UNCHANGED <<claim, waiver, env, unit, dns>>

LoseState ==
    /\ budget.events < MaxEvents
    /\ unit' = [unit EXCEPT !.sched = [k \in Keys |-> NoSchedule], !.pub = 0, !.cursor = 0]
    /\ budget' = [budget EXCEPT !.events = @ + 1,
          !.lost = @ \cup {unit.results[k].uid : k \in {k \in Keys : unit.results[k].probed}}]
    /\ hosted' = Idle
    /\ core' = IF core.at = "status" THEN [core EXCEPT !.locked = FALSE] ELSE core
    /\ UNCHANGED <<claim, waiver, env, dns>>

-----------------------------------------------------------------------------
(* The specification: at first the address is published and served.        *)

Init ==
    /\ claim = [k \in Keys |-> NoClaim]
    /\ waiver = [k \in Keys |-> NoWaiver]
    /\ \E c \in Configs :
          LET snap == Snapshot(1, [has |-> TRUE, min |-> c.min])
          IN  /\ env = [wanted |-> TRUE, granted |-> TRUE, accepted |-> TRUE, config |-> c,
                        class |-> 1, others |-> 0]
              /\ dns = [snap |-> snap, told |-> <<>>, server |-> snap,
                        cache |-> [v \in Views |-> 0], since |-> 0]
    /\ unit = [observed |-> TRUE, has |-> TRUE, class |-> 1, items |-> [k \in Keys |-> NoItem],
               results |-> [k \in Keys |-> NoResult],
               sched |-> [k \in Keys |-> NoSchedule], pub |-> 0, cursor |-> 0]
    /\ core = Idle /\ hosted = Idle
    /\ budget = [uids |-> 0, flips |-> 0, events |-> 0, verified |-> {}, lost |-> {}]

Users == \/ \E k \in Keys : CreateClaim(k) \/ DeleteClaim(k) \/ ChangeWaiver(k)
         \/ Flip \/ ChangePolicy

Core == CoreZone \/ CoreRead \/ CoreStatus \/ CoreUnit
Hosted == HostedReject \/ HostedRender \/ HostedProbe \/ HostedNoViews \/ HostedSave

Next ==
    \/ Users \/ Core \/ Hosted
    \/ \E k \in Keys : ReconcileWaiver(k)
    \/ Load \/ (\E v \in Views : Query(v)) \/ Tick \/ Crash \/ LoseState

Spec == Init /\ [][Next]_vars

-----------------------------------------------------------------------------
(* Properties.                                                             *)

TypeOK ==
    /\ claim \in [Keys -> Claim] /\ waiver \in [Keys -> Waiver]
    /\ unit.items \in [Keys -> Item] /\ unit.results \in [Keys -> Result]
    /\ unit.pub \in 0..Ttl /\ unit.cursor \in Keys \cup {0}
    /\ \A k \in Keys :
          LET s == unit.sched[k].st
          IN  /\ unit.sched[k].id \in 0..MaxUids /\ unit.sched[k].next \in -2..1
              /\ s.positive \in 0..Ttl /\ s.window \in 0..(Horizon + 1)
              /\ s.notBefore \in 0..Horizon /\ s.views \subseteq Views
              /\ s.notBefore > 0 => s.window > 0
    /\ dns.snap.content \in Content /\ dns.server.content \in Content
    /\ dns.cache \in [Views -> 0..Ttl] /\ dns.since \in 0..Horizon

\* The provider stands by a success for the unit as it is.
Verified(k) ==
    /\ unit.observed /\ unit.results[k].withdrawn = "True"
    /\ unit.results[k].uid = unit.items[k].uid

\* While the provider reports a withdrawal as verified for the present unit,
\* the address is neither published nor served, nor cached by any view the
\* verification was required to ask (reconcileWithdrawals and Evaluate).
VerifiedIsAbsent ==
    \A k \in Keys : Verified(k) =>
        /\ ~unit.has /\ ~dns.server.content.has
        /\ \A v \in unit.sched[k].st.views : dns.cache[v] = 0

\* A verified withdrawal rests on a window in which the server never answered
\* with the address ("a continuous absence window", dnsprobe/withdrawal.go).
ContinuousAbsence ==
    \A k \in Keys : Verified(k) => dns.since >= Min({unit.sched[k].st.window - 1, Horizon})

\* Success is reported only when the server has not answered with the address
\* for at least the SOA minimum the evidence is held to (State.window).
AbsentLongEnough ==
    \A k \in Keys : Verified(k) => dns.since >= unit.sched[k].st.min

\* A claim shows success only if the provider verified this very incarnation
\* of it: a recreated claim inherits nothing (projectWithdrawalResult).
NoInheritedSuccess ==
    \A k \in Keys : claim[k].withdrawn = "True" =>
        claim[k].uid \in budget.verified

\* An override is projected only from a waiver made for this incarnation of
\* the claim (WithdrawalWaiverMatches).
OverrideBound == \A k \in Keys : claim[k].override \in {0, claim[k].uid}

\* What a claim shows was established for this very incarnation of it, in
\* well-typed states.
StatusInvariant == TypeOK /\ NoInheritedSuccess /\ OverrideBound

\* While a claim lives the provider does not forget how long answers with the
\* address may be cached, not even when the Zone has too many claims or its
\* policy changes, unless the private state is lost as a whole.
HistoryKept ==
    [][LoseState \/ \A k \in Keys :
          LET s == unit.sched[k]
          IN  s.id # 0 /\ s.id = claim[k].uid /\ claim'[k].uid = claim[k].uid
              => /\ unit'.sched[k].id = s.id
                 /\ unit'.sched[k].st.positive >= Less(s.st.positive)]_vars

\* Once the private state of a probed claim is lost, no pass reports success
\* for that claim again: how long answers were cached is no longer known
\* (MissingHistory in withdrawal.State).
GapBlocksSuccess ==
    [][\A k \in Keys :
          unit'.results[k].uid \in budget.lost /\ unit'.results[k].withdrawn = "True"
              => unit.results[k].withdrawn = "True"]_vars
=============================================================================
