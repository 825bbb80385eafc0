------------------------ MODULE GatewaySourceProofs ------------------------
(***************************************************************************)
(* Theorems about GatewaySource, for any number of routes, hostnames,      *)
(* parents, configurations and incarnations.                               *)
(***************************************************************************)
EXTENDS GatewaySource, WellFoundedInduction, TLAPS

-----------------------------------------------------------------------------
(* The invariants.                                                         *)

\* No condition is about a generation yet to come.
Observed ==
    /\ gw /= None => gw.accepted.gen <= gw.gen
    /\ \A r \in Routes : routes[r] /= None =>
          \A ref \in Refs : routes[r].accepted[ref].gen <= routes[r].gen

\* An edit and a deletion are all that make a generation.  The generations of a
\* receipt are thus bounded, and a highest one exists.
GenBound(t) == t /= None => t.gen <= edits + (IF t.deleting THEN 2 ELSE 1)
ReceiptBound(e) == \A b \in Receipt(e) : b.gen <= MaxEdits + 1
Bounded ==
    /\ \A r \in Routes : GenBound(routes[r]) /\ GenBound(cache.routes[r])
    /\ ReceiptBound(ers)
    /\ ReceiptBound(cache.ers)

TypeInv == TypeOK /\ Observed /\ Bounded

\* Nothing in this copy of the Gateway, or of the route, has refused the pair, and
\* the copy is of the present incarnation and configuration.
GoodGateway(g) ==
    /\ g /= None /\ ~g.deleting /\ ~GatewayRejected(g)
    /\ g.uid = gw.uid /\ g.config = gw.config
GoodRoute(t, p) ==
    /\ Live(t) /\ p[2] \in t.hosts /\ RouteAcceptance(t, "gw") /= "Rejected"
    /\ t.uid = routes[p[1]].uid

\* The ERS publishes the pair, under a receipt whoever reads it recognises.
GoodReceipt(p) ==
    /\ ers /= None /\ ~ers.deleting /\ ers.targets /= {}
    /\ p[2] \in ers.hosts
    /\ \E b \in ers.receipt :
          b.route = p[1] /\ b.host = p[2] /\ b.uid = routes[p[1]].uid
    /\ \A b \in ers.receipt : b.gateway = gw.uid /\ b.config = gw.config

Supported(p) ==
    /\ GoodGateway(gw) /\ GoodGateway(Informer.gw)
    /\ GoodRoute(routes[p[1]], p) /\ GoodRoute(Informer.routes[p[1]], p)
    /\ GoodReceipt(p)

HeldSupported == \A p \in held : Supported(p)

\* Uids are not reused, and a deletion that was read stays one.
DeletionStays ==
    \A r \in Routes :
        /\ routes[r] /= None => routes[r].uid <= uids[r]
        /\ cache.routes[r] /= None =>
              /\ cache.routes[r].uid <= uids[r]
              /\ (/\ cache.routes[r].deleting
                  /\ routes[r] /= None
                  /\ routes[r].uid = cache.routes[r].uid) => routes[r].deleting

\* The route a reconcile is about to release is still there.
StillThere == rt /= None /\ routes[cur] /= None /\ routes[cur].uid = rt.uid

\* What the reconcile of a deleted route computes leaves that route out.
DeletedIsOut ==
    /\ rt /= None => rt.uid <= uids[cur]
    /\ (pc /= "idle" /\ StillThere /\ rt.deleting) =>
          routes[cur].deleting /\ ~Live(Informer.routes[cur])

\* No hostname is published for the route that is about to be released.
ReleaseIsClean ==
    (pc = "release" /\ StillThere) =>
        \A h \in Published(ers) :
            \/ ers.deleting
            \/ \E b \in Receipt(ers) : b.host = h /\ b.route /= cur

-----------------------------------------------------------------------------
(* What the controller reads, and what it computes from that.              *)

ReadsAre ==
    /\ Server.gw = gw /\ Server.routes = routes /\ Server.ers = ers
    /\ Informer.gw = IF "gw" \in Lag THEN cache.gw ELSE gw
    /\ Informer.routes = IF "routes" \in Lag THEN cache.routes ELSE routes
    /\ Informer.ers = IF "ers" \in Lag THEN cache.ers ELSE ers

LEMMA InformerReads == ReadsAre
<1>1. Server = [gw |-> gw, routes |-> routes, ers |-> ers]
  BY DEF Server
<1>2. DOMAIN Server = {"gw", "routes", "ers"}
  BY <1>1
<1>3. Server["gw"] = gw /\ Server["routes"] = routes /\ Server["ers"] = ers
  BY <1>1
<1> QED
  BY <1>2, <1>3 DEF Informer, ReadsAre

LEMMA InformerReadsNext == ReadsAre'
  BY InformerReads, PTL

Readable(e, rs, g) ==
    /\ e \in ERS \cup {None}
    /\ ReceiptBound(e)
    /\ rs \in [Routes -> Route \cup {None}]
    /\ \A r \in Routes : Live(rs[r]) => rs[r].gen <= MaxEdits + 1
    /\ g \in Gateway \cup {None}

LEMMA InformerReadable ==
    ASSUME TypeInv
    PROVE  Readable(Informer.ers, Informer.routes, Informer.gw)
<1> USE GatewayParameters, InformerReads DEF TypeInv, TypeOK, ReadsAre
<1>1. /\ Informer.ers \in ERS \cup {None}
      /\ Informer.routes \in [Routes -> Route \cup {None}]
      /\ Informer.gw \in Gateway \cup {None}
  OBVIOUS
<1>2. ReceiptBound(Informer.ers)
  BY DEF Bounded
<1>3. ASSUME NEW r \in Routes, Live(Informer.routes[r])
      PROVE  Informer.routes[r].gen <= MaxEdits + 1
  <2>1. Informer.routes[r] \in Route /\ GenBound(Informer.routes[r])
    BY <1>1, <1>3 DEF Bounded, Live
  <2>2. Informer.routes[r].gen \in Nat /\ edits \in Nat /\ edits <= MaxEdits
        /\ MaxEdits \in Nat
    BY <2>1 DEF Route
  <2> QED
    BY <1>3, <2>1, <2>2 DEF GenBound, Live
<1> QED
  BY <1>1, <1>2, <1>3 DEF Readable

\* A set of bounded numbers that is not empty has a greatest one.
LEMMA Greatest ==
    ASSUME NEW bound \in Nat, NEW S \in SUBSET Nat, S /= {}, \A n \in S : n <= bound
    PROVE  \E n \in S : \A m \in S : m <= n
<1> DEFINE T == {bound - n : n \in S}
<1>1. T \subseteq Nat /\ T /= {}
  <2>1. \A n \in S : bound - n \in Nat
    OBVIOUS
  <2>2. PICK n \in S : TRUE
    OBVIOUS
  <2> QED
    BY <2>1, <2>2
<1>2. PICK x \in T : \A y \in T : ~(<<y, x>> \in OpToRel(<, Nat))
  BY <1>1, NatLessThanWellFounded, WFMin
<1>3. \A y \in T : ~(y < x)
  BY <1>1, <1>2 DEF OpToRel
<1>4. PICK n \in S : x = bound - n
  BY <1>2
<1>5. \A m \in S : m <= n
  BY <1>3, <1>4
<1> QED
  BY <1>5

\* matchingBinding finds one whenever there is one.
LEMMA MatchFound ==
    ASSUME NEW e \in ERS \cup {None}, ReceiptBound(e), NEW r, NEW t, NEW g, NEW h,
           Matches(e, r, t, g, h) /= {}
    PROVE  Match(e, r, t, g, h) \in Matches(e, r, t, g, h)
<1> DEFINE all == Matches(e, r, t, g, h)
           exact == {b \in all : b.uid = t.uid /\ b.gen = t.gen}
           best == IF exact /= {} THEN exact
                   ELSE {b \in all : \A c \in all : c.gen <= b.gen}
<1>1. \A b \in all : b.gen \in Nat /\ b.gen <= MaxEdits + 1
  BY DEF Matches, Receipt, ReceiptBound, ERS, Binding
<1>2. \E b \in all : \A c \in all : c.gen <= b.gen
  <2> DEFINE S == {b.gen : b \in all}
  <2>1. MaxEdits + 1 \in Nat
    BY GatewayParameters
  <2>2. S \subseteq Nat /\ S /= {} /\ \A n \in S : n <= MaxEdits + 1
    BY <1>1
  <2> HIDE DEF S
  <2>3. PICK n \in S : \A m \in S : m <= n
    BY <2>1, <2>2, Greatest
  <2> QED
    BY <2>3 DEF S
<1>3. best \subseteq all /\ best /= {}
  BY <1>2
<1>4. Match(e, r, t, g, h) = CHOOSE b \in best : TRUE
  BY DEF Match
<1> QED
  BY <1>3, <1>4

\* What is published, and under which receipt.
HostsFor(e, rs, g) ==
    IF g.addrs = {} THEN HostsOf(Receipted(e, rs, g))
    ELSE HostsOf(Accepted(e, rs, g) \cup Retained(e, rs, g))
ReceiptFor(e, rs, g) ==
    {Match(e, p[1], rs[p[1]], g, p[2]) : p \in Retained(e, rs, g)}
    \cup {BindingOf(p[1], rs[p[1]], g, p[2]) :
             p \in IF g.addrs /= {} THEN Accepted(e, rs, g)
                   ELSE Accepted(e, rs, g) \cap Receipted(e, rs, g)}

LEMMA DesiredIs ==
    ASSUME NEW e, NEW rs, NEW g
    PROVE  \/ /\ Desired(e, rs, g) = None
              /\ \/ g = None \/ g.deleting
                 \/ GatewayRejected(g)
                 \/ HostsFor(e, rs, g) = {}
                 \/ g.addrs = {} /\ (e = None \/ e.targets = {})
           \/ /\ Desired(e, rs, g) /= None
              /\ g /= None /\ ~g.deleting /\ ~GatewayRejected(g)
              /\ g.addrs = {} => e /= None /\ e.targets /= {}
              /\ Desired(e, rs, g) =
                   [hosts |-> HostsFor(e, rs, g),
                    targets |-> IF g.addrs = {} THEN e.targets ELSE g.addrs,
                    receipt |-> {b \in ReceiptFor(e, rs, g) : b.host \in HostsFor(e, rs, g)}]
<1>1. ASSUME NEW hs, NEW ts, NEW bs
      PROVE  [hosts |-> hs, targets |-> ts, receipt |-> bs] /= None
  <2>1. "hosts" \in DOMAIN [hosts |-> hs, targets |-> ts, receipt |-> bs]
    OBVIOUS
  <2>2. "hosts" \notin DOMAIN None
    BY DEF None
  <2> QED
    BY <2>1, <2>2
<1> QED
  BY <1>1 DEF Desired, HostsFor, ReceiptFor

\* What a binding of the receipt stands for: a hostname of a live route that this
\* Gateway does not reject, under its present configuration.
Vouches(b, rs, g) ==
    /\ b.route \in Routes
    /\ Live(rs[b.route])
    /\ b.host \in rs[b.route].hosts
    /\ b.uid = rs[b.route].uid
    /\ RouteAcceptance(rs[b.route], "gw") /= "Rejected"
    /\ b.gateway = g.uid
    /\ b.config = g.config

LEMMA AcceptedNotRejected ==
    ASSUME NEW t, AllParentRefsAccepted(t)
    PROVE  RouteAcceptance(t, "gw") = "Accepted"
  BY GatewayParameters DEF AllParentRefsAccepted

LEMMA ReceiptVouches ==
    ASSUME NEW e, NEW rs, NEW g, Readable(e, rs, g), g /= None,
           NEW b \in ReceiptFor(e, rs, g)
    PROVE  b \in Binding /\ b.gen <= MaxEdits + 1 /\ Vouches(b, rs, g)
<1>1. CASE \E p \in Retained(e, rs, g) : b = Match(e, p[1], rs[p[1]], g, p[2])
  <2>1. PICK p \in Claimants(rs) : /\ Retains(e, p[1], rs[p[1]], g, p[2])
                                   /\ b = Match(e, p[1], rs[p[1]], g, p[2])
    BY <1>1 DEF Retained
  <2>2. b \in Matches(e, p[1], rs[p[1]], g, p[2])
    BY <2>1, MatchFound DEF Readable, Retains
  <2>3. /\ b \in Receipt(e) /\ b.route = p[1] /\ b.host = p[2] /\ b.uid = rs[p[1]].uid
        /\ b.gateway = g.uid /\ b.config = g.config
    BY <2>1, <2>2 DEF Matches, Retains
  <2>4. b \in Binding /\ b.gen <= MaxEdits + 1
    BY <2>3 DEF Receipt, Readable, ReceiptBound, ERS
  <2> QED
    BY <2>1, <2>3, <2>4 DEF Vouches, Claimants, Retains
<1>2. CASE \E p \in Accepted(e, rs, g) : b = BindingOf(p[1], rs[p[1]], g, p[2])
  <2>1. PICK p \in Claimants(rs) : /\ AllParentRefsAccepted(rs[p[1]])
                                   /\ b = BindingOf(p[1], rs[p[1]], g, p[2])
    BY <1>2 DEF Accepted, Accepts
  <2>2. /\ p[1] \in Routes /\ p[2] \in Hosts
        /\ Live(rs[p[1]]) /\ p[2] \in rs[p[1]].hosts /\ rs[p[1]] \in Route
        /\ rs[p[1]].gen <= MaxEdits + 1 /\ g \in Gateway
    BY <2>1 DEF Claimants, Live, Readable
  <2>3. RouteAcceptance(rs[p[1]], "gw") = "Accepted"
    BY <2>1, AcceptedNotRejected
  <2> QED
    BY <2>1, <2>2, <2>3 DEF BindingOf, Binding, Route, Gateway, Vouches
<1> QED
  BY <1>1, <1>2 DEF ReceiptFor

\* Every hostname is published for a live route that has a binding for it, and
\* one that was not published before for a route that every parent accepts.
LEMMA HostHasReceipt ==
    ASSUME NEW e, NEW rs, NEW g, Readable(e, rs, g), g /= None,
           NEW h \in HostsFor(e, rs, g)
    PROVE  /\ h \in Hosts
           /\ \E b \in ReceiptFor(e, rs, g) : b.host = h
           /\ h \notin Published(e) =>
                 /\ g.addrs /= {}
                 /\ \E r \in Routes : /\ Live(rs[r]) /\ h \in rs[r].hosts
                                      /\ AllParentRefsAccepted(rs[r])
<1>1. PICK p \in Accepted(e, rs, g) \cup Retained(e, rs, g) :
          p[2] = h /\ (g.addrs = {} => p \in Receipted(e, rs, g))
  BY DEF HostsFor, HostsOf, Receipted
<1>2. /\ p[1] \in Routes /\ p[2] \in Hosts
      /\ Live(rs[p[1]]) /\ p[2] \in rs[p[1]].hosts
  BY <1>1 DEF Accepted, Retained, Claimants
<1>3. CASE p \in Retained(e, rs, g)
  <2>1. Matches(e, p[1], rs[p[1]], g, p[2]) /= {}
    BY <1>3 DEF Retained, Retains
  <2>2. Match(e, p[1], rs[p[1]], g, p[2]) \in Matches(e, p[1], rs[p[1]], g, p[2])
    BY <2>1, MatchFound DEF Readable
  <2>3. h \in Published(e) /\ Match(e, p[1], rs[p[1]], g, p[2]).host = h
    BY <1>1, <2>1, <2>2 DEF Matches
  <2> QED
    BY <1>1, <1>2, <1>3, <2>3 DEF ReceiptFor
<1>4. CASE p \in Accepted(e, rs, g)
  <2>1. BindingOf(p[1], rs[p[1]], g, p[2]) \in ReceiptFor(e, rs, g)
    BY <1>1, <1>4 DEF ReceiptFor
  <2>2. BindingOf(p[1], rs[p[1]], g, p[2]).host = h
    BY <1>1 DEF BindingOf
  <2>3. AllParentRefsAccepted(rs[p[1]])
    BY <1>4 DEF Accepted, Accepts
  <2>4. h \notin Published(e) => p \notin Receipted(e, rs, g)
    BY <1>1 DEF Receipted, Retained, Retains, Matches
  <2> QED
    BY <1>1, <1>2, <2>1, <2>2, <2>3, <2>4
<1> QED
  BY <1>1, <1>3, <1>4

-----------------------------------------------------------------------------
(* Types.                                                                  *)

\* What a step does to a route that it neither creates nor removes.
RouteKept(r) ==
    /\ routes[r] /= None
    /\ routes'[r] \in Route
    /\ routes'[r].uid = routes[r].uid
    /\ routes[r].deleting => routes'[r].deleting
    /\ \A ref \in Refs : routes'[r].accepted[ref].gen <= routes'[r].gen
    /\ routes'[r].gen <= edits' + (IF routes'[r].deleting THEN 2 ELSE 1)

RouteCreated(r) ==
    /\ routes[r] = None
    /\ routes'[r] \in Route
    /\ uids'[r] = uids[r] + 1
    /\ routes'[r].uid = uids'[r]
    /\ \A ref \in Refs : routes'[r].accepted[ref].gen <= routes'[r].gen
    /\ routes'[r].gen = 1

RouteChange(r) ==
    \/ routes'[r] = routes[r] /\ uids'[r] = uids[r]
    \/ routes'[r] = None /\ routes[r] /= None /\ uids'[r] = uids[r]
    \/ RouteKept(r) /\ uids'[r] = uids[r]
    \/ RouteCreated(r)

LEMMA RouteSteps ==
    ASSUME TypeInv, [Next]_vars
    PROVE  /\ routes' \in [Routes -> Route \cup {None}]
           /\ uids' \in [Routes -> 0 .. MaxUids]
           /\ edits' \in 0 .. MaxEdits /\ edits <= edits'
           /\ \A r \in Routes : RouteChange(r)
<1> USE DEF apiVars, countVars, controllerVars, TypeInv, TypeOK
<1>0. /\ routes \in [Routes -> Route \cup {None}]
      /\ uids \in [Routes -> 0 .. MaxUids]
      /\ edits \in 0 .. MaxEdits /\ edits \in Nat /\ edits <= edits
      /\ MaxEdits \in Nat /\ MaxUids \in Nat
  BY GatewayParameters
<1> DEFINE Goal == /\ routes' \in [Routes -> Route \cup {None}]
                   /\ uids' \in [Routes -> 0 .. MaxUids]
                   /\ edits' \in 0 .. MaxEdits /\ edits <= edits'
                   /\ \A r \in Routes : RouteChange(r)
<1>1. CASE UNCHANGED <<routes, uids, edits>>
  BY <1>0, <1>1 DEF RouteChange
<1>2. ASSUME NEW r \in Routes, NEW t, routes' = [routes EXCEPT ![r] = t], routes[r] /= None,
             t \in Route, t.uid = routes[r].uid, routes[r].deleting => t.deleting,
             \A ref \in Refs : t.accepted[ref].gen <= t.gen,
             t.gen <= edits' + (IF t.deleting THEN 2 ELSE 1),
             UNCHANGED uids, edits' \in 0 .. MaxEdits, edits <= edits'
      PROVE  Goal
  <2>1. routes'[r] = t /\ \A q \in Routes \ {r} : routes'[q] = routes[q]
    BY <1>0, <1>2
  <2>2. RouteChange(r)
    BY <1>2, <2>1 DEF RouteChange, RouteKept
  <2> QED
    BY <1>0, <1>2, <2>1, <2>2 DEF RouteChange
<1>3. ASSUME NEW r \in Routes, routes' = [routes EXCEPT ![r] = None], UNCHANGED <<uids, edits>>
      PROVE  Goal
  <2>1. routes'[r] = None /\ \A q \in Routes \ {r} : routes'[q] = routes[q]
    BY <1>0, <1>3
  <2> QED
    BY <1>0, <1>3, <2>1 DEF RouteChange
<1>4. ASSUME NEW r \in Routes
      PROVE  routes[r] /= None =>
                /\ routes[r] \in Route /\ routes[r].gen \in Nat
                /\ routes[r].accepted \in [Refs -> Condition]
                /\ \A ref \in Refs : routes[r].accepted[ref].gen \in Nat
                /\ \A ref \in Refs : routes[r].accepted[ref].gen <= routes[r].gen
                /\ routes[r].gen <= edits + (IF routes[r].deleting THEN 2 ELSE 1)
  BY <1>0 DEF Route, Condition, Observed, Bounded, GenBound
<1>5. ASSUME NEW r \in Routes, NEW hs \in SUBSET Hosts, CreateRoute(r, hs)
      PROVE  Goal
  <2> DEFINE t == [uid |-> uids[r] + 1, gen |-> 1, hosts |-> hs,
                   accepted |-> [ref \in Refs |-> NoCondition],
                   deleting |-> FALSE, fin |-> FALSE]
  <2>1. /\ t \in Route
        /\ \A ref \in Refs : t.accepted[ref].gen <= t.gen
        /\ t.uid = uids[r] + 1 /\ t.gen = 1
    BY <1>0, <1>5 DEF CreateRoute, Route, NoCondition, Condition
  <2>2. /\ routes' = [routes EXCEPT ![r] = t]
        /\ uids' = [uids EXCEPT ![r] = uids[r] + 1] /\ uids[r] < MaxUids
        /\ edits' = edits /\ routes[r] = None
    BY <1>5 DEF CreateRoute
  <2> HIDE DEF t
  <2>3. routes'[r] = t /\ \A q \in Routes \ {r} : routes'[q] = routes[q]
    BY <1>0, <2>2
  <2>4. uids'[r] = uids[r] + 1 /\ \A q \in Routes \ {r} : uids'[q] = uids[q]
    BY <1>0, <2>2
  <2>5. RouteChange(r)
    BY <2>1, <2>2, <2>3, <2>4 DEF RouteChange, RouteCreated
  <2> QED
    BY <1>0, <2>1, <2>2, <2>3, <2>4, <2>5 DEF RouteChange
<1>6. ASSUME NEW r \in Routes, NEW hs \in SUBSET Hosts, EditRoute(r, hs)
      PROVE  Goal
  <2> DEFINE t == [routes[r] EXCEPT !.hosts = hs, !.gen = @ + 1]
  <2>1. /\ routes' = [routes EXCEPT ![r] = t] /\ routes[r] /= None
        /\ edits' = edits + 1 /\ edits < MaxEdits /\ UNCHANGED uids
    BY <1>6 DEF EditRoute
  <2>2. /\ t \in Route /\ t.uid = routes[r].uid /\ t.deleting = routes[r].deleting
        /\ t.gen = routes[r].gen + 1 /\ t.accepted = routes[r].accepted
    <3>1. routes[r] \in Route /\ routes[r].gen + 1 \in Nat
      BY <1>4, <2>1
    <3> QED
      BY <3>1 DEF Route
  <2>3. /\ t.gen <= edits' + (IF t.deleting THEN 2 ELSE 1)
        /\ \A ref \in Refs : t.accepted[ref].gen <= t.gen
        /\ edits' \in 0 .. MaxEdits /\ edits <= edits'
    BY <1>0, <1>4, <2>1, <2>2
  <2> HIDE DEF t
  <2> QED
    BY <1>2, <2>1, <2>2, <2>3
<1>7. ASSUME NEW r \in Routes, DeleteRoute(r)
      PROVE  Goal
  <2> DEFINE t == [routes[r] EXCEPT !.deleting = TRUE, !.gen = routes[r].gen + 1]
  <2>1. /\ routes[r] /= None /\ ~routes[r].deleting
        /\ \/ routes' = [routes EXCEPT ![r] = t]
           \/ routes' = [routes EXCEPT ![r] = None]
        /\ UNCHANGED <<uids, edits>>
    <3>1. /\ routes[r] /= None /\ ~routes[r].deleting
          /\ routes' = [routes EXCEPT ![r] = IF routes[r].fin THEN t ELSE None]
          /\ UNCHANGED <<uids, edits>>
      BY <1>7 DEF DeleteRoute
    <3> QED
      BY <3>1
  <2>2. /\ t \in Route /\ t.uid = routes[r].uid /\ t.deleting
        /\ t.gen = routes[r].gen + 1 /\ t.accepted = routes[r].accepted
    <3>1. routes[r] \in Route /\ routes[r].gen + 1 \in Nat
      BY <1>4, <2>1
    <3> QED
      BY <3>1 DEF Route
  <2>3. /\ t.gen <= edits' + (IF t.deleting THEN 2 ELSE 1)
        /\ \A ref \in Refs : t.accepted[ref].gen <= t.gen
    BY <1>0, <1>4, <2>1, <2>2
  <2> HIDE DEF t
  <2> QED
    BY <1>0, <1>2, <1>3, <2>1, <2>2, <2>3
<1>8. ASSUME NEW r \in Routes, NEW ref \in Refs, NEW s \in {"True", "False"},
             RouteStatus(r, ref, s)
      PROVE  Goal
  <2> DEFINE c == [status |-> s, gen |-> routes[r].gen]
             t == [routes[r] EXCEPT !.accepted[ref] = c]
  <2>1. /\ routes' = [routes EXCEPT ![r] = t] /\ routes[r] /= None
        /\ UNCHANGED <<uids, edits>>
    BY <1>8 DEF RouteStatus
  <2>2. c \in Condition /\ c.gen = routes[r].gen
    BY <1>4, <2>1 DEF Condition
  <2>3. /\ t \in Route /\ t.uid = routes[r].uid /\ t.deleting = routes[r].deleting
        /\ t.gen = routes[r].gen /\ t.accepted = [routes[r].accepted EXCEPT ![ref] = c]
    BY <1>4, <2>1, <2>2 DEF Route
  <2>4. \A f \in Refs : t.accepted[f].gen <= t.gen
    BY <1>4, <2>1, <2>2, <2>3
  <2> HIDE DEF t
  <2> QED
    BY <1>0, <1>2, <1>4, <2>1, <2>3, <2>4
<1>9. ASSUME NEW r \in Routes, Begin(r)
      PROVE  Goal
  <2> DEFINE t == [routes[r] EXCEPT !.fin = TRUE]
  <2>1. CASE routes' = routes
    BY <1>1, <1>9, <2>1 DEF Begin
  <2>2. CASE routes' = [routes EXCEPT ![r] = t] /\ routes[r] /= None
    <3>1. /\ t \in Route /\ t.uid = routes[r].uid /\ t.deleting = routes[r].deleting
          /\ t.gen = routes[r].gen /\ t.accepted = routes[r].accepted
      BY <1>4, <2>2 DEF Route
    <3>2. UNCHANGED <<uids, edits>>
      BY <1>9 DEF Begin
    <3> HIDE DEF t
    <3> QED
      BY <1>0, <1>2, <1>4, <2>2, <3>1, <3>2
  <2>3. \/ routes' = routes
        \/ routes' = [routes EXCEPT ![r].fin = TRUE] /\ routes[r] /= None
    BY <1>9 DEF Begin, Live
  <2> QED
    BY <2>1, <2>2, <2>3
<1>10. CASE Release
  <2>1. cur \in Routes /\ UNCHANGED <<uids, edits>>
        /\ (routes' = routes \/ routes' = [routes EXCEPT ![cur] = None])
    BY <1>10 DEF Release
  <2> QED
    BY <1>1, <1>3, <2>1
<1>11. CASE \E c \in Configs : EditGateway(c)
  BY <1>0, <1>11 DEF EditGateway, RouteChange
<1>12. CASE \/ \E c \in Configs : CreateGateway(c)
            \/ DeleteGateway
            \/ \E as \in SUBSET Addrs, s \in {"True", "False"} : GatewayStatus(as, s)
            \/ EndpointStep
            \/ \E k \in {"gw", "routes", "ers"} : Deliver(k)
            \/ Sync
            \/ Unconcerned
  BY <1>1, <1>12 DEF CreateGateway, DeleteGateway, GatewayStatus, EndpointStep, Deliver, Sync,
     Unconcerned
<1>13. CASE UNCHANGED vars
  BY <1>1, <1>13 DEF vars
<1> QED
  BY <1>5, <1>6, <1>7, <1>8, <1>9, <1>10, <1>11, <1>12, <1>13 DEF Next, User

LEMMA DesiredTyped ==
    ASSUME NEW e, NEW rs, NEW g, Readable(e, rs, g), Desired(e, rs, g) /= None
    PROVE  LET d == Desired(e, rs, g) IN
           /\ d.hosts = HostsFor(e, rs, g)
           /\ d.receipt = {b \in ReceiptFor(e, rs, g) : b.host \in HostsFor(e, rs, g)}
           /\ d.hosts \subseteq Hosts /\ d.targets \subseteq Addrs
           /\ d.targets /= {}
           /\ d.receipt \subseteq Binding
           /\ \A b \in d.receipt : b.gen <= MaxEdits + 1
<1>1. /\ g /= None
      /\ g.addrs = {} => e /= None /\ e.targets /= {}
      /\ Desired(e, rs, g) =
           [hosts |-> HostsFor(e, rs, g),
            targets |-> IF g.addrs = {} THEN e.targets ELSE g.addrs,
            receipt |-> {b \in ReceiptFor(e, rs, g) : b.host \in HostsFor(e, rs, g)}]
  BY DesiredIs
<1>2. HostsFor(e, rs, g) \subseteq Hosts
  BY <1>1, HostHasReceipt
<1>3. \A b \in ReceiptFor(e, rs, g) : b \in Binding /\ b.gen <= MaxEdits + 1
  BY <1>1, ReceiptVouches
<1>4. /\ g.addrs \subseteq Addrs
      /\ e /= None => e.targets \subseteq Addrs
  BY <1>1 DEF Readable, Gateway, ERS
<1> QED
  BY <1>1, <1>2, <1>3, <1>4

\* What a reconcile does to the ERS, when nobody was faster.
LEMMA SyncSteps ==
    ASSUME TypeInv, Sync
    PROVE  LET e == Informer.ers
               d == Desired(e, Informer.routes, Informer.gw)
           IN  /\ ers' \in ERS \cup {None}
               /\ ReceiptBound(ers)'
               /\ held' \subseteq Routes \X Hosts
               /\ pc' \in {"idle", "release"}
               /\ pc' = "release" => rt /= None /\ rt.deleting
               /\ \/ ers' = ers /\ held' = held /\ (pc' = "release" => e = None \/ e.deleting)
                  \/ /\ ers = e /\ d /= None
                     /\ ers' /= None /\ ~ers'.deleting
                     /\ ers'.hosts = d.hosts /\ ers'.targets = d.targets
                     /\ ers'.receipt = d.receipt
                  \/ /\ ers = e /\ d = None /\ ers /= None /\ held' = held
                     /\ ers' /= None
                     /\ ers'.hosts = {} \/ ers'.deleting
<1> DEFINE e == Informer.ers
           d == Desired(e, Informer.routes, Informer.gw)
<1>1. Readable(e, Informer.routes, Informer.gw)
  BY InformerReadable
<1>2. e \in ERS \cup {None} /\ ReceiptBound(e)
  BY <1>1 DEF Readable
<1>3. ers \in ERS \cup {None} /\ ReceiptBound(ers) /\ held \subseteq Routes \X Hosts
  BY DEF TypeInv, TypeOK, Bounded
<1>4. AfterSync \in {"idle", "release"} /\ (AfterSync = "release" => rt /= None /\ rt.deleting)
  BY DEF AfterSync
<1>5. CASE d = None
  <2>1. Retire(e)
    BY <1>5 DEF Sync
  <2>2. CASE ers' = ers
    <3>1. pc' = "release" => e = None \/ e.deleting \/ (ers = e /\ ers'.deleting)
      BY <1>2, <2>1, <2>2 DEF Retire, Goto, ERS
    <3> QED
      BY <1>3, <1>4, <1>5, <2>1, <2>2, <3>1 DEF Retire, Goto
  <2>3. CASE e /= None /\ ers = e /\ ers' = [e EXCEPT !.deleting = TRUE]
    <3>1. ers' \in ERS /\ ers' /= None /\ ers'.deleting /\ ers'.receipt = e.receipt
      BY <1>2, <2>3 DEF ERS, None
    <3>2. ReceiptBound(ers)'
      BY <1>2, <2>3, <3>1 DEF ReceiptBound, Receipt
    <3> QED
      BY <1>3, <1>4, <1>5, <2>1, <2>3, <3>1, <3>2 DEF Retire, Goto
  <2>4. CASE e /= None /\ ers = e /\ ers' = [e EXCEPT !.hosts = {}, !.targets = {}, !.ack = FALSE]
    <3>1. ers' \in ERS /\ ers' /= None /\ ers'.hosts = {} /\ ers'.receipt = e.receipt
      BY <1>2, <2>4 DEF ERS, None
    <3>2. ReceiptBound(ers)'
      BY <1>2, <2>4, <3>1 DEF ReceiptBound, Receipt
    <3> QED
      BY <1>3, <1>4, <1>5, <2>1, <2>4, <3>1, <3>2 DEF Retire, Goto
  <2> QED
    BY <2>1, <2>2, <2>3, <2>4 DEF Retire
<1>6. CASE d /= None
  <2>1. Publish(e, d)
    BY <1>6 DEF Sync
  <2>2. /\ d.hosts \subseteq Hosts /\ d.targets \subseteq Addrs
        /\ d.receipt \subseteq Binding /\ \A b \in d.receipt : b.gen <= MaxEdits + 1
    BY <1>1, <1>6, DesiredTyped
  <2> HIDE DEF d
  <2>3. held' \subseteq Routes \X Hosts
    BY <1>3, <2>1 DEF Publish
  <2>4. pc' \in {"idle", "release"} /\ (pc' = "release" => rt /= None /\ rt.deleting)
    BY <1>4, <2>1 DEF Publish, Goto
  <2>5. CASE ers /= e \/ (e /= None /\ e.deleting)
    BY <1>3, <1>4, <2>1, <2>3, <2>4, <2>5 DEF Publish, Goto
  <2>6. CASE ers = e /\ ~(e /= None /\ e.deleting)
    <3>1. \/ ers' = [hosts |-> d.hosts, targets |-> d.targets, receipt |-> d.receipt,
                     ack |-> FALSE, deleting |-> FALSE]
          \/ /\ e \in ERS /\ ~e.deleting
             /\ ers' = [e EXCEPT !.hosts = d.hosts, !.targets = d.targets,
                                 !.receipt = d.receipt, !.ack = FALSE]
      BY <1>2, <2>1, <2>6 DEF Publish
    <3>2. /\ ers' \in ERS /\ ers' /= None /\ ~ers'.deleting
          /\ ers'.hosts = d.hosts /\ ers'.targets = d.targets /\ ers'.receipt = d.receipt
      <4>1. CASE ers' = [hosts |-> d.hosts, targets |-> d.targets, receipt |-> d.receipt,
                         ack |-> FALSE, deleting |-> FALSE]
        BY <2>2, <4>1 DEF ERS, None
      <4>2. CASE /\ e \in ERS /\ ~e.deleting
                 /\ ers' = [e EXCEPT !.hosts = d.hosts, !.targets = d.targets,
                                     !.receipt = d.receipt, !.ack = FALSE]
        BY <2>2, <4>2 DEF ERS, None
      <4> QED
        BY <3>1, <4>1, <4>2
    <3>3. ReceiptBound(ers)'
      BY <2>2, <3>2 DEF ReceiptBound, Receipt
    <3> QED
      BY <1>6, <2>3, <2>4, <2>6, <3>2, <3>3 DEF d
  <2> QED
    BY <2>5, <2>6
<1> QED
  BY <1>5, <1>6

LEMMA GatewaySteps ==
    ASSUME TypeInv, [Next]_vars
    PROVE  /\ gw' \in Gateway \cup {None}
           /\ gws' \in 0 .. MaxGateways
           /\ gw' /= None => gw'.accepted.gen <= gw'.gen
<1> USE DEF apiVars, countVars, controllerVars
<1>0. /\ gw \in Gateway \cup {None} /\ gws \in 0 .. MaxGateways
      /\ gw /= None => gw.accepted.gen <= gw.gen
      /\ MaxGateways \in Nat
  BY GatewayParameters DEF TypeInv, TypeOK, Observed
<1>1. CASE UNCHANGED <<gw, gws>>
  BY <1>0, <1>1
<1>2. ASSUME NEW c \in Configs, CreateGateway(c)
      PROVE  /\ gw' \in Gateway \cup {None} /\ gws' \in 0 .. MaxGateways
             /\ gw' /= None => gw'.accepted.gen <= gw'.gen
  BY <1>0, <1>2 DEF CreateGateway, Gateway, NoCondition, Condition
<1>3. CASE DeleteGateway
  <2>1. gws' = gws /\ gw /= None /\ (gw' = None \/ (gw \in Gateway /\ gw' = [gw EXCEPT !.deleting = TRUE]))
    BY <1>0, <1>3 DEF DeleteGateway
  <2>2. gw' /= None => gw' \in Gateway /\ gw'.accepted = gw.accepted /\ gw'.gen = gw.gen
    BY <2>1 DEF Gateway
  <2> QED
    BY <1>0, <2>1, <2>2
<1>4. ASSUME NEW c \in Configs, EditGateway(c)
      PROVE  /\ gw' \in Gateway \cup {None} /\ gws' \in 0 .. MaxGateways
             /\ gw' /= None => gw'.accepted.gen <= gw'.gen
  <2>1. /\ gws' = gws /\ gw \in Gateway /\ gw /= None
        /\ gw' = [gw EXCEPT !.config = c, !.gen = gw.gen + 1]
    BY <1>0, <1>4 DEF EditGateway
  <2>2. gw.gen \in Nat /\ gw.gen + 1 \in Nat /\ gw.accepted.gen \in Nat
    BY <2>1 DEF Gateway, Condition
  <2>3. gw' \in Gateway /\ gw'.accepted = gw.accepted /\ gw'.gen = gw.gen + 1
    BY <2>1, <2>2 DEF Gateway
  <2> QED
    BY <1>0, <2>1, <2>2, <2>3
<1>5. ASSUME NEW as \in SUBSET Addrs, NEW s \in {"True", "False"}, GatewayStatus(as, s)
      PROVE  /\ gw' \in Gateway \cup {None} /\ gws' \in 0 .. MaxGateways
             /\ gw' /= None => gw'.accepted.gen <= gw'.gen
  <2>1. /\ gws' = gws /\ gw \in Gateway /\ gw /= None
        /\ gw' = [gw EXCEPT !.addrs = as, !.accepted = [status |-> s, gen |-> gw.gen]]
    BY <1>0, <1>5 DEF GatewayStatus
  <2>2. gw.gen \in Nat
    BY <2>1 DEF Gateway
  <2>3. [status |-> s, gen |-> gw.gen] \in Condition
    BY <2>2 DEF Condition
  <2>4. gw' \in Gateway /\ gw'.accepted.gen = gw.gen /\ gw'.gen = gw.gen
    BY <2>1, <2>3 DEF Gateway
  <2> QED
    BY <1>0, <2>1, <2>2, <2>4
<1>6. CASE \/ \E r \in Routes, hs \in SUBSET Hosts : CreateRoute(r, hs) \/ EditRoute(r, hs)
           \/ \E r \in Routes : DeleteRoute(r) \/ Begin(r)
           \/ \E r \in Routes, ref \in Refs, s \in {"True", "False"} : RouteStatus(r, ref, s)
           \/ EndpointStep
           \/ \E k \in {"gw", "routes", "ers"} : Deliver(k)
           \/ Sync
           \/ Unconcerned
           \/ Release
  BY <1>1, <1>6 DEF CreateRoute, EditRoute, DeleteRoute, RouteStatus, Begin, EndpointStep,
     Deliver, Sync, Unconcerned, Release
<1> QED
  BY <1>1, <1>2, <1>3, <1>4, <1>5, <1>6 DEF Next, User, vars

\* What changes the ERS.
LEMMA EndpointSteps ==
    ASSUME TypeInv, [Next]_vars
    PROVE  \/ UNCHANGED ers
           \/ Sync
           \/ ers /= None /\ ers.deleting /\ ers' = None /\ UNCHANGED <<pc, cur, rt, held>>
           \/ /\ ers /= None /\ ers.hosts = {} /\ ers' = [ers EXCEPT !.ack = TRUE]
              /\ UNCHANGED <<pc, cur, rt, held>>
  BY DEF apiVars, countVars, controllerVars, Next, User, vars, CreateGateway, DeleteGateway,
     EditGateway, GatewayStatus, CreateRoute, EditRoute, DeleteRoute, RouteStatus, Begin,
     EndpointStep, Deliver, Unconcerned, Release

LEMMA NextErs ==
    ASSUME TypeInv, [Next]_vars
    PROVE  ers' \in ERS \cup {None} /\ ReceiptBound(ers)'
<1>0. ers \in ERS \cup {None} /\ ReceiptBound(ers)
  BY DEF TypeInv, TypeOK, Bounded
<1>1. CASE UNCHANGED ers
  BY <1>0, <1>1 DEF ReceiptBound
<1>2. CASE Sync
  BY <1>2, SyncSteps
<1>3. CASE ers' = None
  BY <1>3 DEF ReceiptBound, Receipt
<1>4. CASE ers /= None /\ ers' = [ers EXCEPT !.ack = TRUE]
  <2>1. ers' \in ERS /\ ers' /= None /\ ers'.receipt = ers.receipt
    BY <1>0, <1>4 DEF ERS, None
  <2> QED
    BY <1>0, <1>4, <2>1 DEF ReceiptBound, Receipt
<1> QED
  BY <1>1, <1>2, <1>3, <1>4, EndpointSteps

\* An informer is as it was or as the API server is.
LEMMA CacheSteps ==
    ASSUME TypeInv, [Next]_vars
    PROVE  \/ cache' = cache
           \/ /\ UNCHANGED <<apiVars, countVars, controllerVars, held>>
              /\ cache' \in [gw : Gateway \cup {None}, routes : [Routes -> Route \cup {None}],
                             ers : ERS \cup {None}]
              /\ cache'.gw \in {cache.gw, gw}
              /\ cache'.routes \in {cache.routes, routes}
              /\ cache'.ers \in {cache.ers, ers}
<1> USE DEF apiVars, countVars, controllerVars
<1>1. ASSUME NEW k \in {"gw", "routes", "ers"}, Deliver(k)
      PROVE  /\ UNCHANGED <<apiVars, countVars, controllerVars, held>>
             /\ cache' \in [gw : Gateway \cup {None}, routes : [Routes -> Route \cup {None}],
                            ers : ERS \cup {None}]
             /\ cache'.gw \in {cache.gw, gw}
             /\ cache'.routes \in {cache.routes, routes}
             /\ cache'.ers \in {cache.ers, ers}
  <2>1. /\ UNCHANGED <<apiVars, countVars, controllerVars, held>>
        /\ cache' = [cache EXCEPT ![k] = Server[k]]
    BY <1>1 DEF Deliver
  <2>2. Server["gw"] = gw /\ Server["routes"] = routes /\ Server["ers"] = ers
    BY DEF Server
  <2> QED
    BY <2>1, <2>2 DEF TypeInv, TypeOK
<1>2. CASE ~\E k \in {"gw", "routes", "ers"} : Deliver(k)
  BY <1>2 DEF Next, User, vars, CreateGateway, DeleteGateway, EditGateway, GatewayStatus,
     CreateRoute, EditRoute, DeleteRoute, RouteStatus, Begin, EndpointStep, Sync,
     Unconcerned, Release
<1> QED
  BY <1>1, <1>2

LEMMA ControllerSteps ==
    ASSUME TypeInv, [Next]_vars
    PROVE  /\ pc' \in {"idle", "sync", "release"} /\ cur' \in Routes
           /\ rt' \in Route \cup {None} /\ held' \subseteq Routes \X Hosts
<1> USE DEF apiVars, countVars, controllerVars
<1>0. /\ pc \in {"idle", "sync", "release"} /\ cur \in Routes
      /\ rt \in Route \cup {None} /\ held \subseteq Routes \X Hosts
  BY DEF TypeInv, TypeOK
<1>1. ASSUME NEW r \in Routes, Begin(r)
      PROVE  /\ pc' \in {"idle", "sync", "release"} /\ cur' \in Routes
             /\ rt' \in Route \cup {None} /\ held' \subseteq Routes \X Hosts
  <2>1. Informer.routes[r] \in Route \cup {None}
    BY InformerReadable DEF Readable
  <2>2. rt' = None \/ rt' = Informer.routes[r] \/
           (Informer.routes[r] /= None /\ rt' = [Informer.routes[r] EXCEPT !.fin = TRUE])
    BY <1>1 DEF Begin, Live
  <2>3. rt' \in Route \cup {None}
    BY <2>1, <2>2 DEF Route
  <2> QED
    BY <1>0, <1>1, <2>3 DEF Begin
<1>2. CASE Sync
  <2>1. rt' \in {None, rt} /\ cur' = cur
    BY <1>2 DEF Sync, Publish, Retire, Goto
  <2> QED
    BY <1>0, <1>2, <2>1, SyncSteps
<1>3. CASE ~Sync /\ ~\E r \in Routes : Begin(r)
  BY <1>0, <1>3 DEF Next, User, vars, CreateGateway, DeleteGateway, EditGateway, GatewayStatus,
     CreateRoute, EditRoute, DeleteRoute, RouteStatus, EndpointStep, Deliver,
     Unconcerned, Release, Goto, Forget
<1> QED
  BY <1>1, <1>2, <1>3

LEMMA InitType == Init => TypeInv
<1> SUFFICES ASSUME Init PROVE TypeInv
  OBVIOUS
<1>1. /\ cache = [gw |-> None, routes |-> [r \in Routes |-> None], ers |-> None]
      /\ cur \in Routes
  BY GatewayParameters DEF Init, Server
<1>2. TypeOK
  BY <1>1, GatewayParameters DEF Init, TypeOK
<1> QED
  BY <1>1, <1>2 DEF Init, TypeInv, Observed, Bounded, GenBound, ReceiptBound, Receipt

LEMMA NextType == TypeInv /\ [Next]_vars => TypeInv'
<1> SUFFICES ASSUME TypeInv, [Next]_vars PROVE TypeInv'
  OBVIOUS
<1>1. cache' \in [gw : Gateway \cup {None}, routes : [Routes -> Route \cup {None}],
                  ers : ERS \cup {None}]
  BY CacheSteps DEF TypeInv, TypeOK
<1>2. TypeOK'
  BY <1>1, RouteSteps, GatewaySteps, NextErs, ControllerSteps DEF TypeOK
<1>3. Observed'
  BY RouteSteps, GatewaySteps DEF TypeInv, Observed, RouteChange, RouteKept, RouteCreated
<1>4. ASSUME NEW r \in Routes
      PROVE  GenBound(routes[r])' /\ GenBound(cache.routes[r])'
  <2>1. edits \in Nat /\ edits' \in Nat /\ edits <= edits'
    BY RouteSteps DEF TypeInv, TypeOK
  <2>2. \A t \in Route \cup {None} : t /= None => t.gen \in Nat
    BY DEF Route
  <2>3. routes[r] \in Route \cup {None} /\ cache.routes[r] \in Route \cup {None}
    BY DEF TypeInv, TypeOK
  <2>4. GenBound(routes[r])'
    BY <2>1, <2>2, <2>3, RouteSteps
       DEF TypeInv, Bounded, GenBound, RouteChange, RouteKept, RouteCreated
  <2>5. cache'.routes = cache.routes \/ (cache'.routes = routes /\ routes' = routes)
    BY CacheSteps DEF apiVars
  <2>6. GenBound(cache.routes[r])'
    BY <2>1, <2>2, <2>3, <2>5 DEF TypeInv, Bounded, GenBound
  <2> QED
    BY <2>4, <2>6
<1>5. ReceiptBound(ers)' /\ ReceiptBound(cache.ers)'
  <2>1. cache'.ers = cache.ers \/ cache'.ers = ers
    BY CacheSteps
  <2> QED
    BY <2>1, NextErs DEF TypeInv, Bounded, ReceiptBound
<1> QED
  BY <1>2, <1>3, <1>4, <1>5 DEF TypeInv, Bounded

\* Every reachable state is well typed: in particular a receipt never holds a
\* binding that nobody minted, for matchingBinding finds one when it must.
THEOREM TypeCorrect == Spec => []TypeOK
<1>1. TypeInv => TypeOK
  BY DEF TypeInv
<1> QED
  BY <1>1, InitType, NextType, PTL DEF Spec

-----------------------------------------------------------------------------
(* A hostname enters the ERS by acceptance.                                *)

\* The parents that accept a generation do so in a condition about it.
LEMMA AcceptedConditions ==
    ASSUME NEW t \in Route, AllParentRefsAccepted(t), NEW ref \in Refs
    PROVE  t.accepted[ref] = [status |-> "True", gen |-> t.gen]
<1>1. t.accepted[ref] \in Condition
  BY DEF Route
<1>2. t.accepted[ref].gen = t.gen /\ t.accepted[ref].status \notin {"none", "False"}
  BY DEF AllParentRefsAccepted, RouteAcceptance, Acceptance
<1> QED
  BY <1>1, <1>2 DEF Condition

LEMMA StepEnters ==
    ASSUME TypeInv, [Next]_vars, NEW h \in Published(ers)' \ Published(ers)
    PROVE  \E r \in Routes : Admitted(Informer, r, h)
<1>1. CASE UNCHANGED ers
  BY <1>1 DEF Published
<1>2. CASE ers' = None
  BY <1>2 DEF Published
<1>3. CASE ers /= None /\ ers' = [ers EXCEPT !.ack = TRUE]
  <2>1. ers \in ERS
    BY <1>3 DEF TypeInv, TypeOK
  <2>2. ers'.hosts = ers.hosts /\ ers' /= None
    BY <1>3, <2>1 DEF ERS, None
  <2> QED
    BY <1>3, <2>2 DEF Published
<1>4. CASE Sync
  <2> DEFINE e == Informer.ers
             g == Informer.gw
             rs == Informer.routes
             d == Desired(e, rs, g)
  <2>1. ers = e /\ ers' /= None /\ (d = None => ers /= None /\ ers'.hosts \in {{}, ers.hosts})
        /\ (d /= None => ers'.hosts = d.hosts)
    <3>1. ers \in ERS \cup {None} /\ e \in ERS \cup {None}
      BY InformerReadable DEF Readable, TypeInv, TypeOK
    <3>2. d = None => ers' = ers \/ ers'.hosts = {} \/ ers'.hosts = ers.hosts
      BY <1>4, <3>1 DEF Sync, Retire, ERS
    <3> QED
      BY <1>4, <3>2, SyncSteps DEF Published
  <2>2. Readable(e, rs, g)
    BY InformerReadable
  <2>3. d /= None /\ h \in HostsFor(e, rs, g) /\ h \notin Published(e)
    BY <2>1, <2>2, DesiredTyped DEF Published
  <2>4. g /= None /\ ~g.deleting /\ ~GatewayRejected(g)
    BY <2>3, DesiredIs
  <2>5. PICK r \in Routes : /\ Live(rs[r]) /\ h \in rs[r].hosts
                            /\ AllParentRefsAccepted(rs[r]) /\ g.addrs /= {}
    BY <2>2, <2>3, <2>4, HostHasReceipt
  <2>6. rs[r] \in Route
    BY <2>2, <2>5 DEF Readable, Live
  <2>7. \A ref \in Refs : rs[r].accepted[ref] = [status |-> "True", gen |-> rs[r].gen]
    BY <2>5, <2>6, AcceptedConditions
  <2>8. g.accepted /= [status |-> "False", gen |-> g.gen]
    BY <2>4 DEF GatewayRejected, Acceptance
  <2> QED
    BY <2>4, <2>5, <2>7, <2>8 DEF Admitted, Live
<1> QED
  BY <1>1, <1>2, <1>3, <1>4, EndpointSteps

\* Whatever is stale, crashes or comes in between, applyGatewayEndpointRecordSets
\* publishes a new hostname only for a route that every parent accepts at its
\* generation, as one reading of the API shows it.
THEOREM PublicationNeedsAcceptance == Spec => EntersByAcceptance
<1>1. TypeInv /\ [Next]_vars =>
          [\A h \in Published(ers)' \ Published(ers) :
               \E r \in Routes : Admitted(Informer, r, h)]_vars
  BY StepEnters
<1> QED
  BY <1>1, InitType, NextType, PTL DEF Spec, EntersByAcceptance

-----------------------------------------------------------------------------
(* What is held stays published.                                           *)

\* A held pair survives whatever leaves the ERS alone and refuses nothing.
LEMMA SupportKept ==
    ASSUME NEW p \in Routes \X Hosts, Supported(p), UNCHANGED <<ers, cache>>,
           gw' /= None, ~gw'.deleting, ~GatewayRejected(gw'),
           gw'.uid = gw.uid, gw'.config = gw.config,
           Live(routes'[p[1]]), p[2] \in routes'[p[1]].hosts,
           RouteAcceptance(routes'[p[1]], "gw") /= "Rejected",
           routes'[p[1]].uid = routes[p[1]].uid
    PROVE  Supported(p)'
<1>1. GoodGateway(gw)' /\ GoodGateway(Informer.gw)'
  BY InformerReads, InformerReadsNext DEF Supported, GoodGateway, ReadsAre
<1>2. GoodRoute(routes[p[1]], p)' /\ GoodRoute(Informer.routes[p[1]], p)'
  BY InformerReads, InformerReadsNext DEF Supported, GoodRoute, ReadsAre
<1>3. GoodReceipt(p)'
  BY DEF Supported, GoodReceipt
<1> QED
  BY <1>1, <1>2, <1>3 DEF Supported

LEMMA UserSupport ==
    ASSUME TypeInv, HeldSupported, User
    PROVE  HeldSupported'
<1> USE DEF countVars, controllerVars
<1> SUFFICES ASSUME NEW p \in held' PROVE Supported(p)'
  BY DEF HeldSupported
<1>0. /\ routes \in [Routes -> Route \cup {None}] /\ gw \in Gateway \cup {None}
      /\ held \subseteq Routes \X Hosts /\ Observed
  BY DEF TypeInv, TypeOK
<1>1. held' \subseteq held /\ UNCHANGED <<ers, cache>>
  BY DEF User, Forget, CreateGateway, DeleteGateway, EditGateway, GatewayStatus, CreateRoute,
     EditRoute, DeleteRoute, RouteStatus
<1>2. p \in held /\ p \in Routes \X Hosts /\ p = <<p[1], p[2]>> /\ Supported(p)
      /\ p[1] \in Routes /\ p[2] \in Hosts
  BY <1>0, <1>1 DEF HeldSupported
<1>3. /\ gw /= None /\ ~gw.deleting /\ ~GatewayRejected(gw)
      /\ Live(routes[p[1]]) /\ p[2] \in routes[p[1]].hosts
      /\ RouteAcceptance(routes[p[1]], "gw") /= "Rejected"
      /\ routes[p[1]] /= None
  BY <1>2 DEF Supported, GoodGateway, GoodRoute, Live
<1>4. routes[p[1]] \in Route /\ gw \in Gateway
  BY <1>0, <1>2, <1>3
<1>5. CASE UNCHANGED <<gw, routes>>
  BY <1>1, <1>2, <1>3, <1>5, SupportKept
<1>6. ASSUME NEW c \in Configs, CreateGateway(c)
      PROVE  FALSE
  BY <1>3, <1>6 DEF CreateGateway
<1>7. CASE DeleteGateway
  BY <1>2, <1>7 DEF DeleteGateway, Forget
<1>8. ASSUME NEW c \in Configs, EditGateway(c)
      PROVE  Supported(p)'
  <2>1. /\ gw' = [gw EXCEPT !.config = c, !.gen = gw.gen + 1]
        /\ UNCHANGED routes /\ held' = held \ (IF c /= gw.config THEN held ELSE {})
    BY <1>8 DEF EditGateway, Forget
  <2>2. c = gw.config
    BY <1>2, <2>1
  <2>3. /\ gw.gen \in Nat /\ gw.gen + 1 \in Nat /\ gw.accepted.gen \in Nat
        /\ gw.accepted.gen <= gw.gen
    BY <1>0, <1>3, <1>4 DEF Gateway, Condition, Observed
  <2>4. /\ gw' \in Gateway /\ gw' /= None /\ gw'.gen = gw.gen + 1
        /\ gw'.deleting = gw.deleting /\ gw'.uid = gw.uid /\ gw'.config = gw.config
        /\ gw'.accepted = gw.accepted
    <3>1. gw' \in Gateway /\ gw'.gen = gw.gen + 1
      BY <1>4, <2>1, <2>3 DEF Gateway
    <3>2. /\ gw'.deleting = gw.deleting /\ gw'.uid = gw.uid /\ gw'.config = c
          /\ gw'.accepted = gw.accepted
      BY <1>4, <2>1 DEF Gateway
    <3> QED
      BY <2>2, <3>1, <3>2 DEF Gateway, None
  <2>5. ~GatewayRejected(gw')
    BY <2>3, <2>4 DEF GatewayRejected, Acceptance
  <2> QED
    BY <1>1, <1>2, <1>3, <2>1, <2>4, <2>5, SupportKept
<1>9. ASSUME NEW as \in SUBSET Addrs, NEW s \in {"True", "False"}, GatewayStatus(as, s)
      PROVE  Supported(p)'
  <2>1. /\ gw' = [gw EXCEPT !.addrs = as, !.accepted = [status |-> s, gen |-> gw.gen]]
        /\ UNCHANGED routes /\ held' = held \ (IF s = "False" THEN held ELSE {})
    BY <1>9 DEF GatewayStatus, Forget
  <2>2. s = "True"
    BY <1>2, <2>1
  <2>3. gw.gen \in Nat /\ [status |-> s, gen |-> gw.gen] \in Condition
    BY <1>4 DEF Gateway, Condition
  <2>4. /\ gw' \in Gateway /\ gw' /= None /\ gw'.gen = gw.gen
        /\ gw'.deleting = gw.deleting /\ gw'.uid = gw.uid /\ gw'.config = gw.config
        /\ gw'.accepted = [status |-> s, gen |-> gw.gen]
    BY <1>4, <2>1, <2>3 DEF Gateway, None
  <2>5. ~GatewayRejected(gw')
    BY <2>2, <2>4 DEF GatewayRejected, Acceptance
  <2> QED
    BY <1>1, <1>2, <1>3, <2>1, <2>4, <2>5, SupportKept
<1>10. ASSUME NEW r \in Routes, NEW hs \in SUBSET Hosts, CreateRoute(r, hs)
       PROVE  Supported(p)'
  <2>1. r /= p[1]
    BY <1>3, <1>10 DEF CreateRoute
  <2>2. routes'[p[1]] = routes[p[1]] /\ UNCHANGED gw
    BY <1>0, <1>2, <1>10, <2>1 DEF CreateRoute
  <2> QED
    BY <1>1, <1>2, <1>3, <2>2, SupportKept
<1>11. ASSUME NEW r \in Routes, NEW hs \in SUBSET Hosts, EditRoute(r, hs)
       PROVE  Supported(p)'
  <2>1. /\ routes' = [routes EXCEPT ![r] = [routes[r] EXCEPT !.hosts = hs, !.gen = @ + 1]]
        /\ UNCHANGED gw /\ held' = held \ ({r} \X (Hosts \ hs))
    BY <1>11 DEF EditRoute, Forget
  <2>2. CASE r /= p[1]
    <3>1. routes'[p[1]] = routes[p[1]]
      BY <1>0, <1>2, <2>1, <2>2
    <3> QED
      BY <1>1, <1>2, <1>3, <2>1, <3>1, SupportKept
  <2>3. CASE r = p[1]
    <3>1. p[2] \in hs
      BY <1>2, <2>1, <2>3
    <3>2. routes'[p[1]] = [routes[r] EXCEPT !.hosts = hs, !.gen = routes[r].gen + 1]
      BY <1>0, <2>1, <2>3
    <3>3. /\ routes[r].gen \in Nat /\ routes[r].gen + 1 \in Nat /\ routes[r].accepted["gw"].gen \in Nat
          /\ routes[r].accepted["gw"].gen <= routes[r].gen
      BY <1>0, <1>3, <1>4, <2>3, GatewayParameters DEF Route, Condition, Observed
    <3>4. /\ routes'[p[1]] \in Route /\ routes'[p[1]].uid = routes[r].uid
          /\ routes'[p[1]].hosts = hs /\ routes'[p[1]].gen = routes[r].gen + 1
          /\ routes'[p[1]].deleting = routes[r].deleting
          /\ routes'[p[1]].accepted = routes[r].accepted
      <4>1. routes[r] \in Route
        BY <1>4, <2>3
      <4>2. routes'[p[1]] \in Route /\ routes'[p[1]].gen = routes[r].gen + 1
        BY <3>2, <3>3, <4>1 DEF Route
      <4>3. /\ routes'[p[1]].uid = routes[r].uid /\ routes'[p[1]].hosts = hs
            /\ routes'[p[1]].deleting = routes[r].deleting
            /\ routes'[p[1]].accepted = routes[r].accepted
        BY <3>2, <4>1 DEF Route
      <4> QED
        BY <4>2, <4>3
    <3>5. Live(routes'[p[1]])
      BY <1>3, <2>3, <3>4 DEF Live, Route, None
    <3>6. RouteAcceptance(routes'[p[1]], "gw") /= "Rejected"
      BY <3>3, <3>4 DEF RouteAcceptance, Acceptance
    <3> QED
      BY <1>1, <1>2, <1>3, <2>1, <2>3, <3>1, <3>4, <3>5, <3>6, SupportKept
  <2> QED
    BY <2>2, <2>3
<1>12. ASSUME NEW r \in Routes, DeleteRoute(r)
       PROVE  Supported(p)'
  <2>1. held' = held \ ({r} \X Hosts) /\ UNCHANGED gw
        /\ \E x : routes' = [routes EXCEPT ![r] = x]
    BY <1>12 DEF DeleteRoute, Forget
  <2>2. r /= p[1]
    BY <1>2, <2>1
  <2>3. routes'[p[1]] = routes[p[1]]
    BY <1>0, <1>2, <2>1, <2>2
  <2> QED
    BY <1>1, <1>2, <1>3, <2>1, <2>3, SupportKept
<1>13. ASSUME NEW r \in Routes, NEW ref \in Refs, NEW s \in {"True", "False"},
              RouteStatus(r, ref, s)
       PROVE  Supported(p)'
  <2> DEFINE c == [status |-> s, gen |-> routes[r].gen]
  <2>1. /\ routes' = [routes EXCEPT ![r] = [routes[r] EXCEPT !.accepted[ref] = c]]
        /\ UNCHANGED gw
        /\ held' = held \ (IF s = "False" /\ ref = "gw" THEN {r} \X Hosts ELSE {})
    BY <1>13 DEF RouteStatus, Forget
  <2>2. CASE r /= p[1]
    <3>1. routes'[p[1]] = routes[p[1]]
      BY <1>0, <1>2, <2>1, <2>2
    <3> QED
      BY <1>1, <1>2, <1>3, <2>1, <3>1, SupportKept
  <2>3. CASE r = p[1]
    <3>1. ~(s = "False" /\ ref = "gw")
      BY <1>2, <2>1, <2>3
    <3>2. routes[r].gen \in Nat /\ c \in Condition
      BY <1>4, <2>3 DEF Route, Condition
    <3>3. routes'[p[1]] = [routes[r] EXCEPT !.accepted[ref] = c]
      BY <1>0, <2>1, <2>3
    <3>4. /\ routes'[p[1]] \in Route /\ routes'[p[1]].uid = routes[r].uid
          /\ routes'[p[1]].hosts = routes[r].hosts /\ routes'[p[1]].gen = routes[r].gen
          /\ routes'[p[1]].deleting = routes[r].deleting
          /\ routes'[p[1]].accepted = [routes[r].accepted EXCEPT ![ref] = c]
      BY <1>4, <2>3, <3>2, <3>3 DEF Route
    <3>5. Live(routes'[p[1]])
      BY <1>3, <2>3, <3>4 DEF Live, Route, None
    <3>6. routes'[p[1]].accepted["gw"] = IF ref = "gw" THEN c ELSE routes[r].accepted["gw"]
      BY <1>4, <2>3, <3>4, GatewayParameters DEF Route
    <3>7. RouteAcceptance(routes'[p[1]], "gw") /= "Rejected"
      BY <1>3, <2>3, <3>1, <3>4, <3>6 DEF RouteAcceptance, Acceptance
    <3> QED
      BY <1>1, <1>2, <1>3, <2>1, <2>3, <3>4, <3>5, <3>7, SupportKept
  <2> QED
    BY <2>2, <2>3
<1> QED
  BY <1>6, <1>7, <1>8, <1>9, <1>10, <1>11, <1>12, <1>13 DEF User

\* What the controller computes keeps a held pair, and its receipt.
LEMMA HeldComputed ==
    ASSUME TypeInv, AllowsUnknown, NEW p \in Routes \X Hosts, Supported(p),
           ers = Informer.ers
    PROVE  LET e == Informer.ers
               rs == Informer.routes
               g == Informer.gw
           IN  /\ p[2] \in HostsFor(e, rs, g)
               /\ \E b \in ReceiptFor(e, rs, g) :
                     b.route = p[1] /\ b.host = p[2] /\ b.uid = routes[p[1]].uid
<1> DEFINE e == Informer.ers
           rs == Informer.routes
           g == Informer.gw
           t == rs[p[1]]
<1>1. /\ e /= None /\ p[2] \in Published(e)
      /\ \A b \in Receipt(e) : b.gateway = g.uid /\ b.config = g.config
      /\ Live(t) /\ p[2] \in t.hosts /\ RouteAcceptance(t, "gw") /= "Rejected"
      /\ t.uid = routes[p[1]].uid
  BY DEF Supported, GoodGateway, GoodRoute, GoodReceipt, Published, Receipt
<1>2. PICK b \in Receipt(e) : b.route = p[1] /\ b.host = p[2] /\ b.uid = t.uid
  BY <1>1 DEF Supported, GoodReceipt, Receipt
<1>3. b \in Matches(e, p[1], t, g, p[2])
  BY <1>1, <1>2 DEF Matches
<1>4. ~Conflicts(e, p[1], t, g, p[2])
  BY <1>1 DEF Conflicts
<1>5. p \in Claimants(rs)
  BY <1>1 DEF Claimants
<1>6. CASE AllParentRefsAccepted(t)
  <2>1. p \in Accepted(e, rs, g) /\ p \in Receipted(e, rs, g)
    BY <1>3, <1>4, <1>5, <1>6 DEF Accepted, Accepts, Receipted
  <2>2. /\ BindingOf(p[1], t, g, p[2]) \in ReceiptFor(e, rs, g)
        /\ p[2] \in HostsFor(e, rs, g)
    BY <2>1 DEF ReceiptFor, HostsFor, HostsOf
  <2> QED
    BY <1>1, <2>2 DEF BindingOf
<1>7. CASE ~AllParentRefsAccepted(t)
  <2>1. p \in Retained(e, rs, g) /\ p \in Receipted(e, rs, g)
    BY <1>1, <1>3, <1>5, <1>7 DEF Retained, Retains, Receipted
  <2>2. /\ Match(e, p[1], t, g, p[2]) \in ReceiptFor(e, rs, g)
        /\ p[2] \in HostsFor(e, rs, g)
    BY <2>1 DEF ReceiptFor, HostsFor, HostsOf
  <2>3. Match(e, p[1], t, g, p[2]) \in Matches(e, p[1], t, g, p[2])
    BY <1>3, MatchFound, InformerReadable DEF Readable
  <2> QED
    BY <1>1, <1>7, <2>2, <2>3 DEF Matches
<1> QED
  BY <1>6, <1>7

LEMMA SyncSupport ==
    ASSUME TypeInv, AllowsUnknown, HeldSupported, Sync
    PROVE  HeldSupported'
<1> DEFINE e == Informer.ers
           rs == Informer.routes
           g == Informer.gw
           d == Desired(e, rs, g)
<1> SUFFICES ASSUME NEW p \in held' PROVE Supported(p)'
  BY DEF HeldSupported
<1>1. /\ UNCHANGED <<gw, routes, cache>>
      /\ p \in Routes \X Hosts
      /\ held \subseteq Routes \X Hosts
  BY SyncSteps DEF Sync, TypeInv, TypeOK
<1>2. ReadsAre /\ ReadsAre'
  BY InformerReads, InformerReadsNext
<1>3. Informer'.gw = g /\ Informer'.routes = rs
  BY <1>1, <1>2 DEF ReadsAre
<1>4. ASSUME p \in held
      PROVE  /\ Supported(p)
             /\ GoodGateway(gw)' /\ GoodGateway(Informer.gw)'
             /\ GoodRoute(routes[p[1]], p)' /\ GoodRoute(Informer.routes[p[1]], p)'
  BY <1>1, <1>3, <1>4 DEF HeldSupported, Supported, GoodGateway, GoodRoute
<1>5. CASE ers' = ers /\ held' = held
  BY <1>4, <1>5, <1>1 DEF Supported, GoodReceipt
<1>6. CASE ers = e /\ d = None /\ held' = held
  <2>1. p[2] \in HostsFor(e, rs, g)
    BY <1>1, <1>4, <1>6, HeldComputed
  <2>2. /\ g /= None /\ ~g.deleting /\ ~GatewayRejected(g)
        /\ e /= None /\ e.targets /= {}
    BY <1>4, <1>6 DEF Supported, GoodGateway, GoodReceipt
  <2>3. d /= None
    BY <2>1, <2>2, DesiredIs
  <2> QED
    BY <1>6, <2>3
<1>7. CASE /\ ers = e /\ d /= None
           /\ ers' /= None /\ ~ers'.deleting
           /\ ers'.hosts = d.hosts /\ ers'.targets = d.targets
           /\ ers'.receipt = d.receipt
  <2>1. Readable(e, rs, g) /\ g /= None /\ ~g.deleting /\ ~GatewayRejected(g)
    BY <1>7, DesiredIs, InformerReadable
  <2>2. /\ ers'.targets /= {}
        /\ ers'.hosts = HostsFor(e, rs, g)
        /\ ers'.receipt = {b \in ReceiptFor(e, rs, g) : b.host \in HostsFor(e, rs, g)}
    BY <1>7, <2>1, DesiredTyped
  <2>3. \A b \in ers'.receipt : Vouches(b, rs, g)
    BY <2>1, <2>2, ReceiptVouches
  <2>4. CASE p \in held
    <3>1. /\ p[2] \in HostsFor(e, rs, g)
          /\ \E b \in ReceiptFor(e, rs, g) :
                b.route = p[1] /\ b.host = p[2] /\ b.uid = routes[p[1]].uid
      BY <1>1, <1>4, <1>7, <2>4, HeldComputed
    <3>2. g.uid = gw.uid /\ g.config = gw.config
      BY <1>4, <2>4 DEF Supported, GoodGateway
    <3>3. GoodReceipt(p)'
      BY <1>1, <1>7, <2>2, <2>3, <3>1, <3>2 DEF GoodReceipt, Vouches
    <3> QED
      BY <1>4, <2>4, <3>3 DEF Supported
  <2>5. CASE p \notin held
    <3>1. Publish(e, d)
      BY <1>7 DEF Sync
    <3>2. PICK b \in d.receipt :
              /\ gw = g /\ routes[p[1]] = rs[p[1]]
              /\ b.route = p[1] /\ b.host = p[2] /\ b.uid = routes[p[1]].uid
      BY <2>5, <3>1 DEF Publish
    <3>3. Vouches(b, rs, g) /\ p[2] \in HostsFor(e, rs, g)
      BY <1>7, <2>2, <2>3, <3>2
    <3>4. GoodGateway(gw)' /\ GoodGateway(Informer.gw)'
      BY <1>1, <1>3, <2>1, <3>2 DEF GoodGateway
    <3>5. GoodRoute(routes[p[1]], p)' /\ GoodRoute(Informer.routes[p[1]], p)'
      BY <1>1, <1>3, <3>2, <3>3 DEF GoodRoute, Vouches
    <3>6. GoodReceipt(p)'
      BY <1>1, <1>7, <2>2, <2>3, <3>2, <3>3 DEF GoodReceipt, Vouches
    <3> QED
      BY <3>4, <3>5, <3>6 DEF Supported
  <2> QED
    BY <2>4, <2>5
<1> QED
  BY <1>5, <1>6, <1>7, SyncSteps

\* A reconcile that is about to release a route has read it as deleting.
ReleasesDeleted == pc = "release" => rt /= None /\ rt.deleting

LEMMA NextReleasesDeleted ==
    ASSUME TypeInv, ReleasesDeleted, [Next]_vars
    PROVE  ReleasesDeleted'
<1> USE DEF ReleasesDeleted, apiVars, countVars, controllerVars
<1>1. CASE Sync
  <2>1. pc' = "release" => rt' = rt
    BY <1>1 DEF Sync, Publish, Retire, Goto
  <2> QED
    BY <1>1, <2>1, SyncSteps
<1>2. CASE ~Sync
  BY <1>2 DEF Next, User, vars, CreateGateway, DeleteGateway, EditGateway, GatewayStatus,
     CreateRoute, EditRoute, DeleteRoute, RouteStatus, EndpointStep, Deliver, Begin,
     Unconcerned, Release, Goto
<1> QED
  BY <1>1, <1>2

LEMMA NextSupport ==
    ASSUME TypeInv, AllowsUnknown, ReleasesDeleted, HeldSupported, [Next]_vars
    PROVE  HeldSupported'
<1> USE DEF apiVars, countVars, controllerVars
<1>0. /\ routes \in [Routes -> Route \cup {None}]
      /\ ers \in ERS \cup {None}
      /\ \A p \in held : /\ p \in Routes \X Hosts /\ p[1] \in Routes /\ Supported(p)
                         /\ gw /= None /\ ~gw.deleting /\ ~GatewayRejected(gw)
                         /\ Live(routes[p[1]]) /\ p[2] \in routes[p[1]].hosts
                         /\ RouteAcceptance(routes[p[1]], "gw") /= "Rejected"
                         /\ ers /= None /\ ~ers.deleting /\ p[2] \in ers.hosts
  BY DEF TypeInv, TypeOK, HeldSupported, Supported, GoodGateway, GoodRoute, GoodReceipt
<1>1. CASE User
  BY <1>1, UserSupport
<1>2. CASE EndpointStep
  BY <1>0, <1>2 DEF EndpointStep, HeldSupported
<1>3. ASSUME NEW k \in {"gw", "routes", "ers"}, Deliver(k)
      PROVE  HeldSupported'
  <2>1. UNCHANGED <<gw, routes, ers, held>>
    BY <1>3 DEF Deliver
  <2>2. /\ cache'.gw \in {cache.gw, gw}
        /\ cache'.routes \in {cache.routes, routes}
    BY CacheSteps
  <2>3. Informer'.gw \in {Informer.gw, gw} /\ Informer'.routes \in {Informer.routes, routes}
    BY <2>1, <2>2, InformerReads, InformerReadsNext DEF ReadsAre
  <2>4. ASSUME NEW p \in held
        PROVE  Supported(p)'
    <3>1. GoodGateway(gw)' /\ GoodGateway(Informer.gw)'
      BY <1>0, <2>1, <2>3 DEF Supported, GoodGateway
    <3>2. GoodRoute(routes[p[1]], p)' /\ GoodRoute(Informer.routes[p[1]], p)'
      BY <1>0, <2>1, <2>3 DEF Supported, GoodRoute
    <3>3. GoodReceipt(p)'
      BY <1>0, <2>1 DEF Supported, GoodReceipt
    <3> QED
      BY <3>1, <3>2, <3>3 DEF Supported
  <2> QED
    BY <2>1, <2>4 DEF HeldSupported
<1>4. ASSUME NEW r \in Routes, Begin(r)
      PROVE  HeldSupported'
  <2>1. UNCHANGED <<gw, ers, cache, held>>
        /\ (routes' = routes \/ routes' = [routes EXCEPT ![r] = [routes[r] EXCEPT !.fin = TRUE]])
    BY <1>4 DEF Begin
  <2>2. ASSUME NEW p \in held
        PROVE  Supported(p)'
    <3>1. routes[p[1]] \in Route
      BY <1>0 DEF Live
    <3>2. routes'[p[1]] = routes[p[1]] \/ routes'[p[1]] = [routes[p[1]] EXCEPT !.fin = TRUE]
      BY <1>0, <2>1
    <3>3. /\ routes'[p[1]] \in Route
          /\ routes'[p[1]].uid = routes[p[1]].uid /\ routes'[p[1]].hosts = routes[p[1]].hosts
          /\ routes'[p[1]].gen = routes[p[1]].gen
          /\ routes'[p[1]].deleting = routes[p[1]].deleting
          /\ routes'[p[1]].accepted = routes[p[1]].accepted
      BY <3>1, <3>2 DEF Route
    <3>4. Live(routes'[p[1]]) /\ RouteAcceptance(routes'[p[1]], "gw") /= "Rejected"
      BY <1>0, <3>3 DEF Live, Route, None, RouteAcceptance
    <3> QED
      BY <1>0, <2>1, <3>3, <3>4, SupportKept
  <2> QED
    BY <2>1, <2>2 DEF HeldSupported
<1>5. CASE Sync
  BY <1>5, SyncSupport
<1>6. CASE Unconcerned \/ UNCHANGED vars
  <2>1. UNCHANGED <<gw, routes, ers, cache, held>>
    BY <1>6 DEF Unconcerned, vars
  <2> QED
    BY <1>0, <2>1, SupportKept DEF HeldSupported
<1>7. CASE Release
  <2>1. UNCHANGED <<gw, ers, cache, held>>
        /\ routes' = IF routes[cur] = rt THEN [routes EXCEPT ![cur] = None] ELSE routes
    BY <1>7 DEF Release
  <2>3. rt /= None /\ rt.deleting
    BY <1>7 DEF Release, ReleasesDeleted
  <2>2. ASSUME NEW p \in held
        PROVE  Supported(p)'
    <3>1. routes[p[1]] /= rt
      BY <1>0, <2>3 DEF Live
    <3>2. CASE routes[cur] = rt
      <4>1. p[1] /= cur /\ p[1] \in Routes
        BY <1>0, <3>1, <3>2
      <4>2. routes' = [routes EXCEPT ![cur] = None]
        BY <2>1, <3>2
      <4>3. routes'[p[1]] = routes[p[1]]
        BY <1>0, <4>1, <4>2
      <4> QED
        BY <1>0, <2>1, <4>3, SupportKept
    <3>3. CASE routes[cur] /= rt
      BY <1>0, <2>1, <3>3, SupportKept
    <3> QED
      BY <3>2, <3>3
  <2> QED
    BY <2>1, <2>2 DEF HeldSupported
<1> QED
  BY <1>1, <1>2, <1>3, <1>4, <1>5, <1>6, <1>7 DEF Next

\* A published hostname whose route nobody refuses stays published (the receipts
\* of receipt.go), through generations nobody has looked at, lost addresses,
\* stale reads of every kind and other routes that come and go, whenever the
\* listener allows retention while acceptance is unknown.
THEOREM HeldIsRetained == AllowsUnknown => (Spec => []HeldInvariant)
<1> SUFFICES ASSUME AllowsUnknown PROVE Spec => []HeldInvariant
  OBVIOUS
<1>1. Init => TypeInv /\ ReleasesDeleted /\ HeldSupported
  BY InitType DEF Init, ReleasesDeleted, HeldSupported
<1>2. TypeInv /\ ReleasesDeleted /\ HeldSupported /\ [Next]_vars =>
          (TypeInv /\ ReleasesDeleted /\ HeldSupported)'
  BY NextType, NextReleasesDeleted, NextSupport
<1>3. TypeInv /\ HeldSupported => HeldInvariant
  BY DEF TypeInv, HeldSupported, Supported, GoodReceipt, HeldInvariant, HeldStaysPublished,
     Published
<1> QED
  BY <1>1, <1>2, <1>3, PTL DEF Spec

-----------------------------------------------------------------------------
(* A deleted route is released after its withdrawal, when the ERS that is
   read is the one that is there.                                           *)

LEMMA NextDeletionStays ==
    ASSUME TypeInv, DeletionStays, [Next]_vars
    PROVE  DeletionStays'
<1> SUFFICES ASSUME NEW r \in Routes
             PROVE  /\ routes'[r] /= None => routes'[r].uid <= uids'[r]
                    /\ cache'.routes[r] /= None =>
                          /\ cache'.routes[r].uid <= uids'[r]
                          /\ (/\ cache'.routes[r].deleting
                              /\ routes'[r] /= None
                              /\ routes'[r].uid = cache'.routes[r].uid) => routes'[r].deleting
  BY DEF DeletionStays
<1>1. /\ uids[r] \in Nat
      /\ routes[r] /= None => routes[r].uid \in Nat
      /\ cache.routes[r] /= None => cache.routes[r].uid \in Nat
  BY GatewayParameters DEF TypeInv, TypeOK, Route
<1>2. RouteChange(r)
  BY RouteSteps
<1>3. cache'.routes = cache.routes \/ (cache'.routes = routes /\ UNCHANGED <<routes, uids>>)
  BY CacheSteps DEF apiVars, countVars
<1> QED
  BY <1>1, <1>2, <1>3 DEF DeletionStays, RouteChange, RouteKept, RouteCreated

\* The route the controller reconciles stays gone, or deleted, or is another one.
LEMMA StillThereBefore ==
    ASSUME TypeInv, DeletedIsOut, [Next]_vars, UNCHANGED <<cur, rt>>, StillThere'
    PROVE  /\ StillThere
           /\ routes[cur].deleting => routes'[cur].deleting
<1>1. cur \in Routes /\ uids[cur] \in Nat /\ (rt /= None => rt.uid \in Nat)
  BY GatewayParameters DEF TypeInv, TypeOK, Route
<1>2. RouteChange(cur)
  BY <1>1, RouteSteps
<1> QED
  BY <1>1, <1>2 DEF RouteChange, RouteKept, RouteCreated, StillThere, DeletedIsOut

LEMMA NextDeletedIsOut ==
    ASSUME TypeInv, DeletionStays, DeletedIsOut, [Next]_vars
    PROVE  DeletedIsOut'
<1> USE DEF apiVars, countVars, controllerVars
<1>0. /\ ReadsAre /\ ReadsAre'
      /\ routes \in [Routes -> Route \cup {None}]
      /\ \A r \in Routes : RouteChange(r) /\ uids[r] \in Nat
  BY InformerReads, InformerReadsNext, RouteSteps, GatewayParameters DEF TypeInv, TypeOK
<1>1. ASSUME NEW r \in Routes, Begin(r)
      PROVE  DeletedIsOut'
  <2> DEFINE t == Informer.routes[r]
  <2>1. /\ t \in Route \cup {None}
        /\ t /= None => t.uid <= uids[r]
        /\ (t /= None /\ t.deleting /\ routes[r] /= None /\ routes[r].uid = t.uid)
              => routes[r].deleting
    BY <1>0, InformerReadable DEF DeletionStays, ReadsAre, Readable
  <2>2. /\ cur' = r /\ UNCHANGED <<uids, cache>>
        /\ rt' = None \/ rt' = t \/ (Live(t) /\ rt' = [t EXCEPT !.fin = TRUE])
        /\ ~Live(t) => routes' = routes
    BY <1>1 DEF Begin
  <2>3. rt' /= None => /\ t /= None
                       /\ rt'.uid = t.uid
                       /\ rt'.deleting => t.deleting
    BY <2>1, <2>2 DEF Live, Route
  <2>4. (rt' /= None /\ rt'.deleting) => ~Live(t) /\ routes' = routes
    BY <2>2, <2>3 DEF Live
  <2>5. routes' = routes => Informer'.routes = Informer.routes
    BY <1>0, <2>2 DEF ReadsAre
  <2> QED
    BY <2>1, <2>2, <2>3, <2>4, <2>5 DEF DeletedIsOut, StillThere
<1>2. CASE rt' = None
  BY <1>2 DEF DeletedIsOut, StillThere
<1>3. CASE UNCHANGED <<cur, rt>> /\ (pc' /= "idle" => pc /= "idle")
  <2>1. rt' /= None => rt'.uid <= uids'[cur']
    <3>1. cur \in Routes /\ (rt /= None => rt.uid \in Nat)
      BY DEF TypeInv, TypeOK, Route
    <3> QED
      BY <1>0, <1>3, <3>1 DEF DeletedIsOut, RouteChange, RouteKept, RouteCreated
  <2>2. ASSUME pc' /= "idle", StillThere', rt'.deleting
        PROVE  routes'[cur'].deleting /\ ~Live(Informer'.routes[cur'])
    <3>1. StillThere /\ routes[cur].deleting /\ ~Live(Informer.routes[cur])
          /\ routes'[cur].deleting
      BY <1>3, <2>2, StillThereBefore DEF DeletedIsOut
    <3>2. cache'.routes \in {cache.routes, routes}
      BY CacheSteps
    <3> QED
      BY <1>0, <1>3, <3>1, <3>2 DEF ReadsAre, Live
  <2> QED
    BY <2>1, <2>2 DEF DeletedIsOut
<1>4. CASE Sync \/ Unconcerned \/ Release
  BY <1>2, <1>3, <1>4 DEF Sync, Publish, Retire, Unconcerned, Release, Goto
<1>5. CASE ~(Sync \/ Unconcerned \/ Release) /\ ~\E r \in Routes : Begin(r)
  BY <1>3, <1>5 DEF Next, User, vars, CreateGateway, DeleteGateway, EditGateway, GatewayStatus,
     CreateRoute, EditRoute, DeleteRoute, RouteStatus, EndpointStep, Deliver
<1> QED
  BY <1>1, <1>4, <1>5

LEMMA NextReleaseIsClean ==
    ASSUME TypeInv, DeletedIsOut, ReleasesDeleted, ReleaseIsClean, "ers" \notin Lag, [Next]_vars
    PROVE  ReleaseIsClean'
<1> USE DEF apiVars, countVars, controllerVars
<1> SUFFICES ASSUME pc' = "release", StillThere', NEW h \in Published(ers)'
             PROVE  \/ ers'.deleting
                    \/ \E b \in Receipt(ers') : b.host = h /\ b.route /= cur'
  BY DEF ReleaseIsClean
<1>1. CASE Sync
  <2> DEFINE e == Informer.ers
             rs == Informer.routes
             g == Informer.gw
             d == Desired(e, rs, g)
  <2>1. e = ers /\ Readable(e, rs, g)
    BY InformerReads, InformerReadable DEF ReadsAre
  <2>2. UNCHANGED <<cur, rt, routes>> /\ pc = "sync"
    BY <1>1 DEF Sync, Publish, Retire, Goto
  <2>3. CASE ers' = ers /\ (pc' = "release" => e = None \/ e.deleting)
    BY <2>1, <2>3 DEF Published
  <2>4. CASE d /= None /\ ers' /= None /\ ers'.hosts = d.hosts /\ ers'.receipt = d.receipt
    <3>1. /\ h \in HostsFor(e, rs, g) /\ g /= None
          /\ ers'.receipt = {b \in ReceiptFor(e, rs, g) : b.host \in HostsFor(e, rs, g)}
      BY <2>1, <2>4, DesiredTyped, DesiredIs DEF Published
    <3>2. PICK b \in ReceiptFor(e, rs, g) : b.host = h
      BY <2>1, <3>1, HostHasReceipt
    <3>3. Live(rs[b.route])
      BY <2>1, <3>1, <3>2, ReceiptVouches DEF Vouches
    <3>4. ~Live(rs[cur])
      <4>1. StillThere /\ rt.deleting
        BY <1>1, <2>2, SyncSteps DEF StillThere
      <4> QED
        BY <2>2, <4>1 DEF DeletedIsOut
    <3> QED
      BY <2>2, <2>4, <3>1, <3>2, <3>3, <3>4 DEF Receipt
  <2>5. CASE ers' /= None /\ (ers'.hosts = {} \/ ers'.deleting)
    BY <2>5 DEF Published
  <2> QED
    BY <1>1, <2>3, <2>4, <2>5, SyncSteps
<1>2. CASE ~Sync
  <2>1. UNCHANGED <<pc, cur, rt>>
    BY <1>2 DEF Next, User, vars, CreateGateway, DeleteGateway, EditGateway, GatewayStatus,
       CreateRoute, EditRoute, DeleteRoute, RouteStatus, EndpointStep, Deliver, Begin,
       Unconcerned, Release, Goto
  <2>2. StillThere
    BY <2>1, StillThereBefore
  <2>3. CASE ers' = ers
    BY <2>1, <2>2, <2>3 DEF ReleaseIsClean
  <2>4. CASE ers' = None
    BY <2>4 DEF Published
  <2>5. CASE ers /= None /\ ers.hosts = {} /\ ers' = [ers EXCEPT !.ack = TRUE]
    <3>1. ers'.hosts = {}
      BY <2>5 DEF TypeInv, TypeOK, ERS
    <3> QED
      BY <3>1 DEF Published
  <2> QED
    BY <1>2, <2>3, <2>4, <2>5, EndpointSteps
<1> QED
  BY <1>1, <1>2

\* Only Release takes a deleting route away.
LEMMA StepReleases ==
    ASSUME TypeInv, ReleaseIsClean, [Next]_vars,
           NEW r \in Routes, routes[r] /= None, routes[r].deleting, routes'[r] = None
    PROVE  \A h \in routes[r].hosts \cap Published(ers) :
              \/ ers.deleting
              \/ \E b \in Receipt(ers) : b.host = h /\ b.route /= r
<1> USE DEF apiVars, countVars, controllerVars
<1>0. routes \in [Routes -> Route \cup {None}]
  BY DEF TypeInv, TypeOK
<1>1. CASE Release
  <2>1. pc = "release" /\ cur = r /\ routes[cur] = rt
    BY <1>0, <1>1 DEF Release
  <2> QED
    BY <2>1 DEF ReleaseIsClean, StillThere
<1>2. CASE ~Release
  <2>1. routes'[r] /= None
    <3>1. CASE UNCHANGED routes
      BY <3>1
    <3>2. ASSUME NEW hs \in SUBSET Hosts, NEW q \in Routes, CreateRoute(q, hs)
          PROVE  routes'[r] = routes[r]
      BY <1>0, <3>2 DEF CreateRoute
    <3>3. ASSUME NEW hs \in SUBSET Hosts, NEW q \in Routes, EditRoute(q, hs)
          PROVE  routes'[r] /= None
      BY <1>0, <3>3 DEF EditRoute, Route, None
    <3>4. ASSUME NEW q \in Routes, DeleteRoute(q)
          PROVE  routes'[r] = routes[r]
      BY <1>0, <3>4 DEF DeleteRoute
    <3>5. ASSUME NEW q \in Routes, NEW ref \in Refs, NEW s \in {"True", "False"},
                 RouteStatus(q, ref, s)
          PROVE  routes'[r] /= None
      BY <1>0, <3>5 DEF RouteStatus, Route, None
    <3>6. ASSUME NEW q \in Routes, Begin(q)
          PROVE  routes'[r] /= None
      BY <1>0, <3>6 DEF Begin, Route, None
    <3> QED
      BY <1>2, <3>1, <3>2, <3>3, <3>4, <3>5, <3>6 DEF Next, User, vars, CreateGateway,
         DeleteGateway, EditGateway, GatewayStatus, EndpointStep, Deliver, Sync, Unconcerned
  <2> QED
    BY <2>1
<1> QED
  BY <1>1, <1>2

\* A route that the controller holds by its finalizer is let go only when what was
\* published for it is on its way out or belongs to another route as well, for
\* stale reads of Gateways and routes; reads of the ERS must be current.
THEOREM ReleaseFollowsWithdrawal == "ers" \notin Lag => (Spec => ReleasedAfterWithdrawal)
<1> SUFFICES ASSUME "ers" \notin Lag PROVE Spec => ReleasedAfterWithdrawal
  OBVIOUS
<1> DEFINE Inv == /\ TypeInv /\ ReleasesDeleted /\ DeletionStays /\ DeletedIsOut
                  /\ ReleaseIsClean
<1>1. Init => Inv
  <2> SUFFICES ASSUME Init PROVE Inv
    OBVIOUS
  <2>1. cache.routes = [r \in Routes |-> None]
    BY DEF Init, Server
  <2> QED
    BY <2>1, InitType DEF Init, ReleasesDeleted, DeletionStays, DeletedIsOut, ReleaseIsClean
<1>2. Inv /\ [Next]_vars => Inv'
  BY NextType, NextReleasesDeleted, NextDeletionStays, NextDeletedIsOut, NextReleaseIsClean
<1>3. Inv /\ [Next]_vars =>
        [\A r \in Routes :
          routes[r] /= None /\ routes[r].deleting /\ routes'[r] = None
             => \A h \in routes[r].hosts \cap Published(ers) :
                   \/ ers.deleting
                   \/ \E b \in Receipt(ers) : b.host = h /\ b.route /= r]_vars
  BY StepReleases
<1> HIDE DEF Inv
<1> QED
  BY <1>1, <1>2, <1>3, PTL DEF Spec, ReleasedAfterWithdrawal
=============================================================================
