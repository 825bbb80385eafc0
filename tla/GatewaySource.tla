--------------------------- MODULE GatewaySource ---------------------------
(***************************************************************************)
(* The Gateway source: which hostnames of which HTTPRoutes the controller  *)
(* puts into the EndpointRecordSet (ERS) of one Gateway, and the admission *)
(* receipts by which a hostname survives a time of unknown acceptance.     *)
(*                                                                         *)
(* The Gateway has one listener; its content and the GatewayClass are one  *)
(* value, config.  Every route has the same parentRefs, one of which, "gw",*)
(* is this Gateway.  Retired entries and their capture are modelled in     *)
(* EndpointRetirement; here the ERS is emptied, acknowledged, deleted.     *)
(***************************************************************************)
EXTENDS Naturals, FiniteSets

CONSTANTS
    Routes,         \* names of HTTPRoutes
    Hosts,          \* hostnames they may ask for
    Addrs,          \* addresses the Gateway may have
    Refs,           \* parentRefs of every route; "gw" is this Gateway
    Configs,        \* contents of the listener and the class
    AllowsUnknown,  \* listenerAllowsUnknownRetention
    MaxGateways,    \* bound: Gateways ever created
    MaxUids,        \* bound: incarnations of a route
    MaxEdits,       \* bound: edits of the Gateway and of the routes
    Lag             \* the kinds whose informer cache may lag the API server

ASSUME GatewayParameters ==
    /\ Routes /= {}
    /\ "gw" \in Refs
    /\ AllowsUnknown \in BOOLEAN /\ Lag \subseteq {"gw", "routes", "ers"}
    /\ {MaxGateways, MaxUids, MaxEdits} \subseteq Nat

None == [none |-> TRUE]

\* A condition: its status, and the generation it observed.
Condition == [status : {"none", "True", "False"}, gen : Nat]
NoCondition == [status |-> "none", gen |-> 0]

Gateway == [uid : 1 .. MaxGateways, gen : Nat, config : Configs,
            addrs : SUBSET Addrs, accepted : Condition, deleting : BOOLEAN]
Route == [uid : 1 .. MaxUids, gen : Nat, hosts : SUBSET Hosts,
          accepted : [Refs -> Condition], deleting : BOOLEAN, fin : BOOLEAN]

\* admissionReceiptBinding, one per hostname: the route and the generation that
\* was accepted, and the Gateway and configuration that accepted it.
Binding == [route : Routes, uid : 1 .. MaxUids, gen : Nat,
            gateway : 1 .. MaxGateways, config : Configs, host : Hosts]

\* ack: the endpoint controller has captured what was retired.
ERS == [hosts : SUBSET Hosts, targets : SUBSET Addrs, receipt : SUBSET Binding,
        ack : BOOLEAN, deleting : BOOLEAN]

VARIABLES
    gw,      \* API server: the Gateway
    routes,  \* API server: the HTTPRoutes, by name
    ers,     \* API server: the ERS of the Gateway
    gws,     \* Gateways created so far
    uids,    \* incarnations of each route so far
    edits,   \* edits so far
    cache,   \* the informers: [gw, routes, ers]
    pc,      \* controller: where in Reconcile it is
    cur,     \* controller: the route it reconciles
    rt,      \* controller: that route, as it read it
    held     \* history: pairs of route and hostname published and never refused since

apiVars == <<gw, routes, ers>>
countVars == <<gws, uids, edits>>
controllerVars == <<pc, cur, rt>>
vars == <<gw, routes, ers, gws, uids, edits, cache, pc, cur, rt, held>>

TypeOK ==
    /\ gw \in Gateway \cup {None}
    /\ routes \in [Routes -> Route \cup {None}]
    /\ ers \in ERS \cup {None}
    /\ gws \in 0 .. MaxGateways
    /\ uids \in [Routes -> 0 .. MaxUids]
    /\ edits \in 0 .. MaxEdits
    /\ cache \in [gw : Gateway \cup {None}, routes : [Routes -> Route \cup {None}],
                  ers : ERS \cup {None}]
    /\ pc \in {"idle", "sync", "release"}
    /\ cur \in Routes
    /\ rt \in Route \cup {None}
    /\ held \subseteq Routes \X Hosts

Server == [gw |-> gw, routes |-> routes, ers |-> ers]
Informer == [k \in DOMAIN Server |-> IF k \in Lag THEN cache[k] ELSE Server[k]]

-----------------------------------------------------------------------------
(* Acceptance.                                                             *)

\* MUTANT of Acceptance: a condition about an older generation counts.
MutantAcceptance(c, gen) ==
    IF c.status = "False" THEN "Rejected"
    ELSE IF c.status = "True" THEN "Accepted" ELSE "Unknown"

\* routeParentAcceptance, gatewayAcceptance: only a current condition counts.
Acceptance(c, gen) ==
    IF c.gen /= gen \/ c.status = "none" THEN "Unknown"
    ELSE IF c.status = "False" THEN "Rejected" ELSE "Accepted"

RouteAcceptance(t, ref) == Acceptance(t.accepted[ref], t.gen)
AllParentRefsAccepted(t) == \A ref \in Refs : RouteAcceptance(t, ref) = "Accepted"
GatewayRejected(g) == Acceptance(g.accepted, g.gen) = "Rejected"

-----------------------------------------------------------------------------
(* Users and the Gateway's own controller.                                 *)

\* The pairs an event takes the right to be retained from.
Forget(pairs) == held' = held \ pairs

CreateGateway(c) ==
    /\ gw = None
    /\ gws < MaxGateways
    /\ gws' = gws + 1
    /\ gw' = [uid |-> gws + 1, gen |-> 1, config |-> c, addrs |-> {},
              accepted |-> NoCondition, deleting |-> FALSE]
    /\ UNCHANGED <<routes, ers, uids, edits, cache, controllerVars, held>>

\* A Gateway may wait for a finalizer of another controller, or go at once.
DeleteGateway ==
    /\ gw /= None
    /\ gw' \in {None} \cup (IF gw.deleting THEN {} ELSE {[gw EXCEPT !.deleting = TRUE]})
    /\ Forget(held)
    /\ UNCHANGED <<routes, ers, countVars, cache, controllerVars>>

EditGateway(c) ==
    /\ gw /= None
    /\ edits < MaxEdits
    /\ edits' = edits + 1
    /\ gw' = [gw EXCEPT !.config = c, !.gen = @ + 1]
    /\ Forget(IF c /= gw.config THEN held ELSE {})
    /\ UNCHANGED <<routes, ers, gws, uids, cache, controllerVars>>

GatewayStatus(as, s) ==
    /\ gw /= None
    /\ gw' = [gw EXCEPT !.addrs = as, !.accepted = [status |-> s, gen |-> gw.gen]]
    /\ gw' /= gw
    /\ Forget(IF s = "False" THEN held ELSE {})
    /\ UNCHANGED <<routes, ers, countVars, cache, controllerVars>>

CreateRoute(r, hs) ==
    /\ routes[r] = None
    /\ uids[r] < MaxUids
    /\ uids' = [uids EXCEPT ![r] = @ + 1]
    /\ routes' = [routes EXCEPT ![r] =
                     [uid |-> uids[r] + 1, gen |-> 1, hosts |-> hs,
                      accepted |-> [ref \in Refs |-> NoCondition],
                      deleting |-> FALSE, fin |-> FALSE]]
    /\ UNCHANGED <<gw, ers, gws, edits, cache, controllerVars, held>>

EditRoute(r, hs) ==
    /\ routes[r] /= None
    /\ edits < MaxEdits
    /\ edits' = edits + 1
    /\ routes' = [routes EXCEPT ![r].hosts = hs, ![r].gen = @ + 1]
    /\ Forget({r} \X (Hosts \ hs))
    /\ UNCHANGED <<gw, ers, gws, uids, cache, controllerVars>>

DeleteRoute(r) ==
    /\ routes[r] /= None
    /\ ~routes[r].deleting
    /\ LET t == routes[r] IN
       routes' = [routes EXCEPT ![r] =
                     IF t.fin THEN [t EXCEPT !.deleting = TRUE, !.gen = t.gen + 1] ELSE None]
    /\ Forget({r} \X Hosts)
    /\ UNCHANGED <<gw, ers, countVars, cache, controllerVars>>

RouteStatus(r, ref, s) ==
    /\ routes[r] /= None
    /\ routes[r].accepted[ref] /= [status |-> s, gen |-> routes[r].gen]
    /\ routes' = [routes EXCEPT ![r].accepted[ref] = [status |-> s, gen |-> routes[r].gen]]
    /\ Forget(IF s = "False" /\ ref = "gw" THEN {r} \X Hosts ELSE {})
    /\ UNCHANGED <<gw, ers, countVars, cache, controllerVars>>

(* The endpoint controller and the informers.                              *)

\* An ERS without intent is acknowledged once it is captured; a deletion ends.
EndpointStep ==
    /\ ers /= None
    /\ \/ ers.deleting /\ ers' = None
       \/ ers.hosts = {} /\ ~ers.ack /\ ers' = [ers EXCEPT !.ack = TRUE]
    /\ UNCHANGED <<gw, routes, countVars, cache, controllerVars, held>>

Deliver(k) ==
    /\ k \in Lag
    /\ cache[k] /= Server[k]
    /\ cache' = [cache EXCEPT ![k] = Server[k]]
    /\ UNCHANGED <<apiVars, countVars, controllerVars, held>>

-----------------------------------------------------------------------------
(* What the ERS should say, computed from a Gateway g, the routes rs and   *)
(* the ERS e that is there.                                                *)

\* MUTANT of BindingOf: the Gateway is remembered by its generation.
BindingOf(r, t, g, h) ==
    [route |-> r, uid |-> t.uid, gen |-> t.gen, gateway |-> g.uid, config |-> g.config,
     host |-> h]

Receipt(e) == IF e = None THEN {} ELSE e.receipt
Published(e) == IF e = None THEN {} ELSE e.hosts

\* matchingBinding: of this route, Gateway and configuration; one of another
\* incarnation of the route only when this one is accepted everywhere.
Matches(e, r, t, g, h) ==
    IF h \notin Published(e) THEN {}
    ELSE {b \in Receipt(e) :
             /\ b.route = r
             /\ b.gateway = g.uid
             /\ b.config = g.config
             /\ b.host = h
             /\ b.uid = t.uid \/ AllParentRefsAccepted(t)}

\* The exact one, else the one of the highest generation.
Match(e, r, t, g, h) ==
    LET all == Matches(e, r, t, g, h)
        exact == {b \in all : b.uid = t.uid /\ b.gen = t.gen}
        best == IF exact /= {} THEN exact
                ELSE {b \in all : \A c \in all : c.gen <= b.gen}
    IN  CHOOSE b \in best : TRUE

\* conflictsCurrentBinding: this very generation was accepted by this Gateway
\* under another configuration only.
Conflicts(e, r, t, g, h) ==
    LET same == {b \in Receipt(e) : /\ b.route = r
                                    /\ b.uid = t.uid
                                    /\ b.gen = t.gen
                                    /\ b.gateway = g.uid
                                    /\ b.host = h}
    IN  /\ h \in Published(e)
        /\ same /= {}
        /\ \A b \in same : b.config /= g.config

Live(t) == t /= None /\ ~t.deleting

Accepts(e, r, t, g, h) ==
    /\ AllParentRefsAccepted(t)
    /\ ~Conflicts(e, r, t, g, h)

\* MUTANT of Retains: an unknown acceptance ends the publication.
MutantRetains(e, r, t, g, h) ==
    /\ ~AllParentRefsAccepted(t)
    /\ RouteAcceptance(t, "gw") = "Accepted"
    /\ Matches(e, r, t, g, h) /= {}

\* Not accepted everywhere, but accepted or unknown here and holding a receipt.
Retains(e, r, t, g, h) ==
    /\ ~AllParentRefsAccepted(t)
    /\ RouteAcceptance(t, "gw") /= "Rejected"
    /\ RouteAcceptance(t, "gw") = "Unknown" => AllowsUnknown
    /\ Matches(e, r, t, g, h) /= {}

\* The pairs of route and hostname the Gateway publishes, and those of them that
\* hold a receipt.
Claimants(rs) == {p \in Routes \X Hosts : Live(rs[p[1]]) /\ p[2] \in rs[p[1]].hosts}
Accepted(e, rs, g) == {p \in Claimants(rs) : Accepts(e, p[1], rs[p[1]], g, p[2])}
Retained(e, rs, g) == {p \in Claimants(rs) : Retains(e, p[1], rs[p[1]], g, p[2])}
Receipted(e, rs, g) ==
    Retained(e, rs, g)
    \cup {p \in Accepted(e, rs, g) : Matches(e, p[1], rs[p[1]], g, p[2]) /= {}}

HostsOf(pairs) == {p[2] : p \in pairs}

\* endpointRecordSetsForGateway.  Without addresses nothing new is published and
\* no new receipt is minted, but the old targets stay for what has one.
Desired(e, rs, g) ==
    LET receipted == Receipted(e, rs, g)
        minting == IF g.addrs /= {} THEN Accepted(e, rs, g)
                   ELSE Accepted(e, rs, g) \cap receipted
        hosts == IF g.addrs = {} THEN HostsOf(receipted)
                 ELSE HostsOf(Accepted(e, rs, g) \cup Retained(e, rs, g))
        kept == {Match(e, p[1], rs[p[1]], g, p[2]) : p \in Retained(e, rs, g)}
        minted == {BindingOf(p[1], rs[p[1]], g, p[2]) : p \in minting}
    IN  IF \/ g = None \/ g.deleting
           \/ GatewayRejected(g)
           \/ hosts = {}
           \/ g.addrs = {} /\ (e = None \/ e.targets = {})
        THEN None
        ELSE [hosts |-> hosts, targets |-> IF g.addrs = {} THEN e.targets ELSE g.addrs,
              receipt |-> {b \in kept \cup minted : b.host \in hosts}]

-----------------------------------------------------------------------------
(* The controller.                                                         *)

Goto(next) ==
    /\ pc' = next
    /\ rt' = IF next = "idle" THEN None ELSE rt
    /\ cur' = cur

\* MUTANT of Begin: a deleted route is released before the Gateways are synced.
MutantBegin(r) ==
    /\ pc = "idle"
    /\ cur' = r
    /\ rt' = Informer.routes[r]
    /\ routes' = IF Live(rt') THEN [routes EXCEPT ![r].fin = TRUE] ELSE routes
    /\ pc' = IF rt' /= None /\ rt'.deleting THEN "release" ELSE "sync"
    /\ UNCHANGED <<gw, ers, countVars, cache, held>>

\* The finalizer first; a conflicting Update is an error.
Begin(r) ==
    LET t == Informer.routes[r]
        add == Live(t) /\ ~t.fin
        ok == ~add \/ t = routes[r]
    IN  /\ pc = "idle"
        /\ cur' = r
        /\ routes' = IF add /\ ok THEN [routes EXCEPT ![r].fin = TRUE] ELSE routes
        /\ pc' = IF ok THEN "sync" ELSE "idle"
        /\ rt' = IF ~ok THEN None ELSE IF add THEN [t EXCEPT !.fin = TRUE] ELSE t
        /\ UNCHANGED <<gw, ers, countVars, cache, held>>

\* syncGatewaysForRoute, syncGatewaysForMissingRoute: is the Gateway among the
\* keys of the route or of the receipts?
Concerned == rt /= None \/ \E b \in Receipt(Informer.ers) : b.route = cur

AfterSync == IF rt /= None /\ rt.deleting /\ rt.fin THEN "release" ELSE "idle"

\* applyGatewayEndpointRecordSets with an ERS to publish: Create or Update, which
\* is locked; an ERS that is deleting is left alone.
Publish(e, d) ==
    /\ ers' = IF ers /= e THEN ers
              ELSE IF e = None
                   THEN [hosts |-> d.hosts, targets |-> d.targets, receipt |-> d.receipt,
                         ack |-> FALSE, deleting |-> FALSE]
              ELSE IF e.deleting THEN e
              ELSE [e EXCEPT !.hosts = d.hosts, !.targets = d.targets,
                             !.receipt = d.receipt, !.ack = FALSE]
    /\ held' = IF ers /= e \/ (e /= None /\ e.deleting) \/ gw /= Informer.gw THEN held
               ELSE held \cup {p \in Routes \X Hosts :
                                  /\ routes[p[1]] = Informer.routes[p[1]]
                                  /\ \E b \in d.receipt : /\ b.route = p[1]
                                                          /\ b.host = p[2]
                                                          /\ b.uid = routes[p[1]].uid
                                                          /\ b.gen = routes[p[1]].gen}
    /\ Goto(IF ers /= e THEN "idle" ELSE AfterSync)

\* MUTANT of Retire: waits for the capture before anything is retired.
MutantRetire(e) ==
    /\ IF e = None \/ e.deleting THEN ers' = ers /\ Goto(AfterSync)
       ELSE IF ers /= e THEN ers' = ers /\ Goto("idle")
       ELSE \/ ers' = [e EXCEPT !.deleting = TRUE] /\ Goto(AfterSync)
            \/ ~e.ack /\ ers' = ers /\ Goto("idle")
    /\ held' = held

\* applyGatewayEndpointRecordSets with nothing to publish: RetireOrDelete.  An
\* ERS that is not protected is deleted at once.
Retire(e) ==
    /\ IF e = None \/ e.deleting THEN ers' = ers /\ Goto(AfterSync)
       ELSE IF ers /= e THEN ers' = ers /\ Goto("idle")
       ELSE \/ ers' = [e EXCEPT !.deleting = TRUE] /\ Goto(AfterSync)
            \/ /\ e.hosts /= {}
               /\ ers' = [e EXCEPT !.hosts = {}, !.targets = {}, !.ack = FALSE]
               /\ Goto("idle")
            \/ e.hosts = {} /\ ~e.ack /\ ers' = ers /\ Goto("idle")
    /\ held' = held

Sync ==
    /\ pc = "sync"
    /\ Concerned
    /\ LET e == Informer.ers
           d == Desired(e, Informer.routes, Informer.gw)
       IN  IF d = None THEN Retire(e) ELSE Publish(e, d)
    /\ UNCHANGED <<gw, routes, countVars, cache>>

Unconcerned ==
    /\ pc = "sync"
    /\ ~Concerned
    /\ Goto("idle")
    /\ UNCHANGED <<apiVars, countVars, cache, held>>

Release ==
    /\ pc = "release"
    /\ routes' = IF routes[cur] = rt THEN [routes EXCEPT ![cur] = None] ELSE routes
    /\ Goto("idle")
    /\ UNCHANGED <<gw, ers, countVars, cache, held>>

-----------------------------------------------------------------------------

Init ==
    /\ gw = None
    /\ routes = [r \in Routes |-> None]
    /\ ers = None
    /\ gws = 0
    /\ uids = [r \in Routes |-> 0]
    /\ edits = 0
    /\ cache = Server
    /\ pc = "idle"
    /\ cur = CHOOSE r \in Routes : TRUE
    /\ rt = None
    /\ held = {}

User ==
    \/ \E c \in Configs : CreateGateway(c) \/ EditGateway(c)
    \/ DeleteGateway
    \/ \E as \in SUBSET Addrs, s \in {"True", "False"} : GatewayStatus(as, s)
    \/ \E r \in Routes, hs \in SUBSET Hosts : CreateRoute(r, hs) \/ EditRoute(r, hs)
    \/ \E r \in Routes : DeleteRoute(r)
    \/ \E r \in Routes, ref \in Refs, s \in {"True", "False"} : RouteStatus(r, ref, s)

Next ==
    \/ User
    \/ EndpointStep
    \/ \E k \in {"gw", "routes", "ers"} : Deliver(k)
    \/ \E r \in Routes : Begin(r)
    \/ Sync
    \/ Unconcerned
    \/ Release

Spec == Init /\ [][Next]_vars

\* A route is reconciled after its own events, the last of which is its
\* disappearance, and after those of the Gateway and the ERS; errors are retried.
\* The endpoint controller does its work.
Fairness ==
    /\ \A r \in Routes : SF_vars(Begin(r))
    /\ WF_vars(Sync \/ Unconcerned \/ Release)
    /\ WF_vars(EndpointStep)
    /\ \A k \in {"gw", "routes", "ers"} : WF_vars(Deliver(k))

FairSpec == Spec /\ Fairness

-----------------------------------------------------------------------------
(* Properties.                                                             *)

\* By the objects s, a Gateway with an address, unless it has not said so yet,
\* and every parent accept the route as it is.
Admitted(s, r, h) ==
    /\ s.gw /= None /\ ~s.gw.deleting /\ s.gw.addrs /= {}
    /\ s.gw.accepted /= [status |-> "False", gen |-> s.gw.gen]
    /\ s.routes[r] /= None /\ ~s.routes[r].deleting
    /\ h \in s.routes[r].hosts
    /\ \A ref \in Refs :
          s.routes[r].accepted[ref] = [status |-> "True", gen |-> s.routes[r].gen]

\* A hostname enters the ERS only for a route that every parent accepts at its
\* generation, and with an address the Gateway has, in one reading of the API.
EntersByAcceptance ==
    [][\A h \in Published(ers)' \ Published(ers) :
          \E r \in Routes : Admitted(Informer, r, h)]_vars

\* A published route that is never refused, by its Gateway, its own status or an
\* edit, stays published through generations nobody has looked at yet, lost
\* addresses and other routes that come and go.
HeldStaysPublished ==
    \A p \in held : p[2] \in Published(ers)

\* HeldStaysPublished in well-typed states.
HeldInvariant == TypeOK /\ HeldStaysPublished

\* Once nobody may hold a hostname for good, it leaves the ERS; and one that a
\* Gateway with addresses admits for good is published.
Settles ==
    \A h \in Hosts :
        /\ <>[](\A r \in Routes : routes[r] = None \/ routes[r].deleting \/ h \notin routes[r].hosts)
               => <>[](h \notin Published(ers))
        /\ <>[](\E r \in Routes : Admitted(Server, r, h))
               => <>[](h \in Published(ers))

\* A deleted route is released only when nothing is published for it any more:
\* the ERS is on its way out, or another route holds the hostname.
ReleasedAfterWithdrawal ==
    [][\A r \in Routes :
          routes[r] /= None /\ routes[r].deleting /\ routes'[r] = None
             => \A h \in routes[r].hosts \cap Published(ers) :
                   \/ ers.deleting
                   \/ \E b \in Receipt(ers) : b.host = h /\ b.route /= r]_vars
=============================================================================
