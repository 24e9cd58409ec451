----------------------------- MODULE EgressProofs ---------------------------
(***************************************************************************)
(* What leaves the cluster.  Once every event is handled, a pod has the    *)
(* routes of its namespace's external gateways (ExternalGateways,          *)
(* extended), and a packet meets the first rule of the egress firewall     *)
(* that fits it (EgressFirewalls, an instance beside it), for any number   *)
(* of pods, gateways, namespaces, nodes, rules and packets.                *)
(***************************************************************************)
EXTENDS ExternalGateways, FiniteSetTheorems, WellFoundedInduction, TLAPS

USE DEF AddHybridRoutePolicyForPod, DelHybridRoutePolicyForPod, AddPerPodGRSNAT, DeletePerPodGRSNAT

\* What the API server gives the controller.
WellFormed ==
  /\ Annotations \subseteq GatewayInfo
  /\ \A w \in Worlds : /\ w.annotation \in GatewayInfo /\ w.gwPods \in [GwPods -> GatewayInfo]
                       /\ w.pods \in [Pods -> {"none", "noip", "ip"}]

-----------------------------------------------------------------------------
(* The invariant. *)

\* The queue q goes on from x in steps of R, and ends at End(x, q).
Linked(x, q, R) == /\ q # <<>> => <<x, q[1]>> \in R
                   /\ \A i \in 1 .. Len(q) - 1 : <<q[i], q[i + 1]>> \in R
End(x, q) == IF q = <<>> THEN x ELSE q[Len(q)]

NsR  == {r \in (GatewayInfo \X GatewayInfo) \X (GatewayInfo \X GatewayInfo) : r[1][2] = r[2][1]}
PodR == {<<"add", "delete">>, <<"delete", "add">>}
GwR  == {r \in GatewayInfo \X GatewayInfo : (r[1] = None) # (r[2] = None)}

\* The events lead from what the controller knows to what the API server has.
NsNow     == <<routingExternalGWs, routingExternalGWs>>
PodNow(p) == IF p \in ports THEN "add" ELSE "delete"
NsQueue     == Linked(NsNow, nsEv, NsR) /\ End(NsNow, nsEv)[2] = annotation
PodQueue(p) == /\ Linked(PodNow(p), podEv[p], PodR)
               /\ End(PodNow(p), podEv[p]) = (IF pods[p] = "none" THEN "delete" ELSE "add")
GwQueue(g)  == /\ Linked(routingExternalPodGWs[g], gwEv[g], GwR)
               /\ End(routingExternalPodGWs[g], gwEv[g]) = gwPods[g]

\* The gateways the controller knows of, and those it is about to learn of.
Known  == routingExternalGWs.gws \cup UNION {routingExternalPodGWs[g].gws : g \in GwPods}
Coming == UNION {Head(gwEv[g]).gws : g \in {h \in GwPods : gwEv[h] # <<>>}}

Served(p) == p \in ports /\ thread[p] = Idle

\* A pod's routes: those of the known gateways once it is served, and routes of an
\* earlier master to gateways that are still there and will be added again.
PodRoutes(p) ==
  /\ thread[p] # Idle => p \in ports
  /\ p \notin ports /\ podEv[p] = <<>> => Has(p) = {}
  /\ podExternalRoutes[p] \subseteq Has(p) \cap Known
  /\ Served(p) => podExternalRoutes[p] = Known
  /\ Left(p) \subseteq Coming \cup (IF Served(p) THEN {} ELSE Known)
  /\ podExternalRoutes[p] # {} => p \in policies
  /\ p \in policies => Has(p) # {}

Sessions == \A g \in bfdRows : \E p \in Pods : <<g, TRUE>> \in routes[p]

Core == /\ NsQueue /\ Sessions
        /\ \A p \in Pods : PodQueue(p) /\ PodRoutes(p)
        /\ \A g \in GwPods : GwQueue(g)

Inv == TypeOK /\ (disturbed = {} => Core)

-----------------------------------------------------------------------------
(* Queues. *)

LEMMA LinkedEmpty == ASSUME NEW x, NEW R PROVE Linked(x, <<>>, R) /\ End(x, <<>>) = x
  BY DEF Linked, End

LEMMA LinkedOne == ASSUME NEW x, NEW R, NEW e, <<x, e>> \in R
                   PROVE  Linked(x, <<e>>, R) /\ End(x, <<e>>) = e
<1>1. Len(<<e>>) = 1 /\ <<e>>[1] = e /\ <<e>> # <<>>
  OBVIOUS
<1> QED BY <1>1 DEF Linked, End

LEMMA LinkedQueued ==
  ASSUME NEW S, NEW q \in Seq(S), NEW e \in S, NEW x, NEW R,
         Linked(x, q, R), <<End(x, q), e>> \in R
  PROVE  Append(q, e) \in Seq(S) /\ Linked(x, Append(q, e), R) /\ End(x, Append(q, e)) = e
<1> DEFINE a == Append(q, e)
<1>1. /\ a \in Seq(S) /\ Len(a) = Len(q) + 1 /\ a # <<>> /\ a[Len(q) + 1] = e /\ Len(q) \in Nat
      /\ \A i \in 1 .. Len(q) : a[i] = q[i]
  OBVIOUS
<1>2. q = <<>> <=> Len(q) = 0
  OBVIOUS
<1>3. <<x, a[1]>> \in R
  BY <1>1, <1>2 DEF Linked, End
<1>4. \A i \in 1 .. Len(a) - 1 : <<a[i], a[i + 1]>> \in R
  <2> SUFFICES ASSUME NEW i \in 1 .. Len(q) PROVE <<a[i], a[i + 1]>> \in R
    BY <1>1
  <2>1. CASE i = Len(q)
    BY <1>1, <1>2, <2>1 DEF End
  <2>2. CASE i \in 1 .. Len(q) - 1
    BY <1>1, <2>2 DEF Linked
  <2> QED BY <1>1, <2>1, <2>2
<1> HIDE DEF a
<1>5. Linked(x, a, R) /\ End(x, a) = e
  BY <1>1, <1>3, <1>4 DEF Linked, End
<1> QED BY <1>1, <1>5 DEF a

LEMMA LinkedTaken ==
  ASSUME NEW S, NEW q \in Seq(S), q # <<>>, NEW x, NEW R, Linked(x, q, R)
  PROVE  /\ Head(q) = q[1] /\ Head(q) \in S /\ Tail(q) \in Seq(S) /\ <<x, Head(q)>> \in R
         /\ Linked(Head(q), Tail(q), R) /\ End(Head(q), Tail(q)) = End(x, q)
<1> DEFINE t == Tail(q)
<1>1. /\ Head(q) = q[1] /\ Head(q) \in S /\ t \in Seq(S) /\ Len(q) \in Nat \ {0}
      /\ Len(t) = Len(q) - 1 /\ \A i \in 1 .. Len(q) - 1 : t[i] = q[i + 1]
  OBVIOUS
<1> HIDE DEF t
<1>2. t = <<>> <=> Len(t) = 0
  BY <1>1
<1>3. <<x, Head(q)>> \in R
  BY <1>1 DEF Linked
<1>4. Linked(Head(q), t, R)
  <2>1. t # <<>> => <<Head(q), t[1]>> \in R
    BY <1>1, <1>2 DEF Linked
  <2>2. ASSUME NEW i \in 1 .. Len(t) - 1 PROVE <<t[i], t[i + 1]>> \in R
    <3>1. i + 1 \in 1 .. Len(q) - 1 /\ i \in 1 .. Len(q) - 1
      BY <1>1
    <3>2. t[i] = q[i + 1] /\ t[i + 1] = q[i + 1 + 1]
      BY <1>1, <3>1
    <3> QED BY <3>1, <3>2 DEF Linked
  <2> QED BY <2>1, <2>2 DEF Linked
<1>5. End(Head(q), t) = End(x, q)
  BY <1>1, <1>2 DEF End
<1> QED BY <1>1, <1>3, <1>4, <1>5 DEF t

-----------------------------------------------------------------------------
(* Types. *)

LEMMA NoneTypes == None \in GatewayInfo /\ None.gws = {} /\ None.bfd = FALSE
  BY DEF None, GatewayInfo

LEMMA TypeInit == ASSUME WellFormed PROVE Init => TypeOK
<1> SUFFICES ASSUME Init PROVE TypeOK
  OBVIOUS
<1>1. /\ annotation \in GatewayInfo /\ gwPods \in [GwPods -> GatewayInfo]
      /\ pods \in [Pods -> {"none", "noip", "ip"}]
  BY DEF Init, WellFormed
<1>2. podEv \in [Pods -> Seq({"add", "delete"})]
  <2>1. <<>> \in Seq({"add", "delete"}) /\ <<"add">> \in Seq({"add", "delete"})
    OBVIOUS
  <2>2. podEv = [p \in Pods |-> IF pods[p] = "none" THEN <<>> ELSE <<"add">>]
    BY DEF Init
  <2> QED BY <2>1, <2>2
<1>3. gwEv \in [GwPods -> Seq(GatewayInfo)]
  BY <1>1 DEF Init
<1>4. /\ nsEv \in Seq(GatewayInfo \X GatewayInfo)
      /\ thread \in [Pods -> {Idle} \cup [pc : {"podgws", "routes"}, gateways : SUBSET GatewayInfo]]
      /\ routes \in [Pods -> SUBSET (GWs \X BOOLEAN)]
      /\ podExternalRoutes \in [Pods -> SUBSET GWs]
      /\ routingExternalGWs \in GatewayInfo /\ routingExternalPodGWs \in [GwPods -> GatewayInfo]
  BY <1>1, NoneTypes DEF Init
<1>5. ports = {} /\ policies = {} /\ snat = {} /\ bfdRows = {}
  BY DEF Init
<1> QED BY <1>1, <1>2, <1>3, <1>4, <1>5 DEF TypeOK

\* The gateways of routes.
LEMMA RoutesAddTypes ==
  ASSUME TypeOK, NEW p \in Pods, NEW G \in SUBSET GatewayInfo
  PROVE  /\ RoutesAdd(p, G) \in SUBSET (GWs \X BOOLEAN)
         /\ routes[p] \subseteq RoutesAdd(p, G)
         /\ {r[1] : r \in RoutesAdd(p, G)} = Has(p) \cup UNION {i.gws : i \in G}
<1> DEFINE gws == UNION {i.gws : i \in G}
           B(g) == \E i \in G : g \in i.gws /\ i.bfd
           fresh == {<<g, B(g)>> : g \in gws \ Has(p)}
<1>1. RoutesAdd(p, G) = routes[p] \cup fresh
  BY DEF RoutesAdd, Has
<1>2. routes[p] \in SUBSET (GWs \X BOOLEAN) /\ gws \in SUBSET GWs
  BY DEF TypeOK, GatewayInfo
<1>3. fresh \in SUBSET (GWs \X BOOLEAN)
  <2>1. \A g : B(g) \in BOOLEAN
    OBVIOUS
  <2> HIDE DEF B
  <2> QED BY <1>2, <2>1
<1>4. {r[1] : r \in fresh} = gws \ Has(p)
  <2> HIDE DEF B, gws
  <2>1. ASSUME NEW r \in fresh PROVE r[1] \in gws \ Has(p)
    BY <2>1
  <2>2. ASSUME NEW g \in gws \ Has(p) PROVE g \in {r[1] : r \in fresh}
    <3>1. <<g, B(g)>> \in fresh /\ <<g, B(g)>>[1] = g
      BY <2>2
    <3> HIDE DEF fresh
    <3> QED BY <3>1
  <2> QED BY <2>1, <2>2
<1> HIDE DEF fresh, gws
<1>5. {r[1] : r \in routes[p] \cup fresh} = Has(p) \cup gws
  BY <1>4 DEF Has
<1> QED BY <1>1, <1>2, <1>3, <1>5 DEF gws

LEMMA ThreadTypes ==
  ASSUME TypeOK, NEW p \in Pods, thread[p] # Idle
  PROVE  /\ thread[p].pc \in {"podgws", "routes"} /\ thread[p].gateways \in SUBSET GatewayInfo
         /\ thread[p] = [pc |-> thread[p].pc, gateways |-> thread[p].gateways]
  BY DEF TypeOK

LEMMA IdleIsIdle == ASSUME NEW p, thread[p] = Idle PROVE thread[p].pc = "idle"
  BY DEF Idle

LEMMA BfdTypes ==
  ASSUME bfdRows \subseteq GWs, routes' \in [Pods -> SUBSET (GWs \X BOOLEAN)]
  PROVE  /\ {r[1] : r \in {q \in UNION {routes'[p] : p \in Pods} : q[2]}} \subseteq GWs
         /\ \A gws : CleanUpBFDEntry(gws) \subseteq bfdRows
<1>1. ASSUME NEW p \in Pods, NEW r \in routes'[p] PROVE r[1] \in GWs
  BY <1>1
<1>2. \A gws : CleanUpBFDEntry(gws) \subseteq bfdRows
  BY DEF CleanUpBFDEntry
<1> QED BY <1>1, <1>2

LEMMA TypeReplace ==
  ASSUME TypeOK, NEW remove \in BOOLEAN, NEW egress \in GatewayInfo,
         ReplaceGWRoutes(remove, egress)
  PROVE  /\ routes' \in [Pods -> SUBSET (GWs \X BOOLEAN)] /\ policies' \subseteq Pods
         /\ podExternalRoutes' \in [Pods -> SUBSET GWs] /\ bfdRows' \subseteq GWs
<1> DEFINE old(p)  == IF remove THEN {r \in routes[p] : r[1] \notin podExternalRoutes[p]} ELSE routes[p]
           kept(p) == IF remove THEN {} ELSE podExternalRoutes[p]
           new(p)  == IF p \in ExistingPods THEN egress.gws ELSE {}
           added(p) == {<<g, egress.bfd>> : g \in new(p) \ {r[1] : r \in old(p)}}
<1>1. egress.gws \subseteq GWs /\ egress.bfd \in BOOLEAN
  BY DEF GatewayInfo
<1>2. \A p \in Pods : /\ old(p) \subseteq GWs \X BOOLEAN /\ kept(p) \subseteq GWs
                      /\ new(p) \subseteq GWs
  BY <1>1 DEF TypeOK
<1>3. \A p \in Pods : added(p) \subseteq GWs \X BOOLEAN
  BY <1>1, <1>2
<1>4. /\ routes' = [p \in Pods |-> old(p) \cup added(p)]
      /\ podExternalRoutes' = [p \in Pods |-> kept(p) \cup new(p)]
      /\ policies' = {p \in policies : ~ remove \/ podExternalRoutes[p] = {}} \cup {p \in Pods : new(p) # {}}
      /\ bfdRows' = (IF remove THEN CleanUpBFDEntry(UNION {podExternalRoutes[p] : p \in Pods}) ELSE bfdRows)
                   \cup {r[1] : r \in {q \in UNION {routes'[p] : p \in Pods} : q[2]}}
  BY DEF ReplaceGWRoutes
<1> HIDE DEF old, kept, new, added
<1>5. routes' \in [Pods -> SUBSET (GWs \X BOOLEAN)] /\ podExternalRoutes' \in [Pods -> SUBSET GWs]
  BY <1>2, <1>3, <1>4
<1>6. policies' \subseteq Pods
  BY <1>4 DEF TypeOK
<1>7. bfdRows' \subseteq GWs
  BY <1>4, <1>5, BfdTypes DEF TypeOK
<1> QED BY <1>5, <1>6, <1>7

LEMMA TypeAdd ==
  ASSUME TypeOK, NEW egress \in GatewayInfo, AddGWRoutesForNamespace(egress), WithBFD
  PROVE  /\ routes' \in [Pods -> SUBSET (GWs \X BOOLEAN)] /\ policies' \subseteq Pods
         /\ podExternalRoutes' \in [Pods -> SUBSET GWs] /\ bfdRows' \subseteq GWs
<1>1. \A p \in Pods : RoutesAdd(p, {egress}) \in SUBSET (GWs \X BOOLEAN)
  BY RoutesAddTypes
<1>2. /\ routes' = [p \in Pods |-> IF p \in ExistingPods THEN RoutesAdd(p, {egress}) ELSE routes[p]]
      /\ podExternalRoutes' = [p \in Pods |-> IF p \in ExistingPods THEN podExternalRoutes[p] \cup egress.gws
                                              ELSE podExternalRoutes[p]]
      /\ policies' \subseteq policies \cup ExistingPods
  BY DEF AddGWRoutesForNamespace
<1>3. egress.gws \subseteq GWs
  BY DEF GatewayInfo
<1>4. routes' \in [Pods -> SUBSET (GWs \X BOOLEAN)]
  BY <1>1, <1>2 DEF TypeOK
<1>5. bfdRows' \subseteq GWs
  BY <1>4, BfdTypes DEF TypeOK, WithBFD
<1> QED BY <1>2, <1>3, <1>4, <1>5 DEF TypeOK, ExistingPods

LEMMA TypeQueues ==
  ASSUME NEW S, NEW D, NEW f \in [D -> Seq(S)], NEW d \in D
  PROVE  /\ \A e \in S : [f EXCEPT ![d] = Append(@, e)] \in [D -> Seq(S)]
         /\ f[d] # <<>> => [f EXCEPT ![d] = Tail(@)] \in [D -> Seq(S)] /\ Head(f[d]) \in S
  OBVIOUS

\* Every action keeps the types.
LEMMA TypeStep == ASSUME WellFormed, TypeOK, [Next]_vars PROVE TypeOK'
<1>1. CASE ChangeAnnotation
  <2>1. PICK a \in Annotations \ {annotation} : annotation' = a /\ nsEv' = Append(nsEv, <<annotation, a>>)
    BY <1>1 DEF ChangeAnnotation
  <2>2. a \in GatewayInfo /\ <<annotation, a>> \in GatewayInfo \X GatewayInfo
    BY <2>1 DEF WellFormed, TypeOK
  <2>3. nsEv' \in Seq(GatewayInfo \X GatewayInfo)
    BY <2>1, <2>2 DEF TypeOK
  <2> QED BY <1>1, <2>1, <2>2, <2>3 DEF ChangeAnnotation, TypeOK, infoVars, ovnVars
<1>2. ASSUME NEW p \in Pods, ChangePod(p) PROVE TypeOK'
  <2>1. pods' \in [Pods -> {"none", "noip", "ip"}] /\ podEv' \in [Pods -> Seq({"add", "delete"})]
    <3>1. /\ [podEv EXCEPT ![p] = Append(@, "add")] \in [Pods -> Seq({"add", "delete"})]
          /\ [podEv EXCEPT ![p] = Append(@, "delete")] \in [Pods -> Seq({"add", "delete"})]
      BY TypeQueues DEF TypeOK
    <3>2. /\ \A s \in {"none", "noip", "ip"} : [pods EXCEPT ![p] = s] \in [Pods -> {"none", "noip", "ip"}]
          /\ podEv \in [Pods -> Seq({"add", "delete"})]
      BY DEF TypeOK
    <3> QED BY <1>2, <3>1, <3>2 DEF ChangePod
  <2> QED BY <1>2, <2>1 DEF ChangePod, TypeOK, infoVars, ovnVars
<1>3. ASSUME NEW g \in GwPods, ChangeGwPod(g) PROVE TypeOK'
  <2>1. PICK new \in ({None} \cup Annotations) \ {gwPods[g]} :
          /\ gwPods' = [gwPods EXCEPT ![g] = new]
          /\ gwEv' = [gwEv EXCEPT ![g] = @ \o (IF gwPods[g] = None THEN <<>> ELSE <<None>>)
                                           \o (IF new = None THEN <<>> ELSE <<new>>)]
    BY <1>3 DEF ChangeGwPod
  <2>2. new \in GatewayInfo
    BY NoneTypes DEF WellFormed
  <2>3. gwEv' \in [GwPods -> Seq(GatewayInfo)]
    <3> DEFINE a == IF gwPods[g] = None THEN <<>> ELSE <<None>>
               b == IF new = None THEN <<>> ELSE <<new>>
    <3>1. a \in Seq(GatewayInfo) /\ b \in Seq(GatewayInfo)
      BY <2>2, NoneTypes
    <3>2. gwEv \in [GwPods -> Seq(GatewayInfo)] /\ gwEv' = [gwEv EXCEPT ![g] = @ \o a \o b]
      BY <2>1 DEF TypeOK
    <3> HIDE DEF a, b
    <3> QED BY <3>1, <3>2
  <2> QED BY <1>3, <2>1, <2>2, <2>3 DEF ChangeGwPod, TypeOK, infoVars, ovnVars
<1>4. CASE UpdateNamespace
  <2> DEFINE old == Head(nsEv)[1]
             new == Head(nsEv)[2]
  <2>1. Head(nsEv) \in GatewayInfo \X GatewayInfo /\ Tail(nsEv) \in Seq(GatewayInfo \X GatewayInfo)
    BY <1>4 DEF UpdateNamespace, TypeOK
  <2>2. new \in GatewayInfo /\ ReplaceGWRoutes(old.gws # {}, new)
    BY <1>4, <2>1 DEF UpdateNamespace
  <2>3. /\ routes' \in [Pods -> SUBSET (GWs \X BOOLEAN)] /\ policies' \subseteq Pods
        /\ podExternalRoutes' \in [Pods -> SUBSET GWs] /\ bfdRows' \subseteq GWs
    BY <2>2, TypeReplace
  <2>4. snat' \subseteq Pods
    BY <1>4 DEF UpdateNamespace, TypeOK
  <2> QED BY <1>4, <2>1, <2>2, <2>3, <2>4 DEF UpdateNamespace, TypeOK, apiVars
<1>5. ASSUME NEW g \in GwPods, AddPodExternalGW(g) PROVE TypeOK'
  <2>1. Head(gwEv[g]) \in GatewayInfo /\ [gwEv EXCEPT ![g] = Tail(@)] \in [GwPods -> Seq(GatewayInfo)]
    BY <1>5, TypeQueues DEF AddPodExternalGW, TypeOK
  <2>2. /\ routes' \in [Pods -> SUBSET (GWs \X BOOLEAN)] /\ policies' \subseteq Pods
        /\ podExternalRoutes' \in [Pods -> SUBSET GWs] /\ bfdRows' \subseteq GWs
    BY <1>5, <2>1, TypeAdd DEF AddPodExternalGW
  <2> QED BY <1>5, <2>1, <2>2 DEF AddPodExternalGW, TypeOK, apiVars
<1>6. ASSUME NEW g \in GwPods, DeletePodExternalGW(g) PROVE TypeOK'
  <2>1. [gwEv EXCEPT ![g] = Tail(@)] \in [GwPods -> Seq(GatewayInfo)]
    BY <1>6, TypeQueues DEF DeletePodExternalGW, TypeOK
  <2>2. /\ routes' \in [Pods -> SUBSET (GWs \X BOOLEAN)] /\ policies' \subseteq Pods
        /\ podExternalRoutes' \in [Pods -> SUBSET GWs]
    BY <1>6 DEF DeletePodExternalGW, TypeOK
  <2>3. bfdRows' \subseteq GWs
    BY <1>6, <2>2, BfdTypes DEF DeletePodExternalGW, TypeOK
  <2> QED BY <1>6, <2>1, <2>2, <2>3, NoneTypes DEF DeletePodExternalGW, TypeOK, apiVars
<1>7. ASSUME NEW p \in Pods, GetRoutingExternalGWs(p) PROVE TypeOK'
  <2>1. podEv' \in [Pods -> Seq({"add", "delete"})]
    BY <1>7, TypeQueues DEF GetRoutingExternalGWs, TypeOK
  <2>2. thread' \in [Pods -> {Idle} \cup [pc : {"podgws", "routes"}, gateways : SUBSET GatewayInfo]]
    BY <1>7 DEF GetRoutingExternalGWs, TypeOK
  <2> QED BY <1>7, <2>1, <2>2 DEF GetRoutingExternalGWs, TypeOK, apiVars, infoVars, ovnVars
<1>8. ASSUME NEW p \in Pods, GetRoutingPodGWs(p) PROVE TypeOK'
  <2>1. thread[p] # Idle
    BY <1>8, IdleIsIdle DEF GetRoutingPodGWs
  <2>2. thread[p].gateways \cup ({routingExternalPodGWs[g] : g \in GwPods} \ {None}) \in SUBSET GatewayInfo
    BY <2>1, ThreadTypes DEF TypeOK
  <2>3. thread' \in [Pods -> {Idle} \cup [pc : {"podgws", "routes"}, gateways : SUBSET GatewayInfo]]
    BY <1>8, <2>2 DEF GetRoutingPodGWs, TypeOK
  <2> QED BY <1>8, <2>3 DEF GetRoutingPodGWs, TypeOK, apiVars, evVars, infoVars, ovnVars
<1>9. ASSUME NEW p \in Pods, AddGWRoutesForPod(p) PROVE TypeOK'
  <2> DEFINE gws == UNION {i.gws : i \in thread[p].gateways}
  <2>1. thread[p] # Idle
    BY <1>9, IdleIsIdle DEF AddGWRoutesForPod
  <2>2. thread[p].gateways \in SUBSET GatewayInfo
    BY <2>1, ThreadTypes
  <2>3. gws \subseteq GWs /\ RoutesAdd(p, thread[p].gateways) \in SUBSET (GWs \X BOOLEAN)
    BY <2>2, RoutesAddTypes DEF GatewayInfo
  <2>4. /\ routes' \in [Pods -> SUBSET (GWs \X BOOLEAN)] /\ policies' \subseteq Pods /\ snat' \subseteq Pods
        /\ podExternalRoutes' \in [Pods -> SUBSET GWs]
    <3> HIDE DEF gws
    <3>1. /\ [routes EXCEPT ![p] = RoutesAdd(p, thread[p].gateways)] \in [Pods -> SUBSET (GWs \X BOOLEAN)]
          /\ [podExternalRoutes EXCEPT ![p] = @ \cup gws] \in [Pods -> SUBSET GWs]
          /\ snat \cup {p} \subseteq Pods /\ policies \cup {p} \subseteq Pods
      BY <2>3 DEF TypeOK
    <3> QED BY <1>9, <3>1 DEF AddGWRoutesForPod, TypeOK, gws
  <2>5. bfdRows' \subseteq GWs
    BY <1>9, <2>4, BfdTypes DEF AddGWRoutesForPod, WithBFD, TypeOK
  <2> QED BY <1>9, <2>4, <2>5 DEF AddGWRoutesForPod, TypeOK, apiVars, evVars
<1>10. ASSUME NEW p \in Pods, DeleteGWRoutesForPod(p) PROVE TypeOK'
  <2>1. podEv' \in [Pods -> Seq({"add", "delete"})]
    BY <1>10, TypeQueues DEF DeleteGWRoutesForPod, TypeOK
  <2>2. /\ routes' \in [Pods -> SUBSET (GWs \X BOOLEAN)] /\ policies' \subseteq Pods /\ snat' \subseteq Pods
        /\ podExternalRoutes' \in [Pods -> SUBSET GWs]
    <3>1. /\ [routes EXCEPT ![p] = {r \in @ : r[1] \notin podExternalRoutes[p]}] \in [Pods -> SUBSET (GWs \X BOOLEAN)]
          /\ [podExternalRoutes EXCEPT ![p] = {}] \in [Pods -> SUBSET GWs]
          /\ snat \ {p} \subseteq Pods /\ policies \ {p} \subseteq Pods
      BY DEF TypeOK
    <3> QED BY <1>10, <3>1 DEF DeleteGWRoutesForPod, TypeOK, ovnVars
  <2>3. bfdRows' \subseteq GWs
    BY <1>10, <2>2, BfdTypes DEF DeleteGWRoutesForPod, TypeOK, ovnVars
  <2> QED BY <1>10, <2>1, <2>2, <2>3 DEF DeleteGWRoutesForPod, TypeOK, apiVars
<1>11. CASE Restart
  <2>1. podEv' \in [Pods -> Seq({"add", "delete"})]
    <3>1. <<>> \in Seq({"add", "delete"}) /\ <<"add">> \in Seq({"add", "delete"})
      OBVIOUS
    <3> QED BY <1>11, <3>1 DEF Restart
  <2>2. gwEv' \in [GwPods -> Seq(GatewayInfo)]
    BY <1>11 DEF Restart, TypeOK
  <2>3. /\ nsEv' \in Seq(GatewayInfo \X GatewayInfo) /\ podExternalRoutes' \in [Pods -> SUBSET GWs]
        /\ routingExternalPodGWs' \in [GwPods -> GatewayInfo]
    BY <1>11, NoneTypes DEF Restart
  <2> QED BY <1>11, <2>1, <2>2, <2>3 DEF Restart, TypeOK, apiVars, ovnVars
<1>12. CASE UNCHANGED vars
  BY <1>12 DEF TypeOK, vars, apiVars, evVars, infoVars, ovnVars
<1> QED BY <1>1, <1>2, <1>3, <1>4, <1>5, <1>6, <1>7, <1>8, <1>9, <1>10, <1>11, <1>12 DEF Next

-----------------------------------------------------------------------------
(* Steps that leave the routes alone. *)

\* What a master finds: the first events of pods and gateway pods.
LEMMA FirstPodEvent ==
  ASSUME NEW st, NEW q, q = (IF st = "none" THEN <<>> ELSE <<"add">>)
  PROVE  Linked("delete", q, PodR) /\ End("delete", q) = (IF st = "none" THEN "delete" ELSE "add")
<1>1. CASE st = "none"
  BY <1>1, LinkedEmpty
<1>2. CASE st # "none"
  <2>1. <<"delete", "add">> \in PodR
    BY DEF PodR
  <2>2. Linked("delete", <<"add">>, PodR) /\ End("delete", <<"add">>) = "add"
    BY <2>1, LinkedOne
  <2> QED BY <1>2, <2>2
<1> QED BY <1>1, <1>2

LEMMA FirstGwEvent ==
  ASSUME NEW i \in GatewayInfo, NEW q, q = (IF i = None THEN <<>> ELSE <<i>>)
  PROVE  Linked(None, q, GwR) /\ End(None, q) = i
<1>1. i # None => <<None, i>> \in GwR
  BY NoneTypes DEF GwR
<1> QED BY <1>1, LinkedEmpty, LinkedOne

LEMMA CoreInit == ASSUME WellFormed PROVE Init => Core
<1> SUFFICES ASSUME Init PROVE Core
  OBVIOUS
<1>1. NsQueue
  BY LinkedEmpty DEF Init, NsQueue, NsNow
<1>2. (\A p \in Pods : PodQueue(p)) /\ \A g \in GwPods : GwQueue(g)
  <2>1. ASSUME NEW p \in Pods PROVE PodQueue(p)
    <3>1. podEv[p] = (IF pods[p] = "none" THEN <<>> ELSE <<"add">>) /\ PodNow(p) = "delete"
      BY DEF Init, PodNow
    <3> QED BY <3>1, FirstPodEvent DEF PodQueue
  <2>2. ASSUME NEW g \in GwPods PROVE GwQueue(g)
    <3>1. /\ gwEv[g] = (IF gwPods[g] = None THEN <<>> ELSE <<gwPods[g]>>)
          /\ routingExternalPodGWs[g] = None /\ gwPods[g] \in GatewayInfo
      BY TypeInit DEF Init, TypeOK
    <3> QED BY <3>1, FirstGwEvent DEF GwQueue
  <2> QED BY <2>1, <2>2
<1>3. ASSUME NEW p \in Pods PROVE PodRoutes(p)
  <2>1. /\ p \notin ports /\ thread[p] = Idle /\ routes[p] = {} /\ podExternalRoutes[p] = {}
        /\ policies = {}
    BY DEF Init
  <2>2. Has(p) = {} /\ Left(p) = {}
    BY <2>1 DEF Has, Left
  <2> QED BY <2>1, <2>2 DEF PodRoutes, Served
<1>4. Sessions
  BY DEF Init, Sessions
<1> QED BY <1>1, <1>2, <1>3, <1>4 DEF Core

\* The routes of a pod that a step does not change.
LEMMA SameRoutes ==
  ASSUME NEW p \in Pods, PodRoutes(p),
         routes'[p] = routes[p], podExternalRoutes'[p] = podExternalRoutes[p],
         p \in policies' <=> p \in policies,
         Known' = Known, Coming \subseteq Coming',
         thread'[p] # Idle => p \in ports', Served(p)' => Served(p),
         p \notin ports' /\ podEv'[p] = <<>> => p \notin ports /\ podEv[p] = <<>>
  PROVE  PodRoutes(p)'
<1>1. Has(p)' = Has(p) /\ Left(p)' = Left(p)
  BY DEF Has, Left
<1>2. Served(p)' => Left(p) \subseteq Coming'
  BY DEF PodRoutes
<1> QED BY <1>1, <1>2 DEF PodRoutes

LEMMA SameKnown == ASSUME UNCHANGED <<routingExternalGWs, routingExternalPodGWs>> PROVE Known' = Known
  BY DEF Known

LEMMA SameSessions == ASSUME Sessions, UNCHANGED <<routes, bfdRows>> PROVE Sessions'
  BY DEF Sessions

LEMMA CoreChangeAnnotation ==
  ASSUME WellFormed, TypeOK, Core, ChangeAnnotation PROVE Core'
<1>1. PICK a \in Annotations \ {annotation} : annotation' = a /\ nsEv' = Append(nsEv, <<annotation, a>>)
  BY DEF ChangeAnnotation
<1>2. UNCHANGED <<pods, gwPods, podEv, gwEv, infoVars, ports, thread, ovnVars>>
  BY DEF ChangeAnnotation
<1>3. NsQueue'
  <2>1. <<annotation, a>> \in GatewayInfo \X GatewayInfo /\ nsEv \in Seq(GatewayInfo \X GatewayInfo)
    BY DEF WellFormed, TypeOK
  <2>2. End(NsNow, nsEv) \in GatewayInfo \X GatewayInfo
    <3>1. NsNow \in GatewayInfo \X GatewayInfo
      BY DEF TypeOK, NsNow
    <3>2. nsEv # <<>> => nsEv[Len(nsEv)] \in GatewayInfo \X GatewayInfo
      BY <2>1
    <3> QED BY <3>1, <3>2 DEF End
  <2>3. <<End(NsNow, nsEv), <<annotation, a>>>> \in NsR
    BY <2>1, <2>2 DEF NsR, Core, NsQueue
  <2>4. Linked(NsNow, nsEv', NsR) /\ End(NsNow, nsEv') = <<annotation, a>>
    <3> DEFINE Pairs == GatewayInfo \X GatewayInfo
               e == <<annotation, a>>
    <3>1. nsEv \in Seq(Pairs) /\ e \in Pairs /\ <<End(NsNow, nsEv), e>> \in NsR /\ Linked(NsNow, nsEv, NsR)
      BY <2>1, <2>3 DEF Core, NsQueue
    <3> HIDE DEF Pairs, e
    <3>2. Linked(NsNow, Append(nsEv, e), NsR) /\ End(NsNow, Append(nsEv, e)) = e
      BY <3>1, LinkedQueued
    <3> QED BY <1>1, <3>2 DEF e
  <2>5. NsNow' = NsNow
    BY <1>2 DEF NsNow, infoVars
  <2> QED BY <1>1, <2>4, <2>5 DEF NsQueue
<1>4. Known' = Known /\ Coming' = Coming
  BY <1>2, SameKnown DEF Coming, infoVars
<1>5. ASSUME NEW p \in Pods PROVE PodQueue(p)' /\ PodRoutes(p)'
  BY <1>2, <1>4, SameRoutes DEF Core, PodQueue, PodNow, PodRoutes, Served, infoVars, ovnVars
<1>6. ASSUME NEW g \in GwPods PROVE GwQueue(g)'
  BY <1>2 DEF Core, GwQueue, infoVars
<1>7. Sessions'
  BY <1>2, SameSessions DEF Core, ovnVars
<1> QED BY <1>3, <1>5, <1>6, <1>7 DEF Core

LEMMA CoreChangePod ==
  ASSUME TypeOK, Core, NEW p \in Pods, ChangePod(p) PROVE Core'
<1>1. UNCHANGED <<annotation, gwPods, nsEv, gwEv, infoVars, ports, thread, ovnVars>>
  BY DEF ChangePod
<1>2. NsQueue'
  BY <1>1 DEF Core, NsQueue, NsNow, infoVars
<1>3. Known' = Known /\ Coming' = Coming
  BY <1>1, SameKnown DEF Coming, infoVars
<1>4. PodQueue(p)' /\ (podEv'[p] = <<>> => podEv[p] = <<>>)
  <2>1. podEv[p] \in Seq({"add", "delete"}) /\ PodNow(p)' = PodNow(p)
    BY <1>1 DEF TypeOK, PodNow
  <2>2. CASE pods[p] = "none" /\ pods' = [pods EXCEPT ![p] = "noip"] /\ podEv' = [podEv EXCEPT ![p] = Append(@, "add")]
    <3>1. pods'[p] = "noip" /\ podEv'[p] = Append(podEv[p], "add")
      BY <2>2 DEF TypeOK
    <3>2. <<End(PodNow(p), podEv[p]), "add">> \in PodR
      BY <2>2 DEF Core, PodQueue, PodR
    <3>3. Linked(PodNow(p), podEv'[p], PodR) /\ End(PodNow(p), podEv'[p]) = "add"
      BY <2>1, <3>1, <3>2, LinkedQueued DEF Core, PodQueue
    <3> QED BY <2>1, <3>1, <3>3 DEF PodQueue
  <2>3. CASE pods[p] # "none" /\ pods' = [pods EXCEPT ![p] = "none"] /\ podEv' = [podEv EXCEPT ![p] = Append(@, "delete")]
    <3>1. pods'[p] = "none" /\ podEv'[p] = Append(podEv[p], "delete")
      BY <2>3 DEF TypeOK
    <3>2. <<End(PodNow(p), podEv[p]), "delete">> \in PodR
      BY <2>3 DEF Core, PodQueue, PodR
    <3>3. Linked(PodNow(p), podEv'[p], PodR) /\ End(PodNow(p), podEv'[p]) = "delete"
      BY <2>1, <3>1, <3>2, LinkedQueued DEF Core, PodQueue
    <3> QED BY <2>1, <3>1, <3>3 DEF PodQueue
  <2>4. CASE pods[p] = "noip" /\ pods' = [pods EXCEPT ![p] = "ip"] /\ UNCHANGED podEv
    <3>1. pods'[p] = "ip" /\ podEv'[p] = podEv[p]
      BY <2>4 DEF TypeOK
    <3> QED BY <2>1, <2>4, <3>1 DEF Core, PodQueue
  <2> QED BY <2>2, <2>3, <2>4 DEF ChangePod
<1>5. ASSUME NEW q \in Pods, q # p PROVE PodQueue(q)' /\ podEv'[q] = podEv[q]
  <2>1. pods'[q] = pods[q] /\ podEv'[q] = podEv[q]
    BY <1>5 DEF ChangePod, TypeOK
  <2> QED BY <1>1, <2>1 DEF Core, PodQueue, PodNow
<1>6. ASSUME NEW q \in Pods PROVE PodRoutes(q)'
  BY <1>1, <1>3, <1>4, <1>5, SameRoutes DEF Core, PodRoutes, Served, infoVars, ovnVars
<1>7. ASSUME NEW g \in GwPods PROVE GwQueue(g)'
  BY <1>1 DEF Core, GwQueue, infoVars
<1>8. Sessions'
  BY <1>1, SameSessions DEF Core, ovnVars
<1> QED BY <1>2, <1>4, <1>5, <1>6, <1>7, <1>8 DEF Core

LEMMA ComingGrows ==
  ASSUME \A g \in GwPods : gwEv[g] # <<>> => gwEv'[g] # <<>> /\ Head(gwEv'[g]) = Head(gwEv[g])
  PROVE  Coming \subseteq Coming'
  BY DEF Coming

LEMMA CoreChangeGwPod ==
  ASSUME WellFormed, TypeOK, Core, NEW g \in GwPods, ChangeGwPod(g) PROVE Core'
<1>1. UNCHANGED <<annotation, pods, nsEv, podEv, infoVars, ports, thread, ovnVars>>
  BY DEF ChangeGwPod
<1>2. PICK new \in ({None} \cup Annotations) \ {gwPods[g]} :
        /\ gwPods' = [gwPods EXCEPT ![g] = new]
        /\ gwEv' = [gwEv EXCEPT ![g] = @ \o (IF gwPods[g] = None THEN <<>> ELSE <<None>>)
                                         \o (IF new = None THEN <<>> ELSE <<new>>)]
  BY DEF ChangeGwPod
<1> DEFINE x == routingExternalPodGWs[g]
           q == gwEv[g]
<1>3. /\ new \in GatewayInfo /\ None \in GatewayInfo /\ q \in Seq(GatewayInfo) /\ new # gwPods[g]
      /\ gwPods'[g] = new /\ gwPods[g] \in GatewayInfo
      /\ gwEv'[g] = q \o (IF gwPods[g] = None THEN <<>> ELSE <<None>>) \o (IF new = None THEN <<>> ELSE <<new>>)
      /\ \A h \in GwPods \ {g} : gwEv'[h] = gwEv[h] /\ gwPods'[h] = gwPods[h]
  BY <1>2, NoneTypes DEF WellFormed, TypeOK
<1>4. Linked(x, q, GwR) /\ End(x, q) = gwPods[g]
  BY DEF Core, GwQueue
<1>5. routingExternalPodGWs' = routingExternalPodGWs
  BY <1>1 DEF infoVars
<1> HIDE DEF x, q
<1>6. GwQueue(g)' /\ (q # <<>> => gwEv'[g] # <<>> /\ Head(gwEv'[g]) = Head(q))
  <2>1. ASSUME NEW e \in GatewayInfo PROVE q \o <<e>> = Append(q, e) /\ q \o <<>> = q
    BY <1>3
  <2>2. ASSUME NEW s \in Seq(GatewayInfo), NEW e \in GatewayInfo
        PROVE  /\ Append(s, e) \in Seq(GatewayInfo) /\ Append(s, e) # <<>>
               /\ s # <<>> => Head(Append(s, e)) = Head(s)
    OBVIOUS
  <2>3. CASE gwPods[g] = None
    <3>1. new # None /\ gwEv'[g] = Append(q, new)
      BY <1>3, <2>1, <2>3
    <3>2. <<End(x, q), new>> \in GwR
      BY <1>3, <1>4, <2>3, <3>1 DEF GwR
    <3>3. Linked(x, Append(q, new), GwR) /\ End(x, Append(q, new)) = new
      BY <1>3, <1>4, <3>2, LinkedQueued
    <3> QED BY <1>3, <1>5, <2>2, <3>1, <3>3 DEF GwQueue, x
  <2>4. CASE gwPods[g] # None
    <3>1. <<End(x, q), None>> \in GwR
      BY <1>3, <1>4, <2>4 DEF GwR
    <3>2. /\ Append(q, None) \in Seq(GatewayInfo)
          /\ Linked(x, Append(q, None), GwR) /\ End(x, Append(q, None)) = None
      BY <1>3, <1>4, <3>1, LinkedQueued
    <3>3. CASE new = None
      <4>1. gwEv'[g] = Append(q, None)
        BY <1>3, <2>1, <2>4, <3>3, <3>2
      <4> QED BY <1>3, <1>5, <2>2, <3>2, <3>3, <4>1 DEF GwQueue, x
    <3>4. CASE new # None
      <4>1. gwEv'[g] = Append(Append(q, None), new)
        <5>1. gwEv'[g] = Append(q, None) \o <<new>>
          BY <1>3, <2>1, <2>4, <3>4
        <5> DEFINE s == Append(q, None)
        <5>2. s \in Seq(GatewayInfo)
          BY <3>2
        <5> HIDE DEF s
        <5>3. s \o <<new>> = Append(s, new)
          BY <1>3, <5>2
        <5> QED BY <5>1, <5>3 DEF s
      <4>2. <<End(x, Append(q, None)), new>> \in GwR
        BY <1>3, <3>2, <3>4 DEF GwR
      <4>3. /\ Linked(x, Append(Append(q, None), new), GwR)
            /\ End(x, Append(Append(q, None), new)) = new
        <5> DEFINE s == Append(q, None)
        <5>1. s \in Seq(GatewayInfo) /\ Linked(x, s, GwR) /\ <<End(x, s), new>> \in GwR
          BY <3>2, <4>2
        <5> HIDE DEF s
        <5>2. Linked(x, Append(s, new), GwR) /\ End(x, Append(s, new)) = new
          BY <1>3, <5>1, LinkedQueued
        <5> QED BY <5>2 DEF s
      <4> QED BY <1>3, <1>5, <2>2, <3>2, <4>1, <4>3 DEF GwQueue, x
    <3> QED BY <3>3, <3>4
  <2> QED BY <2>3, <2>4
<1>7. ASSUME NEW h \in GwPods, h # g PROVE GwQueue(h)'
  BY <1>3, <1>5, <1>7 DEF Core, GwQueue
<1>8. Known' = Known /\ Coming \subseteq Coming'
  BY <1>1, <1>3, <1>6, SameKnown, ComingGrows DEF infoVars, q
<1>9. ASSUME NEW p \in Pods PROVE PodQueue(p)' /\ PodRoutes(p)'
  BY <1>1, <1>8, SameRoutes DEF Core, PodQueue, PodNow, PodRoutes, Served, infoVars, ovnVars
<1>10. NsQueue' /\ Sessions'
  BY <1>1, SameSessions DEF Core, NsQueue, NsNow, infoVars, ovnVars
<1> QED BY <1>6, <1>7, <1>9, <1>10 DEF Core

-----------------------------------------------------------------------------
(* The namespace's thread and the gateway pods. *)

\* Every session of a route that a step leaves has that route.
LEMMA SessionRows ==
  ASSUME routes' \in [Pods -> SUBSET (GWs \X BOOLEAN)],
         NEW g \in {r[1] : r \in {q \in UNION {routes'[p] : p \in Pods} : q[2]}}
  PROVE  \E p \in Pods : <<g, TRUE>> \in routes'[p]
<1>1. PICK p \in Pods : \E r \in routes'[p] : r[2] /\ g = r[1]
  OBVIOUS
<1>2. PICK r \in routes'[p] : r[2] /\ g = r[1]
  BY <1>1
<1>3. PICK a \in GWs, b \in BOOLEAN : r = <<a, b>>
  OBVIOUS
<1>4. r[1] = a /\ r[2] = b
  BY <1>3
<1>5. b = TRUE
  BY <1>2, <1>4, Zenon
<1> QED BY <1>2, <1>3, <1>4, <1>5

\* The gateways that a change of gateways gives a pod.
Reached(p, egress) == IF p \in ExistingPods THEN egress.gws ELSE {}

LEMMA ReplaceEffect ==
  ASSUME TypeOK, NEW remove \in BOOLEAN, NEW egress \in GatewayInfo,
         ReplaceGWRoutes(remove, egress), NEW p \in Pods
  PROVE  /\ Has(p)' = (IF remove THEN Left(p) ELSE Has(p)) \cup Reached(p, egress)
         /\ podExternalRoutes'[p] = (IF remove THEN {} ELSE podExternalRoutes[p]) \cup Reached(p, egress)
         /\ \A r \in routes[p] : (remove => r[1] \notin podExternalRoutes[p]) => r \in routes'[p]
         /\ p \in policies' <=> Reached(p, egress) # {} \/ (p \in policies /\ (~ remove \/ podExternalRoutes[p] = {}))
<1> DEFINE old == IF remove THEN {r \in routes[p] : r[1] \notin podExternalRoutes[p]} ELSE routes[p]
           added == {<<g, egress.bfd>> : g \in Reached(p, egress) \ {r[1] : r \in old}}
<1>1. routes'[p] = old \cup added
  BY DEF ReplaceGWRoutes, Reached
<1>2. podExternalRoutes'[p] = (IF remove THEN {} ELSE podExternalRoutes[p]) \cup Reached(p, egress)
  BY DEF ReplaceGWRoutes, Reached
<1>3. p \in policies' <=> Reached(p, egress) # {} \/ (p \in policies /\ (~ remove \/ podExternalRoutes[p] = {}))
  BY DEF ReplaceGWRoutes, Reached
<1>4. {r[1] : r \in old} = (IF remove THEN Left(p) ELSE Has(p))
  BY DEF Left, Has
<1>5. {r[1] : r \in added} = Reached(p, egress) \ {r[1] : r \in old}
  <2> HIDE DEF old
  <2>1. ASSUME NEW g \in Reached(p, egress) \ {r[1] : r \in old} PROVE g \in {r[1] : r \in added}
    <3>1. <<g, egress.bfd>> \in added /\ <<g, egress.bfd>>[1] = g
      BY <2>1
    <3> HIDE DEF added
    <3> QED BY <3>1
  <2>2. ASSUME NEW r \in added PROVE r[1] \in Reached(p, egress) \ {s[1] : s \in old}
    BY <2>2
  <2> QED BY <2>1, <2>2
<1>6. \A r \in routes[p] : (remove => r[1] \notin podExternalRoutes[p]) => r \in old
  OBVIOUS
<1> HIDE DEF old, added
<1>7. Has(p)' = {r[1] : r \in old} \cup {r[1] : r \in added}
  BY <1>1 DEF Has
<1> QED BY <1>1, <1>2, <1>3, <1>4, <1>5, <1>6, <1>7

\* Only the second half of a namespace's event matters to the next one.
LEMMA NsFrom ==
  ASSUME NEW x \in GatewayInfo \X GatewayInfo, NEW y \in GatewayInfo \X GatewayInfo, x[2] = y[2],
         NEW q \in Seq(GatewayInfo \X GatewayInfo), Linked(x, q, NsR)
  PROVE  Linked(y, q, NsR) /\ End(x, q)[2] = End(y, q)[2]
<1>1. q # <<>> => <<y, q[1]>> \in NsR
  <2> SUFFICES ASSUME q # <<>> PROVE <<y, q[1]>> \in NsR
    OBVIOUS
  <2>1. q[1] \in GatewayInfo \X GatewayInfo
    OBVIOUS
  <2>2. <<x, q[1]>> \in NsR
    BY DEF Linked
  <2>3. x[2] = q[1][1]
    BY <2>2 DEF NsR
  <2> QED BY <2>1, <2>3 DEF NsR
<1> QED BY <1>1 DEF Linked, End

LEMMA CoreUpdateNamespace ==
  ASSUME TypeOK, TypeOK', Core, UpdateNamespace, disturbed' = {} PROVE Core'
<1> DEFINE old == Head(nsEv)[1]
           new == Head(nsEv)[2]
           PG  == UNION {routingExternalPodGWs[g].gws : g \in GwPods}
           n(p) == Reached(p, new)
<1>1. UNCHANGED <<apiVars, podEv, gwEv, routingExternalPodGWs, ports, thread>> /\ nsEv' = Tail(nsEv)
  BY DEF UpdateNamespace
<1>2. /\ Head(nsEv) \in GatewayInfo \X GatewayInfo /\ Tail(nsEv) \in Seq(GatewayInfo \X GatewayInfo)
      /\ <<NsNow, Head(nsEv)>> \in NsR
      /\ Linked(Head(nsEv), Tail(nsEv), NsR) /\ End(Head(nsEv), Tail(nsEv))[2] = annotation
  <2> DEFINE Pairs == GatewayInfo \X GatewayInfo
  <2>1. nsEv \in Seq(Pairs) /\ nsEv # <<>> /\ Linked(NsNow, nsEv, NsR) /\ End(NsNow, nsEv)[2] = annotation
    BY DEF TypeOK, UpdateNamespace, Core, NsQueue
  <2> HIDE DEF Pairs
  <2>2. /\ Head(nsEv) \in Pairs /\ Tail(nsEv) \in Seq(Pairs) /\ <<NsNow, Head(nsEv)>> \in NsR
        /\ Linked(Head(nsEv), Tail(nsEv), NsR) /\ End(Head(nsEv), Tail(nsEv))[2] = annotation
    BY <2>1, LinkedTaken
  <2> QED BY <2>2 DEF Pairs
<1>3. new \in GatewayInfo /\ old = routingExternalGWs /\ routingExternalGWs' = new
  BY <1>2 DEF NsR, NsNow, UpdateNamespace
<1>4. NsQueue'
  <2>1. NsNow' = <<new, new>> /\ <<new, new>> \in GatewayInfo \X GatewayInfo /\ <<new, new>>[2] = Head(nsEv)[2]
    BY <1>3 DEF NsNow
  <2>2. Linked(<<new, new>>, Tail(nsEv), NsR) /\ End(<<new, new>>, Tail(nsEv))[2] = annotation
    <3> DEFINE x == Head(nsEv)
               y == <<new, new>>
               q == Tail(nsEv)
    <3>1. /\ x \in GatewayInfo \X GatewayInfo /\ y \in GatewayInfo \X GatewayInfo /\ x[2] = y[2]
          /\ q \in Seq(GatewayInfo \X GatewayInfo) /\ Linked(x, q, NsR) /\ End(x, q)[2] = annotation
      BY <1>2, <2>1
    <3> HIDE DEF x, y, q
    <3>2. Linked(y, q, NsR) /\ End(x, q)[2] = End(y, q)[2]
      BY <3>1, NsFrom
    <3> QED BY <3>1, <3>2 DEF y, q
  <2> QED BY <1>1, <2>1, <2>2 DEF NsQueue, apiVars
<1>5. ReplaceGWRoutes(old.gws # {}, new)
  BY DEF UpdateNamespace
<1>6. /\ old.gws # {} => PG = {}
      /\ Unreached = {} /\ \A p \in Pods : Left(p) \cap old.gws = {}
  <2>1. disturbed' = disturbed \cup ((IF old.gws # {} /\ \E g \in GwPods : routingExternalPodGWs[g] # None THEN {"wiped"} ELSE {})
                \cup (IF Unreached # {} THEN {"noip"} ELSE {}) \cup Early(old.gws))
    BY DEF UpdateNamespace, Note
  <2> HIDE DEF old
  <2>2. /\ ~ (old.gws # {} /\ \E g \in GwPods : routingExternalPodGWs[g] # None)
        /\ Unreached = {} /\ Early(old.gws) = {}
    BY <2>1
  <2>3. \A p \in Pods : Left(p) \cap old.gws = {}
    BY <2>2 DEF Early
  <2> QED BY <2>2, <2>3, NoneTypes
<1>7. Known = old.gws \cup PG /\ Known' = new.gws \cup PG /\ Coming' = Coming
  BY <1>1, <1>3 DEF Known, Coming
<1>8. ASSUME NEW p \in Pods
      PROVE  /\ Has(p)' = (IF old.gws # {} THEN Left(p) ELSE Has(p)) \cup n(p)
             /\ podExternalRoutes'[p] = (IF old.gws # {} THEN {} ELSE podExternalRoutes[p]) \cup n(p)
             /\ \A r \in routes[p] : (old.gws # {} => r[1] \notin podExternalRoutes[p]) => r \in routes'[p]
             /\ p \in policies' <=> n(p) # {} \/ (p \in policies /\ (~ old.gws # {} \/ podExternalRoutes[p] = {}))
  <2>1. (old.gws # {}) \in BOOLEAN
    OBVIOUS
  <2> HIDE DEF old, new
  <2> QED BY <1>3, <1>5, <2>1, ReplaceEffect
<1> HIDE DEF old, new, PG
<1>9. ASSUME NEW p \in Pods PROVE PodQueue(p)' /\ PodRoutes(p)'
  <2>1. PodQueue(p)'
    BY <1>1 DEF Core, PodQueue, PodNow, apiVars
  <2>2. PodQueue(p) /\ PodRoutes(p)
    BY DEF Core
  <2>3. Served(p)' = Served(p) /\ (Served(p) => n(p) = new.gws) /\ n(p) \subseteq new.gws
    BY <1>1, <1>6 DEF Served, Unreached, ExistingPods, Reached, Idle
  <2>4. p \notin ports /\ podEv[p] = <<>> => n(p) = {}
    BY <2>2 DEF PodQueue, PodNow, End, ExistingPods, Reached
  <2> HIDE DEF n
  <2>5. Left(p)' = Left(p) \ n(p)
    BY <1>8 DEF Left
  <2>6. CASE old.gws # {}
    <3>1. p \notin ports' /\ podEv'[p] = <<>> => Has(p)' = {}
      BY <1>1, <1>8, <2>2, <2>4, <2>6 DEF PodRoutes, Left
    <3>2. podExternalRoutes'[p] \subseteq Has(p)' \cap Known'
      BY <1>7, <1>8, <2>2, <2>3, <2>6 DEF PodRoutes
    <3>3. Served(p)' => podExternalRoutes'[p] = Known'
      BY <1>6, <1>7, <1>8, <2>2, <2>3, <2>6 DEF PodRoutes
    <3>4. Left(p)' \subseteq Coming' \cup (IF Served(p)' THEN {} ELSE Known')
      BY <1>6, <1>7, <2>2, <2>3, <2>5, <2>6 DEF PodRoutes
    <3>5. podExternalRoutes'[p] # {} => p \in policies'
      BY <1>8, <2>2, <2>6 DEF PodRoutes
    <3>6. p \in policies' => Has(p)' # {}
      BY <1>8, <2>2, <2>6 DEF PodRoutes, Left
    <3> QED BY <1>1, <2>1, <2>2, <3>1, <3>2, <3>3, <3>4, <3>5, <3>6 DEF PodRoutes
  <2>7. CASE old.gws = {}
    <3>1. p \notin ports' /\ podEv'[p] = <<>> => Has(p)' = {}
      BY <1>1, <1>8, <2>2, <2>4, <2>7 DEF PodRoutes, Left
    <3>2. podExternalRoutes'[p] \subseteq Has(p)' \cap Known'
      BY <1>7, <1>8, <2>2, <2>3, <2>7 DEF PodRoutes
    <3>3. Served(p)' => podExternalRoutes'[p] = Known'
      BY <1>6, <1>7, <1>8, <2>2, <2>3, <2>7 DEF PodRoutes
    <3>4. Left(p)' \subseteq Coming' \cup (IF Served(p)' THEN {} ELSE Known')
      BY <1>6, <1>7, <2>2, <2>3, <2>5, <2>7 DEF PodRoutes
    <3>5. podExternalRoutes'[p] # {} => p \in policies'
      BY <1>8, <2>2, <2>7 DEF PodRoutes
    <3>6. p \in policies' => Has(p)' # {}
      BY <1>8, <2>2, <2>7 DEF PodRoutes, Left
    <3> QED BY <1>1, <2>1, <2>2, <3>1, <3>2, <3>3, <3>4, <3>5, <3>6 DEF PodRoutes
  <2> QED BY <2>1, <2>6, <2>7
<1>10. ASSUME NEW g \in GwPods PROVE GwQueue(g)'
  BY <1>1 DEF Core, GwQueue, apiVars
<1>11. Sessions'
  <2> DEFINE rows == {r[1] : r \in {q \in UNION {routes'[p] : p \in Pods} : q[2]}}
  <2>1. bfdRows' = (IF old.gws # {} THEN CleanUpBFDEntry(UNION {podExternalRoutes[p] : p \in Pods}) ELSE bfdRows) \cup rows
    BY <1>5 DEF ReplaceGWRoutes
  <2>2. ASSUME NEW g \in rows PROVE \E p \in Pods : <<g, TRUE>> \in routes'[p]
    BY <2>2, SessionRows DEF TypeOK
  <2> HIDE DEF rows
  <2>3. ASSUME NEW g \in bfdRows, NEW p \in Pods, <<g, TRUE>> \in routes[p],
               old.gws # {} => g \notin podExternalRoutes[p]
        PROVE  <<g, TRUE>> \in routes'[p]
    <3>1. <<g, TRUE>>[1] = g
      OBVIOUS
    <3> QED BY <1>8, <2>3, <3>1
  <2>4. ASSUME NEW g \in bfdRows', g \notin rows PROVE \E p \in Pods : <<g, TRUE>> \in routes'[p]
    <3>1. /\ g \in bfdRows
          /\ old.gws = {} \/ g \notin UNION {podExternalRoutes[p] : p \in Pods} \/ \E p \in Pods : <<g, TRUE>> \in routes'[p]
      BY <2>1, <2>4 DEF CleanUpBFDEntry
    <3>2. PICK p \in Pods : <<g, TRUE>> \in routes[p]
      BY <3>1 DEF Core, Sessions
    <3> QED BY <2>3, <3>1, <3>2
  <2> QED BY <2>2, <2>4 DEF Sessions
<1> QED BY <1>4, <1>9, <1>10, <1>11 DEF Core

\* The controller takes the next event of gateway pod g.
LEMMA GwTaken ==
  ASSUME TypeOK, Core, NEW g \in GwPods, gwEv[g] # <<>>, gwPods' = gwPods,
         gwEv' = [gwEv EXCEPT ![g] = Tail(@)],
         routingExternalPodGWs' = [routingExternalPodGWs EXCEPT ![g] = Head(gwEv[g])]
  PROVE  /\ \A h \in GwPods : GwQueue(h)'
         /\ (routingExternalPodGWs[g] = None) # (Head(gwEv[g]) = None)
         /\ Head(gwEv[g]) \in GatewayInfo
         /\ Coming \subseteq Coming' \cup Head(gwEv[g]).gws
<1>1. /\ gwEv[g] \in Seq(GatewayInfo)
      /\ Linked(routingExternalPodGWs[g], gwEv[g], GwR)
      /\ End(routingExternalPodGWs[g], gwEv[g]) = gwPods[g]
  BY DEF TypeOK, Core, GwQueue
<1>2. /\ Head(gwEv[g]) \in GatewayInfo /\ <<routingExternalPodGWs[g], Head(gwEv[g])>> \in GwR
      /\ Linked(Head(gwEv[g]), Tail(gwEv[g]), GwR) /\ End(Head(gwEv[g]), Tail(gwEv[g])) = gwPods[g]
  BY <1>1, LinkedTaken
<1>3. /\ gwEv'[g] = Tail(gwEv[g]) /\ routingExternalPodGWs'[g] = Head(gwEv[g])
      /\ \A h \in GwPods \ {g} : gwEv'[h] = gwEv[h] /\ routingExternalPodGWs'[h] = routingExternalPodGWs[h]
  BY DEF TypeOK
<1>4. ASSUME NEW h \in GwPods PROVE GwQueue(h)'
  <2>1. CASE h = g
    BY <1>2, <1>3, <2>1 DEF GwQueue
  <2>2. CASE h # g
    BY <1>3, <2>2 DEF Core, GwQueue
  <2> QED BY <2>1, <2>2
<1>5. (routingExternalPodGWs[g] = None) # (Head(gwEv[g]) = None)
  BY <1>2 DEF GwR
<1>6. Coming \subseteq Coming' \cup Head(gwEv[g]).gws
  BY <1>3 DEF Coming
<1> QED BY <1>2, <1>4, <1>5, <1>6

LEMMA SessionsGrow ==
  ASSUME Sessions, WithBFD, routes' \in [Pods -> SUBSET (GWs \X BOOLEAN)],
         \A p \in Pods : routes[p] \subseteq routes'[p]
  PROVE  Sessions'
<1> DEFINE rows == {r[1] : r \in {q \in UNION {routes'[p] : p \in Pods} : q[2]}}
<1>1. bfdRows' = bfdRows \cup rows
  BY DEF WithBFD
<1>2. ASSUME NEW g \in rows PROVE \E p \in Pods : <<g, TRUE>> \in routes'[p]
  BY <1>2, SessionRows
<1> HIDE DEF rows
<1> QED BY <1>1, <1>2 DEF Sessions

LEMMA AddEffect ==
  ASSUME TypeOK, NEW egress \in GatewayInfo, AddGWRoutesForNamespace(egress), NEW p \in Pods
  PROVE  /\ Has(p)' = Has(p) \cup Reached(p, egress) /\ routes[p] \subseteq routes'[p]
         /\ podExternalRoutes'[p] = podExternalRoutes[p] \cup Reached(p, egress)
         /\ p \in policies' <=> p \in policies \/ Reached(p, egress) # {}
<1>1. /\ routes[p] \subseteq RoutesAdd(p, {egress})
      /\ {r[1] : r \in RoutesAdd(p, {egress})} = Has(p) \cup UNION {i.gws : i \in {egress}}
  BY RoutesAddTypes
<1>2. UNION {i.gws : i \in {egress}} = egress.gws
  OBVIOUS
<1>3. /\ routes'[p] = (IF p \in ExistingPods THEN RoutesAdd(p, {egress}) ELSE routes[p])
      /\ podExternalRoutes'[p] = podExternalRoutes[p] \cup Reached(p, egress)
      /\ p \in policies' <=> p \in policies \/ Reached(p, egress) # {}
  BY DEF AddGWRoutesForNamespace, Reached
<1>4. Has(p)' = {r[1] : r \in routes'[p]}
  BY DEF Has
<1>5. CASE p \in ExistingPods
  <2>1. routes'[p] = RoutesAdd(p, {egress}) /\ Reached(p, egress) = egress.gws
    BY <1>3, <1>5 DEF Reached
  <2> QED BY <1>1, <1>2, <1>3, <1>4, <2>1
<1>6. CASE p \notin ExistingPods
  <2>1. routes'[p] = routes[p] /\ Reached(p, egress) = {}
    BY <1>3, <1>6 DEF Reached
  <2> QED BY <1>3, <1>4, <2>1 DEF Has
<1> QED BY <1>5, <1>6

LEMMA CoreAddPodExternalGW ==
  ASSUME TypeOK, TypeOK', Core, NEW g \in GwPods, AddPodExternalGW(g), disturbed' = {} PROVE Core'
<1> DEFINE e == Head(gwEv[g])
           n(p) == Reached(p, e)
<1>1. /\ UNCHANGED <<apiVars, nsEv, podEv, routingExternalGWs, ports, thread>>
      /\ gwEv[g] # <<>> /\ e # None /\ gwEv' = [gwEv EXCEPT ![g] = Tail(@)]
      /\ routingExternalPodGWs' = [routingExternalPodGWs EXCEPT ![g] = Head(gwEv[g])]
      /\ AddGWRoutesForNamespace(e) /\ WithBFD /\ gwPods' = gwPods
  BY DEF AddPodExternalGW, apiVars
<1>2. /\ \A h \in GwPods : GwQueue(h)'
      /\ routingExternalPodGWs[g] = None /\ e \in GatewayInfo
      /\ Coming \subseteq Coming' \cup e.gws
  <2>1. /\ \A h \in GwPods : GwQueue(h)'
        /\ (routingExternalPodGWs[g] = None) # (Head(gwEv[g]) = None)
        /\ Head(gwEv[g]) \in GatewayInfo
        /\ Coming \subseteq Coming' \cup Head(gwEv[g]).gws
    BY <1>1, GwTaken
  <2> QED BY <1>1, <2>1
<1>3. Unreached = {}
  BY DEF AddPodExternalGW, Note
<1>4. Known' = Known \cup e.gws
  <2>1. routingExternalPodGWs'[g] = e /\ \A h \in GwPods \ {g} : routingExternalPodGWs'[h] = routingExternalPodGWs[h]
    BY <1>1 DEF TypeOK
  <2>2. routingExternalPodGWs[g].gws = {}
    BY <1>2, NoneTypes
  <2> HIDE DEF e
  <2> QED BY <1>1, <2>1, <2>2 DEF Known
<1> HIDE DEF e
<1>5. ASSUME NEW p \in Pods
      PROVE  /\ Has(p)' = Has(p) \cup n(p) /\ routes[p] \subseteq routes'[p]
             /\ podExternalRoutes'[p] = podExternalRoutes[p] \cup n(p)
             /\ p \in policies' <=> p \in policies \/ n(p) # {}
  BY <1>1, <1>2, AddEffect
<1>6. ASSUME NEW p \in Pods PROVE PodQueue(p)' /\ PodRoutes(p)'
  <2>1. PodQueue(p)'
    BY <1>1 DEF Core, PodQueue, PodNow, apiVars
  <2>2. PodQueue(p) /\ PodRoutes(p)
    BY DEF Core
  <2>3. Served(p)' = Served(p) /\ (Served(p) => n(p) = e.gws) /\ n(p) \subseteq e.gws
    BY <1>1, <1>3 DEF Served, Unreached, ExistingPods, Reached, Idle
  <2>4. p \notin ports /\ podEv[p] = <<>> => n(p) = {}
    BY <2>2 DEF PodQueue, PodNow, End, ExistingPods, Reached
  <2> HIDE DEF n
  <2>5. Left(p)' = Left(p) \ n(p)
    BY <1>5 DEF Left
  <2>6. p \notin ports' /\ podEv'[p] = <<>> => Has(p)' = {}
    BY <1>1, <1>5, <2>2, <2>4 DEF PodRoutes
  <2>7. podExternalRoutes'[p] \subseteq Has(p)' \cap Known'
    BY <1>4, <1>5, <2>2, <2>3 DEF PodRoutes
  <2>8. Served(p)' => podExternalRoutes'[p] = Known'
    BY <1>4, <1>5, <2>2, <2>3 DEF PodRoutes
  <2>9. Left(p)' \subseteq Coming' \cup (IF Served(p)' THEN {} ELSE Known')
    BY <1>2, <1>4, <2>2, <2>3, <2>5 DEF PodRoutes
  <2>10. (podExternalRoutes'[p] # {} => p \in policies') /\ (p \in policies' => Has(p)' # {})
    BY <1>5, <2>2 DEF PodRoutes
  <2> QED BY <1>1, <2>1, <2>2, <2>6, <2>7, <2>8, <2>9, <2>10 DEF PodRoutes
<1>7. NsQueue'
  BY <1>1 DEF Core, NsQueue, NsNow, apiVars
<1>8. Sessions'
  BY <1>1, <1>5, SessionsGrow DEF Core, TypeOK
<1> QED BY <1>2, <1>6, <1>7, <1>8 DEF Core

LEMMA CoreDeletePodExternalGW ==
  ASSUME TypeOK, Core, NEW g \in GwPods, DeletePodExternalGW(g), disturbed' = {} PROVE Core'
<1> DEFINE x == routingExternalPodGWs[g].gws
           gone(p) == x \cap podExternalRoutes[p]
<1>1. /\ UNCHANGED <<apiVars, nsEv, podEv, routingExternalGWs, ports, thread>>
      /\ gwEv[g] # <<>> /\ Head(gwEv[g]) = None /\ gwEv' = [gwEv EXCEPT ![g] = Tail(@)]
      /\ routingExternalPodGWs' = [routingExternalPodGWs EXCEPT ![g] = Head(gwEv[g])] /\ gwPods' = gwPods
  BY DEF DeletePodExternalGW, apiVars
<1>2. (\A h \in GwPods : GwQueue(h)') /\ Coming \subseteq Coming'
  <2>1. (\A h \in GwPods : GwQueue(h)') /\ Coming \subseteq Coming' \cup Head(gwEv[g]).gws
    BY <1>1, GwTaken
  <2> QED BY <1>1, <2>1, NoneTypes
<1>3. x \cap Others(g) = {} /\ \A p \in Pods : Left(p) \cap x = {}
  <2>1. disturbed' = disturbed \cup ((IF x \cap Others(g) # {} THEN {"shared"} ELSE {}) \cup Early(x))
    BY DEF DeletePodExternalGW, Note
  <2> HIDE DEF x
  <2>2. x \cap Others(g) = {} /\ Early(x) = {}
    BY <2>1
  <2> QED BY <2>2 DEF Early
<1>4. Known = x \cup Others(g) /\ Known' = Others(g)
  <2>1. /\ routingExternalPodGWs'[g] = None
        /\ \A h \in GwPods \ {g} : routingExternalPodGWs'[h] = routingExternalPodGWs[h]
    BY <1>1 DEF TypeOK
  <2>2. Known = x \cup Others(g)
    BY DEF Known, Others
  <2>3. Known' = Others(g)
    BY <1>1, <2>1, NoneTypes DEF Known, Others
  <2> QED BY <2>2, <2>3
<1>5. ASSUME NEW p \in Pods
      PROVE  /\ routes'[p] = {r \in routes[p] : r[1] \notin gone(p)}
             /\ podExternalRoutes'[p] = podExternalRoutes[p] \ gone(p)
             /\ p \in policies' <=> p \in policies /\ (gone(p) = {} \/ podExternalRoutes'[p] # {})
  BY DEF DeletePodExternalGW, TypeOK
<1>6. bfdRows' = CleanUpBFDEntry(UNION {gone(p) : p \in Pods})
  BY DEF DeletePodExternalGW
<1> HIDE DEF x
<1>7. ASSUME NEW p \in Pods PROVE PodQueue(p)' /\ PodRoutes(p)'
  <2>1. PodQueue(p)'
    BY <1>1 DEF Core, PodQueue, PodNow, apiVars
  <2>2. PodQueue(p) /\ PodRoutes(p)
    BY DEF Core
  <2>3. Served(p)' = Served(p)
    BY <1>1 DEF Served
  <2>4. Has(p)' = Has(p) \ gone(p)
    BY <1>5 DEF Has
  <2>5. Left(p)' = Left(p)
    BY <1>5, <2>2, <2>4 DEF Left, PodRoutes
  <2>6. podExternalRoutes'[p] = podExternalRoutes[p] \ x
    BY <1>5
  <2>7. podExternalRoutes'[p] \subseteq Has(p)' \cap Known'
    BY <1>4, <2>2, <2>4, <2>6 DEF PodRoutes
  <2>8. Served(p)' => podExternalRoutes'[p] = Known'
    BY <1>3, <1>4, <2>2, <2>3, <2>6 DEF PodRoutes
  <2>9. Left(p)' \subseteq Coming' \cup (IF Served(p)' THEN {} ELSE Known')
    BY <1>2, <1>3, <1>4, <2>2, <2>3, <2>5 DEF PodRoutes
  <2>10. (podExternalRoutes'[p] # {} => p \in policies') /\ (p \in policies' => Has(p)' # {})
    <3> HIDE DEF gone
    <3> QED BY <1>5, <2>2, <2>4, <2>7 DEF PodRoutes
  <2> QED BY <1>1, <2>1, <2>2, <2>4, <2>7, <2>8, <2>9, <2>10 DEF PodRoutes
<1>8. NsQueue'
  BY <1>1 DEF Core, NsQueue, NsNow, apiVars
<1>9. Sessions'
  <2> HIDE DEF gone
  <2> SUFFICES ASSUME NEW h \in bfdRows' PROVE \E p \in Pods : <<h, TRUE>> \in routes'[p]
    BY DEF Sessions
  <2>1. h \in bfdRows /\ (h \notin UNION {gone(p) : p \in Pods} \/ \E p \in Pods : <<h, TRUE>> \in routes'[p])
    BY <1>6 DEF CleanUpBFDEntry
  <2>2. PICK p \in Pods : <<h, TRUE>> \in routes[p]
    BY <2>1 DEF Core, Sessions
  <2>3. h \notin gone(p) => <<h, TRUE>> \in routes'[p]
    <3>1. <<h, TRUE>>[1] = h
      OBVIOUS
    <3> QED BY <1>5, <2>2, <3>1
  <2> QED BY <2>1, <2>3
<1> QED BY <1>2, <1>7, <1>8, <1>9 DEF Core

-----------------------------------------------------------------------------
(* The pods' threads. *)

\* A pod's thread takes its next event.
LEMMA PodTaken ==
  ASSUME TypeOK, Core, NEW p \in Pods, podEv[p] # <<>>, pods' = pods,
         podEv' = [podEv EXCEPT ![p] = Tail(@)],
         ports' = IF Head(podEv[p]) = "add" THEN ports \cup {p} ELSE ports \ {p}
  PROVE  /\ \A q \in Pods : PodQueue(q)'
         /\ p \in ports <=> Head(podEv[p]) = "delete"
         /\ \A q \in Pods \ {p} : podEv'[q] = podEv[q] /\ (q \in ports' <=> q \in ports)
<1>1. podEv[p] \in Seq({"add", "delete"}) /\ Linked(PodNow(p), podEv[p], PodR)
  BY DEF TypeOK, Core, PodQueue
<1>2. /\ Head(podEv[p]) \in {"add", "delete"} /\ <<PodNow(p), Head(podEv[p])>> \in PodR
      /\ Linked(Head(podEv[p]), Tail(podEv[p]), PodR)
      /\ End(Head(podEv[p]), Tail(podEv[p])) = End(PodNow(p), podEv[p])
  BY <1>1, LinkedTaken
<1>3. PodNow(p)' = Head(podEv[p]) /\ podEv'[p] = Tail(podEv[p])
  BY <1>2 DEF PodNow, TypeOK
<1>4. \A q \in Pods \ {p} : podEv'[q] = podEv[q] /\ (q \in ports' <=> q \in ports)
  BY DEF TypeOK
<1>5. ASSUME NEW q \in Pods PROVE PodQueue(q)'
  <2>1. CASE q = p
    BY <1>2, <1>3, <2>1 DEF Core, PodQueue
  <2>2. CASE q # p
    BY <1>4, <2>2 DEF Core, PodQueue, PodNow
  <2> QED BY <2>1, <2>2
<1>6. p \in ports <=> Head(podEv[p]) = "delete"
  BY <1>2 DEF PodR, PodNow
<1> QED BY <1>4, <1>5, <1>6

LEMMA CoreGetRoutingExternalGWs ==
  ASSUME TypeOK, Core, NEW p \in Pods, GetRoutingExternalGWs(p) PROVE Core'
<1>1. /\ UNCHANGED <<apiVars, nsEv, gwEv, infoVars, ovnVars>> /\ podEv[p] # <<>> /\ Head(podEv[p]) = "add"
      /\ podEv' = [podEv EXCEPT ![p] = Tail(@)] /\ ports' = ports \cup {p} /\ pods' = pods
      /\ thread' = [thread EXCEPT ![p] = [pc |-> "podgws", gateways |-> {routingExternalGWs} \ {None}]]
  BY DEF GetRoutingExternalGWs, apiVars
<1>2. /\ \A q \in Pods : PodQueue(q)'
      /\ \A q \in Pods \ {p} : podEv'[q] = podEv[q] /\ (q \in ports' <=> q \in ports)
  BY <1>1, PodTaken
<1>3. thread'[p] # Idle /\ \A q \in Pods \ {p} : thread'[q] = thread[q]
  BY <1>1 DEF TypeOK, Idle
<1>4. Known' = Known /\ Coming' = Coming
  BY <1>1, SameKnown DEF Coming, infoVars
<1>5. ASSUME NEW q \in Pods PROVE PodRoutes(q)'
  <2>1. PodRoutes(q) /\ thread'[q] # Idle => q \in ports'
    BY <1>1, <1>2, <1>3 DEF Core, PodRoutes
  <2>2. Served(q)' => Served(q)
    BY <1>2, <1>3 DEF Served
  <2>3. q \notin ports' /\ podEv'[q] = <<>> => q \notin ports /\ podEv[q] = <<>>
    BY <1>1, <1>2
  <2>4. PodRoutes(q)
    BY DEF Core
  <2> QED BY <1>1, <1>4, <2>1, <2>2, <2>3, <2>4, SameRoutes DEF infoVars, ovnVars
<1>6. NsQueue' /\ Sessions' /\ \A g \in GwPods : GwQueue(g)'
  BY <1>1, SameSessions DEF Core, NsQueue, NsNow, GwQueue, apiVars, infoVars, ovnVars
<1> QED BY <1>2, <1>5, <1>6 DEF Core

LEMMA CoreGetRoutingPodGWs ==
  ASSUME TypeOK, Core, NEW p \in Pods, GetRoutingPodGWs(p) PROVE Core'
<1>1. UNCHANGED <<apiVars, evVars, infoVars, ports, ovnVars>>
  BY DEF GetRoutingPodGWs
<1>2. thread[p] # Idle /\ thread'[p] # Idle /\ \A q \in Pods \ {p} : thread'[q] = thread[q]
  BY DEF GetRoutingPodGWs, TypeOK, Idle
<1>3. Known' = Known /\ Coming' = Coming
  BY <1>1, SameKnown DEF Coming, infoVars, evVars
<1>4. ASSUME NEW q \in Pods PROVE PodQueue(q)' /\ PodRoutes(q)'
  <2>1. PodQueue(q)'
    BY <1>1 DEF Core, PodQueue, PodNow, apiVars, evVars
  <2>2. PodRoutes(q) /\ (thread'[q] # Idle => q \in ports') /\ (Served(q)' => Served(q))
    BY <1>1, <1>2 DEF Core, PodRoutes, Served
  <2> QED BY <1>1, <1>3, <2>1, <2>2, SameRoutes DEF infoVars, ovnVars, evVars
<1>5. NsQueue' /\ Sessions' /\ \A g \in GwPods : GwQueue(g)'
  BY <1>1, SameSessions DEF Core, NsQueue, NsNow, GwQueue, apiVars, infoVars, ovnVars, evVars
<1> QED BY <1>4, <1>5 DEF Core

LEMMA CoreAddGWRoutesForPod ==
  ASSUME TypeOK, TypeOK', Core, NEW p \in Pods, AddGWRoutesForPod(p), disturbed' = {} PROVE Core'
<1> DEFINE G   == thread[p].gateways
           gws == UNION {i.gws : i \in G}
<1>1. /\ UNCHANGED <<apiVars, evVars, routingExternalGWs, routingExternalPodGWs, ports>> /\ WithBFD
      /\ thread' = [thread EXCEPT ![p] = Idle]
  BY DEF AddGWRoutesForPod
<1>2. thread[p] # Idle /\ thread'[p] = Idle /\ \A q \in Pods \ {p} : thread'[q] = thread[q]
  BY <1>1 DEF AddGWRoutesForPod, TypeOK, Idle
<1>3. G \in SUBSET GatewayInfo
  BY <1>2, ThreadTypes
<1>4. gws = Known
  <2>1. G = ({routingExternalGWs} \cup {routingExternalPodGWs[g] : g \in GwPods}) \ {None}
    BY DEF AddGWRoutesForPod, Note
  <2> HIDE DEF G
  <2> QED BY <2>1, NoneTypes DEF Known
<1>5. Known' = Known /\ Coming' = Coming
  BY <1>1, SameKnown DEF Coming, evVars
<1>6. \/ gws = {} /\ UNCHANGED <<routes, policies, podExternalRoutes>>
      \/ /\ gws # {} /\ routes' = [routes EXCEPT ![p] = RoutesAdd(p, G)] /\ policies' = policies \cup {p}
         /\ podExternalRoutes' = [podExternalRoutes EXCEPT ![p] = @ \cup gws]
  BY DEF AddGWRoutesForPod
<1>7. /\ RoutesAdd(p, G) \in SUBSET (GWs \X BOOLEAN) /\ routes[p] \subseteq RoutesAdd(p, G)
      /\ {r[1] : r \in RoutesAdd(p, G)} = Has(p) \cup gws
  BY <1>3, RoutesAddTypes
<1> HIDE DEF G, gws
<1>8. /\ Has(p)' = Has(p) \cup Known /\ routes[p] \subseteq routes'[p]
      /\ podExternalRoutes'[p] = podExternalRoutes[p] \cup Known
      /\ p \in policies' <=> p \in policies \/ Known # {}
      /\ \A q \in Pods \ {p} : /\ routes'[q] = routes[q] /\ podExternalRoutes'[q] = podExternalRoutes[q]
                               /\ q \in policies' <=> q \in policies
  <2>1. CASE gws = {} /\ UNCHANGED <<routes, policies, podExternalRoutes>>
    BY <1>4, <2>1 DEF Has
  <2>2. CASE /\ gws # {} /\ routes' = [routes EXCEPT ![p] = RoutesAdd(p, G)] /\ policies' = policies \cup {p}
             /\ podExternalRoutes' = [podExternalRoutes EXCEPT ![p] = @ \cup gws]
    <3>1. /\ routes'[p] = RoutesAdd(p, G) /\ podExternalRoutes'[p] = podExternalRoutes[p] \cup gws
          /\ \A q \in Pods \ {p} : routes'[q] = routes[q] /\ podExternalRoutes'[q] = podExternalRoutes[q]
      BY <2>2 DEF TypeOK
    <3>2. Has(p)' = {r[1] : r \in RoutesAdd(p, G)}
      BY <3>1 DEF Has
    <3> QED BY <1>4, <1>7, <2>2, <3>1, <3>2
  <2> QED BY <1>6, <2>1, <2>2
<1>9. PodRoutes(p)'
  <2>1. PodRoutes(p) /\ p \in ports /\ ~ Served(p) /\ p \in ports'
    BY <1>1, <1>2 DEF Core, PodRoutes, Served
  <2>2. podExternalRoutes'[p] = Known
    BY <1>8, <2>1 DEF PodRoutes
  <2>3. Left(p)' = Has(p) \ Known
    BY <1>8, <2>2 DEF Left
  <2>4. Left(p)' \subseteq Coming
    BY <2>1, <2>3 DEF PodRoutes, Left
  <2> QED BY <1>5, <1>8, <2>1, <2>2, <2>4 DEF PodRoutes
<1>10. ASSUME NEW q \in Pods, q # p PROVE PodRoutes(q)'
  <2>1. PodRoutes(q) /\ (thread'[q] # Idle => q \in ports') /\ (Served(q)' => Served(q))
    BY <1>1, <1>2, <1>10 DEF Core, PodRoutes, Served
  <2> QED BY <1>1, <1>5, <1>8, <1>10, <2>1, SameRoutes DEF evVars
<1>11. ASSUME NEW q \in Pods PROVE PodQueue(q)' /\ PodRoutes(q)'
  BY <1>1, <1>9, <1>10 DEF Core, PodQueue, PodNow, apiVars, evVars
<1>12. NsQueue' /\ \A g \in GwPods : GwQueue(g)'
  BY <1>1 DEF Core, NsQueue, NsNow, GwQueue, apiVars, evVars
<1>13. Sessions'
  BY <1>1, <1>8, SessionsGrow DEF Core, TypeOK
<1> QED BY <1>11, <1>12, <1>13 DEF Core

LEMMA CoreDeleteGWRoutesForPod ==
  ASSUME TypeOK, Core, NEW p \in Pods, DeleteGWRoutesForPod(p), disturbed' = {} PROVE Core'
<1>1. /\ UNCHANGED <<apiVars, nsEv, gwEv, routingExternalGWs, routingExternalPodGWs, thread>>
      /\ podEv[p] # <<>> /\ Head(podEv[p]) = "delete" /\ thread[p] = Idle /\ pods' = pods
      /\ podEv' = [podEv EXCEPT ![p] = Tail(@)] /\ ports' = ports \ {p}
  BY DEF DeleteGWRoutesForPod, apiVars
<1>2. /\ \A q \in Pods : PodQueue(q)'
      /\ p \in ports
      /\ \A q \in Pods \ {p} : podEv'[q] = podEv[q] /\ (q \in ports' <=> q \in ports)
  <2>1. ports' = IF Head(podEv[p]) = "add" THEN ports \cup {p} ELSE ports \ {p}
    BY <1>1
  <2> QED BY <1>1, <2>1, PodTaken
<1>3. Left(p) = {}
  BY DEF DeleteGWRoutesForPod, Note
<1>4. /\ routes' = [routes EXCEPT ![p] = {r \in @ : r[1] \notin podExternalRoutes[p]}]
      /\ policies' = IF podExternalRoutes[p] = {} THEN policies ELSE policies \ {p}
      /\ bfdRows' = CleanUpBFDEntry(podExternalRoutes[p])
      /\ podExternalRoutes' = [podExternalRoutes EXCEPT ![p] = {}]
  BY <1>2 DEF DeleteGWRoutesForPod
<1>5. /\ routes'[p] = {r \in routes[p] : r[1] \notin podExternalRoutes[p]} /\ podExternalRoutes'[p] = {}
      /\ \A q \in Pods \ {p} : /\ routes'[q] = routes[q] /\ podExternalRoutes'[q] = podExternalRoutes[q]
                               /\ q \in policies' <=> q \in policies
  BY <1>4 DEF TypeOK
<1>6. Known' = Known /\ Coming' = Coming
  BY <1>1, SameKnown DEF Coming
<1>7. PodRoutes(p)'
  <2>1. Has(p)' = {}
    <3>1. Has(p)' = Left(p)
      BY <1>5 DEF Has, Left
    <3> QED BY <1>3, <3>1
  <2>2. Left(p)' = {}
    BY <2>1 DEF Left
  <2>3. p \notin policies'
    BY <1>3, <1>4 DEF Core, PodRoutes, Left
  <2>4. p \notin ports' /\ thread'[p] = Idle /\ ~ Served(p)'
    BY <1>1 DEF Served
  <2> QED BY <1>5, <2>1, <2>2, <2>3, <2>4 DEF PodRoutes
<1>8. ASSUME NEW q \in Pods, q # p PROVE PodRoutes(q)'
  <2>1. PodRoutes(q) /\ (thread'[q] # Idle => q \in ports') /\ (Served(q)' => Served(q))
    BY <1>1, <1>2, <1>8 DEF Core, PodRoutes, Served
  <2> QED BY <1>2, <1>5, <1>6, <1>8, <2>1, SameRoutes
<1>9. NsQueue' /\ \A g \in GwPods : GwQueue(g)'
  BY <1>1 DEF Core, NsQueue, NsNow, GwQueue, apiVars
<1>10. Sessions'
  <2> SUFFICES ASSUME NEW h \in bfdRows' PROVE \E q \in Pods : <<h, TRUE>> \in routes'[q]
    BY DEF Sessions
  <2>1. h \in bfdRows /\ (h \notin podExternalRoutes[p] \/ \E q \in Pods : <<h, TRUE>> \in routes'[q])
    BY <1>4 DEF CleanUpBFDEntry
  <2>2. PICK q \in Pods : <<h, TRUE>> \in routes[q]
    BY <2>1 DEF Core, Sessions
  <2>3. h \notin podExternalRoutes[p] => <<h, TRUE>> \in routes'[q]
    <3>1. <<h, TRUE>>[1] = h
      OBVIOUS
    <3> QED BY <1>5, <2>2, <3>1
  <2> QED BY <2>1, <2>3
<1> QED BY <1>2, <1>7, <1>8, <1>9, <1>10 DEF Core

\* A restart when every event is handled: what the old master knew is what the
\* new one knows or is about to learn, so no route is left that will not be added again.
LEMMA CoreRestart == ASSUME TypeOK, TypeOK', Core, Restart, disturbed' = {} PROVE Core'
<1>1. /\ nsEv = <<>> /\ \A p \in Pods : podEv[p] = <<>> /\ thread[p] = Idle
      /\ \A g \in GwPods : gwEv[g] = <<>>
  BY DEF Restart, Note
<1>2. /\ UNCHANGED <<apiVars, ovnVars>> /\ ports' = {} /\ nsEv' = <<>> /\ routingExternalGWs' = annotation
      /\ routingExternalPodGWs' = [g \in GwPods |-> None]
      /\ podExternalRoutes' = [p \in Pods |-> {}] /\ thread' = [p \in Pods |-> Idle]
      /\ podEv' = [p \in Pods |-> IF pods[p] = "none" THEN <<>> ELSE <<"add">>]
      /\ gwEv' = [g \in GwPods |-> IF gwPods[g] = None THEN <<>> ELSE <<gwPods[g]>>]
  BY DEF Restart
<1>3. (\A p \in Pods : PodQueue(p)') /\ \A g \in GwPods : GwQueue(g)'
  <2>1. ASSUME NEW p \in Pods PROVE PodQueue(p)'
    <3>1. podEv'[p] = (IF pods[p] = "none" THEN <<>> ELSE <<"add">>) /\ PodNow(p)' = "delete" /\ pods' = pods
      BY <1>2 DEF PodNow, apiVars
    <3> QED BY <3>1, FirstPodEvent DEF PodQueue
  <2>2. ASSUME NEW g \in GwPods PROVE GwQueue(g)'
    <3>1. /\ gwEv'[g] = (IF gwPods[g] = None THEN <<>> ELSE <<gwPods[g]>>) /\ gwPods' = gwPods
          /\ routingExternalPodGWs'[g] = None /\ gwPods[g] \in GatewayInfo
      BY <1>2 DEF TypeOK, apiVars
    <3> QED BY <3>1, FirstGwEvent DEF GwQueue
  <2> QED BY <2>1, <2>2
<1>4. NsQueue'
  <2>1. NsNow' = <<annotation, annotation>> /\ nsEv' = <<>> /\ annotation' = annotation
    BY <1>2 DEF NsNow, apiVars
  <2>2. Linked(<<annotation, annotation>>, <<>>, NsR) /\ End(<<annotation, annotation>>, <<>>) = <<annotation, annotation>>
    BY LinkedEmpty
  <2> QED BY <2>1, <2>2 DEF NsQueue
<1>5. routingExternalGWs = annotation /\ \A g \in GwPods : routingExternalPodGWs[g] = gwPods[g]
  BY <1>1 DEF Core, NsQueue, NsNow, GwQueue, End
<1>6. Known \subseteq Known' \cup Coming' /\ Coming = {}
  <2>1. annotation.gws \subseteq Known'
    BY <1>2 DEF Known
  <2>2. ASSUME NEW g \in GwPods PROVE gwPods[g].gws \subseteq Coming'
    <3>1. CASE gwPods[g] = None
      BY <3>1, NoneTypes
    <3>2. CASE gwPods[g] # None
      <4>1. gwEv'[g] # <<>> /\ Head(gwEv'[g]) = gwPods[g]
        BY <1>2, <3>2
      <4> QED BY <4>1 DEF Coming
    <3> QED BY <3>1, <3>2
  <2>3. Coming = {}
    BY <1>1 DEF Coming
  <2> QED BY <1>5, <2>1, <2>2, <2>3 DEF Known
<1>7. ASSUME NEW p \in Pods PROVE PodRoutes(p)'
  <2>1. PodQueue(p) /\ PodRoutes(p)
    BY DEF Core
  <2>2. /\ Has(p)' = Has(p) /\ podExternalRoutes'[p] = {} /\ thread'[p] = Idle /\ policies' = policies
        /\ ~ Served(p)' /\ p \notin ports'
    BY <1>2 DEF Has, Served, ovnVars
  <2>3. Has(p) \subseteq Known' \cup Coming'
    BY <1>6, <2>1 DEF PodRoutes, Left
  <2>4. podEv'[p] = <<>> => Has(p)' = {}
    <3>1. podEv'[p] = <<>> => pods[p] = "none"
      BY <1>2
    <3>2. pods[p] = "none" => p \notin ports
      BY <1>1, <2>1 DEF PodQueue, PodNow, End
    <3> QED BY <1>1, <2>1, <2>2, <3>1, <3>2 DEF PodRoutes
  <2>5. Left(p)' \subseteq Known' \cup Coming'
    BY <2>2, <2>3 DEF Left
  <2> QED BY <2>1, <2>2, <2>4, <2>5 DEF PodRoutes
<1>8. Sessions'
  BY <1>2, SameSessions DEF Core, ovnVars
<1> QED BY <1>3, <1>4, <1>7, <1>8 DEF Core

-----------------------------------------------------------------------------
(* The theorem. *)

\* A step never takes a disturbance back.
LEMMA Disturbances == ASSUME [Next]_vars, disturbed' = {} PROVE disturbed = {}
<1>1. disturbed \subseteq disturbed'
  BY DEF Next, vars, Note, ChangeAnnotation, UpdateNamespace, Restart, ChangePod, GetRoutingExternalGWs,
         GetRoutingPodGWs, AddGWRoutesForPod, DeleteGWRoutesForPod, ChangeGwPod, AddPodExternalGW,
         DeletePodExternalGW
<1> QED BY <1>1

LEMMA CoreStep ==
  ASSUME WellFormed, TypeOK, TypeOK', Core, [Next]_vars, disturbed' = {} PROVE Core'
<1>1. CASE UNCHANGED vars
  <2>1. UNCHANGED <<apiVars, evVars, infoVars, ports, thread, ovnVars>>
    BY <1>1 DEF vars
  <2>2. Known' = Known /\ Coming' = Coming
    BY <2>1, SameKnown DEF Coming, infoVars, evVars
  <2>3. ASSUME NEW p \in Pods PROVE PodQueue(p)' /\ PodRoutes(p)'
    BY <2>1, <2>2, SameRoutes
    DEF Core, PodQueue, PodNow, PodRoutes, Served, apiVars, evVars, infoVars, ovnVars
  <2>4. NsQueue' /\ Sessions' /\ \A g \in GwPods : GwQueue(g)'
    BY <2>1, SameSessions DEF Core, NsQueue, NsNow, GwQueue, apiVars, infoVars, ovnVars, evVars
  <2> QED BY <2>3, <2>4 DEF Core
<1>2. CASE Next
  BY <1>2, CoreChangeAnnotation, CoreUpdateNamespace, CoreRestart, CoreChangePod, CoreGetRoutingExternalGWs,
     CoreGetRoutingPodGWs, CoreAddGWRoutesForPod, CoreDeleteGWRoutesForPod, CoreChangeGwPod,
     CoreAddPodExternalGW, CoreDeletePodExternalGW DEF Next
<1> QED BY <1>1, <1>2

\* When every event is handled, the queues are empty, so the controller knows
\* the gateways there are, serves the pods there are, and nothing is left.
LEMMA CoreSettled == ASSUME TypeOK, Core, Settled, disturbed = {} PROVE RoutesFollowGateways
<1>1. /\ nsEv = <<>> /\ \A p \in Pods : podEv[p] = <<>> /\ thread[p] = Idle
      /\ \A g \in GwPods : gwEv[g] = <<>>
  BY DEF Settled
<1>2. Known = Gateways /\ Coming = {}
  <2>1. routingExternalGWs = annotation /\ \A g \in GwPods : routingExternalPodGWs[g] = gwPods[g]
    BY <1>1 DEF Core, NsQueue, NsNow, GwQueue, End
  <2> QED BY <1>1, <2>1 DEF Known, Gateways, Coming
<1>3. ASSUME NEW p \in Pods PROVE /\ Has(p) = (IF pods[p] = "none" THEN {} ELSE Gateways)
                                  /\ p \in policies <=> Has(p) # {}
  <2>1. PodQueue(p) /\ PodRoutes(p)
    BY DEF Core
  <2>2. p \in ports <=> pods[p] # "none"
    BY <1>1, <2>1 DEF PodQueue, PodNow, End
  <2>3. CASE p \in ports
    <3>1. Served(p) /\ podExternalRoutes[p] = Known /\ Left(p) = {}
      BY <1>1, <1>2, <2>1, <2>3 DEF Served, PodRoutes
    <3>2. Has(p) = Known
      BY <2>1, <3>1 DEF PodRoutes, Left
    <3> QED BY <1>2, <2>1, <2>2, <2>3, <3>1, <3>2 DEF PodRoutes
  <2>4. CASE p \notin ports
    BY <1>1, <2>1, <2>2, <2>4 DEF PodRoutes
  <2> QED BY <2>3, <2>4
<1>4. policies = {p \in Pods : Has(p) # {}}
  BY <1>3 DEF TypeOK
<1> QED BY <1>3, <1>4 DEF RoutesFollowGateways, Core, Sessions

LEMMA InvHolds == ASSUME WellFormed PROVE Spec => []Inv
<1>1. Init => Inv
  BY TypeInit, CoreInit DEF Inv
<1>2. Inv /\ [Next]_vars => Inv'
  BY TypeStep, CoreStep, Disturbances DEF Inv
<1> QED BY <1>1, <1>2, PTL DEF Spec

\* For any pods, gateway pods and gateways, and however the threads of the
\* namespace, its pods and its gateway pods interleave: once every event is
\* handled, and none of the races and orders that RoutesFollowGateways names
\* occurred, each pod has exactly the routes of its namespace's gateways.
\* (egressgw.go:106-156, 178-350)
THEOREM RoutesFollow == ASSUME WellFormed PROVE Spec => []RoutesFollowGateways
<1>1. Inv => RoutesFollowGateways
  BY CoreSettled DEF Inv, RoutesFollowGateways
<1> QED BY <1>1, InvHolds, PTL

-----------------------------------------------------------------------------
(* Egress firewalls, a specification of its own beside that of the gateways. *)

CONSTANTS Namespaces, Nodes, Dests, DNSNames, Covers, Answers, Packets, Specs, FwWorlds

VARIABLES fw, fwEv, nodes, answer, mode, lastMode, egressFirewalls, dnsEntries, dnsMap, queryOrder, adder, runner,
          acls, fwPolicies, asets, fwBudget, fwDisturbed

Fw == INSTANCE EgressFirewalls WITH
        Worlds <- FwWorlds, policies <- fwPolicies, budget <- fwBudget, disturbed <- fwDisturbed

-----------------------------------------------------------------------------
(* Types. *)

\* A firewall with no more rules than there are priorities for.
GoodSpec(spec) ==
  \E n \in 0 .. Fw!StartPriority - Fw!MinPriority + 1 :
    /\ DOMAIN spec = 1 .. n
    /\ \A i \in 1 .. n : spec[i].ports \in Seq([proto : Fw!Protocols, port : Nat])
Offered  == Specs \cup {<<>>} \cup {w.fw[ns].spec : w \in FwWorlds, ns \in Namespaces}
Firewall == {f \in [exists : BOOLEAN, spec : Offered, status : {"none", "applied", "error"}] :
               f.exists \/ f.spec = <<>>}
Event    == {"add", "update", "delete"} \X Namespaces \X Offered
IsACL(a) == a = [ns |-> a.ns, match |-> a.match, action |-> a.action, prio |-> a.prio, dir |-> a.dir]

SwitchesOf(m, ns) == IF m = "local" THEN ns ELSE {Fw!JoinSwitch}
Of(A, ns)         == {a \in A : a.ns = ns}
Turned(A)         == {[a EXCEPT !.dir = "to"] : a \in A}

\* The ACLs of a firewall in a gateway mode.
MatchIn(m, rule) == [dest |-> rule.dest, l4 |-> Fw!L4Match(rule.ports), any |-> rule.ports = <<>>, extra |-> m]
ACLOf(m, ns, spec, i) ==
  [ns |-> ns, match |-> MatchIn(m, spec[i]), action |-> spec[i].action,
   prio |-> Fw!StartPriority - (i - 1), dir |-> "to"]
ACLsOf(m, ns, spec) == {ACLOf(m, ns, spec, i) : i \in Fw!EgressRules(spec)}

\* What the API server accepts, and what an earlier master can have left: no ACLs
\* on the join switch of local gateways, and on the switches of its gateway mode
\* ACLs of the firewalls there are or of ones that are gone.
FwWellFormed ==
  /\ IsFiniteSet(Namespaces) /\ Fw!JoinSwitch \notin Nodes
  /\ \A spec \in Offered : GoodSpec(spec)
  /\ \A p \in Packets : p.proto \in Fw!Protocols
  /\ \A w \in FwWorlds :
       /\ w.fw \in [Namespaces -> Firewall] /\ w.nodes \subseteq Nodes /\ w.mode \in {"local", "shared"}
       /\ w.acls = [s \in Fw!Switches |-> w.acls[s]]
       /\ \A s \in Fw!Switches : \A a \in w.acls[s] : IsACL(a)
       /\ w.mode = "local" => w.acls[Fw!JoinSwitch] = {}
       /\ \A s \in SwitchesOf(w.mode, w.nodes), ns \in Namespaces : w.fw[ns].exists =>
            Turned(Of(w.acls[s], ns)) \subseteq ACLsOf(w.mode, ns, w.fw[ns].spec)

\* An ACL has the direction of this release, or the sync left it.
Facing(a) == a.dir = "to" \/ <<"unsynced", a.ns>> \in fwDisturbed
Types ==
  /\ fw \in [Namespaces -> Firewall] /\ fwEv \in Seq(Event) /\ nodes \subseteq Nodes
  /\ mode \in {"down", "local", "shared"} /\ lastMode \in {"local", "shared"}
  /\ acls = [s \in Fw!Switches |-> acls[s]] /\ \A s \in Fw!Switches : \A a \in acls[s] : IsACL(a)
  /\ mode = "down" => fwEv = <<>>
  /\ mode # "down" => \A s \in Fw!Switches : \A a \in acls[s] : Facing(a)

-----------------------------------------------------------------------------
(* Events. *)

Silent(q, ns, i, j) == \A k \in i .. j : q[k][2] # ns
Tacit(q, ns)        == Silent(q, ns, 1, Len(q))
\* An event tells that a firewall is as f.
Reflects(e, f) == IF f.exists THEN e[1] # "delete" /\ e[3] = f.spec ELSE e[1] = "delete"
\* The last event of ns tells what the API server has.
Tells(q, ns, f) ==
  \A k \in 1 .. Len(q) : q[k][2] = ns /\ Silent(q, ns, k + 1, Len(q)) => Reflects(q[k], f)
\* A firewall is added after its deletion, or first and with a spec of R.
Adds(q, ns, R) ==
  \A k \in 1 .. Len(q) : q[k][2] = ns /\ q[k][1] = "add" =>
    \/ \E j \in 1 .. k - 1 : q[j][2] = ns /\ q[j][1] = "delete" /\ Silent(q, ns, j + 1, k - 1)
    \/ Silent(q, ns, 1, k - 1) /\ q[k][3] \in R

-----------------------------------------------------------------------------
(* ACLs. *)

GatewayMode == IF mode = "down" THEN lastMode ELSE mode
Spared   == <<"left">> \notin fwDisturbed
\* With local gateways the join switch has no ACLs.
Confined == Spared /\ GatewayMode = "local" => acls[Fw!JoinSwitch] = {}

Orderly(ns) ==
  /\ Spared /\ fwDisturbed \cap {<<"stale", ns>>, <<"undeleted", ns>>, <<"unreported", ns>>, <<"unsynced", ns>>, <<"moved", ns>>} = {}
  /\ GatewayMode = "local" => <<"newnode">> \notin fwDisturbed

\* A firewall is added where there are none of its ACLs but those it will have.
Ready(ns, m, spec) == \A s \in SwitchesOf(m, nodes) : Turned(Of(acls[s], ns)) \subseteq ACLsOf(m, ns, spec)
Clear(ns)          == \A s \in SwitchesOf(mode, nodes) : Of(acls[s], ns) = {}
Done(ns, spec)     == \A s \in SwitchesOf(mode, nodes) : Of(acls[s], ns) = ACLsOf(mode, ns, spec)
ReadySpecs(ns) == {spec \in Offered : Ready(ns, mode, spec)}
Applied(ns) ==
  Tacit(fwEv, ns) =>
    IF fw[ns].exists THEN fw[ns].status # "error" => Done(ns, fw[ns].spec) ELSE Clear(ns)

Written(ns) ==
  Orderly(ns) => IF mode = "down" THEN fw[ns].exists => Ready(ns, lastMode, fw[ns].spec)
                                  ELSE Adds(fwEv, ns, ReadySpecs(ns)) /\ Applied(ns)

Good(ns) == (mode # "down" => Tells(fwEv, ns, fw[ns])) /\ Written(ns)
FwInv      == Types /\ Confined /\ \A ns \in Namespaces : Good(ns)

-----------------------------------------------------------------------------
(* Sequences and numbers. *)

LEMMA Least ==
  ASSUME NEW S \in SUBSET Nat, S # {} PROVE \E x \in S : \A y \in S : x <= y
<1> DEFINE R == {ss \in Nat \X Nat : ss[1] < ss[2]}
<1>1. IsWellFoundedOn(R, Nat)
  BY NatLessThanWellFounded, Zenon DEF OpToRel
<1>2. PICK x \in S : \A y \in S : ~ (<<y, x>> \in R)
  <2> HIDE DEF R
  <2> QED BY <1>1, WFMin, Zenon
<1>3. \A y \in S : ~ (y < x)
  BY <1>2
<1> QED BY <1>3

\* SetToSeqs lists every element of a finite set, each one once.
LEMMA Listed ==
  ASSUME NEW S, IsFiniteSet(S), NEW q \in Fw!SetToSeqs(S)
  PROVE  /\ q \in Seq(S) /\ DOMAIN q = 1 .. Len(q)
         /\ \A x \in S : \E i \in 1 .. Len(q) : q[i] = x
         /\ \A i, j \in 1 .. Len(q) : q[i] = q[j] => i = j
<1> DEFINE n == Cardinality(S)
<1>0. Fw!Cardinality(S) = n
  BY DEF Fw!Cardinality, Cardinality
<1>1. n \in Nat /\ q \in [1 .. n -> S] /\ IsInjective(q)
  BY <1>0, FS_CardinalityType DEF Fw!SetToSeqs, IsInjective
<1>2. q \in Injection(1 .. n, S)
  BY <1>1 DEF Injection
<1>3. Cardinality(1 .. n) = n
  BY <1>1, FS_Interval
<1>4. q \in Surjection(1 .. n, S)
  BY <1>2, <1>3, FS_Injection, Zenon
<1>5. q \in Seq(S) /\ Len(q) = n /\ DOMAIN q = 1 .. n
  BY <1>1
<1> QED BY <1>1, <1>4, <1>5 DEF Surjection, IsInjective

LEMMA InSeq ==
  ASSUME NEW S, NEW q \in Seq(S)
  PROVE  Len(q) \in Nat /\ DOMAIN q = 1 .. Len(q) /\ \A i \in 1 .. Len(q) : q[i] \in S
  OBVIOUS

\* The ports egressGetL4Match collects for a protocol are those that are given.
Collected(entries, proto, x) ==
  (\E i \in DOMAIN Fw!L4Ports(entries, proto) : Fw!L4Ports(entries, proto)[i] \in {0, x})
  <=> \E i \in DOMAIN entries : entries[i].proto = proto /\ entries[i].port \in {0, x}
LEMMA PortsCollected ==
  ASSUME NEW entries \in Seq([proto : Fw!Protocols, port : Nat]), NEW proto \in Fw!Protocols, NEW x
  PROVE  Collected(entries, proto, x)
<1> DEFINE N         == Len(entries)
           Step(o, n) == IF entries[n].proto # proto \/ o = <<0>> THEN o
                         ELSE IF entries[n].port = 0 THEN <<0>> ELSE Append(o, entries[n].port)
           Fits(f, m) == f = [n \in 0 .. m |-> IF n = 0 THEN <<>> ELSE Step(f[n - 1], n)]
           Said(m)    == \E i \in 1 .. m : entries[i].proto = proto /\ entries[i].port \in {0, x}
           Kept(o)    == \E i \in DOMAIN o : o[i] \in {0, x}
           f          == CHOOSE g : Fits(g, N)
           Can(m)     == \E g : Fits(g, m)
           Right(m)   == f[m] \in Seq(Nat) /\ (Kept(f[m]) <=> Said(m))
<1>1. N \in Nat /\ DOMAIN entries = 1 .. N /\ \A n \in 1 .. N : entries[n].port \in Nat
  <2>1. N \in Nat /\ DOMAIN entries = 1 .. N /\ \A n \in 1 .. N : entries[n] \in [proto : Fw!Protocols, port : Nat]
    BY InSeq, Zenon
  <2> QED BY <2>1
<1>2. Fw!L4Ports(entries, proto) = f[N]
  BY DEF Fw!L4Ports
<1>3. \A m \in 0 .. N : Can(m)
  <2> DEFINE Bad == {m \in 0 .. N : ~ Can(m)}
  <2> HIDE DEF Can
  <2> SUFFICES ASSUME Bad # {} PROVE FALSE
    OBVIOUS
  <2>1. PICK m \in Bad : \A k \in Bad : m <= k
    <3> HIDE DEF Bad
    <3>1. Bad \in SUBSET Nat
      BY <1>1 DEF Bad
    <3> QED BY <3>1, Least
  <2>2. m # 0
    <3>1. Fits([n \in 0 .. 0 |-> <<>>], 0)
      OBVIOUS
    <3>2. Can(0)
      BY <3>1 DEF Can
    <3> QED BY <2>1, <3>2
  <2>3. m \in Nat /\ m - 1 \in 0 .. N /\ Can(m - 1)
    BY <1>1, <2>1, <2>2
  <2> HIDE DEF Step
  <2>4. PICK g : Fits(g, m - 1)
    BY <2>3 DEF Can
  <2> DEFINE h == [n \in 0 .. m |-> IF n = m THEN Step(g[m - 1], m) ELSE g[n]]
  <2>5. \A n \in 0 .. m : h[n] = IF n = 0 THEN <<>> ELSE Step(h[n - 1], n)
    <3> SUFFICES ASSUME NEW n \in 0 .. m PROVE h[n] = IF n = 0 THEN <<>> ELSE Step(h[n - 1], n)
      OBVIOUS
    <3>1. CASE n = m
      BY <3>1, <2>2, <2>3
    <3>2. CASE n # m
      <4>1. n \in 0 .. m - 1 /\ (n # 0 => n - 1 \in 0 .. m - 1 /\ n - 1 # m /\ n - 1 \in 0 .. m)
        BY <3>2, <2>3
      <4>2. g[n] = IF n = 0 THEN <<>> ELSE Step(g[n - 1], n)
        BY <2>4, <4>1
      <4> QED BY <4>1, <4>2, <3>2
    <3> QED BY <3>1, <3>2
  <2>6. Fits(h, m)
    <3> DEFINE r == [n \in 0 .. m |-> IF n = 0 THEN <<>> ELSE Step(h[n - 1], n)]
    <3>1. h = r
      BY <2>5
    <3> QED BY <3>1
  <2>7. Can(m)
    <3> HIDE DEF h, Fits
    <3> QED BY <2>6 DEF Can
  <2> QED BY <2>1, <2>7
<1>4. Fits(f, N)
  <2> HIDE DEF Fits
  <2>1. \E g : Fits(g, N)
    BY <1>1, <1>3
  <2> QED BY <2>1, Zenon
<1>5. \A n \in 0 .. N : f[n] = IF n = 0 THEN <<>> ELSE Step(f[n - 1], n)
  <2> HIDE DEF f, Step
  <2> QED BY <1>4
<1> HIDE DEF f
<1>6. \A m \in 0 .. N : Right(m)
  <2> DEFINE Bad == {m \in 0 .. N : ~ Right(m)}
  <2> HIDE DEF Right
  <2> SUFFICES ASSUME Bad # {} PROVE FALSE
    OBVIOUS
  <2>1. PICK m \in Bad : \A k \in Bad : m <= k
    <3> HIDE DEF Bad
    <3>1. Bad \in SUBSET Nat
      BY <1>1 DEF Bad
    <3> QED BY <3>1, Least
  <2>2. m # 0
    <3>1. f[0] = <<>>
      BY <1>1, <1>5
    <3>2. ~ Kept(<<>>) /\ ~ Said(0) /\ <<>> \in Seq(Nat)
      OBVIOUS
    <3>3. Right(0)
      BY <3>1, <3>2 DEF Right
    <3> QED BY <2>1, <3>3
  <2>3. m \in Nat /\ m - 1 \in 0 .. N /\ Right(m - 1) /\ m \in 1 .. N
    BY <1>1, <2>1, <2>2
  <2> DEFINE o == f[m - 1]
  <2>4. o \in Seq(Nat) /\ (Kept(o) <=> Said(m - 1))
    BY <2>3 DEF Right
  <2>5. f[m] = Step(o, m)
    BY <1>5, <2>2, <2>3
  <2>6. Said(m) <=> Said(m - 1) \/ (entries[m].proto = proto /\ entries[m].port \in {0, x})
    <3>1. \A i : i \in 1 .. m <=> i \in 1 .. m - 1 \/ i = m
      BY <2>3
    <3> QED BY <3>1
  <2> HIDE DEF o
  <2>7. Kept(<<0>>) /\ <<0>> \in Seq(Nat)
    <3>1. 1 \in DOMAIN <<0>> /\ <<0>>[1] = 0
      OBVIOUS
    <3> QED BY <3>1
  <2>8. f[m] \in Seq(Nat) /\ (Kept(f[m]) <=> Said(m))
    <3> HIDE DEF Kept, Said
    <3>1. CASE entries[m].proto # proto
      BY <3>1, <2>4, <2>5, <2>6
    <3>2. CASE entries[m].proto = proto /\ o = <<0>>
      BY <3>2, <2>4, <2>5, <2>6, <2>7
    <3>3. CASE entries[m].proto = proto /\ o # <<0>> /\ entries[m].port = 0
      BY <3>3, <2>4, <2>5, <2>6, <2>7
    <3>4. CASE entries[m].proto = proto /\ o # <<0>> /\ entries[m].port # 0
      <4> DEFINE p == entries[m].port
                 r == Append(o, p)
      <4>1. f[m] = r /\ p \in Nat
        BY <3>4, <2>5, <1>1, <2>3
      <4>2. /\ r \in Seq(Nat) /\ DOMAIN r = 1 .. Len(o) + 1 /\ DOMAIN o = 1 .. Len(o) /\ Len(o) \in Nat
            /\ r[Len(o) + 1] = p /\ \A i \in 1 .. Len(o) : r[i] = o[i]
        BY <4>1, <2>4
      <4>3. \A i : i \in DOMAIN r <=> i \in DOMAIN o \/ i = Len(o) + 1
        BY <4>2
      <4> HIDE DEF p, r
      <4>4. Kept(r) <=> Kept(o) \/ p \in {0, x}
        BY <4>2, <4>3 DEF Kept
      <4>5. p \in {0, x} <=> (entries[m].proto = proto /\ entries[m].port \in {0, x})
        BY <3>4 DEF p
      <4> QED BY <4>1, <4>2, <4>4, <4>5, <2>4, <2>6
    <3> QED BY <3>1, <3>2, <3>3, <3>4
  <2> QED BY <2>1, <2>8 DEF Right
<1>7. Kept(f[N]) <=> Said(N)
  <2> HIDE DEF Kept, Said
  <2> QED BY <1>1, <1>6
<1> QED BY <1>1, <1>2, <1>7 DEF Collected

-----------------------------------------------------------------------------
(* Rules and ACLs. *)

LEMMA MatchAgrees ==
  ASSUME NEW m, NEW rule, rule.ports \in Seq([proto : Fw!Protocols, port : Nat]), rule.dest \in Dests \cup DNSNames,
         NEW a, a.match = MatchIn(m, rule), a.dir = "to", NEW p, p.proto \in Fw!Protocols
  PROVE  Fw!ACLMatches(a, p) <=> Fw!RuleMatches(rule, p)
<1> DEFINE yes   == rule.ports = <<>>
           got   == Fw!L4Ports(rule.ports, p.proto)
           given == \E i \in DOMAIN rule.ports : rule.ports[i].proto = p.proto /\ rule.ports[i].port \in {0, p.port}
<1>1. a.match.dest = rule.dest /\ a.match.any = yes /\ a.match.l4[p.proto] = got
  BY DEF MatchIn, Fw!L4Match
<1>2. (\E i \in DOMAIN got : got[i] \in {0, p.port}) <=> given
  <2>1. Collected(rule.ports, p.proto, p.port)
    BY PortsCollected, Zenon
  <2> QED BY <2>1 DEF Collected
<1>3. a.match.any <=> yes
  BY <1>1, Zenon
<1> HIDE DEF yes, got
<1>4. Fw!ACLMatches(a, p) <=> Fw!Inside(rule.dest, p.ip) /\ (yes \/ \E i \in DOMAIN got : got[i] \in {0, p.port})
  BY <1>1, <1>3 DEF Fw!ACLMatches
<1>5. Fw!RuleMatches(rule, p) <=> Fw!Inside(rule.dest, p.ip) /\ (yes \/ given)
  BY DEF Fw!RuleMatches, yes
<1> HIDE DEF given
<1> QED BY <1>2, <1>4, <1>5

\* Every rule of a firewall of that size has a priority.
LEMMA RulesKept ==
  ASSUME FwWellFormed, NEW spec \in Offered
  PROVE  /\ Fw!EgressRules(spec) = {i \in DOMAIN spec : spec[i].dest \in Dests \cup DNSNames}
         /\ DOMAIN spec \subseteq Nat
         /\ \A i \in DOMAIN spec : spec[i].ports \in Seq([proto : Fw!Protocols, port : Nat])
<1> DEFINE most == Fw!StartPriority - Fw!MinPriority + 1
<1>0. most \in Nat /\ \A i \in Nat : i <= most => i - 1 <= Fw!StartPriority - Fw!MinPriority
  BY DEF Fw!StartPriority, Fw!MinPriority
<1> HIDE DEF most
<1>1. PICK n \in 0 .. most :
        /\ DOMAIN spec = 1 .. n
        /\ \A i \in 1 .. n : spec[i].ports \in Seq([proto : Fw!Protocols, port : Nat])
  BY DEF FwWellFormed, GoodSpec, most
<1>2. n \in Nat /\ \A i \in 1 .. n : i \in Nat /\ i - 1 <= Fw!StartPriority - Fw!MinPriority
  <2>1. n \in Nat /\ n <= most
    BY <1>0, <1>1
  <2>2. \A i \in 1 .. n : i \in Nat /\ i <= most
    BY <1>0, <2>1
  <2> QED BY <1>0, <2>1, <2>2
<1> QED BY <1>1, <1>2 DEF Fw!EgressRules

\* With the ACLs of the firewall the first rule that fits decides.
LEMMA Enforces ==
  ASSUME FwWellFormed, NEW spec \in Offered, NEW m, NEW ns, NEW s, Of(acls[s], ns) = ACLsOf(m, ns, spec),
         NEW p \in Packets
  PROVE  Fw!Decisions(s, ns, p) = {Fw!Wanted(spec, p)}
<1> DEFINE hit  == {a \in acls[s] : a.ns = ns /\ Fw!ACLMatches(a, p)}
           want == {i \in DOMAIN spec : Fw!RuleMatches(spec[i], p)}
<1>1. p.proto \in Fw!Protocols
  BY DEF FwWellFormed
<1>2. \A i \in want : i \in Fw!EgressRules(spec) /\ i \in Nat
  BY RulesKept DEF Fw!RuleMatches
<1>3. \A i \in Fw!EgressRules(spec) : Fw!ACLMatches(ACLOf(m, ns, spec, i), p) <=> Fw!RuleMatches(spec[i], p)
  <2> TAKE i \in Fw!EgressRules(spec)
  <2>1. ACLOf(m, ns, spec, i).match = MatchIn(m, spec[i]) /\ ACLOf(m, ns, spec, i).dir = "to"
    BY DEF ACLOf
  <2>2. spec[i].ports \in Seq([proto : Fw!Protocols, port : Nat]) /\ spec[i].dest \in Dests \cup DNSNames
    BY RulesKept
  <2> QED BY <1>1, <2>1, <2>2, MatchAgrees
<1>4. \A a : a \in hit <=> \E i \in want : a = ACLOf(m, ns, spec, i)
  <2>1. \A a : a \in hit <=> a \in ACLsOf(m, ns, spec) /\ Fw!ACLMatches(a, p)
    BY DEF Of
  <2>2. \A a : a \in ACLsOf(m, ns, spec) <=> \E i \in Fw!EgressRules(spec) : a = ACLOf(m, ns, spec, i)
    BY DEF ACLsOf
  <2>3. \A i \in Fw!EgressRules(spec) : i \in DOMAIN spec
    BY DEF Fw!EgressRules
  <2> HIDE DEF hit
  <2> QED BY <1>2, <1>3, <2>1, <2>2, <2>3
<1>5. Fw!Decisions(s, ns, p) = IF hit = {} THEN {"pass"}
                            ELSE {a.action : a \in {b \in hit : \A c \in hit : c.prio <= b.prio}}
  BY DEF Fw!Decisions
<1>6. Fw!Wanted(spec, p) = IF want = {} THEN "pass" ELSE spec[CHOOSE i \in want : \A j \in want : i <= j].action
  BY DEF Fw!Wanted
<1>7. \A i : /\ ACLOf(m, ns, spec, i).action = spec[i].action
             /\ ACLOf(m, ns, spec, i).prio = Fw!StartPriority - (i - 1)
  BY DEF ACLOf
<1> HIDE DEF hit, want
<1>8. CASE want = {}
  BY <1>4, <1>5, <1>6, <1>8
<1>9. CASE want # {}
  <2>1. PICK i \in want : \A j \in want : i <= j
    <3>1. want \in SUBSET Nat
      BY <1>2
    <3> QED BY <3>1, <1>9, Least
  <2>2. \A j \in want : (\A k \in want : j <= k) => j = i
    BY <2>1, <1>2
  <2>3. (CHOOSE j \in want : \A k \in want : j <= k) = i
    BY <2>1, <2>2
  <2> DEFINE top == {b \in hit : \A c \in hit : c.prio <= b.prio}
             best == ACLOf(m, ns, spec, i)
  <2>4. hit # {} /\ best \in hit
    BY <1>4, <2>1
  <2>5. best \in top
    <3>1. ASSUME NEW c \in hit PROVE c.prio <= best.prio
      <4>1. PICK j \in want : c = ACLOf(m, ns, spec, j)
        BY <1>4
      <4>2. c.prio = Fw!StartPriority - (j - 1) /\ best.prio = Fw!StartPriority - (i - 1) /\ i <= j
        BY <4>1, <1>7, <2>1
      <4> QED BY <4>2, <1>2 DEF Fw!StartPriority
    <3> QED BY <3>1, <2>4
  <2>6. ASSUME NEW b \in top PROVE b = best
    <3>1. PICK j \in want : b = ACLOf(m, ns, spec, j)
      BY <1>4
    <3>2. best.prio <= b.prio /\ b.prio = Fw!StartPriority - (j - 1) /\ best.prio = Fw!StartPriority - (i - 1)
      BY <2>4, <3>1, <1>7
    <3>3. j <= i
      BY <3>2, <1>2 DEF Fw!StartPriority
    <3> QED BY <3>1, <3>3, <2>1, <1>2
  <2> HIDE DEF top, best
  <2>7. top = {best} /\ best.action = spec[i].action
    BY <2>5, <2>6, <1>7 DEF best
  <2>8. Fw!Decisions(s, ns, p) = {a.action : a \in top}
    BY <1>5, <2>4 DEF top
  <2> QED BY <2>3, <2>7, <2>8, <1>6, <1>9
<1> QED BY <1>8, <1>9

\* What addEgressFirewallRules puts on the switches: the ACLs of the firewall,
\* unless a rule was found with the priority of another place.
LEMMA RulesAdded ==
  ASSUME Types, mode # "down", NEW ns \in Namespaces, NEW spec
  PROVE  /\ \A a \in Fw!AddEgressFirewallRules(acls, ns, spec) : IsACL(a) /\ a.ns = ns /\ Facing(a)
         /\ ~ Fw!Moves(ns, spec) /\ <<"unsynced", ns>> \notin fwDisturbed => Fw!AddEgressFirewallRules(acls, ns, spec) = ACLsOf(mode, ns, spec)
<1> DEFINE found(i) == Fw!FindACL(acls, ns, Fw!GenerateMatch(spec[i]), spec[i].action)
           made(i)  == [ns |-> ns, match |-> Fw!GenerateMatch(spec[i]), action |-> spec[i].action,
                        prio |-> Fw!StartPriority - (i - 1), dir |-> "to"]
<1>1. \A i : Fw!CreateRule(acls, ns, spec, i) = IF found(i) # {} THEN found(i) ELSE {made(i)}
  BY DEF Fw!CreateRule
<1>2. \A i : made(i) = ACLOf(mode, ns, spec, i)
  BY DEF ACLOf, MatchIn, Fw!GenerateMatch
<1>3. \A i : \A a \in found(i) : /\ IsACL(a) /\ a.ns = ns /\ Facing(a)
                                /\ a.match = Fw!GenerateMatch(spec[i]) /\ a.action = spec[i].action
  BY DEF Fw!FindACL, Fw!Existing, Types
<1>4. \A i : IsACL(made(i)) /\ made(i).ns = ns /\ Facing(made(i))
  BY DEF IsACL, Facing
<1>5. <<"unsynced", ns>> \notin fwDisturbed =>
        \A i : \A a \in found(i) : a.prio = Fw!StartPriority - (i - 1) => a = made(i)
  BY <1>3 DEF IsACL, Facing
<1>6. ~ Fw!Moves(ns, spec) => \A i \in Fw!EgressRules(spec) : \A a \in found(i) : a.prio = Fw!StartPriority - (i - 1)
  BY DEF Fw!Moves
<1> HIDE DEF found, made
<1>7. \A a : a \in Fw!AddEgressFirewallRules(acls, ns, spec) <=>
        \E i \in Fw!EgressRules(spec) : a \in Fw!CreateRule(acls, ns, spec, i)
  BY DEF Fw!AddEgressFirewallRules
<1>8. \A a \in Fw!AddEgressFirewallRules(acls, ns, spec) : IsACL(a) /\ a.ns = ns /\ Facing(a)
  BY <1>1, <1>3, <1>4, <1>7
<1>9. ASSUME ~ Fw!Moves(ns, spec), <<"unsynced", ns>> \notin fwDisturbed PROVE Fw!AddEgressFirewallRules(acls, ns, spec) = ACLsOf(mode, ns, spec)
  <2>1. \A i \in Fw!EgressRules(spec) : Fw!CreateRule(acls, ns, spec, i) = {ACLOf(mode, ns, spec, i)}
    BY <1>1, <1>2, <1>5, <1>6, <1>9
  <2>2. \A a : a \in ACLsOf(mode, ns, spec) <=> \E i \in Fw!EgressRules(spec) : a = ACLOf(mode, ns, spec, i)
    BY DEF ACLsOf
  <2>3. \A a : a \in Fw!AddEgressFirewallRules(acls, ns, spec) <=> a \in ACLsOf(mode, ns, spec)
    BY <1>7, <2>1, <2>2
  <2> HIDE DEF ACLsOf, Fw!AddEgressFirewallRules
  <2> QED BY <2>3, Zenon
<1> QED BY <1>8, <1>9

-----------------------------------------------------------------------------
(* The queue of events. *)

LEMMA LastEvent ==
  ASSUME NEW q \in Seq(Event), NEW ns, ~ Tacit(q, ns)
  PROVE  \E k \in 1 .. Len(q) : q[k][2] = ns /\ Silent(q, ns, k + 1, Len(q))
<1> DEFINE D == {d \in Nat : d < Len(q) /\ q[Len(q) - d][2] = ns}
<1>0. Len(q) \in Nat
  OBVIOUS
<1>1. PICK k \in 1 .. Len(q) : q[k][2] = ns
  BY DEF Tacit, Silent
<1>2. Len(q) - k \in D
  <2>1. Len(q) - k \in Nat /\ Len(q) - k < Len(q) /\ Len(q) - (Len(q) - k) = k
    BY <1>0
  <2> QED BY <2>1, <1>1
<1>3. PICK d \in D : \A y \in D : d <= y
  <2>1. D \in SUBSET Nat /\ D # {}
    BY <1>2
  <2> HIDE DEF D
  <2> QED BY <2>1, Least
<1>4. Len(q) - d \in 1 .. Len(q) /\ q[Len(q) - d][2] = ns
  BY <1>0, <1>3
<1>5. ASSUME NEW m \in Len(q) - d + 1 .. Len(q), q[m][2] = ns PROVE FALSE
  <2>1. Len(q) - m \in Nat /\ Len(q) - m < Len(q) /\ Len(q) - (Len(q) - m) = m /\ Len(q) - m < d
    BY <1>0, <1>3, <1>4
  <2>2. Len(q) - m \in D
    BY <2>1, <1>5
  <2> QED BY <2>1, <2>2, <1>3
<1> QED BY <1>4, <1>5 DEF Silent

LEMMA Appended ==
  ASSUME NEW q \in Seq(Event), NEW e \in Event, NEW ns
  PROVE  /\ e[2] # ns => /\ Tacit(Append(q, e), ns) => Tacit(q, ns)
                         /\ \A f : Tells(q, ns, f) => Tells(Append(q, e), ns, f)
                         /\ \A R : Adds(q, ns, R) => Adds(Append(q, e), ns, R)
         /\ e[2] = ns => /\ ~ Tacit(Append(q, e), ns)
                         /\ \A f : Reflects(e, f) => Tells(Append(q, e), ns, f)
<1> DEFINE r == Append(q, e)
<1>1. /\ r \in Seq(Event) /\ Len(q) \in Nat /\ Len(r) = Len(q) + 1 /\ r[Len(r)] = e
      /\ \A k \in 1 .. Len(q) : r[k] = q[k]
  OBVIOUS
<1> HIDE DEF r
<1>2. \A i, j \in Nat : i >= 1 /\ j <= Len(q) => (Silent(r, ns, i, j) <=> Silent(q, ns, i, j))
  BY <1>1 DEF Silent
<1>3. \A i \in Nat : i <= Len(r) /\ Silent(r, ns, i, Len(r)) => e[2] # ns
  BY <1>1 DEF Silent
<1>4. ASSUME e[2] # ns PROVE \A i \in Nat : i >= 1 => (Silent(r, ns, i, Len(r)) <=> Silent(q, ns, i, Len(q)))
  BY <1>1, <1>4 DEF Silent
<1>5. ASSUME e[2] # ns
      PROVE  /\ Tacit(r, ns) => Tacit(q, ns)
             /\ \A f : Tells(q, ns, f) => Tells(r, ns, f)
             /\ \A R : Adds(q, ns, R) => Adds(r, ns, R)
  <2>1. \A k \in 1 .. Len(r) : r[k][2] = ns => k \in 1 .. Len(q) /\ r[k] = q[k]
    BY <1>1, <1>5
  <2>2. Tacit(r, ns) => Tacit(q, ns)
    BY <1>1, <1>2, <1>4, <1>5 DEF Tacit
  <2>3. \A f : Tells(q, ns, f) => Tells(r, ns, f)
    BY <2>1, <1>1, <1>4, <1>5 DEF Tells
  <2>4. ASSUME NEW R, Adds(q, ns, R) PROVE Adds(r, ns, R)
    <3> SUFFICES ASSUME NEW k \in 1 .. Len(r), r[k][2] = ns, r[k][1] = "add"
                 PROVE  \/ \E j \in 1 .. k - 1 : r[j][2] = ns /\ r[j][1] = "delete" /\ Silent(r, ns, j + 1, k - 1)
                        \/ Silent(r, ns, 1, k - 1) /\ r[k][3] \in R
      BY DEF Adds
    <3>1. k \in 1 .. Len(q) /\ r[k] = q[k] /\ k - 1 \in Nat /\ k - 1 <= Len(q)
      BY <2>1, <1>1
    <3>2. \/ \E j \in 1 .. k - 1 : q[j][2] = ns /\ q[j][1] = "delete" /\ Silent(q, ns, j + 1, k - 1)
          \/ Silent(q, ns, 1, k - 1) /\ q[k][3] \in R
      BY <3>1, <2>4 DEF Adds
    <3>3. Silent(r, ns, 1, k - 1) <=> Silent(q, ns, 1, k - 1)
      BY <3>1, <1>1 DEF Silent
    <3>4. \A j \in 1 .. k - 1 : r[j] = q[j] /\ (Silent(r, ns, j + 1, k - 1) <=> Silent(q, ns, j + 1, k - 1))
      BY <3>1, <1>1, <1>2
    <3> QED BY <3>1, <3>2, <3>3, <3>4
  <2> QED BY <2>2, <2>3, <2>4
<1>6. ASSUME e[2] = ns PROVE ~ Tacit(r, ns) /\ \A f : Reflects(e, f) => Tells(r, ns, f)
  <2>1. ~ Tacit(r, ns)
    BY <1>1, <1>3, <1>6 DEF Tacit
  <2>2. \A k \in 1 .. Len(r) : Silent(r, ns, k + 1, Len(r)) => k = Len(r)
    BY <1>1, <1>3, <1>6
  <2> QED BY <2>1, <2>2, <1>1 DEF Tells
<1> QED BY <1>5, <1>6 DEF r

\* The event of a new firewall comes after that of its deletion, if any.
LEMMA AppendedAdd ==
  ASSUME NEW q \in Seq(Event), NEW e \in Event, NEW ns, e[2] = ns, NEW R, Adds(q, ns, R),
         e[1] = "add" => /\ Tacit(q, ns) => e[3] \in R
                         /\ \E f : ~ f.exists /\ Tells(q, ns, f)
  PROVE  Adds(Append(q, e), ns, R)
<1> DEFINE r == Append(q, e)
<1>1. /\ r \in Seq(Event) /\ Len(q) \in Nat /\ Len(r) = Len(q) + 1 /\ r[Len(r)] = e
      /\ \A k \in 1 .. Len(q) : r[k] = q[k]
  OBVIOUS
<1> HIDE DEF r
<1>2. \A i, j \in Nat : i >= 1 /\ j <= Len(q) => (Silent(r, ns, i, j) <=> Silent(q, ns, i, j))
  BY <1>1 DEF Silent
<1> SUFFICES ASSUME NEW k \in 1 .. Len(r), r[k][2] = ns, r[k][1] = "add"
             PROVE  \/ \E j \in 1 .. k - 1 : r[j][2] = ns /\ r[j][1] = "delete" /\ Silent(r, ns, j + 1, k - 1)
                    \/ Silent(r, ns, 1, k - 1) /\ r[k][3] \in R
  BY DEF Adds, r
<1>3. Silent(r, ns, 1, k - 1) <=> Silent(q, ns, 1, k - 1)
  BY <1>1, <1>2
<1>4. \A j \in 1 .. k - 1 : r[j] = q[j] /\ (Silent(r, ns, j + 1, k - 1) <=> Silent(q, ns, j + 1, k - 1))
  BY <1>1, <1>2
<1>5. CASE k \in 1 .. Len(q)
  <2>1. r[k] = q[k]
    BY <1>1, <1>5
  <2>2. \/ \E j \in 1 .. k - 1 : q[j][2] = ns /\ q[j][1] = "delete" /\ Silent(q, ns, j + 1, k - 1)
        \/ Silent(q, ns, 1, k - 1) /\ q[k][3] \in R
    BY <1>5, <2>1 DEF Adds
  <2> QED BY <2>1, <2>2, <1>3, <1>4
<1>6. CASE k = Len(r)
  <2>1. r[k] = e /\ k - 1 = Len(q)
    BY <1>1, <1>6
  <2>2. PICK f : ~ f.exists /\ Tells(q, ns, f)
    BY <2>1
  <2>3. CASE Tacit(q, ns)
    BY <2>1, <2>3, <1>3 DEF Tacit
  <2>4. CASE ~ Tacit(q, ns)
    <3>1. PICK j \in 1 .. Len(q) : q[j][2] = ns /\ Silent(q, ns, j + 1, Len(q))
      BY <2>4, LastEvent
    <3>2. q[j][1] = "delete"
      BY <3>1, <2>2 DEF Tells, Reflects
    <3> QED BY <3>1, <3>2, <2>1, <1>4
  <2> QED BY <2>3, <2>4
<1> QED BY <1>5, <1>6, <1>1

LEMMA Handled ==
  ASSUME NEW q \in Seq(Event), q # <<>>, NEW ns
  PROVE  /\ Head(q) \in Event /\ Tail(q) \in Seq(Event)
         /\ \A f : Tells(q, ns, f) => Tells(Tail(q), ns, f)
         /\ Head(q)[2] # ns => /\ Tacit(Tail(q), ns) => Tacit(q, ns)
                               /\ \A R : Adds(q, ns, R) => Adds(Tail(q), ns, R)
         /\ Head(q)[2] = ns =>
              /\ \A f : Tacit(Tail(q), ns) /\ Tells(q, ns, f) => Reflects(Head(q), f)
              /\ \A R : Adds(q, ns, R) => /\ Head(q)[1] = "add" => Head(q)[3] \in R
                                          /\ Head(q)[1] # "delete" => \A S : Adds(Tail(q), ns, S)
                                          /\ Adds(Tail(q), ns, Offered)
<1> DEFINE r == Tail(q)
           e == Head(q)
<1>1. /\ e \in Event /\ r \in Seq(Event) /\ Len(q) \in Nat /\ Len(q) >= 1 /\ Len(r) = Len(q) - 1
      /\ q[1] = e /\ \A k \in 1 .. Len(r) : r[k] = q[k + 1]
  OBVIOUS
<1> HIDE DEF r, e
<1>2. \A i, j \in Nat : i >= 1 /\ j <= Len(r) => (Silent(r, ns, i, j) <=> Silent(q, ns, i + 1, j + 1))
  <2> TAKE i, j \in Nat
  <2>1. ASSUME i >= 1, j <= Len(r), Silent(r, ns, i, j), NEW m \in i + 1 .. j + 1 PROVE q[m][2] # ns
    <3>1. m - 1 \in i .. j /\ m - 1 \in 1 .. Len(r) /\ m - 1 + 1 = m
      BY <2>1, <1>1
    <3> QED BY <3>1, <2>1, <1>1 DEF Silent
  <2>2. ASSUME i >= 1, j <= Len(r), Silent(q, ns, i + 1, j + 1), NEW m \in i .. j PROVE r[m][2] # ns
    <3>1. m + 1 \in i + 1 .. j + 1 /\ m \in 1 .. Len(r)
      BY <2>2, <1>1
    <3> QED BY <3>1, <2>2, <1>1 DEF Silent
  <2> QED BY <2>1, <2>2 DEF Silent
<1>3. \A k \in Nat : Silent(q, ns, 1, k) /\ k >= 1 <=> e[2] # ns /\ Silent(q, ns, 2, k) /\ k >= 1
  BY <1>1 DEF Silent
<1>4. ASSUME NEW f, Tells(q, ns, f) PROVE Tells(r, ns, f)
  <2> SUFFICES ASSUME NEW k \in 1 .. Len(r), r[k][2] = ns, Silent(r, ns, k + 1, Len(r)) PROVE Reflects(r[k], f)
    BY DEF Tells
  <2>1. /\ k + 1 \in 1 .. Len(q) /\ r[k] = q[k + 1] /\ k + 1 \in Nat /\ k + 1 >= 1
        /\ Len(r) \in Nat /\ Len(r) + 1 = Len(q)
    BY <1>1
  <2>2. Silent(q, ns, k + 1 + 1, Len(r) + 1)
    BY <2>1, <1>2
  <2>3. Silent(q, ns, k + 1 + 1, Len(q))
    BY <2>1, <2>2
  <2> QED BY <2>1, <2>3, <1>4 DEF Tells
<1>5. ASSUME e[2] # ns, Tacit(r, ns) PROVE Tacit(q, ns)
  <2>0. Len(r) \in Nat /\ Len(r) + 1 = Len(q) /\ 1 + 1 = 2
    BY <1>1
  <2>1. Silent(q, ns, 1 + 1, Len(r) + 1)
    BY <1>5, <1>2, <2>0 DEF Tacit
  <2>2. Silent(q, ns, 2, Len(q))
    BY <2>0, <2>1
  <2> QED BY <2>2, <1>1, <1>3, <1>5 DEF Tacit
<1>6. ASSUME e[2] = ns, NEW f, Tacit(r, ns), Tells(q, ns, f) PROVE Reflects(e, f)
  <2>0. Len(r) \in Nat /\ Len(r) + 1 = Len(q) /\ 1 + 1 = 2
    BY <1>1
  <2>1. Silent(q, ns, 1 + 1, Len(r) + 1)
    BY <1>6, <1>2, <2>0 DEF Tacit
  <2>2. Silent(q, ns, 1 + 1, Len(q))
    BY <2>0, <2>1
  <2> QED BY <2>2, <1>1, <1>6 DEF Tells
<1>7. ASSUME NEW R, Adds(q, ns, R), e[2] = ns, e[1] = "add" PROVE e[3] \in R
  BY <1>1, <1>7 DEF Adds
<1>8. ASSUME NEW R, NEW S, Adds(q, ns, R), e[2] # ns => R = S, e[2] = ns /\ e[1] = "delete" => S = Offered
      PROVE  Adds(r, ns, S)
  <2> SUFFICES ASSUME NEW k \in 1 .. Len(r), r[k][2] = ns, r[k][1] = "add"
               PROVE  \/ \E j \in 1 .. k - 1 : r[j][2] = ns /\ r[j][1] = "delete" /\ Silent(r, ns, j + 1, k - 1)
                      \/ Silent(r, ns, 1, k - 1) /\ r[k][3] \in S
    BY DEF Adds
  <2>1. k + 1 \in 1 .. Len(q) /\ r[k] = q[k + 1] /\ k \in Nat /\ k >= 1 /\ k - 1 \in Nat
    BY <1>1
  <2>2. \/ \E j \in 1 .. k : q[j][2] = ns /\ q[j][1] = "delete" /\ Silent(q, ns, j + 1, k)
        \/ Silent(q, ns, 1, k) /\ q[k + 1][3] \in R
    BY <2>1, <1>8 DEF Adds
  <2>3. Silent(r, ns, 1, k - 1) <=> Silent(q, ns, 2, k)
    <3>1. k - 1 <= Len(r) /\ k - 1 + 1 = k /\ 1 + 1 = 2
      BY <2>1, <1>1
    <3>2. Silent(r, ns, 1, k - 1) <=> Silent(q, ns, 1 + 1, k - 1 + 1)
      BY <2>1, <3>1, <1>2
    <3> QED BY <3>1, <3>2
  <2>4. r[k][3] \in Offered
    BY <1>1 DEF Event
  <2>5. ASSUME NEW j \in 1 .. k, q[j][2] = ns, q[j][1] = "delete", Silent(q, ns, j + 1, k), j # 1
        PROVE  \E i \in 1 .. k - 1 : r[i][2] = ns /\ r[i][1] = "delete" /\ Silent(r, ns, i + 1, k - 1)
    <3>1. j - 1 \in 1 .. k - 1 /\ r[j - 1] = q[j] /\ j \in Nat
      BY <2>1, <2>5, <1>1
    <3>2. Silent(r, ns, j - 1 + 1, k - 1)
      BY <2>1, <2>5, <3>1, <1>1, <1>2
    <3> QED BY <3>1, <3>2, <2>5
  <2>6. ASSUME q[1][2] = ns, q[1][1] = "delete", Silent(q, ns, 2, k)
        PROVE  Silent(r, ns, 1, k - 1) /\ r[k][3] \in S
    BY <2>3, <2>4, <2>6, <1>1, <1>8
  <2>7. ASSUME Silent(q, ns, 1, k), q[k + 1][3] \in R PROVE Silent(r, ns, 1, k - 1) /\ r[k][3] \in S
    BY <2>1, <2>3, <2>7, <1>3, <1>8
  <2> QED BY <2>2, <2>5, <2>6, <2>7
<1> QED BY <1>1, <1>4, <1>5, <1>6, <1>7, <1>8 DEF r, e

-----------------------------------------------------------------------------
(* The steps. *)

LEMMA OnSwitches ==
  ASSUME Types, NEW m PROVE SwitchesOf(m, nodes) \subseteq Fw!Switches
  BY DEF Types, SwitchesOf, Fw!Switches

\* What holds of a namespace whose ACLs a step leaves as they are.
LEMMA Untouched ==
  ASSUME Types, NEW ns, mode' = mode, lastMode' = lastMode, nodes' = nodes, fwDisturbed \subseteq fwDisturbed',
         \A s \in Fw!Switches : Of(acls'[s], ns) = Of(acls[s], ns)
  PROVE  /\ Orderly(ns)' => Orderly(ns)
         /\ \A m, spec : Ready(ns, m, spec)' <=> Ready(ns, m, spec)
         /\ ReadySpecs(ns)' = ReadySpecs(ns)
         /\ Clear(ns)' <=> Clear(ns)
         /\ \A spec : Done(ns, spec)' <=> Done(ns, spec)
<1>1. Orderly(ns)' => Orderly(ns)
  BY DEF Orderly, Spared, GatewayMode
<1>2. \A m, spec : Ready(ns, m, spec)' <=> Ready(ns, m, spec)
  BY OnSwitches DEF Ready
<1>3. ReadySpecs(ns)' = ReadySpecs(ns)
  BY <1>2 DEF ReadySpecs
<1>4. Clear(ns)' <=> Clear(ns)
  BY OnSwitches DEF Clear
<1>5. \A spec : Done(ns, spec)' <=> Done(ns, spec)
  BY OnSwitches DEF Done
<1> QED BY <1>1, <1>2, <1>3, <1>4, <1>5

LEMMA OthersKept ==
  ASSUME FwInv, NEW ns \in Namespaces, mode' = mode, lastMode' = lastMode, nodes' = nodes,
         fwDisturbed \subseteq fwDisturbed',
         \A s \in Fw!Switches : Of(acls'[s], ns) = Of(acls[s], ns), fw'[ns] = fw[ns],
         Tacit(fwEv', ns) => Tacit(fwEv, ns),
         \A f : Tells(fwEv, ns, f) => Tells(fwEv', ns, f),
         \A R : Adds(fwEv, ns, R) => Adds(fwEv', ns, R)
  PROVE  Good(ns)'
<1> USE DEF FwInv
<1>1. mode' # "down" => Tells(fwEv', ns, fw'[ns])
  BY DEF Good
<1>2. ASSUME Orderly(ns)', mode = "down" PROVE (fw[ns].exists => Ready(ns, lastMode, fw[ns].spec))'
  BY <1>2, Untouched DEF Good, Written
<1>3. ASSUME Orderly(ns)', mode # "down" PROVE Adds(fwEv', ns, ReadySpecs(ns)')
  BY <1>3, Untouched DEF Good, Written
<1>4. ASSUME Orderly(ns)', mode # "down" PROVE Applied(ns)'
  <2>1. Applied(ns)
    BY <1>4, Untouched DEF Good, Written
  <2> QED BY <2>1, Untouched DEF Applied
<1> QED BY <1>1, <1>2, <1>3, <1>4 DEF Good, Written

\* A step that is no business of the firewalls.
LEMMA ElseKept ==
  ASSUME FwInv, UNCHANGED <<fw, fwEv, nodes, mode, lastMode, acls>>, fwDisturbed \subseteq fwDisturbed'
  PROVE  FwInv'
<1>1. Types'
  BY DEF FwInv, Types, Facing
<1>2. Confined'
  BY DEF FwInv, Confined, Spared, GatewayMode
<1>3. ASSUME NEW ns \in Namespaces PROVE Good(ns)'
  BY OthersKept
<1> QED BY <1>1, <1>2, <1>3 DEF FwInv

LEMMA ChangeFirewallKept ==
  ASSUME FwWellFormed, FwInv, NEW n \in Namespaces, Fw!ChangeFirewall(n) PROVE FwInv'
<1> USE DEF FwInv
<1>1. UNCHANGED <<nodes, mode, lastMode, acls>> /\ fwDisturbed \subseteq fwDisturbed'
  BY DEF Fw!ChangeFirewall, Fw!Note, Fw!ovnVars
<1>2. PICK e \in Event :
        /\ e[2] = n /\ fwEv' = IF mode = "down" THEN fwEv ELSE Append(fwEv, e)
        /\ fw' \in [Namespaces -> Firewall] /\ Reflects(e, fw'[n])
        /\ \A ns \in Namespaces : ns # n => fw'[ns] = fw[ns]
        /\ e[1] = "add" => ~ fw[n].exists
  <2>1. fw \in [Namespaces -> Firewall] /\ <<>> \in Offered /\ Specs \subseteq Offered
    BY DEF Types, Offered
  <2>2. ASSUME NEW s \in Specs, fw' = [fw EXCEPT ![n] = [exists |-> TRUE, spec |-> s, status |-> "none"]],
               ~ fw[n].exists, Fw!Tell(<<"add", n, fw'[n].spec>>)
        PROVE  \E e \in Event :
                 /\ e[2] = n /\ fwEv' = IF mode = "down" THEN fwEv ELSE Append(fwEv, e)
                 /\ fw' \in [Namespaces -> Firewall] /\ Reflects(e, fw'[n])
                 /\ \A ns \in Namespaces : ns # n => fw'[ns] = fw[ns]
                 /\ e[1] = "add" => ~ fw[n].exists
    <3>1. fw'[n] = [exists |-> TRUE, spec |-> s, status |-> "none"] /\ fw'[n] \in Firewall
      BY <2>1, <2>2 DEF Firewall
    <3>2. fw' \in [Namespaces -> Firewall] /\ \A ns \in Namespaces : ns # n => fw'[ns] = fw[ns]
      BY <2>1, <2>2, <3>1
    <3>3. <<"add", n, s>> \in Event /\ Reflects(<<"add", n, s>>, fw'[n])
      BY <2>1, <3>1 DEF Event, Reflects
    <3> QED BY <2>2, <3>1, <3>2, <3>3 DEF Fw!Tell
  <2>3. ASSUME NEW s \in Specs, fw' = [fw EXCEPT ![n].spec = s], fw[n].exists, Fw!Tell(<<"update", n, fw'[n].spec>>)
        PROVE  \E e \in Event :
                 /\ e[2] = n /\ fwEv' = IF mode = "down" THEN fwEv ELSE Append(fwEv, e)
                 /\ fw' \in [Namespaces -> Firewall] /\ Reflects(e, fw'[n])
                 /\ \A ns \in Namespaces : ns # n => fw'[ns] = fw[ns]
                 /\ e[1] = "add" => ~ fw[n].exists
    <3>1. fw'[n].exists /\ fw'[n].spec = s /\ fw'[n] \in Firewall
      BY <2>1, <2>3 DEF Firewall
    <3>2. fw' \in [Namespaces -> Firewall] /\ \A ns \in Namespaces : ns # n => fw'[ns] = fw[ns]
      BY <2>1, <2>3, <3>1
    <3>3. <<"update", n, s>> \in Event /\ Reflects(<<"update", n, s>>, fw'[n])
      BY <2>1, <3>1 DEF Event, Reflects
    <3> QED BY <2>3, <3>1, <3>2, <3>3 DEF Fw!Tell
  <2>4. ASSUME fw' = [fw EXCEPT ![n] = Fw!Absent], fw[n].exists, Fw!Tell(<<"delete", n, <<>>>>)
        PROVE  \E e \in Event :
                 /\ e[2] = n /\ fwEv' = IF mode = "down" THEN fwEv ELSE Append(fwEv, e)
                 /\ fw' \in [Namespaces -> Firewall] /\ Reflects(e, fw'[n])
                 /\ \A ns \in Namespaces : ns # n => fw'[ns] = fw[ns]
                 /\ e[1] = "add" => ~ fw[n].exists
    <3>1. fw'[n] = Fw!Absent /\ Fw!Absent \in Firewall
      BY <2>1, <2>4 DEF Firewall, Fw!Absent
    <3>2. fw' \in [Namespaces -> Firewall] /\ \A ns \in Namespaces : ns # n => fw'[ns] = fw[ns]
      BY <2>1, <2>4, <3>1
    <3>3. <<"delete", n, <<>>>> \in Event /\ Reflects(<<"delete", n, <<>>>>, fw'[n])
      BY <2>1, <3>1 DEF Event, Reflects, Fw!Absent
    <3> QED BY <2>4, <3>1, <3>2, <3>3 DEF Fw!Tell
  <2> QED BY <2>2, <2>3, <2>4 DEF Fw!ChangeFirewall
<1>3. Types'
  <2>1. fwEv' \in Seq(Event)
    BY <1>2 DEF Types
  <2> QED BY <1>1, <1>2, <2>1 DEF Types, Facing
<1>4. Confined'
  BY <1>1 DEF Confined, Spared, GatewayMode
<1>5. fwEv \in Seq(Event)
  BY DEF Types
<1>6. ASSUME NEW ns \in Namespaces, ns # n PROVE Good(ns)'
  <2>1. /\ Tacit(fwEv', ns) => Tacit(fwEv, ns)
        /\ \A f : Tells(fwEv, ns, f) => Tells(fwEv', ns, f)
        /\ \A R : Adds(fwEv, ns, R) => Adds(fwEv', ns, R)
    BY <1>2, <1>5, <1>6, Appended
  <2> QED BY <1>1, <1>2, <1>6, <2>1, OthersKept
<1>7. Good(n)'
  <2>1. CASE mode = "down"
    <3>1. ~ Orderly(n)'
      BY <2>1 DEF Fw!ChangeFirewall, Fw!Note, Orderly
    <3> QED BY <1>1, <2>1, <3>1 DEF Good, Written
  <2>2. CASE mode # "down"
    <3>1. fwEv' = Append(fwEv, e)
      BY <1>2, <2>2
    <3>2. ~ Tacit(fwEv', n) /\ Tells(fwEv', n, fw'[n])
      BY <1>2, <1>5, <3>1, Appended
    <3>3. Applied(n)'
      BY <3>2 DEF Applied
    <3>4. ASSUME Orderly(n)' PROVE Adds(fwEv', n, ReadySpecs(n)')
      <4>1. Orderly(n) /\ ReadySpecs(n)' = ReadySpecs(n)
        BY <1>1, <3>4, Untouched
      <4>2. Adds(fwEv, n, ReadySpecs(n)) /\ Applied(n) /\ Tells(fwEv, n, fw[n])
        BY <2>2, <4>1 DEF Good, Written
      <4>3. e[1] = "add" /\ Tacit(fwEv, n) => e[3] \in ReadySpecs(n)
        <5> SUFFICES ASSUME e[1] = "add", Tacit(fwEv, n) PROVE e[3] \in ReadySpecs(n)
          OBVIOUS
        <5>1. Clear(n)
          BY <1>2, <4>2 DEF Applied
        <5>2. e[3] \in Offered
          BY DEF Event
        <5> QED BY <5>1, <5>2 DEF ReadySpecs, Ready, Clear, Turned
      <4>4. e[1] = "add" => \E f : ~ f.exists /\ Tells(fwEv, n, f)
        BY <1>2, <4>2
      <4> QED BY <1>2, <1>5, <3>1, <4>1, <4>2, <4>3, <4>4, AppendedAdd
    <3> QED BY <1>1, <2>2, <3>2, <3>3, <3>4 DEF Good, Written
  <2> QED BY <2>1, <2>2
<1> QED BY <1>3, <1>4, <1>6, <1>7

\* A node that comes in local mode disturbs; one that goes takes its ACLs along.
LEMMA ChangeNodeKept ==
  ASSUME FwWellFormed, FwInv, NEW n \in Nodes, Fw!ChangeNode(n) PROVE FwInv'
<1> USE DEF FwInv
<1>1. /\ UNCHANGED <<fw, fwEv, mode, lastMode>> /\ fwDisturbed \subseteq fwDisturbed'
      /\ n # Fw!JoinSwitch /\ n \in Fw!Switches
  BY DEF Fw!ChangeNode, Fw!Note, FwWellFormed, Fw!Switches
<1>2. \/ n \in nodes /\ nodes' = nodes \ {n} /\ acls' = [acls EXCEPT ![n] = {}]
      \/ n \notin nodes /\ nodes' = nodes \cup {n} /\ acls' = acls /\ <<"newnode">> \in fwDisturbed'
  BY DEF Fw!ChangeNode, Fw!Note
<1>3. /\ acls' = [s \in Fw!Switches |-> acls'[s]]
      /\ \A s \in Fw!Switches : acls'[s] = acls[s] \/ (s = n /\ s \notin nodes' /\ acls'[s] = {})
  BY <1>1, <1>2 DEF Types
<1>4. Types'
  BY <1>1, <1>2, <1>3 DEF Types, Facing
<1>5. ASSUME NEW m, m # "local" \/ <<"newnode">> \notin fwDisturbed'
      PROVE  /\ SwitchesOf(m, nodes') \subseteq SwitchesOf(m, nodes)
             /\ \A s \in SwitchesOf(m, nodes') : acls'[s] = acls[s]
  BY <1>1, <1>2, <1>3, <1>5, OnSwitches DEF SwitchesOf, Fw!Switches, Types
<1>6. Confined'
  BY <1>1, <1>3 DEF Confined, Spared, GatewayMode, Fw!Switches
<1>7. ASSUME NEW ns \in Namespaces PROVE Good(ns)'
  <2>1. mode' # "down" => Tells(fwEv', ns, fw'[ns])
    BY <1>1 DEF Good
  <2>2. SUFFICES ASSUME Orderly(ns)' PROVE Written(ns)'
    BY <2>1 DEF Good, Written
  <2>3. Orderly(ns) /\ Written(ns)
    BY <1>1, <2>2 DEF Orderly, Spared, GatewayMode, Good
  <2>4. /\ SwitchesOf(GatewayMode, nodes') \subseteq SwitchesOf(GatewayMode, nodes)
        /\ \A s \in SwitchesOf(GatewayMode, nodes') : acls'[s] = acls[s]
    <3>1. GatewayMode # "local" \/ <<"newnode">> \notin fwDisturbed'
      BY <1>1, <2>2 DEF Orderly, GatewayMode
    <3> QED BY <3>1, <1>5
  <2>5. CASE mode = "down"
    <3>1. fw[ns].exists => Ready(ns, lastMode, fw[ns].spec)
      BY <2>3, <2>5 DEF Written
    <3>2. \A spec : Ready(ns, lastMode, spec) => Ready(ns, lastMode, spec)'
      BY <1>1, <2>4, <2>5 DEF Ready, GatewayMode
    <3> QED BY <1>1, <2>5, <3>1, <3>2 DEF Written
  <2>6. CASE mode # "down"
    <3>1. Adds(fwEv, ns, ReadySpecs(ns)) /\ Applied(ns)
      BY <2>3, <2>6 DEF Written
    <3>2. ReadySpecs(ns) \subseteq ReadySpecs(ns)'
      BY <1>1, <2>4, <2>6 DEF ReadySpecs, Ready, GatewayMode
    <3>3. Adds(fwEv', ns, ReadySpecs(ns)')
      BY <1>1, <3>1, <3>2 DEF Adds
    <3>4. (Clear(ns) => Clear(ns)') /\ \A spec : Done(ns, spec) => Done(ns, spec)'
      BY <1>1, <2>4, <2>6 DEF Clear, Done, GatewayMode
    <3>5. Applied(ns)'
      BY <1>1, <3>1, <3>4 DEF Applied
    <3> QED BY <1>1, <2>6, <3>3, <3>5 DEF Written
  <2> QED BY <2>5, <2>6
<1> QED BY <1>4, <1>6, <1>7

LEMMA TurnedSame ==
  ASSUME NEW A, \A a \in A : IsACL(a) /\ a.dir = "to" PROVE Turned(A) = A
<1>1. \A a \in A : [a EXCEPT !.dir = "to"] = a
  <2> TAKE a \in A
  <2> DEFINE b == [ns |-> a.ns, match |-> a.match, action |-> a.action, prio |-> a.prio, dir |-> a.dir]
  <2>1. a = b
    BY DEF IsACL
  <2>2. [b EXCEPT !.dir = "to"] = b
    OBVIOUS
  <2> HIDE DEF b
  <2> QED BY <2>1, <2>2
<1> QED BY <1>1 DEF Turned

\* What is written is what the next master finds.
LEMMA CrashKept ==
  ASSUME FwInv, Fw!Crash PROVE FwInv'
<1> USE DEF FwInv
<1>1. /\ mode # "down" /\ mode' = "down" /\ lastMode' = mode /\ fwEv' = <<>> /\ UNCHANGED <<fw, nodes, acls>>
      /\ fwDisturbed \subseteq fwDisturbed'
      /\ \A ns \in Namespaces :
           (\E i \in DOMAIN fwEv : fwEv[i][2] = ns) \/ fw[ns].status = "error" => <<"stale", ns>> \in fwDisturbed'
  BY DEF Fw!Crash, Fw!Note, Fw!ovnVars
<1>2. Types'
  BY <1>1 DEF Types
<1>3. Confined'
  BY <1>1 DEF Confined, Spared, GatewayMode
<1>4. ASSUME NEW ns \in Namespaces PROVE Good(ns)'
  <2> SUFFICES ASSUME Orderly(ns)', fw[ns].exists PROVE Ready(ns, lastMode, fw[ns].spec)'
    BY <1>1 DEF Good, Written
  <2>1. Orderly(ns)
    BY <1>1 DEF Orderly, Spared, GatewayMode
  <2>2. Tacit(fwEv, ns) /\ fw[ns].status # "error"
    <3>1. <<"stale", ns>> \notin fwDisturbed'
      BY DEF Orderly
    <3>2. DOMAIN fwEv = 1 .. Len(fwEv)
      BY DEF Types
    <3> QED BY <1>1, <3>1, <3>2 DEF Tacit, Silent
  <2>3. Done(ns, fw[ns].spec)
    BY <1>1, <2>1, <2>2 DEF Good, Written, Applied
  <2>4. \A s \in SwitchesOf(mode, nodes) : Turned(Of(acls[s], ns)) = Of(acls[s], ns)
    <3> TAKE s \in SwitchesOf(mode, nodes)
    <3>1. \A a \in Of(acls[s], ns) : IsACL(a) /\ a.dir = "to"
      BY <1>1, <2>1, OnSwitches DEF Types, Of, Facing, Orderly
    <3> QED BY <3>1, TurnedSame
  <2> QED BY <1>1, <2>3, <2>4 DEF Ready, Done
<1> QED BY <1>2, <1>3, <1>4

LEMMA StartKept ==
  ASSUME FwWellFormed, FwInv, Fw!Start PROVE FwInv'
<1> USE DEF FwInv
<1>1. /\ mode = "down" /\ UNCHANGED <<fw, nodes, lastMode>>
      /\ fwDisturbed \subseteq fwDisturbed' /\ mode' \in {"local", "shared"}
      /\ {<<"unsynced", a.ns>> : a \in {b \in Fw!Existing(acls') : b.dir # "to"}
            \cup UNION {{b \in acls'[s] : ~ fw[b.ns].exists} : s \in SwitchesOf(mode', nodes)}} \subseteq fwDisturbed'
      /\ mode' # lastMode /\ mode' = "local" => <<"left">> \in fwDisturbed'
  BY DEF Fw!Start, Fw!Note, Fw!Unsynced, Fw!SwitchesIn, SwitchesOf, Types
<1>2. PICK order \in Fw!SetToSeqs({ns \in Namespaces : fw[ns].exists}) :
        fwEv' = [i \in DOMAIN order |-> <<"add", order[i], fw[order[i]].spec>>]
  BY DEF Fw!Start
<1>3. /\ Len(order) \in Nat /\ DOMAIN order = 1 .. Len(order)
      /\ \A i \in 1 .. Len(order) : order[i] \in Namespaces /\ fw[order[i]].exists
      /\ \A ns \in Namespaces : fw[ns].exists => \E i \in 1 .. Len(order) : order[i] = ns
      /\ \A i, j \in 1 .. Len(order) : order[i] = order[j] => i = j
  <2> DEFINE S == {ns \in Namespaces : fw[ns].exists}
  <2>1. IsFiniteSet(S)
    BY FS_Subset DEF FwWellFormed
  <2> HIDE DEF S
  <2>2. order \in Fw!SetToSeqs(S)
    BY DEF S
  <2>3. /\ order \in Seq(S) /\ DOMAIN order = 1 .. Len(order)
        /\ \A x \in S : \E i \in 1 .. Len(order) : order[i] = x
        /\ \A i, j \in 1 .. Len(order) : order[i] = order[j] => i = j
    BY <2>1, <2>2, Listed
  <2>4. Len(order) \in Nat /\ \A i \in 1 .. Len(order) : order[i] \in S
    BY <2>3
  <2> QED BY <2>3, <2>4 DEF S
<1>4. /\ fwEv' \in Seq(Event) /\ Len(fwEv') = Len(order)
      /\ \A k \in 1 .. Len(order) : fwEv'[k] = <<"add", order[k], fw[order[k]].spec>>
  <2>1. \A k \in 1 .. Len(order) : <<"add", order[k], fw[order[k]].spec>> \in Event
    <3> TAKE k \in 1 .. Len(order)
    <3>1. order[k] \in Namespaces /\ fw[order[k]].spec \in Offered
      BY <1>3 DEF Types, Firewall
    <3> QED BY <3>1 DEF Event
  <2>2. fwEv' = [k \in 1 .. Len(order) |-> <<"add", order[k], fw[order[k]].spec>>]
    BY <1>2, <1>3
  <2> QED BY <1>3, <2>1, <2>2
<1>5. /\ acls' = [s \in Fw!Switches |-> acls'[s]]
      /\ \A s \in Fw!Switches : acls'[s] \subseteq acls[s] \cup Turned(acls[s])
  <2>1. PICK f : Fw!SyncEgressFirewall(mode', f)
    BY Zenon DEF Fw!Start
  <2> DEFINE cleaned == Fw!CleanSwitches(mode', f)
             turned  == Fw!ConvertDirection(cleaned, f)
             dropped == Fw!DropSpurious(turned, mode', f)
  <2>2. acls' \in {acls, cleaned, turned, dropped}
    BY <2>1 DEF Fw!SyncEgressFirewall
  <2>3. cleaned = [s \in Fw!Switches |-> cleaned[s]] /\ \A s \in Fw!Switches : cleaned[s] \subseteq acls[s]
    BY DEF Fw!CleanSwitches
  <2>4. /\ turned = [s \in Fw!Switches |-> turned[s]]
        /\ \A s \in Fw!Switches : turned[s] \subseteq cleaned[s] \cup Turned(cleaned[s])
    <3> HIDE DEF cleaned
    <3> QED BY DEF Fw!ConvertDirection, Turned
  <2>5. dropped = [s \in Fw!Switches |-> dropped[s]] /\ \A s \in Fw!Switches : dropped[s] \subseteq turned[s]
    <3> HIDE DEF turned
    <3> QED BY DEF Fw!DropSpurious
  <2> HIDE DEF cleaned, turned, dropped
  <2>6. \A s \in Fw!Switches : Turned(cleaned[s]) \subseteq Turned(acls[s])
    BY <2>3 DEF Turned
  <2>7. acls = [s \in Fw!Switches |-> acls[s]]
    BY DEF Types
  <2> QED BY <2>2, <2>3, <2>4, <2>5, <2>6, <2>7
<1>6. ASSUME NEW s \in Fw!Switches, NEW a \in acls'[s]
      PROVE  /\ IsACL(a) /\ Facing(a)'
             /\ \E b \in acls[s] : a.ns = b.ns /\ [a EXCEPT !.dir = "to"] = [b EXCEPT !.dir = "to"]
             /\ s \in SwitchesOf(mode', nodes) => fw[a.ns].exists \/ <<"unsynced", a.ns>> \in fwDisturbed'
  <2>1. PICK b \in acls[s] : a = b \/ a = [b EXCEPT !.dir = "to"]
    BY <1>5 DEF Turned
  <2>2. IsACL(b)
    BY DEF Types
  <2> DEFINE c == [ns |-> b.ns, match |-> b.match, action |-> b.action, prio |-> b.prio, dir |-> b.dir]
  <2>3. b = c
    BY <2>2 DEF IsACL
  <2> DEFINE d == [c EXCEPT !.dir = "to"]
  <2>4. IsACL(d) /\ d.ns = c.ns /\ [d EXCEPT !.dir = "to"] = d
    <3>1. d = [ns |-> b.ns, match |-> b.match, action |-> b.action, prio |-> b.prio, dir |-> "to"]
      OBVIOUS
    <3> HIDE DEF d
    <3> QED BY <3>1 DEF IsACL, c
  <2>4a. d = [b EXCEPT !.dir = "to"]
    BY <2>3
  <2> HIDE DEF c, d
  <2>5. IsACL(a) /\ a.ns = b.ns /\ [a EXCEPT !.dir = "to"] = [b EXCEPT !.dir = "to"]
    BY <2>1, <2>2, <2>3, <2>4, <2>4a
  <2>6. a \in Fw!Existing(acls')
    BY DEF Fw!Existing
  <2>7. a.dir # "to" => <<"unsynced", a.ns>> \in fwDisturbed'
    BY <1>1, <2>6
  <2>8. s \in SwitchesOf(mode', nodes) => fw[a.ns].exists \/ <<"unsynced", a.ns>> \in fwDisturbed'
    BY <1>1
  <2>9. \E x \in acls[s] : a.ns = x.ns /\ [a EXCEPT !.dir = "to"] = [x EXCEPT !.dir = "to"]
    BY <2>5
  <2> QED BY <2>5, <2>7, <2>8, <2>9 DEF Facing
<1>7. Types'
  BY <1>1, <1>4, <1>5, <1>6 DEF Types
<1>8. \A s \in Fw!Switches : acls[s] = {} => acls'[s] = {}
  BY <1>5 DEF Turned
<1>9. ASSUME Spared', mode' # lastMode, NEW s \in SwitchesOf(mode', nodes) PROVE acls'[s] = {}
  <2>1. mode' = "shared" /\ lastMode = "local" /\ Spared
    BY <1>1, <1>9 DEF Spared, Types
  <2>2. s = Fw!JoinSwitch /\ acls[s] = {}
    BY <1>1, <2>1 DEF Confined, GatewayMode, SwitchesOf
  <2> QED BY <1>8, <2>2 DEF Fw!Switches
<1>10. Confined'
  <2> SUFFICES ASSUME Spared', GatewayMode' = "local" PROVE acls'[Fw!JoinSwitch] = {}
    BY DEF Confined
  <2>1. mode' = lastMode /\ lastMode = "local" /\ Spared
    BY <1>1 DEF Spared, GatewayMode
  <2>2. acls[Fw!JoinSwitch] = {}
    BY <1>1, <2>1 DEF Confined, GatewayMode
  <2> QED BY <1>8, <2>2 DEF Fw!Switches
<1>11. ASSUME NEW ns \in Namespaces PROVE Good(ns)'
  <2>1. \A k \in 1 .. Len(fwEv') : fwEv'[k][2] = ns => fw[ns].exists /\ fwEv'[k][3] = fw[ns].spec /\ order[k] = ns
    BY <1>3, <1>4
  <2>2. \A k \in 1 .. Len(fwEv') : fwEv'[k][1] = "add"
    BY <1>4
  <2>3. Tells(fwEv', ns, fw'[ns])
    BY <1>1, <2>1, <2>2 DEF Tells, Reflects
  <2>4. ASSUME Orderly(ns)' PROVE Adds(fwEv', ns, ReadySpecs(ns)')
    <3> SUFFICES ASSUME NEW k \in 1 .. Len(fwEv'), fwEv'[k][2] = ns
                 PROVE  Silent(fwEv', ns, 1, k - 1) /\ fwEv'[k][3] \in ReadySpecs(ns)'
      BY DEF Adds
    <3>1. Silent(fwEv', ns, 1, k - 1)
      <4> SUFFICES ASSUME NEW i \in 1 .. k - 1, fwEv'[i][2] = ns PROVE FALSE
        BY DEF Silent
      <4>1. i \in 1 .. Len(order) /\ k \in 1 .. Len(order) /\ i # k
        BY <1>3, <1>4
      <4> QED BY <4>1, <2>1, <1>3, <1>4
    <3>2. fwEv'[k][3] = fw[ns].spec /\ fw[ns].exists /\ fw[ns].spec \in Offered
      BY <2>1 DEF Types, Firewall
    <3>3. Ready(ns, mode, fw[ns].spec)'
      <4> SUFFICES ASSUME NEW s \in SwitchesOf(mode', nodes)
                   PROVE  Turned(Of(acls'[s], ns)) \subseteq ACLsOf(mode', ns, fw[ns].spec)
        BY <1>1 DEF Ready
      <4>1. s \in Fw!Switches
        BY OnSwitches
      <4>2. CASE mode' # lastMode
        BY <1>9, <2>4, <4>2 DEF Orderly, Turned, Of
      <4>3. CASE mode' = lastMode
        <5>1. Orderly(ns)
          BY <1>1, <2>4, <4>3 DEF Orderly, Spared, GatewayMode
        <5>2. Turned(Of(acls[s], ns)) \subseteq ACLsOf(mode', ns, fw[ns].spec)
          BY <1>1, <3>2, <4>3, <5>1 DEF Good, Written, Ready
        <5>3. Turned(Of(acls'[s], ns)) \subseteq Turned(Of(acls[s], ns))
          <6> SUFFICES ASSUME NEW a \in Of(acls'[s], ns) PROVE [a EXCEPT !.dir = "to"] \in Turned(Of(acls[s], ns))
            BY Zenon DEF Turned
          <6>1. a \in acls'[s] /\ a.ns = ns
            BY DEF Of
          <6>2. PICK b \in acls[s] : a.ns = b.ns /\ [a EXCEPT !.dir = "to"] = [b EXCEPT !.dir = "to"]
            BY <1>6, <4>1, <6>1, Zenon
          <6>3. b \in Of(acls[s], ns)
            BY <6>1, <6>2 DEF Of
          <6> QED BY <6>2, <6>3, Zenon DEF Turned
        <5> QED BY <5>2, <5>3
      <4> QED BY <4>2, <4>3
    <3> QED BY <1>1, <3>1, <3>2, <3>3 DEF ReadySpecs
  <2>5. ASSUME Orderly(ns)' PROVE Applied(ns)'
    <3> SUFFICES ASSUME Tacit(fwEv', ns) PROVE ~ fw[ns].exists /\ Clear(ns)'
      BY <1>1 DEF Applied
    <3>1. ~ fw[ns].exists
      BY <1>3, <1>4 DEF Tacit, Silent
    <3>2. ASSUME NEW s \in SwitchesOf(mode', nodes) PROVE Of(acls'[s], ns) = {}
      BY <1>6, <2>5, <3>1, <3>2, OnSwitches DEF Of, Orderly
    <3> QED BY <1>1, <3>1, <3>2 DEF Clear
  <2> QED BY <1>1, <2>3, <2>4, <2>5 DEF Good, Written
<1> QED BY <1>7, <1>10, <1>11

\* What a step that handles an event of n leaves alone.
FwFrame(n) ==
  /\ fw' \in [Namespaces -> Firewall]
  /\ \A ns \in Namespaces : /\ fw'[ns].exists = fw[ns].exists /\ fw'[ns].spec = fw[ns].spec
                            /\ ns # n => fw'[ns] = fw[ns]
ACLFrame(n) ==
  /\ acls' = [s \in Fw!Switches |-> acls'[s]]
  /\ \A s \in Fw!Switches : \A a \in acls'[s] : IsACL(a) /\ Facing(a)
  /\ \A s \in Fw!Switches : s \notin SwitchesOf(mode, nodes) => acls'[s] = acls[s]
  /\ \A s \in Fw!Switches : \A ns : ns # n => Of(acls'[s], ns) = Of(acls[s], ns)

\* A transaction writes the ACLs of one namespace on the switches of the mode.
Exchange(n, add) == acls' = Fw!Transaction(n, TRUE, add)
Extend(n, add)   == acls' = Fw!Transaction(n, FALSE, add)
LEMMA Replaced ==
  ASSUME Types, mode # "down", NEW n, NEW add, \A a \in add : IsACL(a) /\ a.ns = n /\ Facing(a),
         Exchange(n, add)
  PROVE  ACLFrame(n) /\ \A s \in SwitchesOf(mode, nodes) : Of(acls'[s], n) = add
<1>1. /\ acls' = [s \in Fw!Switches |-> acls'[s]]
      /\ \A s \in Fw!Switches :
           acls'[s] = IF s \notin SwitchesOf(mode, nodes) THEN acls[s] ELSE {a \in acls[s] : a.ns # n} \cup add
  BY DEF Exchange, Fw!Transaction, Fw!LogicalSwitches, Fw!SwitchesIn, SwitchesOf
<1>2. \A s \in Fw!Switches : \A a : a \in acls'[s] => a \in acls[s] \/ a \in add
  BY <1>1
<1>3. \A s \in Fw!Switches : \A a \in acls'[s] : IsACL(a) /\ Facing(a)
  BY <1>2 DEF Types
<1>4. ASSUME NEW s \in Fw!Switches, NEW ns, ns # n PROVE Of(acls'[s], ns) = Of(acls[s], ns)
  BY <1>1, <1>4 DEF Of
<1>5. ASSUME NEW s \in SwitchesOf(mode, nodes) PROVE Of(acls'[s], n) = add
  BY <1>1, <1>5, OnSwitches DEF Of
<1> QED BY <1>1, <1>3, <1>4, <1>5 DEF ACLFrame

LEMMA Extended ==
  ASSUME Types, mode # "down", NEW n, NEW add, \A a \in add : IsACL(a) /\ a.ns = n /\ Facing(a),
         Extend(n, add)
  PROVE  ACLFrame(n) /\ \A s \in SwitchesOf(mode, nodes) : Of(acls'[s], n) = Of(acls[s], n) \cup add
<1>1. /\ acls' = [s \in Fw!Switches |-> acls'[s]]
      /\ \A s \in Fw!Switches : acls'[s] = IF s \notin SwitchesOf(mode, nodes) THEN acls[s] ELSE acls[s] \cup add
  BY DEF Extend, Fw!Transaction, Fw!LogicalSwitches, Fw!SwitchesIn, SwitchesOf
<1>2. \A s \in Fw!Switches : \A a : a \in acls'[s] => a \in acls[s] \/ a \in add
  BY <1>1
<1>3. \A s \in Fw!Switches : \A a \in acls'[s] : IsACL(a) /\ Facing(a)
  BY <1>2 DEF Types
<1>4. ASSUME NEW s \in Fw!Switches, NEW ns, ns # n PROVE Of(acls'[s], ns) = Of(acls[s], ns)
  BY <1>1, <1>4 DEF Of
<1>5. ASSUME NEW s \in SwitchesOf(mode, nodes) PROVE Of(acls'[s], n) = Of(acls[s], n) \cup add
  BY <1>1, <1>5, OnSwitches DEF Of
<1> QED BY <1>1, <1>3, <1>4, <1>5 DEF ACLFrame

\* An event of n is handled: its ACLs are written, or the object says that they
\* are not, or they are gone, or that is disturbed.
Handles(n, kind, spec) ==
  \/ kind # "delete" /\ (Orderly(n)' /\ (kind = "add" => spec \in ReadySpecs(n)) => Done(n, spec)')
  \/ kind # "delete" /\ (Orderly(n)' /\ fw[n].exists /\ fw[n].spec = spec => fw'[n].status = "error")
  \/ kind = "delete" /\ (Orderly(n)' => Clear(n)')

LEMMA StatusUpdated ==
  ASSUME fw \in [Namespaces -> Firewall], NEW n \in Namespaces, NEW spec, NEW status \in {"applied", "error"},
         NEW failed, NEW what, Fw!UpdateStatus(n, spec, status, failed, what)
  PROVE  /\ FwFrame(n) /\ fwDisturbed \cup what \subseteq fwDisturbed'
         /\ Orderly(n)' /\ fw[n].exists /\ fw[n].spec = spec => fw'[n].status = status
<1>0. /\ fwDisturbed \cup what \subseteq fwDisturbed'
      /\ "report" \in failed => ~ Orderly(n)'
  BY DEF Fw!UpdateStatus, Fw!Note, Orderly
<1>1. CASE fw[n].exists /\ fw[n].spec = spec /\ "report" \notin failed
  <2>1. fw' = [fw EXCEPT ![n].status = status]
    BY <1>1 DEF Fw!UpdateStatus
  <2>2. /\ fw[n] \in [exists : BOOLEAN, spec : Offered, status : {"none", "applied", "error"}]
        /\ fw'[n] = [fw[n] EXCEPT !.status = status]
    BY <2>1 DEF Firewall
  <2>3. fw'[n] \in Firewall /\ fw'[n].exists = fw[n].exists /\ fw'[n].spec = fw[n].spec /\ fw'[n].status = status
    BY <1>1, <2>2 DEF Firewall
  <2> QED BY <1>0, <1>1, <2>1, <2>3 DEF FwFrame
<1>2. CASE ~ (fw[n].exists /\ fw[n].spec = spec /\ "report" \notin failed)
  BY <1>0, <1>2 DEF Fw!UpdateStatus, FwFrame
<1> QED BY <1>1, <1>2

LEMMA EventHandled ==
  ASSUME FwWellFormed, FwInv, Fw!HandleEvent, NEW e, NEW n, NEW spec, e = Head(fwEv), n = e[2], spec = e[3]
  PROVE  /\ mode # "down" /\ fwEv # <<>> /\ fwEv' = Tail(fwEv) /\ UNCHANGED <<nodes, mode, lastMode>>
         /\ fwDisturbed \subseteq fwDisturbed' /\ FwFrame(n) /\ ACLFrame(n) /\ Handles(n, e[1], spec)
<1> USE DEF FwInv
<1> DEFINE Goal == fwDisturbed \subseteq fwDisturbed' /\ FwFrame(n) /\ ACLFrame(n) /\ Handles(n, e[1], spec)
<1>0. PICK failed :
        \/ e[1] = "add" /\ Fw!AddEgressFirewall(n, spec, failed)
        \/ e[1] = "update" /\ Fw!UpdateEgressFirewall(n, spec, failed)
        \/ e[1] = "delete" /\ Fw!DeleteEgressFirewall(n, failed)
  BY Zenon DEF Fw!HandleEvent
<1>1. mode # "down" /\ fwEv # <<>> /\ fwEv' = Tail(fwEv) /\ UNCHANGED <<nodes, mode, lastMode>>
  BY DEF Fw!HandleEvent, Types
<1>2. e \in Event /\ n \in Namespaces /\ spec \in Offered
  <2>1. e \in Event
    BY <1>1, Handled DEF Types
  <2> QED BY <2>1 DEF Event
<1>3. Types /\ fw \in [Namespaces -> Firewall]
  BY DEF Types
<1> DEFINE add   == Fw!AddEgressFirewallRules(acls, n, spec)
           moved == IF Fw!Moves(n, spec) THEN {<<"moved", n>>} ELSE {}
<1>4. /\ \A a \in add : IsACL(a) /\ a.ns = n /\ Facing(a)
      /\ ~ Fw!Moves(n, spec) /\ <<"unsynced", n>> \notin fwDisturbed => add = ACLsOf(mode, n, spec)
  BY <1>1, <1>2, <1>3, RulesAdded
<1> HIDE DEF add
<1>5. acls' = acls => ACLFrame(n)
  BY <1>1 DEF Types, ACLFrame
<1>6. ASSUME ACLFrame(n), Fw!UpdateStatus(n, spec, "applied", failed, moved), e[1] # "delete",
             \A s \in SwitchesOf(mode, nodes) :
               Of(acls'[s], n) = add \/ (e[1] = "add" /\ Of(acls'[s], n) = Of(acls[s], n) \cup add)
      PROVE  Goal
  <2>1. FwFrame(n) /\ fwDisturbed \cup moved \subseteq fwDisturbed'
    <3> HIDE DEF moved
    <3> QED BY <1>2, <1>3, <1>6, StatusUpdated
  <2>2. ASSUME Orderly(n)', e[1] = "add" => spec \in ReadySpecs(n) PROVE Done(n, spec)'
    <3>1. add = ACLsOf(mode, n, spec) /\ <<"unsynced", n>> \notin fwDisturbed
      BY <1>4, <2>1, <2>2 DEF Orderly
    <3>2. ASSUME NEW s \in SwitchesOf(mode, nodes), e[1] = "add" PROVE Of(acls[s], n) \subseteq add
      <4>1. Turned(Of(acls[s], n)) \subseteq ACLsOf(mode, n, spec)
        BY <2>2, <3>2 DEF ReadySpecs, Ready
      <4>2. Turned(Of(acls[s], n)) = Of(acls[s], n)
        BY <1>1, <1>3, <3>1, OnSwitches, TurnedSame DEF Types, Of, Facing
      <4> QED BY <3>1, <4>1, <4>2
    <3>3. \A s \in SwitchesOf(mode, nodes) : Of(acls'[s], n) = add
      BY <1>6, <3>2
    <3> QED BY <1>1, <3>1, <3>3 DEF Done
  <2> QED BY <1>6, <2>1, <2>2 DEF Handles
<1>7. ASSUME acls' = acls, Fw!UpdateStatus(n, spec, "error", failed, {}), e[1] # "delete" PROVE Goal
  <2>1. /\ FwFrame(n) /\ fwDisturbed \subseteq fwDisturbed'
        /\ Orderly(n)' /\ fw[n].exists /\ fw[n].spec = spec => fw'[n].status = "error"
    BY <1>2, <1>3, <1>7, StatusUpdated
  <2> QED BY <1>5, <1>7, <2>1 DEF Handles
<1> HIDE DEF Goal
<1>8. ASSUME e[1] = "add", Fw!AddEgressFirewall(n, spec, failed) PROVE Goal
  <2>1. \/ Extend(n, add) /\ Fw!UpdateStatus(n, spec, "applied", failed, moved)
        \/ acls' = acls /\ Fw!UpdateStatus(n, spec, "error", failed, {})
    BY <1>8, Zenon DEF Fw!AddEgressFirewall, Fw!AddFails, Fw!Refused, Fw!Moved, Extend, add
  <2>2. Extend(n, add) =>
          ACLFrame(n) /\ \A s \in SwitchesOf(mode, nodes) : Of(acls'[s], n) = Of(acls[s], n) \cup add
    BY <1>1, <1>3, <1>4, Extended
  <2> QED BY <1>6, <1>7, <1>8, <2>1, <2>2
<1>9. ASSUME e[1] = "update", Fw!UpdateEgressFirewall(n, spec, failed) PROVE Goal
  <2>1. \/ Exchange(n, add) /\ Fw!UpdateStatus(n, spec, "applied", failed, moved)
        \/ acls' = acls /\ Fw!UpdateStatus(n, spec, "error", failed, {})
    BY <1>9, Zenon DEF Fw!UpdateEgressFirewall, Fw!AddFails, Fw!Refused, Fw!Moved, Exchange, add
  <2>2. Exchange(n, add) => ACLFrame(n) /\ \A s \in SwitchesOf(mode, nodes) : Of(acls'[s], n) = add
    BY <1>1, <1>3, <1>4, Replaced
  <2> QED BY <1>6, <1>7, <1>9, <2>1, <2>2
<1>10. ASSUME e[1] = "delete", Fw!DeleteEgressFirewall(n, failed) PROVE Goal
  <2>1. /\ fw' = fw /\ fwDisturbed \subseteq fwDisturbed' /\ FwFrame(n)
        /\ \/ Exchange(n, {})
           \/ acls' = acls /\ <<"undeleted", n>> \in fwDisturbed'
    <3>1. fw' = fw /\ (Exchange(n, {}) \/ (acls' = acls /\ Fw!Note({<<"undeleted", n>>})))
      BY <1>10, Zenon DEF Fw!DeleteEgressFirewall, Exchange
    <3>2. fwDisturbed \subseteq fwDisturbed'
      BY <1>10 DEF Fw!DeleteEgressFirewall, Fw!Note
    <3> QED BY <1>3, <3>1, <3>2 DEF Fw!Note, FwFrame
  <2>2. ASSUME Exchange(n, {}) PROVE ACLFrame(n) /\ Clear(n)'
    <3>1. ACLFrame(n) /\ \A s \in SwitchesOf(mode, nodes) : Of(acls'[s], n) = {}
      BY <1>1, <1>3, <2>2, Replaced
    <3> QED BY <1>1, <3>1 DEF Clear
  <2>3. <<"undeleted", n>> \in fwDisturbed' => ~ Orderly(n)'
    BY DEF Orderly
  <2> QED BY <1>5, <1>10, <2>1, <2>2, <2>3 DEF Handles, Goal
<1>11. Goal
  BY <1>0, <1>8, <1>9, <1>10
<1> QED BY <1>1, <1>11 DEF Goal

LEMMA HandleEventKept ==
  ASSUME FwWellFormed, FwInv, Fw!HandleEvent PROVE FwInv'
<1> USE DEF FwInv
<1>0. PICK e, n : e = Head(fwEv) /\ n = e[2]
  OBVIOUS
<1>1. /\ mode # "down" /\ fwEv # <<>> /\ fwEv' = Tail(fwEv) /\ UNCHANGED <<nodes, mode, lastMode>>
      /\ fwDisturbed \subseteq fwDisturbed' /\ FwFrame(n) /\ ACLFrame(n) /\ Handles(n, e[1], e[3])
  BY <1>0, EventHandled
<1>2. fwEv \in Seq(Event)
  BY DEF Types
<1>3. e \in Event /\ n \in Namespaces /\ fwEv' \in Seq(Event)
  <2>1. e \in Event /\ fwEv' \in Seq(Event)
    BY <1>0, <1>1, <1>2, Handled
  <2> QED BY <1>0, <2>1 DEF Event
<1>4. Types'
  BY <1>1, <1>3 DEF Types, FwFrame, ACLFrame, Facing
<1>5. Confined'
  BY <1>1 DEF Confined, Spared, GatewayMode, ACLFrame, SwitchesOf, Fw!Switches, FwWellFormed, Types
<1>6. ASSUME NEW ns \in Namespaces, ns # n PROVE Good(ns)'
  <2>1. /\ Tacit(fwEv', ns) => Tacit(fwEv, ns)
        /\ \A f : Tells(fwEv, ns, f) => Tells(fwEv', ns, f)
        /\ \A R : Adds(fwEv, ns, R) => Adds(fwEv', ns, R)
    BY <1>0, <1>1, <1>2, <1>6, Handled
  <2> QED BY <1>1, <1>6, <2>1, OthersKept DEF FwFrame, ACLFrame
<1>7. Good(n)'
  <2>1. /\ Tells(fwEv, n, fw[n])
        /\ \A f : Tells(fwEv, n, f) => Tells(fwEv', n, f)
        /\ \A f : Tacit(fwEv', n) /\ Tells(fwEv, n, f) => Reflects(e, f)
        /\ \A R : Adds(fwEv, n, R) => /\ e[1] = "add" => e[3] \in R
                                      /\ e[1] # "delete" => \A S : Adds(fwEv', n, S)
                                      /\ Adds(fwEv', n, Offered)
    BY <1>0, <1>1, <1>2, <1>3, Handled DEF Good
  <2>2. Tells(fwEv', n, fw'[n])
    BY <1>1, <1>3, <2>1 DEF Tells, Reflects, FwFrame
  <2>3. SUFFICES ASSUME Orderly(n)' PROVE Adds(fwEv', n, ReadySpecs(n)') /\ Applied(n)'
    BY <1>1, <2>2 DEF Good, Written
  <2>4. Adds(fwEv, n, ReadySpecs(n))
    <3>1. Orderly(n)
      BY <1>1, <2>3 DEF Orderly, Spared, GatewayMode
    <3> QED BY <1>1, <1>3, <3>1 DEF Good, Written
  <2>5. Adds(fwEv', n, ReadySpecs(n)')
    <3>1. CASE e[1] # "delete"
      BY <2>1, <2>4, <3>1
    <3>2. CASE e[1] = "delete"
      <4>1. Clear(n)'
        BY <1>1, <2>3, <3>2 DEF Handles
      <4>2. ReadySpecs(n)' = Offered
        BY <4>1 DEF ReadySpecs, Ready, Clear, Turned
      <4> QED BY <2>1, <2>4, <4>2
    <3> QED BY <3>1, <3>2
  <2>6. Applied(n)'
    <3> SUFFICES ASSUME Tacit(fwEv', n)
                 PROVE  (IF fw[n].exists THEN fw[n].status # "error" => Done(n, fw[n].spec) ELSE Clear(n))'
      BY DEF Applied
    <3>1. Reflects(e, fw[n])
      BY <2>1
    <3>2. CASE fw[n].exists
      <4>1. e[1] # "delete" /\ e[3] = fw[n].spec /\ (e[1] = "add" => e[3] \in ReadySpecs(n))
        BY <2>1, <2>4, <3>1, <3>2 DEF Reflects
      <4>2. fw'[n].status = "error" \/ Done(n, e[3])'
        BY <1>1, <2>3, <3>2, <4>1 DEF Handles
      <4>3. fw'[n].exists /\ fw'[n].spec = e[3]
        BY <1>1, <1>3, <3>2, <4>1 DEF FwFrame
      <4> QED BY <4>2, <4>3 DEF Done
    <3>3. CASE ~ fw[n].exists
      <4>1. e[1] = "delete"
        BY <3>1, <3>3 DEF Reflects
      <4>2. Clear(n)'
        BY <1>1, <2>3, <4>1 DEF Handles
      <4> QED BY <1>1, <1>3, <3>3, <4>2 DEF FwFrame
    <3> QED BY <3>2, <3>3
  <2> QED BY <2>5, <2>6
<1> QED BY <1>4, <1>5, <1>6, <1>7

-----------------------------------------------------------------------------
\* Once the events are handled a packet that leaves a namespace meets the first
\* rule of its firewall that fits it, on every switch of the gateway mode
\* (addEgressFirewall, updateEgressFirewall, deleteEgressFirewall,
\* syncEgressFirewall), for any namespaces, nodes, rules and packets and whatever
\* commands fail, unless a kept rule changed its place, a node came later in local
\* mode, a firewall changed while the master was down, its delete failed or was
\* refused, its status could not be written or says "error", the sync left its
\* ACLs as they were, or the gateways had been shared before.
THEOREM FirstRuleAlwaysDecides == ASSUME FwWellFormed PROVE Fw!Spec => []Fw!FirstRuleDecides
<1>1. Fw!Init => FwInv
  <2> SUFFICES ASSUME Fw!Init PROVE FwInv
    OBVIOUS
  <2>1. PICK w \in FwWorlds : /\ fw = w.fw /\ nodes = w.nodes /\ lastMode = w.mode /\ acls = w.acls
                              /\ mode = "down" /\ fwEv = <<>>
    BY Zenon DEF Fw!Init
  <2>2. /\ w.fw \in [Namespaces -> Firewall] /\ w.nodes \subseteq Nodes /\ w.mode \in {"local", "shared"}
        /\ w.acls = [s \in Fw!Switches |-> w.acls[s]]
        /\ \A s \in Fw!Switches : \A a \in w.acls[s] : IsACL(a)
        /\ w.mode = "local" => w.acls[Fw!JoinSwitch] = {}
        /\ \A s \in SwitchesOf(w.mode, w.nodes), ns \in Namespaces : w.fw[ns].exists =>
             Turned(Of(w.acls[s], ns)) \subseteq ACLsOf(w.mode, ns, w.fw[ns].spec)
    BY DEF FwWellFormed
  <2>3. Types
    BY <2>1, <2>2 DEF Types
  <2>4. Confined
    BY <2>1, <2>2 DEF Confined, GatewayMode
  <2>5. ASSUME NEW ns \in Namespaces PROVE Good(ns)
    BY <2>1, <2>2, <2>3, OnSwitches DEF Good, Written, Ready
  <2> QED BY <2>3, <2>4, <2>5 DEF FwInv
<1>2. FwInv /\ [Fw!Next]_Fw!vars => FwInv'
  <2> SUFFICES ASSUME FwInv, [Fw!Next]_Fw!vars PROVE FwInv'
    OBVIOUS
  <2>1. CASE UNCHANGED Fw!vars
    BY <2>1, ElseKept DEF Fw!vars, Fw!apiVars, Fw!ovnVars
  <2>2. ASSUME NEW ns \in Namespaces, Fw!ChangeFirewall(ns) PROVE FwInv'
    BY <2>2, ChangeFirewallKept
  <2>3. ASSUME NEW n \in Nodes, Fw!ChangeNode(n) PROVE FwInv'
    BY <2>3, ChangeNodeKept
  <2>4. ASSUME NEW d \in DNSNames, Fw!ChangeAnswer(d) PROVE FwInv'
    BY <2>4, ElseKept DEF Fw!ChangeAnswer, Fw!ovnVars
  <2>5. ASSUME NEW d \in DNSNames, Fw!Resolve(d) PROVE FwInv'
    BY <2>5, ElseKept DEF Fw!Resolve, Fw!Note, Fw!apiVars, Fw!ovnVars
  <2>6. ASSUME NEW d \in DNSNames, Fw!Publish(d) PROVE FwInv'
    BY <2>6, ElseKept DEF Fw!Publish, Fw!apiVars
  <2>7. CASE Fw!HandleEvent
    BY <2>7, HandleEventKept
  <2>8. CASE Fw!Requery
    <3>1. UNCHANGED <<Fw!apiVars, mode, lastMode, Fw!ovnVars, fwDisturbed>>
      BY <2>8, Zenon DEF Fw!Requery
    <3> QED BY <3>1, ElseKept DEF Fw!apiVars, Fw!ovnVars
  <2>9. CASE Fw!Republish
    BY <2>9, ElseKept DEF Fw!Republish, Fw!apiVars
  <2>10. CASE Fw!Crash
    BY <2>10, CrashKept
  <2>11. CASE Fw!Start
    BY <2>11, StartKept
  <2> QED BY <2>1, <2>2, <2>3, <2>4, <2>5, <2>6, <2>7, <2>8, <2>9, <2>10, <2>11 DEF Fw!Next
<1>3. FwInv => Fw!FirstRuleDecides
  <2> SUFFICES ASSUME FwInv, Fw!Quiet, NEW ns \in Namespaces, ~ Fw!Excused(ns), <<"moved", ns>> \notin fwDisturbed,
                      NEW s \in Fw!LogicalSwitches, NEW p \in Packets
               PROVE  Fw!Decisions(s, ns, p) = {Fw!Wanted(fw[ns].spec, p)}
    BY DEF Fw!FirstRuleDecides, Fw!Enforced
  <2>1. mode # "down" /\ fwEv = <<>> /\ s \in SwitchesOf(mode, nodes)
    BY DEF Fw!Quiet, Fw!LogicalSwitches, Fw!SwitchesIn, SwitchesOf
  <2>2. Orderly(ns)
    BY <2>1 DEF Fw!Excused, Orderly, Spared, GatewayMode
  <2>3. Tacit(fwEv, ns)
    BY <2>1 DEF Tacit, Silent
  <2>4. Applied(ns)
    BY <2>1, <2>2 DEF FwInv, Good, Written
  <2>5. fw[ns] \in Firewall /\ fw[ns].spec \in Offered
    BY DEF FwInv, Types, Firewall
  <2>6. Of(acls[s], ns) = ACLsOf(mode, ns, fw[ns].spec)
    <3>1. CASE fw[ns].exists
      BY <2>1, <2>3, <2>4, <3>1 DEF Applied, Done, Fw!Excused
    <3>2. CASE ~ fw[ns].exists
      <4>1. fw[ns].spec = <<>>
        BY <2>5, <3>2 DEF Firewall
      <4>2. ACLsOf(mode, ns, <<>>) = {}
        BY DEF ACLsOf, Fw!EgressRules
      <4> QED BY <2>1, <2>3, <2>4, <3>2, <4>1, <4>2 DEF Applied, Clear
    <3> QED BY <3>1, <3>2
  <2> QED BY <2>5, <2>6, Enforces
<1> QED BY <1>1, <1>2, <1>3, PTL DEF Fw!Spec
=============================================================================
