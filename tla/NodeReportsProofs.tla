------------------------- MODULE NodeReportsProofs --------------------------
(***************************************************************************)
(* What a node reports to others is true once every change is handled: the *)
(* answers of its health checks (HealthChecks, extended) and its addresses *)
(* in the annotation (NodeAddresses, an instance beside it).               *)
(***************************************************************************)
EXTENDS HealthChecks, SequenceTheorems, TLAPS

-----------------------------------------------------------------------------
(* Health checks. *)

\* The value that the queue q ends with for s is v; Silent: nothing is told of s.
Silent(q, s)    == \A k \in 1 .. Len(q) : q[k][1] # s
LastSays(q, s, v) ==
  \E k \in 1 .. Len(q) : q[k] = <<s, v>> /\ \A m \in k + 1 .. Len(q) : q[m][1] # s

Types ==
  /\ api \subseteq Services /\ eps \in [Services -> Counts \cup {0}]
  /\ svcq \in Seq(Services \X BOOLEAN) /\ epq \in Seq(Services \X (Counts \cup {0}))
  /\ up \in BOOLEAN /\ busy \subseteq {"svc", "ep"}
  /\ services \subseteq Services /\ DOMAIN endpoints \subseteq services
  /\ ~ up => busy = {} /\ svcq = <<>> /\ epq = <<>>

\* The checker knows the services there are, and the last endpoints it took,
\* or hears of them by an event to come.  Endpoints it has are never old ones.
KnowsService(s) ==
  \/ LastSays(svcq, s, s \in api)
  \/ Silent(svcq, s) /\ (s \in services <=> s \in api)
KnowsEndpoints(s) ==
  \/ LastSays(epq, s, eps[s])
  \/ /\ Silent(epq, s)
     /\ IF s \in DOMAIN endpoints THEN endpoints[s] = eps[s]
                                  ELSE eps[s] = 0 \/ <<"order", s>> \in lost

\* Listeners are those of the services, unless the thread is about to say so.
Listens ==
  "svc" \notin busy => /\ DOMAIN serving \subseteq services
                       /\ \A s \in services : s \in DOMAIN serving \/ <<"listen", s>> \in lost

\* A listener reports the endpoints the checker has, and endpoints without a
\* listener are noted, unless the other thread is about to report them.
Reports(s) ==
  "ep" \notin busy /\ <<"order", s>> \notin lost =>
    IF s \in DOMAIN endpoints THEN s \in DOMAIN serving /\ serving[s] = endpoints[s]
                              ELSE s \in DOMAIN serving => serving[s] = 0

Inv == /\ Types
       /\ up => /\ Listens
                /\ \A s \in Services : KnowsService(s) /\ KnowsEndpoints(s) /\ Reports(s)

-----------------------------------------------------------------------------
LEMMA LastAppend ==
  ASSUME NEW S, NEW V, NEW q \in Seq(S \X V), NEW s \in S, NEW v \in V
  PROVE  /\ Append(q, <<s, v>>) \in Seq(S \X V)
         /\ LastSays(Append(q, <<s, v>>), s, v)
         /\ \A t : t # s => /\ Silent(q, t) => Silent(Append(q, <<s, v>>), t)
                            /\ \A w : LastSays(q, t, w) => LastSays(Append(q, <<s, v>>), t, w)
<1> DEFINE r == Append(q, <<s, v>>)
<1>1. /\ r \in Seq(S \X V) /\ Len(r) = Len(q) + 1 /\ Len(q) \in Nat
      /\ \A k \in 1 .. Len(q) : r[k] = q[k]
      /\ r[Len(q) + 1] = <<s, v>>
  OBVIOUS
<1>2. \A k \in 1 .. Len(r) : k \in 1 .. Len(q) \/ k = Len(q) + 1
  BY <1>1
<1> HIDE DEF r
<1>3. LastSays(r, s, v)
  <2>1. Len(r) \in 1 .. Len(r) /\ r[Len(r)] = <<s, v>> /\ Len(r) + 1 .. Len(r) = {}
    BY <1>1
  <2> QED BY <2>1 DEF LastSays
<1>4. ASSUME NEW t, t # s, Silent(q, t) PROVE Silent(r, t)
  BY <1>1, <1>2, <1>4 DEF Silent
<1>5. ASSUME NEW t, t # s, NEW w, LastSays(q, t, w) PROVE LastSays(r, t, w)
  <2>1. PICK k \in 1 .. Len(q) : q[k] = <<t, w>> /\ \A m \in k + 1 .. Len(q) : q[m][1] # t
    BY <1>5 DEF LastSays
  <2>2. k \in 1 .. Len(r) /\ r[k] = <<t, w>>
    BY <1>1, <2>1
  <2>3. ASSUME NEW m \in k + 1 .. Len(r) PROVE r[m][1] # t
    <3>1. m \in k + 1 .. Len(q) \/ m = Len(q) + 1
      BY <1>1
    <3> QED BY <3>1, <2>1, <1>1, <1>5
  <2> QED BY <2>2, <2>3 DEF LastSays
<1> QED BY <1>1, <1>3, <1>4, <1>5 DEF r

LEMMA LastTail ==
  ASSUME NEW S, NEW V, NEW q \in Seq(S \X V), q # <<>>
  PROVE  /\ Tail(q) \in Seq(S \X V)
         /\ Head(q) = <<Head(q)[1], Head(q)[2]>> /\ Head(q)[1] \in S /\ Head(q)[2] \in V
         /\ \A t : Silent(q, t) => Head(q)[1] # t /\ Silent(Tail(q), t)
         /\ \A t, w : LastSays(q, t, w) => \/ LastSays(Tail(q), t, w)
                                           \/ Head(q) = <<t, w>> /\ Silent(Tail(q), t)
<1> DEFINE r == Tail(q)
<1>1. /\ r \in Seq(S \X V) /\ Len(r) = Len(q) - 1 /\ Len(q) \in Nat \ {0}
      /\ \A k \in 1 .. Len(r) : r[k] = q[k + 1] /\ k + 1 \in 1 .. Len(q)
      /\ Head(q) = q[1] /\ q[1] \in S \X V /\ 1 \in 1 .. Len(q)
  OBVIOUS
<1>2. Head(q) = <<Head(q)[1], Head(q)[2]>> /\ Head(q)[1] \in S /\ Head(q)[2] \in V
  BY <1>1
<1> HIDE DEF r
<1>3. ASSUME NEW t, Silent(q, t) PROVE Head(q)[1] # t /\ Silent(r, t)
  BY <1>1, <1>3 DEF Silent
<1>4. ASSUME NEW t, NEW w, LastSays(q, t, w)
      PROVE  LastSays(r, t, w) \/ (Head(q) = <<t, w>> /\ Silent(r, t))
  <2>1. PICK k \in 1 .. Len(q) : q[k] = <<t, w>> /\ \A m \in k + 1 .. Len(q) : q[m][1] # t
    BY <1>4 DEF LastSays
  <2>2. CASE k = 1
    <3>1. \A m \in 1 .. Len(r) : m + 1 \in k + 1 .. Len(q)
      BY <1>1, <2>2
    <3>2. Silent(r, t)
      BY <1>1, <2>1, <3>1 DEF Silent
    <3> QED BY <3>2, <2>1, <2>2, <1>1
  <2>3. CASE k # 1
    <3>1. k - 1 \in 1 .. Len(r) /\ r[k - 1] = q[k]
      BY <1>1, <2>3
    <3>2. ASSUME NEW m \in (k - 1) + 1 .. Len(r) PROVE r[m][1] # t
      <4>1. m \in 1 .. Len(r) /\ m + 1 \in k + 1 .. Len(q)
        BY <1>1
      <4> QED BY <4>1, <1>1, <2>1
    <3> QED BY <3>1, <3>2, <2>1 DEF LastSays
  <2> QED BY <2>2, <2>3
<1> QED BY <1>1, <1>2, <1>3, <1>4 DEF r

LEMMA EmptyQueue == \A s, v : Silent(<<>>, s) /\ ~ LastSays(<<>>, s, v)
  BY DEF Silent, LastSays

-----------------------------------------------------------------------------
LEMMA HealthInit == Init => Inv
<1> SUFFICES ASSUME Init PROVE Inv
  OBVIOUS
<1>1. DOMAIN <<>> = {} /\ <<>> \in Seq(Services \X BOOLEAN) /\ <<>> \in Seq(Services \X (Counts \cup {0}))
  OBVIOUS
<1> QED BY <1>1 DEF Init, Inv, Types

\* A service or its endpoints change, which the thread hears of later.
LEMMA HealthServiceChanges ==
  ASSUME Inv, NEW s \in Services, ServiceChanges(s) PROVE Inv'
<1>1. /\ api' = (api \cup {s}) \ (api \cap {s})
      /\ svcq' = IF up THEN Append(svcq, <<s, s \in api'>>) ELSE svcq
      /\ UNCHANGED <<eps, epq, up, services, endpoints, serving, busy, lost>>
  BY DEF ServiceChanges
<1>2. api' \subseteq Services /\ (s \in api') \in BOOLEAN /\ \A t : t # s => (t \in api' <=> t \in api)
  BY <1>1 DEF Inv, Types
<1>3. up => /\ svcq' \in Seq(Services \X BOOLEAN) /\ LastSays(svcq', s, s \in api')
            /\ \A t : t # s => /\ Silent(svcq, t) => Silent(svcq', t)
                               /\ \A w : LastSays(svcq, t, w) => LastSays(svcq', t, w)
  <2>1. svcq \in Seq(Services \X BOOLEAN) /\ (up => svcq' = Append(svcq, <<s, s \in api'>>))
    BY <1>1 DEF Inv, Types
  <2>2. \A q \in Seq(Services \X BOOLEAN), v \in BOOLEAN :
          /\ Append(q, <<s, v>>) \in Seq(Services \X BOOLEAN) /\ LastSays(Append(q, <<s, v>>), s, v)
          /\ \A t : t # s => /\ Silent(q, t) => Silent(Append(q, <<s, v>>), t)
                             /\ \A w : LastSays(q, t, w) => LastSays(Append(q, <<s, v>>), t, w)
    BY LastAppend, Zenon
  <2> QED BY <1>2, <2>1, <2>2, Zenon
<1>4. Types'
  BY <1>1, <1>2, <1>3 DEF Inv, Types
<1>5. ASSUME up, NEW t \in Services PROVE KnowsService(t)'
  <2>1. KnowsService(t)
    BY <1>5 DEF Inv
  <2>2. CASE t = s
    BY <2>2, <1>3, <1>5 DEF KnowsService
  <2>3. CASE t # s
    <3>1. (t \in api) = (t \in api')
      BY <1>2, <2>3
    <3> QED BY <1>1, <1>3, <1>5, <2>1, <2>3, <3>1 DEF KnowsService
  <2> QED BY <2>2, <2>3
<1>6. ASSUME up, NEW t \in Services PROVE KnowsEndpoints(t)' /\ Reports(t)'
  BY <1>1, <1>6 DEF Inv, KnowsEndpoints, Reports
<1>7. up => Listens'
  BY <1>1 DEF Inv, Listens
<1> QED BY <1>1, <1>4, <1>5, <1>6, <1>7 DEF Inv

LEMMA HealthEndpointsChange ==
  ASSUME Inv, NEW s \in Services, NEW n \in Counts, EndpointsChange(s, n) PROVE Inv'
<1>1. /\ eps' = [eps EXCEPT ![s] = n] /\ n \in Counts \cup {0}
      /\ epq' = IF up THEN Append(epq, <<s, n>>) ELSE epq
      /\ UNCHANGED <<api, svcq, up, services, endpoints, serving, busy, lost>>
  BY DEF EndpointsChange
<1>2. eps' \in [Services -> Counts \cup {0}] /\ eps'[s] = n /\ \A t \in Services : t # s => eps'[t] = eps[t]
  BY <1>1 DEF Inv, Types
<1>3. up => /\ epq' \in Seq(Services \X (Counts \cup {0})) /\ LastSays(epq', s, n)
            /\ \A t : t # s => /\ Silent(epq, t) => Silent(epq', t)
                               /\ \A w : LastSays(epq, t, w) => LastSays(epq', t, w)
  BY <1>1, LastAppend DEF Inv, Types
<1>4. Types'
  BY <1>1, <1>2, <1>3 DEF Inv, Types
<1>5. ASSUME up, NEW t \in Services PROVE KnowsEndpoints(t)'
  <2>1. KnowsEndpoints(t)
    BY <1>5 DEF Inv
  <2>2. CASE t = s
    BY <2>2, <1>2, <1>3, <1>5 DEF KnowsEndpoints
  <2>3. CASE t # s
    BY <1>1, <1>2, <1>3, <1>5, <2>1, <2>3 DEF KnowsEndpoints
  <2> QED BY <2>2, <2>3
<1>6. ASSUME up, NEW t \in Services PROVE KnowsService(t)' /\ Reports(t)'
  BY <1>1, <1>6 DEF Inv, KnowsService, Reports
<1>7. up => Listens'
  BY <1>1 DEF Inv, Listens
<1> QED BY <1>1, <1>4, <1>5, <1>6, <1>7 DEF Inv

-----------------------------------------------------------------------------
(* The thread of the services. *)

\* What an event that leaves the queue told has been done.
LEMMA ServiceHeard ==
  ASSUME Inv, up, svcq # <<>>, svcq' = Tail(svcq), api' = api, NEW s \in Services,
         IF s = Head(svcq)[1] THEN s \in services' <=> Head(svcq)[2] ELSE s \in services' <=> s \in services
  PROVE  KnowsService(s)'
<1>1. /\ \A t : Silent(svcq, t) => Head(svcq)[1] # t /\ Silent(svcq', t)
      /\ \A t, w : LastSays(svcq, t, w) => \/ LastSays(svcq', t, w)
                                           \/ Head(svcq) = <<t, w>> /\ Silent(svcq', t)
  <2>1. svcq \in Seq(Services \X BOOLEAN)
    BY DEF Inv, Types
  <2>2. /\ \A t : Silent(svcq, t) => Head(svcq)[1] # t /\ Silent(Tail(svcq), t)
        /\ \A t, w : LastSays(svcq, t, w) => \/ LastSays(Tail(svcq), t, w)
                                             \/ Head(svcq) = <<t, w>> /\ Silent(Tail(svcq), t)
    BY <2>1, LastTail, Zenon
  <2> QED BY <2>2
<1>2. KnowsService(s)
  BY DEF Inv
<1>3. CASE Silent(svcq, s) /\ (s \in services <=> s \in api)
  BY <1>1, <1>3 DEF KnowsService
<1>4. CASE LastSays(svcq, s, s \in api)
  <2>1. CASE LastSays(svcq', s, s \in api)
    BY <2>1 DEF KnowsService
  <2>2. CASE Head(svcq) = <<s, s \in api>> /\ Silent(svcq', s)
    <3>1. Head(svcq)[1] = s /\ Head(svcq)[2] = (s \in api)
      BY <2>2
    <3> QED BY <3>1, <2>2 DEF KnowsService
  <2> QED BY <1>1, <1>4, <2>1, <2>2
<1> QED BY <1>2, <1>3, <1>4 DEF KnowsService

LEMMA HealthAddService == ASSUME Inv, AddService PROVE Inv'
<1> DEFINE s == Head(svcq)[1]
<1>1. /\ up /\ svcq # <<>> /\ Head(svcq)[2] /\ svcq' = Tail(svcq)
      /\ services' = services \cup {s} /\ busy' = busy \cup {"svc"}
      /\ UNCHANGED <<api, eps, epq, up, endpoints, serving, lost>>
  BY DEF AddService
<1>2. s \in Services /\ Tail(svcq) \in Seq(Services \X BOOLEAN)
  BY <1>1, LastTail DEF Inv, Types
<1> HIDE DEF s
<1>3. Types'
  BY <1>1, <1>2 DEF Inv, Types
<1>4. ASSUME NEW t \in Services PROVE KnowsService(t)'
  BY <1>1, ServiceHeard DEF s
<1>5. ASSUME NEW t \in Services PROVE KnowsEndpoints(t)' /\ Reports(t)'
  BY <1>1 DEF Inv, KnowsEndpoints, Reports
<1>6. Listens'
  BY <1>1 DEF Listens
<1> QED BY <1>3, <1>4, <1>5, <1>6 DEF Inv

LEMMA HealthDeleteService == ASSUME Inv, DeleteService PROVE Inv'
<1> DEFINE s == Head(svcq)[1]
<1>1. /\ up /\ svcq # <<>> /\ ~ Head(svcq)[2] /\ svcq' = Tail(svcq)
      /\ services' = services \ {s} /\ busy' = busy \cup {"svc"}
      /\ endpoints' = Drop(endpoints, s)
      /\ lost' = (lost \ {<<"listen", s>>}) \cup {<<"order", t>> : t \in {s} \cap DOMAIN endpoints}
      /\ UNCHANGED <<api, eps, epq, up, serving>>
  BY DEF DeleteService
<1>2. s \in Services /\ Tail(svcq) \in Seq(Services \X BOOLEAN)
  BY <1>1, LastTail DEF Inv, Types
<1> HIDE DEF s
<1>3. /\ DOMAIN endpoints' = DOMAIN endpoints \ {s}
      /\ \A t \in DOMAIN endpoints' : endpoints'[t] = endpoints[t]
  BY <1>1 DEF Drop
<1>4. /\ \A t : <<"order", t>> \in lost => <<"order", t>> \in lost'
      /\ \A t : t # s /\ <<"order", t>> \in lost' => <<"order", t>> \in lost
      /\ s \in DOMAIN endpoints => <<"order", s>> \in lost'
  BY <1>1
<1>5. Types'
  BY <1>1, <1>2, <1>3 DEF Inv, Types
<1>6. ASSUME NEW t \in Services PROVE KnowsService(t)'
  BY <1>1, ServiceHeard DEF s
<1>7. ASSUME NEW t \in Services PROVE KnowsEndpoints(t)'
  BY <1>1, <1>3, <1>4 DEF Inv, KnowsEndpoints
<1>8. ASSUME NEW t \in Services PROVE Reports(t)'
  BY <1>1, <1>3, <1>4 DEF Inv, Reports
<1>9. Listens'
  BY <1>1 DEF Listens
<1> QED BY <1>5, <1>6, <1>7, <1>8, <1>9 DEF Inv

\* The server opens and closes listeners, and may fail to open one of them.
LEMMA HealthSyncs ==
  ASSUME Inv, up, "svc" \in busy, NEW F, F \subseteq services,
         serving' = SyncServices(services, F), busy' = busy \ {"svc"},
         lost' = lost \cup {<<"listen", s>> : s \in F},
         UNCHANGED <<api, eps, svcq, epq, up, services, endpoints>>
  PROVE  Inv'
<1>1. /\ DOMAIN serving' = (services \ F) \cup (DOMAIN serving \cap services)
      /\ \A s \in DOMAIN serving' : serving'[s] = IF s \in DOMAIN serving THEN serving[s] ELSE 0
  BY DEF SyncServices
<1>2. /\ \A s : <<"order", s>> \in lost' <=> <<"order", s>> \in lost
      /\ \A s \in F : <<"listen", s>> \in lost'
  OBVIOUS
<1>3. Types'
  BY DEF Inv, Types
<1>4. Listens'
  BY <1>1, <1>2 DEF Listens
<1>5. ASSUME NEW t \in Services PROVE KnowsService(t)' /\ KnowsEndpoints(t)'
  BY <1>2 DEF Inv, KnowsService, KnowsEndpoints
<1>6. ASSUME NEW t \in Services PROVE Reports(t)'
  <2>1. Reports(t) /\ (t \in DOMAIN endpoints => t \in services)
    BY DEF Inv, Types
  <2> QED BY <1>1, <1>2, <2>1 DEF Reports
<1> QED BY <1>3, <1>4, <1>5, <1>6 DEF Inv

LEMMA HealthServer ==
  ASSUME Inv, ServerSyncsServices \/ \E s \in Services : ListenFails(s) PROVE Inv'
<1>1. CASE ServerSyncsServices
  <2>1. lost' = lost \cup {<<"listen", s>> : s \in {}}
    BY <1>1 DEF ServerSyncsServices
  <2> QED BY <1>1, <2>1, HealthSyncs DEF ServerSyncsServices
<1>2. ASSUME NEW s \in Services, ListenFails(s) PROVE Inv'
  <2>1. lost' = lost \cup {<<"listen", t>> : t \in {s}} /\ {s} \subseteq services
    BY <1>2 DEF ListenFails
  <2> QED BY <1>2, <2>1, HealthSyncs DEF ListenFails
<1> QED BY <1>1, <1>2

-----------------------------------------------------------------------------
(* The thread of the endpoints. *)

LEMMA EndpointsHeard ==
  ASSUME Inv, up, epq # <<>>, epq' = Tail(epq), eps' = eps, NEW s \in Services,
         IF s = Head(epq)[1]
         THEN IF s \in DOMAIN endpoints' THEN endpoints'[s] = Head(epq)[2]
                                         ELSE Head(epq)[2] = 0 \/ <<"order", s>> \in lost'
         ELSE /\ s \in DOMAIN endpoints' <=> s \in DOMAIN endpoints
              /\ s \in DOMAIN endpoints => endpoints'[s] = endpoints[s]
              /\ <<"order", s>> \in lost => <<"order", s>> \in lost'
  PROVE  KnowsEndpoints(s)'
<1>1. /\ \A t : Silent(epq, t) => Head(epq)[1] # t /\ Silent(epq', t)
      /\ \A t, w : LastSays(epq, t, w) => \/ LastSays(epq', t, w)
                                          \/ Head(epq) = <<t, w>> /\ Silent(epq', t)
  <2>1. epq \in Seq(Services \X (Counts \cup {0}))
    BY DEF Inv, Types
  <2>2. /\ \A t : Silent(epq, t) => Head(epq)[1] # t /\ Silent(Tail(epq), t)
        /\ \A t, w : LastSays(epq, t, w) => \/ LastSays(Tail(epq), t, w)
                                            \/ Head(epq) = <<t, w>> /\ Silent(Tail(epq), t)
    BY <2>1, LastTail, Zenon
  <2> QED BY <2>2
<1>2. KnowsEndpoints(s)
  BY DEF Inv
<1>3. CASE Silent(epq, s)
  <2>1. ~ LastSays(epq, s, eps[s])
    BY <1>3 DEF Silent, LastSays
  <2> QED BY <1>1, <1>2, <1>3, <2>1 DEF KnowsEndpoints
<1>4. CASE LastSays(epq, s, eps[s])
  <2>1. CASE LastSays(epq', s, eps[s])
    BY <2>1 DEF KnowsEndpoints
  <2>2. CASE Head(epq) = <<s, eps[s]>> /\ Silent(epq', s)
    <3>1. Head(epq)[1] = s /\ Head(epq)[2] = eps[s]
      BY <2>2
    <3> QED BY <3>1, <2>2 DEF KnowsEndpoints
  <2> QED BY <1>1, <1>4, <2>1, <2>2
<1> QED BY <1>2, <1>3, <1>4 DEF KnowsEndpoints

LEMMA HealthSetEndpoints == ASSUME Inv, SetEndpoints PROVE Inv'
<1> DEFINE s == Head(epq)[1]
<1>1. /\ up /\ epq # <<>> /\ epq' = Tail(epq)
      /\ UNCHANGED <<api, eps, svcq, up, services, serving>>
      /\ \/ /\ s \in services /\ endpoints' = Extend(endpoints, s, Head(epq)[2])
            /\ lost' = lost \ {<<"order", s>>} /\ busy' = busy \cup {"ep"}
         \/ /\ s \notin services /\ lost' = lost \cup {<<"order", s>>}
            /\ UNCHANGED <<endpoints, busy>>
  BY DEF SetEndpoints
<1>2. s \in Services /\ Tail(epq) \in Seq(Services \X (Counts \cup {0}))
  BY <1>1, LastTail DEF Inv, Types
<1> HIDE DEF s
<1>3. Types'
  BY <1>1, <1>2 DEF Inv, Types, Extend
<1>4. ASSUME NEW t \in Services PROVE KnowsEndpoints(t)'
  <2>1. CASE s \in services
    <3>1. /\ DOMAIN endpoints' = DOMAIN endpoints \cup {s} /\ endpoints'[s] = Head(epq)[2]
          /\ \A x \in DOMAIN endpoints : x # s => endpoints'[x] = endpoints[x]
      BY <1>1, <2>1 DEF Extend
    <3>2. t # s => (<<"order", t>> \in lost => <<"order", t>> \in lost')
      BY <1>1
    <3> QED BY <1>1, <3>1, <3>2, EndpointsHeard DEF s
  <2>2. CASE s \notin services
    <3>1. s \notin DOMAIN endpoints /\ <<"order", s>> \in lost' /\ lost \subseteq lost' /\ endpoints' = endpoints
      BY <1>1, <2>2 DEF Inv, Types
    <3> QED BY <1>1, <3>1, EndpointsHeard DEF s
  <2> QED BY <2>1, <2>2
<1>5. ASSUME NEW t \in Services PROVE KnowsService(t)'
  BY <1>1 DEF Inv, KnowsService
<1>6. ASSUME NEW t \in Services PROVE Reports(t)'
  <2>1. CASE "ep" \in busy'
    BY <2>1 DEF Reports
  <2>2. CASE "ep" \notin busy'
    <3>1. UNCHANGED <<endpoints, busy, serving>> /\ lost \subseteq lost'
      BY <1>1, <2>2
    <3>2. Reports(t) /\ "ep" \notin busy
      BY <1>1, <2>2, <3>1 DEF Inv
    <3> QED BY <3>1, <3>2 DEF Reports
  <2> QED BY <2>1, <2>2
<1>7. Listens'
  <2>1. \A t : <<"listen", t>> \in lost => <<"listen", t>> \in lost'
    BY <1>1
  <2>2. "svc" \notin busy' => "svc" \notin busy
    BY <1>1
  <2> QED BY <1>1, <2>1, <2>2 DEF Inv, Listens
<1> QED BY <1>3, <1>4, <1>5, <1>6, <1>7 DEF Inv

LEMMA HealthDeleteEndpoints == ASSUME Inv, DeleteEndpoints PROVE Inv'
<1> DEFINE s == Head(epq)[1]
<1>1. /\ up /\ epq # <<>> /\ epq' = Tail(epq) /\ Head(epq)[2] = 0
      /\ UNCHANGED <<api, eps, svcq, up, services, serving>>
      /\ endpoints' = Drop(endpoints, s) /\ busy' = busy \cup {"ep"} /\ lost' = lost \ {<<"order", s>>}
  BY DEF DeleteEndpoints
<1>2. s \in Services /\ Tail(epq) \in Seq(Services \X (Counts \cup {0}))
  BY <1>1, LastTail DEF Inv, Types
<1> HIDE DEF s
<1>3. /\ DOMAIN endpoints' = DOMAIN endpoints \ {s}
      /\ \A x \in DOMAIN endpoints' : endpoints'[x] = endpoints[x]
  BY <1>1 DEF Drop
<1>4. Types'
  BY <1>1, <1>2, <1>3 DEF Inv, Types
<1>5. ASSUME NEW t \in Services PROVE KnowsEndpoints(t)'
  <2>1. t # s => (<<"order", t>> \in lost => <<"order", t>> \in lost')
    BY <1>1
  <2> QED BY <1>1, <1>3, <2>1, EndpointsHeard DEF s
<1>6. ASSUME NEW t \in Services PROVE KnowsService(t)' /\ Reports(t)'
  BY <1>1 DEF Inv, KnowsService, Reports
<1>7. Listens'
  <2>1. \A t : <<"listen", t>> \in lost => <<"listen", t>> \in lost'
    BY <1>1
  <2>2. "svc" \notin busy' => "svc" \notin busy
    BY <1>1
  <2> QED BY <1>1, <2>1, <2>2 DEF Inv, Listens
<1> QED BY <1>1, <1>4, <1>5, <1>6, <1>7 DEF Inv

LEMMA HealthServerSyncsEndpoints == ASSUME Inv, ServerSyncsEndpoints PROVE Inv'
<1>1. /\ up /\ serving' = SyncEndpoints(endpoints) /\ busy' = busy \ {"ep"}
      /\ lost' = (lost \ {<<"order", s>> : s \in DOMAIN endpoints \cap DOMAIN serving})
                    \cup {<<"order", s>> : s \in DOMAIN endpoints \ DOMAIN serving}
      /\ UNCHANGED <<api, eps, svcq, epq, up, services, endpoints>>
  BY DEF ServerSyncsEndpoints
<1>2. /\ DOMAIN serving' = DOMAIN serving
      /\ \A s \in DOMAIN serving : serving'[s] = IF s \in DOMAIN endpoints THEN endpoints[s] ELSE 0
  BY <1>1 DEF SyncEndpoints
<1>3. /\ \A s : <<"listen", s>> \in lost => <<"listen", s>> \in lost'
      /\ \A s : s \notin DOMAIN endpoints /\ <<"order", s>> \in lost => <<"order", s>> \in lost'
      /\ \A s \in DOMAIN endpoints : s \in DOMAIN serving \/ <<"order", s>> \in lost'
  BY <1>1
<1>4. Types'
  BY <1>1 DEF Inv, Types
<1>5. ASSUME NEW t \in Services PROVE KnowsService(t)' /\ KnowsEndpoints(t)'
  BY <1>1, <1>3 DEF Inv, KnowsService, KnowsEndpoints
<1>6. ASSUME NEW t \in Services PROVE Reports(t)'
  BY <1>1, <1>2, <1>3 DEF Reports
<1>7. Listens'
  BY <1>1, <1>2, <1>3 DEF Inv, Listens
<1> QED BY <1>1, <1>4, <1>5, <1>6, <1>7 DEF Inv

-----------------------------------------------------------------------------
(* The end and the start. *)

LEMMA HealthDies == ASSUME Inv, Dies, UNCHANGED <<api, eps>> PROVE Inv'
<1>1. DOMAIN <<>> = {} /\ <<>> \in Seq(Services \X BOOLEAN) /\ <<>> \in Seq(Services \X (Counts \cup {0}))
  OBVIOUS
<1> QED BY <1>1 DEF Inv, Types, Dies

LEMMA HealthStart == ASSUME Inv, Start PROVE Inv'
<1>1. /\ ~ up /\ up' = TRUE /\ services' = api /\ UNCHANGED <<api, eps, svcq, epq, busy>>
      /\ DOMAIN endpoints' = {t \in api : eps[t] # 0}
      /\ \A s \in DOMAIN endpoints' : endpoints'[s] = eps[s]
      /\ DOMAIN serving' = api /\ \A s \in api : serving'[s] = eps[s]
      /\ \A s \in Services \ api : eps[s] # 0 => <<"order", s>> \in lost'
  BY DEF Start
<1>2. svcq = <<>> /\ epq = <<>>
  BY <1>1 DEF Inv, Types
<1>3. Types'
  BY <1>1, <1>2 DEF Inv, Types
<1>4. ASSUME NEW t \in Services PROVE KnowsService(t)' /\ KnowsEndpoints(t)'
  BY <1>1, <1>2, EmptyQueue DEF KnowsService, KnowsEndpoints
<1>5. ASSUME NEW t \in Services PROVE Reports(t)'
  BY <1>1 DEF Reports
<1>6. Listens'
  BY <1>1 DEF Listens
<1> QED BY <1>3, <1>4, <1>5, <1>6 DEF Inv

-----------------------------------------------------------------------------
\* With both threads idle exactly the services with a health check port answer,
\* each with the number of its endpoints on this node, in whatever order the
\* two informers' events were handled (loadBalancerHealthChecker), unless a
\* listener failed or endpoints came before their service.
THEOREM HealthChecksTruthful == Spec => []HealthTruthful
<1>1. Inv /\ [Next]_vars => Inv'
  <2> SUFFICES ASSUME Inv, [Next]_vars PROVE Inv'
    OBVIOUS
  <2>1. CASE UNCHANGED vars
    BY <2>1 DEF vars, Inv, Types, Listens, KnowsService, KnowsEndpoints, Reports
  <2>2. CASE Threads
    BY <2>2, HealthAddService, HealthDeleteService, HealthServer, HealthSetEndpoints,
       HealthDeleteEndpoints, HealthServerSyncsEndpoints, HealthStart DEF Threads
  <2>3. CASE Crash \/ ConcurrentMapAccess
    BY <2>3, HealthDies DEF Crash, ConcurrentMapAccess
  <2> QED BY <2>1, <2>2, <2>3, HealthServiceChanges, HealthEndpointsChange, HealthServer DEF Next
<1>2. ASSUME Inv PROVE HealthTruthful
  <2> SUFFICES ASSUME Quiet PROVE /\ DOMAIN serving \subseteq api
        /\ \A s \in api : /\ <<"listen", s>> \notin lost => s \in DOMAIN serving
                         /\ (s \in DOMAIN serving /\ <<"order", s>> \notin lost) => serving[s] = eps[s]
    BY DEF HealthTruthful
  <2>1. Listens /\ \A s \in Services : KnowsService(s) /\ KnowsEndpoints(s) /\ Reports(s)
    BY <1>2 DEF Inv, Quiet
  <2>2. services = api
    BY <1>2, <2>1, EmptyQueue DEF Inv, Types, KnowsService, Quiet
  <2>3. \A s \in Services : IF s \in DOMAIN endpoints THEN endpoints[s] = eps[s]
                                                     ELSE eps[s] = 0 \/ <<"order", s>> \in lost
    BY <2>1, EmptyQueue DEF KnowsEndpoints, Quiet
  <2> QED BY <1>2, <2>1, <2>2, <2>3 DEF Listens, Reports, Quiet, Inv, Types
<1> QED BY HealthInit, <1>1, <1>2, PTL DEF Spec

-----------------------------------------------------------------------------
(* Node addresses. *)

CONSTANTS Links, Addresses, Unfit, MaxChanges, MaxFailures, MaxCrashes
VARIABLES host, queue, pc, addresses, node, changes, annotation, causes, count

Adr == INSTANCE NodeAddresses WITH api <- annotation

Change  == [new : BOOLEAN, address : Addresses]
Present == Adr!OnHost(host)
\* The reports on their way, as pairs.
Told(q) == [k \in 1 .. Len(q) |-> <<q[k].address, q[k].new>>]

AdrTypes ==
  /\ host \subseteq Links \X Addresses /\ queue \in Seq(Change)
  /\ pc \in {"down", "read", "made", "subscribed", "running", "deaf"}
  /\ pc \in {"down", "read", "made", "deaf"} => queue = <<>>
  /\ pc = "deaf" => "deaf" \in causes

\* The manager has the address if and only if the host has it, or hears of it
\* by a report to come; what came before the subscription is added after it.
Follows(a) ==
  \/ LastSays(Told(queue), a, a \in Present)
  \/ /\ Silent(Told(queue), a)
     /\ a \in addresses => a \in Present
     /\ pc = "running" /\ "unlisted" \notin causes /\ a \in Present => a \in addresses

AdrInv ==
  /\ AdrTypes
  /\ pc \in {"made", "subscribed", "running"} =>
       /\ addresses \subseteq Addresses \ Unfit
       /\ causes \cap {"failed", "reverted"} = {} => annotation = addresses
       /\ causes \cap {"unseen", "double"} = {} => \A a \in Addresses \ Unfit : Follows(a)

LEMMA ToldIs ==
  ASSUME NEW q \in Seq(Change)
  PROVE  /\ Told(q) \in Seq(Addresses \X BOOLEAN) /\ Len(Told(q)) = Len(q) /\ Len(q) \in Nat
         /\ \A k \in 1 .. Len(q) : q[k] \in Change /\ Told(q)[k] = <<q[k].address, q[k].new>>
<1>1. Len(q) \in Nat /\ \A k \in 1 .. Len(q) : q[k] \in Change
  OBVIOUS
<1>2. \A k \in 1 .. Len(q) : <<q[k].address, q[k].new>> \in Addresses \X BOOLEAN
  BY <1>1 DEF Change
<1>3. Told(q) \in [1 .. Len(q) -> Addresses \X BOOLEAN]
  BY <1>2 DEF Told
<1>4. Told(q) \in Seq(Addresses \X BOOLEAN) /\ Len(Told(q)) = Len(q)
  BY <1>1, <1>3
<1> QED BY <1>1, <1>4 DEF Told

LEMMA ToldAppend ==
  ASSUME NEW q \in Seq(Change), NEW e \in Change
  PROVE  /\ Append(q, e) \in Seq(Change) /\ Told(q) \in Seq(Addresses \X BOOLEAN)
         /\ Told(Append(q, e)) = Append(Told(q), <<e.address, e.new>>)
<1> DEFINE r == Append(q, e)
           x == <<e.address, e.new>>
           u == Append(Told(q), x)
<1>1. /\ r \in Seq(Change) /\ Len(r) = Len(q) + 1 /\ Len(q) \in Nat
      /\ r[Len(q) + 1] = e /\ \A k \in 1 .. Len(q) : r[k] = q[k]
  OBVIOUS
<1>2. x \in Addresses \X BOOLEAN
  BY DEF Change
<1>3. Told(q) \in Seq(Addresses \X BOOLEAN) /\ Len(Told(q)) = Len(q)
  BY ToldIs
<1>4. /\ u \in Seq(Addresses \X BOOLEAN) /\ Len(u) = Len(q) + 1
      /\ u[Len(q) + 1] = x /\ \A k \in 1 .. Len(q) : u[k] = Told(q)[k]
  BY <1>2, <1>3
<1>5. Told(r) \in Seq(Addresses \X BOOLEAN) /\ Len(Told(r)) = Len(r)
  BY <1>1, ToldIs
<1>6. ASSUME NEW k \in 1 .. Len(Told(r)) PROVE Told(r)[k] = u[k]
  <2>1. k \in 1 .. Len(r) /\ (k \in 1 .. Len(q) \/ k = Len(q) + 1)
    BY <1>1, <1>5
  <2>2. Told(r)[k] = <<r[k].address, r[k].new>>
    BY <1>1, <2>1, ToldIs
  <2>3. k \in 1 .. Len(q) => Told(q)[k] = <<q[k].address, q[k].new>>
    BY ToldIs
  <2> HIDE DEF r, u
  <2> QED BY <1>1, <1>4, <2>1, <2>2, <2>3
<1> HIDE DEF r, u
<1>7. Told(r) = u
  BY <1>1, <1>4, <1>5, <1>6, SeqEqual
<1> QED BY <1>1, <1>3, <1>7 DEF r, u

LEMMA ToldTail ==
  ASSUME NEW q \in Seq(Change), q # <<>>
  PROVE  /\ Tail(q) \in Seq(Change) /\ Told(q) \in Seq(Addresses \X BOOLEAN) /\ Told(q) # <<>>
         /\ Head(q) \in Change /\ Head(Told(q)) = <<Head(q).address, Head(q).new>>
         /\ Told(Tail(q)) = Tail(Told(q))
<1> DEFINE r == Tail(q)
           u == Tail(Told(q))
<1>1. /\ r \in Seq(Change) /\ Len(r) = Len(q) - 1 /\ Len(q) \in Nat \ {0}
      /\ Head(q) = q[1] /\ 1 \in 1 .. Len(q) /\ \A k \in 1 .. Len(r) : r[k] = q[k + 1] /\ k + 1 \in 1 .. Len(q)
  OBVIOUS
<1>2. /\ Told(q) \in Seq(Addresses \X BOOLEAN) /\ Len(Told(q)) = Len(q)
      /\ \A k \in 1 .. Len(q) : q[k] \in Change /\ Told(q)[k] = <<q[k].address, q[k].new>>
  BY ToldIs
<1>3. Told(q) # <<>>
  BY <1>1, <1>2
<1>4. /\ u \in Seq(Addresses \X BOOLEAN) /\ Len(u) = Len(q) - 1 /\ Head(Told(q)) = Told(q)[1]
      /\ \A k \in 1 .. Len(u) : u[k] = Told(q)[k + 1]
  BY <1>2, <1>3
<1>5. /\ Told(r) \in Seq(Addresses \X BOOLEAN) /\ Len(Told(r)) = Len(r)
      /\ \A k \in 1 .. Len(r) : Told(r)[k] = <<r[k].address, r[k].new>>
  BY <1>1, ToldIs
<1> HIDE DEF r, u
<1>6. ASSUME NEW k \in 1 .. Len(Told(r)) PROVE Told(r)[k] = u[k]
  <2>1. k \in 1 .. Len(r) /\ k \in 1 .. Len(u) /\ k + 1 \in 1 .. Len(q)
    BY <1>1, <1>4, <1>5
  <2> QED BY <1>1, <1>2, <1>4, <1>5, <2>1
<1>7. Told(r) = u
  BY <1>1, <1>4, <1>5, <1>6, SeqEqual
<1> QED BY <1>1, <1>2, <1>3, <1>4, <1>7 DEF r, u

\* A run of the annotator leaves the annotation at the value, or says why not.
LEMMA AnnotatorRuns ==
  ASSUME NEW v, NEW why, NEW c, Adr!Run(v, why, c)
  PROVE  /\ causes' \cap {"failed", "reverted"} = {} => annotation' = v
         /\ \A x \in {"unseen", "double", "unlisted"} : x \in causes' <=> x \in why
  BY DEF Adr!Run, Adr!Sends

\* A synchronisation adds what is on the host, or says that it could not;
\* queue is what was reported.
LEMMA AddressesSync ==
  ASSUME AdrInv, NEW set \in SUBSET (Addresses \ Unfit), Adr!Sync(set), UNCHANGED <<host, queue>>,
         pc' \in {"made", "running"}, pc' = "made" => queue = <<>>,
         causes \cap {"unseen", "double"} = {} =>
           \A a \in Addresses \ Unfit : \/ LastSays(Told(queue), a, a \in Present)
                                        \/ Silent(Told(queue), a) /\ (a \in set => a \in Present)
  PROVE  AdrInv'
<1>1. /\ Present' = Present
      /\ addresses' = set \cup {a \in Present : a \notin Unfit} \/ (addresses' = set /\ "unlisted" \in causes')
      /\ causes' \cap {"failed", "reverted"} = {} => annotation' = addresses'
      /\ causes' \cap {"unseen", "double"} = {} => causes \cap {"unseen", "double"} = {}
  <2>1. Present' = Present
    BY DEF Present, Adr!OnHost
  <2>2. CASE addresses' = set \cup Adr!Announced /\ Adr!Run(addresses', causes \ {"unlisted"}, count)
    <3>1. /\ causes' \cap {"failed", "reverted"} = {} => annotation' = addresses'
          /\ \A x \in {"unseen", "double", "unlisted"} : x \in causes' <=> x \in causes \ {"unlisted"}
      BY <2>2, AnnotatorRuns
    <3> QED BY <2>1, <2>2, <3>1 DEF Adr!Announced, Adr!IsValidNodeIP, Present
  <2>3. CASE /\ addresses' = set
             /\ Adr!Run(set, causes \cup {"unlisted"}, [count EXCEPT !.failures = @ + 1])
    <3>1. /\ causes' \cap {"failed", "reverted"} = {} => annotation' = addresses'
          /\ \A x \in {"unseen", "double", "unlisted"} : x \in causes' <=> x \in causes \cup {"unlisted"}
      BY <2>3, AnnotatorRuns
    <3> QED BY <2>1, <2>3, <3>1
  <2> QED BY <2>2, <2>3 DEF Adr!Sync
<1>2. Present \subseteq Addresses
  BY DEF Present, Adr!OnHost, AdrInv, AdrTypes
<1>3. AdrTypes'
  BY DEF AdrInv, AdrTypes
<1>4. addresses' \subseteq Addresses \ Unfit
  BY <1>1, <1>2
<1>6. ASSUME causes' \cap {"unseen", "double"} = {}, NEW a \in Addresses \ Unfit PROVE Follows(a)'
  <2>1. causes \cap {"unseen", "double"} = {}
    BY <1>1, <1>6
  <2>2. CASE LastSays(Told(queue), a, a \in Present)
    BY <2>2, <1>1 DEF Follows
  <2>3. CASE Silent(Told(queue), a) /\ (a \in set => a \in Present)
    BY <2>3, <1>1 DEF Follows
  <2> QED BY <2>1, <2>2, <2>3
<1> QED BY <1>1, <1>3, <1>4, <1>6 DEF AdrInv

LEMMA AddressesManager == ASSUME AdrInv, Adr!Manager PROVE AdrInv'
<1>1. CASE Adr!ReadNode
  BY <1>1 DEF Adr!ReadNode, AdrInv, AdrTypes
<1>2. CASE Adr!NewAddressManager
  <2>1. /\ pc = "read" /\ pc' = "made" /\ Adr!Sync({}) /\ UNCHANGED <<host, queue>>
    BY <1>2 DEF Adr!NewAddressManager
  <2>2. queue = <<>> /\ Len(queue) = 0
    BY <2>1 DEF AdrInv, AdrTypes
  <2>3. \A a : Silent(Told(queue), a)
    <3>1. queue \in Seq(Change)
      BY DEF AdrInv, AdrTypes
    <3>2. Len(Told(queue)) = 0
      BY <3>1, <2>2, ToldIs
    <3> QED BY <3>2 DEF Silent
  <2> QED BY <2>1, <2>2, <2>3, AddressesSync
<1>3. CASE Adr!Subscribe
  <2>1. /\ pc = "made" /\ UNCHANGED <<host, queue, addresses, annotation>>
        /\ \/ pc' = "subscribed" /\ UNCHANGED causes
           \/ pc' = "deaf" /\ causes' = causes \cup {"deaf"}
    BY <1>3 DEF Adr!Subscribe
  <2>2. Present' = Present
    BY <2>1 DEF Present, Adr!OnHost
  <2> QED BY <2>1, <2>2 DEF AdrInv, AdrTypes, Follows
<1>4. CASE Adr!SyncAgain
  <2>1. /\ pc = "subscribed" /\ pc' = "running" /\ Adr!Sync(addresses) /\ UNCHANGED <<host, queue>>
    BY <1>4 DEF Adr!SyncAgain
  <2>2. /\ addresses \in SUBSET (Addresses \ Unfit)
        /\ causes \cap {"unseen", "double"} = {} => \A a \in Addresses \ Unfit : Follows(a)
    BY <2>1 DEF AdrInv
  <2>3. \A a : Follows(a) => \/ LastSays(Told(queue), a, a \in Present)
                             \/ Silent(Told(queue), a) /\ (a \in addresses => a \in Present)
    BY DEF Follows
  <2> QED BY <2>1, <2>2, <2>3, AddressesSync
<1>5. CASE Adr!HandleChange
  <2> DEFINE e == Head(queue)
             set == IF e.new THEN Adr!AddAddr(addresses, e.address) ELSE Adr!DelAddr(addresses, e.address)
  <2>1. /\ pc = "running" /\ queue # <<>> /\ addresses' = set /\ Adr!Run(set, causes, count)
        /\ queue' = Tail(queue) /\ UNCHANGED <<host, pc>>
    BY <1>5 DEF Adr!HandleChange
  <2>2. queue \in Seq(Change)
    BY DEF AdrInv, AdrTypes
  <2>3. /\ queue' \in Seq(Change) /\ e \in Change /\ Head(Told(queue)) = <<e.address, e.new>>
        /\ Told(queue) \in Seq(Addresses \X BOOLEAN) /\ Told(queue) # <<>> /\ Told(queue') = Tail(Told(queue))
    BY <2>1, <2>2, ToldTail
  <2>4. /\ \A t : Silent(Told(queue), t) => Head(Told(queue))[1] # t /\ Silent(Tail(Told(queue)), t)
        /\ \A t, w : LastSays(Told(queue), t, w) =>
             \/ LastSays(Tail(Told(queue)), t, w)
             \/ Head(Told(queue)) = <<t, w>> /\ Silent(Tail(Told(queue)), t)
    BY <2>3, LastTail, Zenon
  <2>5. Present' = Present
    BY <2>1 DEF Present, Adr!OnHost
  <2>6. /\ set \subseteq Addresses \ Unfit
        /\ \A a \in Addresses \ Unfit : a \in set <=> IF a = e.address THEN e.new ELSE a \in addresses
    BY <2>1, <2>3 DEF AdrInv, Change, Adr!AddAddr, Adr!DelAddr, Adr!IsValidNodeIP
  <2> HIDE DEF e, set
  <2>7. AdrTypes'
    BY <2>1, <2>3 DEF AdrInv, AdrTypes
  <2>8. ASSUME causes' \cap {"unseen", "double"} = {}, NEW a \in Addresses \ Unfit PROVE Follows(a)'
    <3>1. Follows(a) /\ ("unlisted" \in causes' <=> "unlisted" \in causes)
      <4>1. \A x \in {"unseen", "double", "unlisted"} : x \in causes' <=> x \in causes
        BY <2>1, AnnotatorRuns
      <4> QED BY <2>1, <2>8, <4>1 DEF AdrInv
    <3>2. CASE Silent(Told(queue), a)
      <4>1. ~ LastSays(Told(queue), a, a \in Present)
        BY <3>2 DEF Silent, LastSays
      <4>2. e.address # a /\ Silent(Told(queue'), a)
        BY <2>3, <2>4, <3>2
      <4> QED BY <2>1, <2>5, <2>6, <3>1, <4>1, <4>2 DEF Follows
    <3>3. CASE LastSays(Told(queue), a, a \in Present)
      <4>1. CASE LastSays(Told(queue'), a, a \in Present)
        BY <2>5, <4>1 DEF Follows
      <4>2. CASE Head(Told(queue)) = <<a, a \in Present>> /\ Silent(Told(queue'), a)
        <5>1. e.address = a /\ e.new = (a \in Present)
          BY <2>3, <4>2
        <5>2. a \in addresses' <=> a \in Present
          BY <2>1, <2>6, <5>1
        <5> QED BY <2>5, <4>2, <5>2 DEF Follows
      <4> QED BY <2>3, <2>4, <3>3, <4>1, <4>2
    <3> QED BY <3>1, <3>2, <3>3 DEF Follows
  <2>9. causes' \cap {"failed", "reverted"} = {} => annotation' = addresses'
    BY <2>1, AnnotatorRuns
  <2> QED BY <2>1, <2>6, <2>7, <2>8, <2>9 DEF AdrInv
<1> QED BY <1>1, <1>2, <1>3, <1>4, <1>5 DEF Adr!Manager

\* An address comes or goes on a link, and is reported to who subscribed.
LEMMA AddressesReport ==
  ASSUME AdrInv, NEW a \in Addresses, NEW v \in BOOLEAN, Adr!Report([new |-> v, address |-> a]),
         host' \subseteq Links \X Addresses, UNCHANGED <<pc, addresses, annotation>>,
         causes \subseteq causes',
         causes' \cap {"unseen", "double"} = {} =>
           \A b \in Addresses : IF b = a THEN (b \in Present' <=> v) ELSE (b \in Present' <=> b \in Present),
         pc = "made" /\ ~ v => "unseen" \in causes',
         "unlisted" \in causes' <=> "unlisted" \in causes,
         causes' \cap {"failed", "reverted"} = causes \cap {"failed", "reverted"}
  PROVE  AdrInv'
<1> DEFINE e == [new |-> v, address |-> a]
<1>1. e \in Change /\ e.address = a /\ e.new = v
  BY DEF Change
<1>2. queue \in Seq(Change)
  BY DEF AdrInv, AdrTypes
<1>3. queue' = IF pc \in {"subscribed", "running"} THEN Append(queue, e) ELSE queue
  BY DEF Adr!Report
<1> HIDE DEF e
<1>4. AdrTypes'
  BY <1>1, <1>2, <1>3, ToldAppend DEF AdrInv, AdrTypes
<1>5. ASSUME pc \in {"made", "subscribed", "running"}, causes' \cap {"unseen", "double"} = {},
             NEW b \in Addresses \ Unfit
      PROVE  Follows(b)'
  <2>1. Follows(b) /\ IF b = a THEN (b \in Present' <=> v) ELSE (b \in Present' <=> b \in Present)
    BY <1>5 DEF AdrInv
  <2>2. CASE pc = "made"
    <3>1. v /\ queue' = queue /\ queue = <<>> /\ pc' = "made"
      BY <2>2, <1>3, <1>5 DEF AdrInv, AdrTypes
    <3>2. Len(Told(queue)) = 0
      BY <1>2, <3>1, ToldIs
    <3>3. Silent(Told(queue), b) /\ ~ LastSays(Told(queue), b, b \in Present)
      BY <3>2 DEF Silent, LastSays
    <3> QED BY <2>1, <3>1, <3>3 DEF Follows
  <2>3. CASE pc # "made"
    <3>1. /\ Told(queue) \in Seq(Addresses \X BOOLEAN) /\ Told(queue') = Append(Told(queue), <<a, v>>)
      BY <1>1, <1>2, <1>3, <1>5, <2>3, ToldAppend
    <3>2. /\ LastSays(Told(queue'), a, v)
          /\ \A t : t # a => /\ Silent(Told(queue), t) => Silent(Told(queue'), t)
                             /\ \A w : LastSays(Told(queue), t, w) => LastSays(Told(queue'), t, w)
      <4>1. /\ LastSays(Append(Told(queue), <<a, v>>), a, v)
            /\ \A t : t # a => /\ Silent(Told(queue), t) => Silent(Append(Told(queue), <<a, v>>), t)
                               /\ \A w : LastSays(Told(queue), t, w) => LastSays(Append(Told(queue), <<a, v>>), t, w)
        BY <3>1, LastAppend, Zenon
      <4> QED BY <3>1, <4>1
    <3>3. CASE b = a
      <4>1. (b \in Present') = v
        BY <2>1, <3>3
      <4> QED BY <3>2, <3>3, <4>1 DEF Follows
    <3>4. CASE b # a
      <4>1. (b \in Present') = (b \in Present)
        BY <2>1, <3>4
      <4> QED BY <2>1, <3>2, <3>4, <4>1 DEF Follows
    <3> QED BY <3>3, <3>4
  <2> QED BY <2>2, <2>3
<1>6. causes' \cap {"failed", "reverted"} = {} => causes \cap {"failed", "reverted"} = {}
  OBVIOUS
<1> QED BY <1>4, <1>5, <1>6 DEF AdrInv

LEMMA AddressesHost ==
  ASSUME AdrInv, NEW l \in Links, NEW a \in Addresses, Adr!HostAdds(l, a) \/ Adr!HostRemoves(l, a)
  PROVE  AdrInv'
<1>1. CASE Adr!HostAdds(l, a)
  <2>1. /\ host' = host \cup {<<l, a>>} /\ Adr!Report([new |-> TRUE, address |-> a])
        /\ UNCHANGED <<pc, addresses, annotation, causes>>
    BY <1>1 DEF Adr!HostAdds
  <2>2. host' \subseteq Links \X Addresses
    BY <2>1 DEF AdrInv, AdrTypes
  <2>3. Present' = Present \cup {a}
    <3>1. \A b : b \in Present' <=> \E x \in host \cup {<<l, a>>} : x[2] = b
      BY <2>1 DEF Present, Adr!OnHost
    <3>2. \A b : b \in Present <=> \E x \in host : x[2] = b
      BY DEF Present, Adr!OnHost
    <3>3. <<l, a>>[2] = a
      OBVIOUS
    <3>4. \A b : b \in Present' <=> b \in Present \cup {a}
      BY <3>1, <3>2, <3>3
    <3> QED BY <3>4
  <2> QED BY <2>1, <2>2, <2>3, AddressesReport
<1>2. CASE Adr!HostRemoves(l, a)
  <2>1. /\ host' = host \ {<<l, a>>} /\ Adr!Report([new |-> FALSE, address |-> a])
        /\ UNCHANGED <<pc, addresses, annotation>>
        /\ causes' = causes \cup (IF pc = "made" THEN {"unseen"} ELSE {})
                            \cup (IF a \in Present' THEN {"double"} ELSE {})
    BY <1>2 DEF Adr!HostRemoves, Present, Adr!OnHost
  <2>2. host' \subseteq Links \X Addresses
    BY <2>1 DEF AdrInv, AdrTypes
  <2>3. \A b : b # a => (b \in Present' <=> b \in Present)
    BY <2>1 DEF Present, Adr!OnHost
  <2>4. /\ causes' \cap {"unseen", "double"} = {} => a \notin Present'
        /\ causes \subseteq causes' /\ (pc = "made" => "unseen" \in causes')
        /\ causes' \cap {"failed", "reverted"} = causes \cap {"failed", "reverted"}
        /\ "unlisted" \in causes' <=> "unlisted" \in causes
    BY <2>1
  <2> QED BY <2>1, <2>2, <2>3, <2>4, AddressesReport
<1> QED BY <1>1, <1>2

\* With every reported change handled the annotation is the set of the host's
\* addresses (addressManager, nodeAnnotator.Run), through restarts of the agent
\* and for any links and addresses, unless an address went before the
\* subscription or was on two links, the subscription, the list after it or the
\* last patch failed, or the set came back to the one the annotator was made
\* with.
THEOREM AddressesStayAnnotated == Adr!Spec => []Adr!AddressesAnnotated
<1>1. Adr!Init => AdrInv
  BY DEF Adr!Init, AdrInv, AdrTypes
<1>2. AdrInv /\ [Adr!Next]_Adr!vars => AdrInv'
  <2> SUFFICES ASSUME AdrInv, [Adr!Next]_Adr!vars PROVE AdrInv'
    OBVIOUS
  <2>1. CASE UNCHANGED Adr!vars
    BY <2>1 DEF Adr!vars, AdrInv, AdrTypes, Follows, Present, Adr!OnHost
  <2>2. CASE Adr!Crash
    BY <2>2 DEF Adr!Crash, AdrInv, AdrTypes
  <2> QED BY <2>1, <2>2, AddressesManager, AddressesHost DEF Adr!Next
<1>3. ASSUME AdrInv PROVE Adr!AddressesAnnotated
  <2> SUFFICES ASSUME Adr!Quiet, causes = {} PROVE annotation = Adr!Announced
    BY DEF Adr!AddressesAnnotated
  <2>1. /\ pc = "running" /\ queue \in Seq(Change) /\ Len(queue) = 0 /\ annotation = addresses
        /\ "unlisted" \notin causes
        /\ addresses \subseteq Addresses \ Unfit /\ \A a \in Addresses \ Unfit : Follows(a)
    BY <1>3 DEF Adr!Quiet, AdrInv, AdrTypes
  <2>2. Len(Told(queue)) = 0
    BY <2>1, ToldIs
  <2>3. \A a \in Addresses \ Unfit : a \in addresses <=> a \in Present
    BY <2>1, <2>2 DEF Follows, LastSays
  <2>4. Present \subseteq Addresses
    BY <1>3 DEF AdrInv, AdrTypes, Present, Adr!OnHost
  <2> QED BY <2>1, <2>3, <2>4 DEF Adr!Announced, Adr!IsValidNodeIP, Present
<1> QED BY <1>1, <1>2, <1>3, PTL DEF Adr!Spec
=============================================================================
